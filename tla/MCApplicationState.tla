------------------------- MODULE MCApplicationState -------------------------
(* ApplicationState for TLC. *)
EXTENDS ApplicationState, TLC
=============================================================================
