------------------------- MODULE MCRenderedGeometry -------------------------
(* RenderedGeometry for TLC. *)
EXTENDS RenderedGeometry, TLC
=============================================================================
