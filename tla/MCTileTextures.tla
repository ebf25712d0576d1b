--------------------------- MODULE MCTileTextures ---------------------------
(* Two cube tiles that share one of two source tiles, for TLC. *)
EXTENDS TileTextures, TLC

CONSTANTS p, q, a, b, t1, t2, t3, s1, s2, s3, h1, h2, h3

MCCaches == {"cube", "source", "height"}
MCObjects == {t1, t2, t3, s1, s2, s3, h1, h2, h3}
MCVolatiles == {p, q, a, b}
MCCacheOf == [x \in MCObjects \cup MCVolatiles |->
                IF x \in {p, q, t1, t2, t3} THEN "cube"
                ELSE IF x \in {a, b, s1, s2, s3} THEN "source" ELSE "height"]
MCMinNum == [c \in MCCaches |-> IF c = "height" THEN 2 ELSE 1]
MCCubeTiles == {p, q}
MCSourceTiles == {a, b}
MCCovers == [t \in MCCubeTiles |-> IF t = p THEN <<a, b>> ELSE <<b>>]

(* Textures of a cache are interchangeable. *)
Symmetry == Permutations({t1, t2, t3}) \cup Permutations({s1, s2, s3}) \cup Permutations({h1, h2, h3})
=============================================================================
