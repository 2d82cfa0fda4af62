--------------------------- MODULE MC_PlaneArtwork ---------------------------
(* PlaneArtwork for TLC: a first layer drawn in chunks, one without     *)
(* artwork, and one that fits in the cache only without the second.        *)
EXTENDS PlaneArtwork

CONSTANTS w1, w2

MCWorkers == {w1, w2}
MCCellCount == <<2, 1, 0, 1>>
MCPathElements == <<1, 1, 0, 2>>
=============================================================================
