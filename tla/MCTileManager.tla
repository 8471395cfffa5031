--------------------------- MODULE MCTileManager ---------------------------
(* Small instances of TileManager for TLC.                                 *)
EXTENDS TileManager, TLC

(* Tiles and connections are interchangeable.                              *)
Symmetry == Permutations(Tiles) \cup Permutations(Conns)
=============================================================================
