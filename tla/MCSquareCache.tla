--------------------------- MODULE MCSquareCache ---------------------------
(* A small instance of SquareCache for TLC: two of the four tiles share a  *)
(* hash chain; one has lines only and one is all sea.                      *)
EXTENDS SquareCache, TLC

CONSTANTS t1, t2, t3, t4

MCHashCode == t1 :> 0 @@ t2 :> 0 @@ t3 :> 1 @@ t4 :> 0
MCData ==
  t1 :> {"line", "polygon"} @@ t2 :> {"line"} @@ t3 :> {} @@ t4 :> {"line", "polygon"}
=============================================================================
