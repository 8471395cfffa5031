---------------------------- MODULE MCNetConnect ----------------------------
(* Small instances of NetConnect.                                          *)
EXTENDS NetConnect, TLC

ClientSymmetry == Permutations(Clients)
=============================================================================
