------------------------- MODULE MCRealtimeSession -------------------------
(* Small instances of RealtimeSession for TLC.                             *)
EXTENDS RealtimeSession
=============================================================================
