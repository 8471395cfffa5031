--------------------------- MODULE MCWebSvcAnswer ---------------------------
(* Small instances of WebSvcAnswer for TLC.                                *)
EXTENDS WebSvcAnswer
=============================================================================
