--------------------------- MODULE MCWebSvcTrans ---------------------------
(* Small instances of WebSvcTrans for TLC.                                 *)
EXTENDS WebSvcTransRefines
=============================================================================
