----------------------------- MODULE MCHttpCopy -----------------------------
(* Small instances of HttpCopy for TLC.                                    *)
EXTENDS HttpCopy
=============================================================================
