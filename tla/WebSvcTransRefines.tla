------------------------- MODULE WebSvcTransRefines -------------------------
(***************************************************************************)
(* The session of WebSvcTrans keeps the promise of TransSession.           *)
(***************************************************************************)
EXTENDS WebSvcTrans

(* Connections, parsers, retries, the watchdog and the stack of calls are  *)
(* the session's own affair: outside, it holds a request and a queue, and  *)
(* calls back.                                                             *)
Contract == INSTANCE TransSession WITH
  Request <- Item,
  None    <- NoItem,
  session <- [active |-> ws.item, queue |-> ws.queue],
  open    <- ws.state # "freed",
  told    <- ws.calls,
  dropped <- ws.silenced

(* Every step of the session is one step of the promise or none: requests  *)
(* start in the order they were queued, only a request of the same type    *)
(* puts another aside, each end is told once, and a retry, a watchdog or a *)
(* re-entrant call is never seen from outside.                             *)
ImplementsTransSession == Contract!Spec
=============================================================================
