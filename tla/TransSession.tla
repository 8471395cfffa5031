---------------------------- MODULE TransSession ----------------------------
(***************************************************************************)
(* What a session of the web service client promises the modules that use  *)
(* it, without connections, parsers or time: one request is worked for,    *)
(* the others wait in a bounded queue in the order they came; a request    *)
(* takes the place of an older one of its type; each request that was      *)
(* accepted is told its end at most once, or given up without a word.      *)
(*                                                                         *)
(* WebSvcTrans implements this specification (ImplementsTransSession), and *)
(* RealtimeSession is built on the same operators (TransQueue).            *)
(***************************************************************************)
EXTENDS TransQueue

CONSTANT
  Request       (* the requests                                            *)

VARIABLES
  session,      (* [active, queue]                                         *)
  open,         (* has the handle not been given back?                     *)
  told,         (* how often each request (its id) was told its end        *)
  dropped       (* ids of requests given up without a word                 *)

vars == <<session, open, told, dropped>>

RequestIds == {r.id : r \in Request}

-----------------------------------------------------------------------------
Init ==
  /\ session = Idle
  /\ open = TRUE
  /\ told = [i \in RequestIds |-> 0]
  /\ dropped = {}

Fresh(r) == r.id \notin Held(session) \cup dropped /\ told[r.id] = 0

(* Requests leave the session without being told.                          *)
Drop == dropped' = dropped \cup (Held(session) \ Held(session'))

Ask(r) ==
  /\ open
  /\ Fresh(r)
  /\ session' \in Accept(session, r) \cup Refuse(session, r)
  /\ Drop
  /\ UNCHANGED <<open, told>>

End ==
  /\ Busy(session)
  /\ session' = Ended(session)
  /\ told' = [told EXCEPT ![session.active.id] = @ + 1]
  /\ UNCHANGED <<open, dropped>>

ProcessQueue ==
  /\ open
  /\ session.queue # <<>>
  /\ LET r == First(session)
     IN  session' \in Accept(Without(session), r) \cup Refuse(Without(session), r)
  /\ Drop
  /\ UNCHANGED <<open, told>>

Clear ==
  /\ open
  /\ session' = Cleared(session)
  /\ Drop
  /\ UNCHANGED <<open, told>>

(* The handle is given back; the request worked for may delay the end.     *)
Close ==
  /\ open
  /\ open' = FALSE
  /\ session' = Idle
  /\ Drop
  /\ UNCHANGED told

Next == (\E r \in Request : Ask(r)) \/ End \/ ProcessQueue \/ Clear \/ Close

Spec == Init /\ [][Next]_vars
=============================================================================
