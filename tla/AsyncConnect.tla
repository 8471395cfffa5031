---------------------------- MODULE AsyncConnect ----------------------------
(***************************************************************************)
(* What roadmap_net_connect_async promises its callers: a connect that was *)
(* accepted stays pending until it is answered, once, with an open socket  *)
(* or a failure, or until the caller cancels it; a cancelled connect is    *)
(* never answered.  Timeouts and reconnects do not show.                   *)
(***************************************************************************)
CONSTANT Clients    (* callers, each with one connect at a time            *)

VARIABLES
  status,           (* of the connect or the socket of a client            *)
  result            (* what the callback of the last connect was told      *)

vars == <<status, result>>

Init ==
  /\ status = [c \in Clients |-> "idle"]
  /\ result = [c \in Clients |-> "none"]

Connect(c) ==
  /\ status[c] = "idle"
  /\ status' = [status EXCEPT ![c] = "pending"]
  /\ result' = [result EXCEPT ![c] = "none"]

(* The connect ends before the call that asks for it returns.              *)
ConnectAtOnce(c) ==
  /\ status[c] = "idle"
  /\ \/ /\ status' = [status EXCEPT ![c] = "open"]
        /\ result' = [result EXCEPT ![c] = "open"]
     \/ /\ status' = status
        /\ result' = [result EXCEPT ![c] = "failed"]

Answer(c) ==
  /\ status[c] = "pending"
  /\ \/ /\ status' = [status EXCEPT ![c] = "open"]
        /\ result' = [result EXCEPT ![c] = "open"]
     \/ /\ status' = [status EXCEPT ![c] = "idle"]
        /\ result' = [result EXCEPT ![c] = "failed"]

Cancel(c) ==
  /\ status[c] = "pending"
  /\ status' = [status EXCEPT ![c] = "idle"]
  /\ UNCHANGED result

Close(c) ==
  /\ status[c] = "open"
  /\ status' = [status EXCEPT ![c] = "idle"]
  /\ UNCHANGED result

Next ==
  \E c \in Clients :
    Connect(c) \/ ConnectAtOnce(c) \/ Answer(c) \/ Cancel(c) \/ Close(c)

Spec == Init /\ [][Next]_vars
=============================================================================
