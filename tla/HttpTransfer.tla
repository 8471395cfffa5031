---------------------------- MODULE HttpTransfer ----------------------------
(***************************************************************************)
(* What roadmap_httpcopy_async.c promises a client that copies or posts:   *)
(* a transfer that was accepted is told its end, done or failed, once; it  *)
(* shows progress only before that; and a client that has seen progress    *)
(* may give it up, after which it hears no more.  A transfer that is not   *)
(* accepted is told to have failed before the call returns.                *)
(***************************************************************************)
CONSTANT Clients    (* each with one transfer at a time                    *)

VARIABLES
  stage,            (* of the transfer of each client                      *)
  told              (* the end of its last one                             *)

vars == <<stage, told>>

Init ==
  /\ stage = [c \in Clients |-> "idle"]
  /\ told  = [c \in Clients |-> "none"]

Ask(c) ==
  /\ stage[c] = "idle"
  /\ \/ /\ stage' = [stage EXCEPT ![c] = "asked"]
        /\ told'  = [told EXCEPT ![c] = "none"]
     \/ /\ stage' = [stage EXCEPT ![c] = "moving"]
        /\ told'  = [told EXCEPT ![c] = "none"]
     \/ /\ stage' = stage
        /\ told'  = [told EXCEPT ![c] = "failed"]

FirstProgress(c) ==
  /\ stage[c] = "asked"
  /\ stage' = [stage EXCEPT ![c] = "moving"]
  /\ UNCHANGED told

End(c) ==
  /\ \/ stage[c] = "asked"  /\ told' = [told EXCEPT ![c] = "failed"]
     \/ stage[c] = "moving" /\ \E end \in {"done", "failed"} : told' = [told EXCEPT ![c] = end]
  /\ stage' = [stage EXCEPT ![c] = "idle"]

GiveUp(c) ==
  /\ stage[c] = "moving"
  /\ stage' = [stage EXCEPT ![c] = "idle"]
  /\ UNCHANGED told

Next == \E c \in Clients : Ask(c) \/ FirstProgress(c) \/ End(c) \/ GiveUp(c)

Spec == Init /\ [][Next]_vars
=============================================================================
