----------------------------- MODULE TransQueue -----------------------------
(***************************************************************************)
(* Requests of a web service session, as its users see them: one is worked *)
(* for, the others wait.  Operators on a session s, a record               *)
(* [active, queue]; a request is a record with the fields "id" and "type". *)
(***************************************************************************)
EXTENDS Naturals, Sequences

CONSTANTS
  NoType,       (* the type of requests that replace nothing               *)
  None,         (* active of an idle session                               *)
  MaxQueue      (* TRANSACTION_QUEUE_SIZE: requests that can wait          *)

Idle == [active |-> None, queue |-> <<>>]

Busy(s) == s.active # None

Held(s) ==
  {s.queue[i].id : i \in 1 .. Len(s.queue)} \cup (IF Busy(s) THEN {s.active.id} ELSE {})

(* A queue without its request of type t, of which at most one waits.      *)
Others(q, t) ==
  LET Of == {i \in 1 .. Len(q) : q[i].type = t}
      k  == CHOOSE i \in Of : TRUE
  IN  IF Of = {} THEN q ELSE SubSeq(q, 1, k - 1) \o SubSeq(q, k + 1, Len(q))

(* What is left when a busy session is asked for r: the others of its type *)
(* are gone, also the one that is worked for.                              *)
Replaced(s, r) ==
  IF Busy(s) /\ r.type # NoType
  THEN [active |-> IF s.active.type = r.type THEN None ELSE s.active,
        queue  |-> Others(s.queue, r.type)]
  ELSE s

(* Sessions that result from asking s for r when that is accepted; an idle *)
(* session starts r at once, ahead of what waits in its queue.             *)
Accept(s, r) ==
  LET t == Replaced(s, r)
  IN  CASE ~Busy(t) -> {[t EXCEPT !.active = r]}
        [] Busy(t) /\ Len(t.queue) < MaxQueue -> {[t EXCEPT !.queue = Append(@, r)]}
        [] Busy(t) /\ Len(t.queue) >= MaxQueue -> {}

(* And when it is refused: the connection is not made, or the queue full.  *)
Refuse(s, r) ==
  LET t == Replaced(s, r)
  IN  IF Busy(t) /\ Len(t.queue) < MaxQueue THEN {} ELSE {t}

(* The transaction is over.                                                *)
Ended(s) == [s EXCEPT !.active = None]

Cleared(s) == [s EXCEPT !.queue = <<>>]

(* The first of the queue, and the session it leaves.                      *)
First(s)   == Head(s.queue)
Without(s) == [s EXCEPT !.queue = Tail(@)]
=============================================================================
