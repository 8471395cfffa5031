---------------------------- MODULE WebSvcTrans ----------------------------
(***************************************************************************)
(* One session of the web service client (websvc_trans/websvc_trans.c):    *)
(* a request is sent over a connection of its own, further requests wait   *)
(* in a queue, a request replaces an older one of its type, the watchdog   *)
(* ends or retries a silent transaction, and a callback reports the end.   *)
(*                                                                         *)
(* The program is single threaded.  An action is one event of the main     *)
(* loop, or one call of the application into the session; the latter also  *)
(* happen inside the parsers and completion callbacks the session calls,   *)
(* so the frames of these are kept on a stack and events wait for its end. *)
(*                                                                         *)
(* The statics and the wst_context are the record ws, and each C function  *)
(* that changes them is an operator to the set of records it may leave.    *)
(***************************************************************************)
EXTENDS Integers, Sequences

CONSTANTS
  Ids,          (* identities of the requests                              *)
  Types,        (* wst_get_unique_type: types of replaceable requests      *)
  NoType,       (* WEBSVC_NO_TYPE                                          *)
  NoItem,       (* active_item of a session that has none                  *)
  MaxQueue,     (* TRANSACTION_QUEUE_SIZE                                  *)
  MaxRetries    (* MAX_RETRIES                                             *)

VARIABLE ws

Item == [id : Ids, type : Types \cup {NoType}, v2 : BOOLEAN]

ASSUME WebSvcTransAssumption ==
  /\ NoType \notin Types
  /\ NoItem \notin Item
  /\ MaxQueue \in Nat
  /\ MaxRetries \in Nat

(* A parser runs on the data of request id; last: the read returned 0.     *)
ParserFrame   == [call : {"parser"}, id : Ids, last : BOOLEAN]
(* cbOnCompleted runs for request id; ok: it was given "succeeded";        *)
(* parsed: the HTTP header of the response had been read.                  *)
CallbackFrame == [call : {"callback"}, id : Ids, ok : BOOLEAN, parsed : BOOLEAN]

Session ==
  [state     : {"idle", "active", "stopping", "freed"},
   queue     : Seq(Item),
   item      : Item \cup {NoItem},        (* active_item                   *)
   notify    : BOOLEAN,                   (* active_item.cbOnCompleted set *)
   connecting: BOOLEAN,                   (* connect_context is pending    *)
   socket    : BOOLEAN,                   (* Socket is valid               *)
   receiving : BOOLEAN,                   (* async_receive_started         *)
   retries   : 0 .. MaxRetries,
   parser    : {"not_acked", "not_parsed", "parse_completed"},
   buffered  : BOOLEAN,                   (* unprocessed bytes in CB       *)
   deleting  : BOOLEAN,                   (* delete_on_idle                *)
   stack     : Seq(ParserFrame \cup CallbackFrame),
   (* What has become of the requests: wst_start_trans returned TRUE, the  *)
   (* request was given up without a callback, number of callbacks.        *)
   accepted  : SUBSET Ids,
   silenced  : SUBSET Ids,
   calls     : [Ids -> Nat]]

(***************************************************************************)
(* The context.                                                            *)
(***************************************************************************)

(* The requests in a queue, and the one the session works for.             *)
IdsOf(q)   == {q[i].id : i \in 1 .. Len(q)}
Current(w) == IF w.item = NoItem THEN {} ELSE {w.item.id}

Running(w) == w.state \in {"active", "stopping"}

FirstState(v2) == IF v2 THEN "not_acked" ELSE "not_parsed"

(* Mutant: the parser state survives the transaction.                      *)
MutReset(w, v2) ==
  [w EXCEPT !.state = "idle", !.receiving = FALSE, !.retries = 0,
            !.buffered = FALSE, !.item = NoItem]

wst_context_reset(w, v2) ==
  [w EXCEPT !.state = "idle", !.receiving = FALSE, !.retries = 0,
            !.parser = FirstState(v2), !.buffered = FALSE, !.item = NoItem]

(* The context is freed, with the requests it still holds.                 *)
wst_context_free(w) ==
  [w EXCEPT !.state = "freed", !.socket = FALSE, !.receiving = FALSE, !.queue = <<>>,
            !.item = NoItem,
            !.silenced = @ \cup IdsOf(w.queue) \cup Current(w)]

(* Mutant: a failure is reported even when the callback was withdrawn.     *)
MutReport(w, id, wanted, ok, parsed) ==
  [w EXCEPT !.calls[id] = @ + 1,
            !.silenced  = IF wanted THEN @ ELSE @ \cup {id},
            !.stack     = Append(@, [call |-> "callback", id |-> id,
                                     ok |-> ok, parsed |-> parsed])]

(* The tail of every path that ends a transaction: if(cb) cb(context, res) *)
Report(w, id, wanted, ok, parsed) ==
  IF wanted
  THEN [w EXCEPT !.calls[id] = @ + 1,
                 !.stack     = Append(@, [call |-> "callback", id |-> id,
                                          ok |-> ok, parsed |-> parsed])]
  ELSE [w EXCEPT !.silenced = @ \cup {id}]

(* Mutant: a connect that is under way is not cancelled.                   *)
MutClosed(w) == [w EXCEPT !.socket = FALSE, !.receiving = FALSE]

(* The connection of the transaction is cancelled or closed.               *)
Closed(w) ==
  [w EXCEPT !.connecting = FALSE, !.socket = FALSE, !.receiving = FALSE]

(* late: WST_SESSION_TIMEOUT seconds have passed since the last progress.  *)
MayRetry(w, res, late) ==
  res = "timed_out" /\ ~late /\ w.retries < MaxRetries

(* wst_start_trans__int with retry set.                                    *)
Retried(w) ==
  [w EXCEPT !.state = "active", !.retries = @ + 1,
            !.parser = FirstState(w.item.v2), !.connecting = TRUE]

wst_transaction_completed(w, res, late) ==
  LET done(ok) == Report(wst_context_reset(Closed(w), FALSE), w.item.id, w.notify,
                         ok, w.parser = "parse_completed")
  IN  CASE w.deleting -> {wst_context_free(w)}
        [] ~w.deleting /\ MayRetry(w, res, late) -> {Retried(Closed(w)), done(FALSE)}
        [] ~w.deleting /\ ~MayRetry(w, res, late) -> {done(res = "succeeded")}

wst_stop_trans__int(w, now, notify) ==
  CASE ~Running(w) -> {w}
    [] Running(w) /\ now ->
         wst_transaction_completed([w EXCEPT !.notify = @ /\ notify], "aborted", FALSE)
    [] Running(w) /\ ~now -> {[w EXCEPT !.state = "stopping"]}

(***************************************************************************)
(* Starting a transaction.                                                 *)
(***************************************************************************)

(* Mutant: queued requests of the type stay.                               *)
MutWithoutType(q, t) == q

(* wstq_remove_type skips the item behind one it removes; as the types in  *)
(* the queue are distinct (QueueTypesDistinct), there is one to remove.    *)
WithoutType(q, t) ==
  IF \E i \in 1 .. Len(q) : q[i].type = t
  THEN LET i == CHOOSE j \in 1 .. Len(q) : q[j].type = t
       IN  SubSeq(q, 1, i - 1) \o SubSeq(q, i + 1, Len(q))
  ELSE q

(* Queued requests of the type, and an active one, are given up.           *)
wstq_RemoveType(w, t) ==
  LET r == [w EXCEPT !.queue    = WithoutType(@, t),
                     !.silenced = @ \cup (IdsOf(w.queue) \ IdsOf(WithoutType(w.queue, t)))]
  IN  IF Running(w) /\ w.item.type = t THEN wst_stop_trans__int(r, TRUE, FALSE) ELSE {r}

(* wst_context_load and a connect that is under way.                       *)
wst_context_load(w, r) ==
  [wst_context_reset(w, r.v2) EXCEPT
     !.state = "active", !.item = r, !.notify = TRUE, !.connecting = TRUE]

Started(w)     == [ok |-> TRUE,  ws |-> w]
NotStarted(w)  == [ok |-> FALSE, ws |-> w]

(* Mutant: a full queue accepts one more request.                          *)
MutEnqueue(w, r) ==
  IF Len(w.queue) <= MaxQueue
  THEN {Started([w EXCEPT !.queue = Append(@, r)])} ELSE {NotStarted(w)}

wstq_Add(w, r) ==
  IF Len(w.queue) < MaxQueue
  THEN {Started([w EXCEPT !.queue = Append(@, r)])} ELSE {NotStarted(w)}

(* What a call returns and leaves behind: a busy session queues the        *)
(* request, an idle one tries to connect at once.                          *)
wst_start_trans__int(w, r) ==
  UNION {IF Running(v) THEN wstq_Add(v, r)
         ELSE {Started(wst_context_load(v, r)), NotStarted(wst_context_reset(v, r.v2))}
           : v \in IF Running(w) /\ r.type # NoType THEN wstq_RemoveType(w, r.type) ELSE {w}}

(***************************************************************************)
(* Calls of the application, from the main loop, a parser or a callback.   *)
(***************************************************************************)

(* wst_term gave the handle back.                                          *)
Usable == ws.state # "freed" /\ ~ws.deleting

wst_start_trans(r) ==
  /\ Usable
  /\ r.id \notin ws.accepted
  /\ \E s \in wst_start_trans__int(ws, r) :
       ws' = IF s.ok THEN [s.ws EXCEPT !.accepted = @ \cup {r.id}] ELSE s.ws

wst_stop_trans(now) ==
  /\ Usable
  /\ Running(ws)
  /\ ws' \in wst_stop_trans__int(ws, now, TRUE)

(* Mutant: the item stays in the queue.                                    *)
MutProcessQueueItem ==
  /\ Usable
  /\ ws.queue # <<>>
  /\ \E s \in wst_start_trans__int(ws, Head(ws.queue)) : ws' = s.ws

(* Mutant: the last queued request is started first.                       *)
MutLastFirst ==
  /\ Usable
  /\ ws.queue # <<>>
  /\ LET n == Len(ws.queue)
     IN  \E s \in wst_start_trans__int([ws EXCEPT !.queue = SubSeq(@, 1, n - 1)], ws.queue[n]) :
           ws' = IF s.ok THEN s.ws ELSE [s.ws EXCEPT !.silenced = @ \cup {ws.queue[n].id}]

(* The first queued request is started; the item is gone if that fails.    *)
wst_process_queue_item ==
  /\ Usable
  /\ ws.queue # <<>>
  /\ LET r == Head(ws.queue)
     IN  \E s \in wst_start_trans__int([ws EXCEPT !.queue = Tail(@)], r) :
           ws' = IF s.ok THEN s.ws ELSE [s.ws EXCEPT !.silenced = @ \cup {r.id}]

wst_queue_clear ==
  /\ Usable
  /\ ws.queue # <<>>
  /\ ws' = [ws EXCEPT !.queue = <<>>,
                      !.silenced = @ \cup IdsOf(ws.queue)]

(* A parser never closes its own session.                                  *)
wst_term ==
  /\ Usable
  /\ \A i \in 1 .. Len(ws.stack) : ws.stack[i].call # "parser"
  /\ ws' = IF Running(ws) THEN [ws EXCEPT !.deleting = TRUE, !.state = "stopping"]
           ELSE wst_context_free(ws)

(***************************************************************************)
(* Events of the main loop.                                                *)
(***************************************************************************)

MainLoop == ws.stack = <<>>

(* The connect ended: without a socket, with one that cannot be written,   *)
(* or with one to receive from.  The assertion that the receiver table has *)
(* a free slot (RECEIVER_QUEUE_SIZE) is taken to hold.                     *)
on_socket_connected(outcome) ==
  LET open == [ws EXCEPT !.connecting = FALSE, !.socket = TRUE]
  IN  /\ MainLoop
      /\ ws.connecting
      /\ CASE outcome = "no_socket" ->
                ws' \in wst_transaction_completed([ws EXCEPT !.connecting = FALSE], "failed", FALSE)
           [] outcome # "no_socket" /\ ws.state = "stopping" ->
                ws' \in wst_transaction_completed(open, "aborted", FALSE)
           [] outcome = "not_sent" /\ ws.state # "stopping" ->
                ws' \in wst_transaction_completed(open, "failed", FALSE)
           [] outcome = "sent" /\ ws.state # "stopping" ->
                ws' = [open EXCEPT !.receiving = TRUE]

(* The transaction goes on with parser state p; rest: are there bytes left *)
(* over in the buffer?                                                     *)
Continue(w, p, rest) == [w EXCEPT !.parser = p, !.buffered = rest]

(* A parser of the application is called on the data in the buffer.        *)
CallParser(w, last) ==
  [Continue(w, "parse_completed", FALSE) EXCEPT
     !.stack = Append(@, [call |-> "parser", id |-> w.item.id, last |-> last])]

(* Bytes arrived: the answer is refused, or stays incomplete after zero or *)
(* more steps of the header, or has a line for a parser.  The state        *)
(* http_status_verified is never stored in the session.                    *)
Received(w) ==
  wst_transaction_completed(w, "failed", FALSE)
    \cup {Continue(w, w.parser, TRUE), CallParser(w, FALSE)}
    \cup (IF w.parser = "not_acked"
          THEN {Continue(w, "not_parsed", rest) : rest \in BOOLEAN} ELSE {})
    \cup (IF w.parser # "parse_completed"
          THEN {Continue(w, "parse_completed", rest) : rest \in BOOLEAN} ELSE {})

(* A read of 0 bytes: the peer closed, or the decompressor keeps what it   *)
(* has until more arrives.  Only unprocessed data makes it a failure; a    *)
(* parser that had asked for more data is called once more.                *)
ReceivedNothing(w) ==
  CASE ~w.buffered ->
         wst_transaction_completed(w, "succeeded", FALSE)
           \cup (IF w.parser = "parse_completed"
                 THEN wst_transaction_completed(w, "failed", FALSE) ELSE {})
    [] w.buffered ->
         wst_transaction_completed(w, "failed", FALSE)
           \cup (IF w.parser = "parse_completed" THEN {CallParser(w, TRUE)} ELSE {})

on_data_received(read) ==
  /\ MainLoop
  /\ ws.receiving
  /\ CASE ws.state = "stopping" -> ws' \in wst_transaction_completed(ws, "aborted", FALSE)
       [] ws.state # "stopping" /\ read = "error" ->
            ws' \in wst_transaction_completed(ws, "failed", FALSE)
       [] ws.state # "stopping" /\ read = "nothing" -> ws' \in ReceivedNothing(ws)
       [] ws.state # "stopping" /\ read = "bytes"   -> ws' \in Received(ws)

(* Mutant: only an open socket can time out.                               *)
MutWatchdog(late) ==
  /\ MainLoop
  /\ Usable
  /\ ws.socket
  /\ ws' \in wst_transaction_completed(ws, "timed_out", late)

(* A socket that stays silent is given up early, a connect only after      *)
(* WST_SESSION_TIMEOUT; the application stops calling after wst_term.      *)
wst_watchdog(late) ==
  /\ MainLoop
  /\ Usable
  /\ Running(ws)
  /\ ws.socket \/ late
  /\ ws' \in wst_transaction_completed(ws, "timed_out", late)

-----------------------------------------------------------------------------
Top       == ws.stack[Len(ws.stack)]
Popped(w) == [w EXCEPT !.stack = SubSeq(@, 1, Len(@) - 1)]

(* The parser (or what it called) ended the transaction it worked for.     *)
Canceled(w) == w.parser # "parse_completed"

(* Back in on_data_received_: the read is complete, the answer is refused  *)
(* (or the parser set an error), or more data is needed for this line or   *)
(* the next.                                                               *)
parser_returns ==
  /\ ws.stack # <<>>
  /\ Top.call = "parser"
  /\ LET w == Popped(ws)
     IN  IF Canceled(w) THEN ws' = w
         ELSE \/ ws' \in wst_transaction_completed(w, "failed", FALSE)
              \/ ws' \in wst_transaction_completed(w, "succeeded", FALSE)
              \/ ~Top.last /\ \E rest \in BOOLEAN : ws' = Continue(w, "parse_completed", rest)

callback_returns ==
  /\ ws.stack # <<>>
  /\ Top.call = "callback"
  /\ ws' = Popped(ws)

(***************************************************************************)
(* Specification.                                                          *)
(***************************************************************************)

(* wst_init                                                                *)
Init ==
  ws = [state |-> "idle", queue |-> <<>>, item |-> NoItem, notify |-> FALSE,
        connecting |-> FALSE, socket |-> FALSE, receiving |-> FALSE, retries |-> 0,
        parser |-> "not_acked", buffered |-> FALSE, deleting |-> FALSE, stack |-> <<>>,
        accepted |-> {}, silenced |-> {}, calls |-> [i \in Ids |-> 0]]

ApplicationNext ==
  \/ \E r \in Item : wst_start_trans(r)
  \/ \E now \in BOOLEAN : wst_stop_trans(now)
  \/ wst_process_queue_item
  \/ wst_queue_clear
  \/ wst_term

EventNext ==
  \/ \E outcome \in {"no_socket", "not_sent", "sent"} : on_socket_connected(outcome)
  \/ \E read \in {"error", "nothing", "bytes"} : on_data_received(read)
  \/ \E late \in BOOLEAN : wst_watchdog(late)

ReturnNext == parser_returns \/ callback_returns

Next == ApplicationNext \/ EventNext \/ ReturnNext

Spec == Init /\ [][Next]_ws

(***************************************************************************)
(* While the service runs its timer calls the watchdog every second, and   *)
(* parsers and callbacks return.  Nothing is assumed of the server, the    *)
(* network or the calls of the application.                                *)
(***************************************************************************)
Fairness ==
  /\ WF_ws(\E late \in BOOLEAN : wst_watchdog(late))
  /\ WF_ws(ReturnNext)

FairSpec == Spec /\ Fairness

-----------------------------------------------------------------------------
(***************************************************************************)
(* Properties.                                                             *)
(***************************************************************************)

(* The context has its types, and the queue never outgrows its array.      *)
TypeOK == ws \in Session /\ Len(ws.queue) <= MaxQueue

(* A session that is not idle is waited for by exactly one thing: a        *)
(* connect, or a receive on its socket (or a parser working on a read); an *)
(* idle or freed one has left no connect, socket or receive behind that    *)
(* would call into it.                                                     *)
SessionHasWork ==
  /\ ws.connecting \/ ws.socket <=> Running(ws)
  /\ ~(ws.connecting /\ ws.socket)
  /\ ws.receiving = ws.socket
  /\ Running(ws) <=> ws.item # NoItem

(* A completion callback is only called for a request that was accepted,   *)
(* never twice, and not for one that was replaced or thrown away.          *)
CallbackDiscipline ==
  \A i \in Ids : ws.calls[i] > 0 =>
    /\ ws.calls[i] = 1
    /\ i \in ws.accepted \ ws.silenced

(* Whatever is replaced, retried, dequeued, aborted or re-entered, an      *)
(* accepted request is in one place: it is the active one, or queued, or   *)
(* reported, or given up.                                                  *)
RequestsAccounted ==
  /\ \A i \in Ids : i \in ws.accepted <=>
       i \in IdsOf(ws.queue) \cup Current(ws) \cup ws.silenced \/ ws.calls[i] > 0
  /\ Current(ws) \cap IdsOf(ws.queue) = {}
  /\ (Current(ws) \cup IdsOf(ws.queue)) \cap ws.silenced = {}
  /\ \A i \in IdsOf(ws.queue) \cup Current(ws) : ws.calls[i] = 0
  /\ \A i, j \in 1 .. Len(ws.queue) : ws.queue[i].id = ws.queue[j].id => i = j

(* At most one request of a type waits, although an idle session starts a  *)
(* request without looking at its queue; wstq_remove_type, which skips the *)
(* item behind one it removes, relies on it.                               *)
QueueTypesDistinct ==
  \A i, j \in 1 .. Len(ws.queue) :
    ws.queue[i].type = ws.queue[j].type /\ ws.queue[i].type # NoType => i = j

(* When a parser returns and the transaction looks alive, it is the one    *)
(* the data was received for: a request that was replaced from inside a    *)
(* parser never gets the rest of the answer of the old one.                *)
NoCrossTalk ==
  \A i \in 1 .. Len(ws.stack) :
    ws.stack[i].call = "parser" /\ ~Canceled(ws) => Current(ws) = {ws.stack[i].id}

(* Once the server is silent for good, the watchdog ends every transaction *)
(* after its retries, also one that was asked to stop, unless the handle   *)
(* is given back first.                                                    *)
SilentServerEndsSession ==
  <>[][~on_data_received("bytes")]_ws /\ []Usable
    => (Running(ws) ~> ~Running(ws))
=============================================================================
