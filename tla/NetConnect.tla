----------------------------- MODULE NetConnect -----------------------------
(***************************************************************************)
(* Asynchronous connects (unix/roadmap_net.c, gtk2/roadmap_main.c): each   *)
(* pending connect has a watch in the table of the main loop; while there  *)
(* are any, a periodic timer sweeps the table and closes the connects that *)
(* are too old, which are tried again twice.  A counter says when to set   *)
(* and when to remove the timer.                                           *)
(*                                                                         *)
(* A callback runs inside an event of the main loop, inside the sweep, or  *)
(* inside the call that asked for the connect, and may connect, cancel and *)
(* close; depth counts the callbacks that have not returned.  The tables   *)
(* of watches and timers are taken to have room.                           *)
(*                                                                         *)
(* A file upload (roadmap_httpcopy_async.c) also waits for its socket to   *)
(* be writable, and its watch is in the same table.                        *)
(***************************************************************************)
EXTENDS Integers, FiniteSets

CONSTANTS
  Clients,      (* callers, each with one connect at a time                *)
  Cases,        (* which things happen: connects that succeed immediately, *)
                (* reconnects that fail before they start, uploads, and    *)
                (* uploads that take longer than a connect may             *)
  MaxRetries,   (* the 2 in check_connect_timeout                          *)
  MaxDepth,     (* bound: callbacks inside each other                      *)
  MaxLost       (* bound: failed reconnects                                *)

ASSUME NetConnectAssumption ==
  /\ IsFiniteSet(Clients)
  /\ Cases \subseteq {"immediate", "reconnect", "upload", "slow_upload"}
  /\ MaxRetries \in Nat
  /\ MaxDepth \in Nat
  /\ MaxLost \in Nat

VARIABLE net

Net ==
  [status  : [Clients -> {"idle", "pending", "open", "sending"}],
   result  : [Clients -> {"none", "open", "failed"}],
   retries : [Clients -> 0 .. MaxRetries],  (* retry_params.num_retries    *)
   overdue : SUBSET Clients,                (* watches older than the limit *)
   due     : SUBSET Clients,                (* ... when the sweep began    *)
   connects: Int,                           (* RoadMapNetNumConnects       *)
   timer   : BOOLEAN,                       (* check_connect_timeout is set *)
   sweeping: BOOLEAN,                       (* it is running               *)
   depth   : 0 .. MaxDepth + 1,
   (* Reconnects that failed, and clients of which a RoadMapIO was lost.   *)
   lost    : 0 .. MaxLost,
   leaked  : SUBSET Clients,
   (* Clients of which a failed upload left its watch in the table.        *)
   stale   : SUBSET Clients]

Pending(n) == {c \in Clients : n.status[c] = "pending"}

(* The clients that wait with a watch for output in the table.             *)
Watched(n) == {c \in Clients : n.status[c] \in {"pending", "sending"}}

MainLoop == ~net.sweeping /\ net.depth = 0

(* The application runs: in the main loop, or in one of its callbacks.     *)
Application == net.depth > 0 \/ ~net.sweeping

(* Mutant: the sweep still sees the watch.                                 *)
MutRemoveInput(n, c) == [n EXCEPT !.overdue = @ \ {c}]

(* The watch of the client is removed from the table.                      *)
roadmap_main_remove_input(n, c) ==
  [n EXCEPT !.overdue = @ \ {c}, !.due = @ \ {c}]

(* One connect less; the timer goes with the last one.                     *)
Decrement(n) ==
  [n EXCEPT !.connects = @ - 1, !.timer = @ /\ n.connects # 1]

(* Mutant: the timer goes although other connects are pending.             *)
MutConnectCallback(n, c, outcome) ==
  [n EXCEPT !.connects  = @ - 1,
            !.timer     = FALSE,
            !.status[c] = IF outcome = "open" THEN "open" ELSE "idle",
            !.result[c] = outcome,
            !.depth     = @ + 1]

(* The caller is told.                                                     *)
connect_callback(n, c, outcome) ==
  [Decrement(n) EXCEPT !.status[c] = IF outcome = "open" THEN "open" ELSE "idle",
                       !.result[c] = outcome,
                       !.depth     = @ + 1]

Lose(n, c) == [n EXCEPT !.leaked = @ \cup {c}]

(* The socket can be written: it is handed over, or closed because the     *)
(* packet cannot be sent, or (in an SSL handshake that fails) forgotten.   *)
io_connect_callback(n, c) ==
  LET r == roadmap_main_remove_input(n, c)
  IN  {connect_callback(r, c, "open"), connect_callback(r, c, "failed"),
       Lose(connect_callback(r, c, "failed"), c)}

(* A non-blocking connect that was accepted; the timer is set for the      *)
(* first one only, and not for one that succeeds immediately.              *)
create_async_connection(n, c, retries) ==
  LET watched == [n EXCEPT !.connects = @ + 1, !.status[c] = "pending",
                           !.retries[c] = retries]
  IN  {[watched EXCEPT !.timer = @ \/ watched.connects = 1]}
        \cup (IF "immediate" \in Cases /\ n.depth < MaxDepth
              THEN io_connect_callback(watched, c) ELSE {})

(***************************************************************************)
(* Calls of the application.  A connect that is refused changes nothing.   *)
(***************************************************************************)

roadmap_net_connect_async(c) ==
  /\ Application
  /\ net.status[c] = "idle"
  /\ net' \in create_async_connection([net EXCEPT !.result[c] = "none"], c, 0)

(* Mutant: a cancelled connect stays counted.                              *)
MutCancelConnect(c) ==
  /\ Application
  /\ net.status[c] = "pending"
  /\ net' = [roadmap_main_remove_input(net, c) EXCEPT !.status[c] = "idle"]

roadmap_net_cancel_connect(c) ==
  /\ Application
  /\ net.status[c] = "pending"
  /\ net' = [Decrement(roadmap_main_remove_input(net, c)) EXCEPT !.status[c] = "idle"]

roadmap_net_close(c) ==
  /\ Application
  /\ net.status[c] = "open"
  /\ net' = [net EXCEPT !.status[c] = "idle"]

(* The file is sent from the main loop, in pieces.                         *)
roadmap_http_async_prepare_output(c) ==
  /\ Application
  /\ "upload" \in Cases
  /\ net.status[c] = "open"
  /\ net' = [net EXCEPT !.status[c] = "sending"]

roadmap_http_async_copy_abort(c) ==
  /\ Application
  /\ net.status[c] = "sending"
  /\ net' = [roadmap_main_remove_input(net, c) EXCEPT !.status[c] = "idle"]

callback_returns ==
  /\ net.depth > 0
  /\ net' = [net EXCEPT !.depth = @ - 1]

(***************************************************************************)
(* Events.                                                                 *)
(***************************************************************************)

(* The main loop sees that the socket of a connect can be written.         *)
io_handler(c) ==
  /\ MainLoop
  /\ net.status[c] = "pending"
  /\ net' \in io_connect_callback(net, c)

Sent(n, c) == [roadmap_main_remove_input(n, c) EXCEPT !.status[c] = "open"]

(* The socket is closed, the client told and the context freed, but the    *)
(* watch stays, for nobody.  What the loop and the sweep make of it is     *)
(* undefined, and left out.                                                *)
UploadFails(n, c) ==
  [n EXCEPT !.overdue = @ \ {c}, !.due = @ \ {c}, !.stale = @ \cup {c},
            !.status[c] = "idle", !.depth = @ + 1]

(* The last piece of an upload is sent, and what follows is read; or a     *)
(* piece is, of which the client is told; or a read or a write fails.      *)
roadmap_http_async_write_cb(c) ==
  /\ MainLoop
  /\ net.status[c] = "sending"
  /\ net' \in {Sent(net, c), [net EXCEPT !.depth = @ + 1], UploadFails(net, c)}

(* CONNECT_TIMEOUT_SEC pass; the table does not say for what a watch is.   *)
Age(c) ==
  /\ c \in IF "slow_upload" \in Cases THEN Watched(net) ELSE Pending(net)
  /\ c \notin net.overdue
  /\ net' = [net EXCEPT !.overdue = @ \cup {c}]

check_connect_timeout ==
  /\ MainLoop
  /\ net.timer
  /\ net.overdue # {}
  /\ net' = [net EXCEPT !.sweeping = TRUE, !.due = net.overdue]

(* The connect is tried again, with the RoadMapIO the caller knows, or     *)
(* cannot be, in which case it has been counted off already.               *)
Reconnect(n, c) ==
  LET counted == [n EXCEPT !.connects = @ - 1]
      refused == connect_callback(counted, c, "failed")
  IN  create_async_connection(counted, c, n.retries[c] + 1)
        \cup (IF "reconnect" \in Cases /\ n.lost < MaxLost
              THEN {[refused EXCEPT !.lost = @ + 1], [Lose(refused, c) EXCEPT !.lost = @ + 1]}
              ELSE {})

(* Mutant: the caller is told, but the watch stays.                        *)
MutTimedOut(c) ==
  /\ net.sweeping
  /\ net.depth = 0
  /\ c \in net.due
  /\ net.status[c] = "pending"
  /\ LET n == roadmap_main_remove_input(net, c)
     IN  IF n.retries[c] < MaxRetries THEN net' \in Reconnect(n, c)
         ELSE net' = [connect_callback(n, c, "failed") EXCEPT !.status[c] = "pending"]

(* One round of the loop.  The RoadMapIO that is kept for the reconnect    *)
(* is not released when there is none.  What it does to the watch of an    *)
(* upload, whose context is of another type, is undefined.                 *)
timed_out(c) ==
  /\ net.sweeping
  /\ net.depth = 0
  /\ c \in net.due
  /\ net.status[c] = "pending"
  /\ LET n == roadmap_main_remove_input(net, c)
     IN  IF n.retries[c] < MaxRetries THEN net' \in Reconnect(n, c)
         ELSE net' = Lose(connect_callback(n, c, "failed"), c)

sweep_ends ==
  /\ net.sweeping
  /\ net.depth = 0
  /\ net.due = {}
  /\ net' = [net EXCEPT !.sweeping = FALSE]

-----------------------------------------------------------------------------
Init ==
  net = [status |-> [c \in Clients |-> "idle"], result |-> [c \in Clients |-> "none"],
         retries |-> [c \in Clients |-> 0], overdue |-> {}, due |-> {}, connects |-> 0,
         timer |-> FALSE, sweeping |-> FALSE, depth |-> 0, lost |-> 0, leaked |-> {},
         stale |-> {}]

ClientNext(c) ==
  \/ roadmap_net_connect_async(c)
  \/ roadmap_net_cancel_connect(c)
  \/ roadmap_net_close(c)
  \/ roadmap_http_async_prepare_output(c)
  \/ roadmap_http_async_copy_abort(c)
  \/ io_handler(c)
  \/ roadmap_http_async_write_cb(c)
  \/ Age(c)
  \/ timed_out(c)

Next ==
  \/ \E c \in Clients : ClientNext(c)
  \/ check_connect_timeout
  \/ sweep_ends
  \/ callback_returns

Spec == Init /\ [][Next]_net

(***************************************************************************)
(* Time passes, every callback comes to its end (also one that connects    *)
(* again and again), so does the sweep, and the main loop, which serves    *)
(* every source that is ready before it looks for new ones, gets to the    *)
(* timer.  Nothing is assumed of the network.                              *)
(***************************************************************************)
Fairness ==
  /\ \A c \in Clients : WF_net(Age(c))
  /\ WF_net((\E c \in Clients : timed_out(c)) \/ sweep_ends)
  /\ []<>(net.depth = 0)
  /\ SF_net(check_connect_timeout)

FairSpec == Spec /\ Fairness

-----------------------------------------------------------------------------
(***************************************************************************)
(* Properties.                                                             *)
(***************************************************************************)

(* The net layer keeps its types, and what is old or due in a sweep is     *)
(* still waited for: a client that was answered, cancelled or aborted is   *)
(* not met again by a sweep that is under way.                             *)
TypeOK ==
  /\ net \in Net
  /\ net.due \subseteq net.overdue
  /\ net.overdue \subseteq Watched(net)

(* The counter is the number of pending connects, less one for each        *)
(* reconnect that failed: such a connect is counted off twice.             *)
ConnectsCounted == net.connects = Cardinality(Pending(net)) - net.lost

(* Unless a reconnect failed, the timer is there exactly while a connect   *)
(* is pending, whatever callbacks do in the middle of a sweep.             *)
TimerWhilePending == net.lost = 0 => (net.timer <=> Pending(net) # {})

(* The caller sees nothing of timeouts, retries and sweeps: a connect gets *)
(* one answer, and none after it was cancelled.                            *)
Seen(status) == [c \in Clients |-> IF status[c] = "sending" THEN "open" ELSE status[c]]

Async == INSTANCE AsyncConnect WITH status <- Seen(net.status), result <- net.result

AnsweredOnce == Async!Spec

(* As long as no reconnect fails, every connect is answered even if the    *)
(* network never is, unless its caller cancels it.                         *)
EveryConnectAnswered ==
  \A c \in Clients :
    [](net.lost = 0) => (net.status[c] = "pending" ~> net.status[c] # "pending")
=============================================================================
