---------------------------- MODULE TileManager ----------------------------
(***************************************************************************)
(* The tile downloader of roadmap_tile_manager.c: a bounded priority queue *)
(* of tile requests, a fixed set of concurrent HTTP transfers, the flags   *)
(* kept for every tile (roadmap_tile_status.c), the retry, login and sweep *)
(* timers, and the "refresh all tiles" procedure.                          *)
(*                                                                         *)
(* The program is single threaded: an action is one callback of the event  *)
(* loop, run to completion.  The manager's statics live in the record tm,  *)
(* and each C function that changes them is an operator from a record to   *)
(* the record, or the set of records, it can leave behind.                 *)
(*                                                                         *)
(* The on_loaded argument of roadmap_tile_request is NULL at every call    *)
(* site of the repository, so it is not modelled; nor are tile contents.   *)
(***************************************************************************)
EXTENDS Integers, Sequences, FiniteSets, FiniteSetsExt

CONSTANTS
  Tiles,        (* tile identifiers                                        *)
  Conns,        (* connection slots, TM_MAX_CONCURRENT of them             *)
  NoTile,       (* content of a free connection (tile_status == NULL)      *)
  MaxQueue,     (* TM_MAX_QUEUE                                            *)
  MaxPriority   (* ROADMAP_TILE_STATUS_PRIORITY_GPS; 0 is PRIORITY_NONE    *)

ASSUME TileManagerAssumption ==
  /\ NoTile \notin Tiles
  /\ IsFiniteSet(Conns)
  /\ Conns # {}
  /\ MaxQueue \in Nat \ {0}
  /\ MaxPriority \in Nat \ {0}

VARIABLES
  tm,           (* the statics of roadmap_tile_manager.c and the tile flags *)
  timestamped,  (* tiles for which roadmap_square_timestamp is not 0       *)
  session,      (* what init_loading_session decided                       *)
  login,        (* is our callback in Realtime's login chain?              *)
  sweepTimer,   (* is roadmap_tile_manager_check_timeouts periodic?        *)
  refreshTimer, (* is refresh_all_tiles scheduled?                         *)
  refreshing    (* progress of the loop in roadmap_square_refresh          *)

vars == <<tm, timestamped, session, login, sweepTimer, refreshTimer, refreshing>>

Priorities == 0 .. MaxPriority
Request    == [tile : Tiles, priority : Priorities]
MaxConcurrent == Cardinality(Conns)

(* The tile a connection works for, the flags of the tiles, the queue from *)
(* RequestQueue[QueueHead] on, and the progress of a refresh.              *)
Manager ==
  [status   : {"First", "Waiting", "Active"},
   queue    : Seq(Request),
   slot     : [Conns -> Tiles \cup {NoTile}],
   timed    : SUBSET Conns,               (* connections with time_out # 0 *)
   open     : Int,                        (* NumOpenConnections            *)
   queued   : SUBSET Tiles,               (* FLAG_QUEUED                   *)
   active   : SUBSET Tiles,               (* FLAG_ACTIVE                   *)
   uptodate : SUBSET Tiles,               (* FLAG_UPTODATE                 *)
   unforce  : SUBSET Tiles,               (* FLAG_UNFORCE                  *)
   priority : [Tiles -> Priorities],      (* MASK_PRIORITY                 *)
   retry    : BOOLEAN,                    (* is start_network periodic?    *)
   done     : Int,                        (* TilesRefreshProgressCount     *)
   total    : Int]                        (* TilesRefreshTotalCount        *)

Idle == refreshing.running = FALSE

(***************************************************************************)
(* The request queue.                                                      *)
(***************************************************************************)

(* Mutant: a prioritised request always goes first.                        *)
MutInsertFirst(q, r) == <<r>> \o q

(* A request goes before the first one whose priority is not higher.       *)
Insert(q, r) ==
  LET i == Min({j \in 1 .. Len(q) : q[j].priority <= r.priority} \cup {Len(q) + 1})
  IN  SubSeq(q, 1, i - 1) \o <<r>> \o SubSeq(q, i, Len(q))

(* Mutant: the queue is taken to be full one request too late.             *)
MutFull(q) == Len(q) > MaxQueue

Full(q) == Len(q) >= MaxQueue

(* A plain request is appended, or dropped by a full queue.  A prioritised *)
(* one replaces the last request of a full queue, whose FLAG_QUEUED stays, *)
(* unless that one has a higher priority: then the call returns with       *)
(* QueueHead already moved back, which makes the last request the first.   *)
queue_tile(m, t, p) ==
  LET q    == m.queue
      r    == [tile |-> t, priority |-> p]
      full == Full(q)
  IN  CASE p = 0 /\ full -> m
        [] p = 0 /\ ~full -> [m EXCEPT !.queue = Append(q, r)]
        [] p # 0 /\ ~full -> [m EXCEPT !.queue = Insert(q, r)]
        [] p # 0 /\ full /\ q[Len(q)].priority > p ->
             [m EXCEPT !.queue = <<q[Len(q)]>> \o SubSeq(q, 1, Len(q) - 1)]
        [] p # 0 /\ full /\ q[Len(q)].priority <= p ->
             [m EXCEPT !.queue = Insert(SubSeq(q, 1, Len(q) - 1), r)]

(***************************************************************************)
(* Connections.                                                            *)
(***************************************************************************)

(* One more tile counts as refreshed; the last one ends the refresh.       *)
tile_refresh_cb(m) ==
  CASE m.total < 0 -> m
    [] m.total >= 0 /\ m.done + 1 >= m.total -> [m EXCEPT !.done = 0, !.total = -1]
    [] m.total >= 0 /\ m.done + 1 < m.total  -> [m EXCEPT !.done = @ + 1]

(* Mutant: NumOpenConnections is not decremented.                          *)
MutRelease(m, c) ==
  [m EXCEPT !.active = @ \ {m.slot[c]}, !.slot[c] = NoTile, !.timed = @ \ {c}]

(* The connection and the FLAG_ACTIVE of its tile are given up.            *)
Release(m, c) ==
  [m EXCEPT !.active = @ \ {m.slot[c]}, !.slot[c] = NoTile,
            !.timed = @ \ {c}, !.open = @ - 1]

requeue_tile(m, c) ==
  queue_tile(Release(m, c), m.slot[c], m.priority[m.slot[c]])

(* Mutant: nobody is asked to wake the manager up.                         *)
MutOnConnectionFailure(m, c) == [requeue_tile(m, c) EXCEPT !.status = "Waiting"]

on_connection_failure(m, c) ==
  LET r == requeue_tile(m, c)
  IN  IF m.status = "Active" THEN [r EXCEPT !.status = "Waiting", !.retry = TRUE] ELSE r

(* The transfer starts, or the connection is refused before the call       *)
(* returns and http_cb_error runs inside it.                               *)
roadmap_http_async_copy(m, c) ==
  {m, on_connection_failure(tile_refresh_cb(m), c)}

(* Mutant: the loop skips active tiles only.                               *)
MutReady(m) == {i \in 1 .. Len(m.queue) : m.queue[i].tile \notin m.active}

(* Positions of the requests that can be served now.                       *)
Ready(m) ==
  {i \in 1 .. Len(m.queue) : m.queue[i].tile \notin m.active \cup m.uptodate}

(* Mutant: FLAG_QUEUED survives the request.                               *)
MutPopped(m, k) == [m EXCEPT !.queue = SubSeq(@, k + 1, Len(@))]

(* The first k requests leave the queue.                                   *)
Popped(m, k) ==
  [m EXCEPT !.queue  = SubSeq(@, k + 1, Len(@)),
            !.queued = @ \ {m.queue[i].tile : i \in 1 .. k}]

(* Connection c is occupied for tile t.                                    *)
Occupied(m, c, t) ==
  [m EXCEPT !.slot[c] = t, !.active = @ \cup {t}, !.open = @ + 1]

(* Requests are taken from the queue until one is for a tile that is       *)
(* neither active nor up to date; that one gets a free connection.         *)
load_next_tile(m) ==
  CASE m.open >= MaxConcurrent \/ m.status # "Active" -> {m}
    [] m.open < MaxConcurrent /\ m.status = "Active" /\ Ready(m) = {} ->
         {Popped(m, Len(m.queue))}
    [] m.open < MaxConcurrent /\ m.status = "Active" /\ Ready(m) # {} ->
         LET k == Min(Ready(m))
             p == Popped(m, k)
         IN  UNION {roadmap_http_async_copy(Occupied(p, c, m.queue[k].tile), c) :
                      c \in {d \in Conns : m.slot[d] = NoTile}}

(* Mutant: the freed connection is not used for the next request.          *)
MutFinish(m, c) ==
  {[Release(tile_refresh_cb(m), c) EXCEPT !.uptodate = @ \cup {m.slot[c]}]}

(* The transfer is over, for better or worse: the tile is not fetched      *)
(* again until somebody marks it stale.                                    *)
Finish(m, c) ==
  load_next_tile([Release(tile_refresh_cb(m), c) EXCEPT !.uptodate = @ \cup {m.slot[c]}])

(***************************************************************************)
(* Requests.                                                               *)
(***************************************************************************)

Acceptable(m, t, p) ==
  /\ t \notin m.active \cup m.uptodate
  /\ ~(t \in m.queued /\ m.priority[t] > p)

(* FLAG_QUEUED is set whether or not queue_tile kept the request.          *)
Submit(m, t, p) ==
  LET e == [queue_tile(m, t, p) EXCEPT !.queued = @ \cup {t}, !.priority[t] = p]
  IN  CASE m.status = "First"   -> {[e EXCEPT !.status = "Waiting"]}
        [] m.status = "Waiting" -> {e}
        [] m.status = "Active"  -> load_next_tile(e)

init_loading_session ==
  session' \in IF session = "Unknown" THEN {"Full", "Recent"} ELSE {session}

roadmap_tile_request(t, p, force) ==
  /\ Idle
  /\ Acceptable(tm, t, p)
  /\ \/ /\ force
        /\ UNCHANGED session
        /\ tm' \in Submit(tm, t, p)
        /\ login' = (login \/ tm.status = "First")
     \/ /\ ~force
        /\ t \notin tm.unforce
        /\ init_loading_session
        /\ session' = "Full" \/ t \notin timestamped
        /\ tm' \in Submit(tm, t, p)
        /\ login' = (login \/ tm.status = "First")
     \/ /\ ~force
        /\ t \notin tm.unforce
        /\ init_loading_session
        /\ session' = "Recent" /\ t \in timestamped
        /\ tm' = [tm EXCEPT !.unforce = @ \cup {t}]
        /\ UNCHANGED login
  /\ UNCHANGED <<timestamped, sweepTimer, refreshTimer, refreshing>>

(* Navigation and traffic learn that the server has a newer version.       *)
MarkStale(t) ==
  /\ Idle
  /\ tm' = [tm EXCEPT !.uptodate = @ \ {t}]
  /\ UNCHANGED <<timestamped, session, login, sweepTimer, refreshTimer, refreshing>>

roadmap_tile_reset_session ==
  /\ Idle
  /\ session' = "Recent"
  /\ UNCHANGED <<tm, timestamped, login, sweepTimer, refreshTimer, refreshing>>

(***************************************************************************)
(* Events of a transfer.                                                   *)
(***************************************************************************)

Busy(c) == Idle /\ tm.slot[c] # NoTile

(* The first call of http_cb_progress: the connection is up.               *)
http_cb_progress(c) ==
  /\ Busy(c)
  /\ tm' = [tm EXCEPT !.timed = @ \cup {c}]
  /\ UNCHANGED <<timestamped, session, login, sweepTimer, refreshTimer, refreshing>>

http_cb_error(c, connection_failure) ==
  /\ Busy(c)
  /\ \/ /\ connection_failure
        /\ c \notin tm.timed
        /\ tm' = on_connection_failure(tile_refresh_cb(tm), c)
     \/ /\ ~connection_failure
        /\ c \in tm.timed
        /\ tm' \in Finish(tm, c)
  /\ UNCHANGED <<timestamped, session, login, sweepTimer, refreshTimer, refreshing>>

(* The data may turn out not to be a loadable tile.                        *)
http_cb_done(c, loaded) ==
  /\ Busy(c)
  /\ c \in tm.timed
  /\ tm' \in Finish(tm, c)
  /\ timestamped' = IF loaded THEN timestamped \cup {tm.slot[c]} ELSE timestamped
  /\ UNCHANGED <<session, login, sweepTimer, refreshTimer, refreshing>>

(***************************************************************************)
(* Timers and the login callback.                                          *)
(***************************************************************************)

(* One connection found overdue.  A sweep that finds several is several of *)
(* these steps in a row: the loop body has no other effect.                *)
roadmap_tile_manager_check_timeouts(c) ==
  /\ sweepTimer
  /\ Busy(c)
  /\ c \in tm.timed
  /\ tm' = requeue_tile(tm, c)
  /\ UNCHANGED <<timestamped, session, login, sweepTimer, refreshTimer, refreshing>>

(* Mutant: the timer only declares the network up.                         *)
MutStartNetwork ==
  /\ Idle
  /\ tm.retry
  /\ tm' = [tm EXCEPT !.status = "Active"]
  /\ UNCHANGED <<timestamped, session, login, sweepTimer, refreshTimer, refreshing>>

(* The retry timer; nothing ever removes it.                               *)
start_network ==
  /\ Idle
  /\ tm.retry
  /\ tm' \in load_next_tile([tm EXCEPT !.status = "Active"])
  /\ UNCHANGED <<timestamped, session, login, sweepTimer, refreshTimer, refreshing>>

roadmap_tile_manager_login_cb ==
  /\ Idle
  /\ login
  /\ tm' \in load_next_tile([tm EXCEPT !.status = "Active"])
  /\ login' = FALSE
  /\ sweepTimer' = TRUE
  /\ UNCHANGED <<timestamped, session, refreshTimer, refreshing>>

(***************************************************************************)
(* Refresh of all the tiles.                                               *)
(***************************************************************************)

roadmap_tile_refresh_all ==
  /\ Idle
  /\ tm.total < 0
  /\ refreshTimer' = TRUE
  /\ UNCHANGED <<tm, timestamped, session, login, sweepTimer, refreshing>>

(* The timer callback enters roadmap_square_refresh with whatever tiles    *)
(* the square cache holds ...                                              *)
refresh_all_tiles ==
  /\ Idle
  /\ refreshTimer
  /\ refreshTimer' = FALSE
  /\ tm' = [tm EXCEPT !.done = 0, !.total = -1]
  /\ \E cached \in SUBSET Tiles :
       refreshing' = [running |-> TRUE, left |-> cached, count |-> 0]
  /\ UNCHANGED <<timestamped, session, login, sweepTimer>>

(* ... marks each one stale and asks for it with the highest priority ...  *)
roadmap_square_refresh(t) ==
  LET stale == [tm EXCEPT !.uptodate = @ \ {t}]
      room  == refreshing.count < MaxQueue
      asked == room /\ Acceptable(stale, t, MaxPriority)
  IN  /\ refreshing.running
      /\ t \in refreshing.left
      /\ refreshing' = [refreshing EXCEPT !.left = @ \ {t},
                                          !.count = IF room THEN @ + 1 ELSE @]
      /\ tm' \in IF asked THEN Submit(stale, t, MaxPriority) ELSE {stale}
      /\ login' = (login \/ (asked /\ tm.status = "First"))
      /\ UNCHANGED <<timestamped, session, sweepTimer, refreshTimer>>

(* ... and returns how many tiles it asked for.                            *)
roadmap_square_refresh_return ==
  /\ refreshing.running
  /\ refreshing.left = {}
  /\ tm' = [tm EXCEPT !.total = refreshing.count]
  /\ refreshing' = [running |-> FALSE, left |-> {}, count |-> 0]
  /\ UNCHANGED <<timestamped, session, login, sweepTimer, refreshTimer>>

(***************************************************************************)
(* Specification.                                                          *)
(***************************************************************************)

Init ==
  /\ tm = [status |-> "First", queue |-> <<>>, slot |-> [c \in Conns |-> NoTile],
           timed |-> {}, open |-> 0, queued |-> {}, active |-> {}, uptodate |-> {},
           unforce |-> {}, priority |-> [t \in Tiles |-> 0], retry |-> FALSE,
           done |-> 0, total |-> -1]
  /\ timestamped \in SUBSET Tiles
  /\ session = "Unknown"
  /\ login = FALSE
  /\ sweepTimer = FALSE
  /\ refreshTimer = FALSE
  /\ refreshing = [running |-> FALSE, left |-> {}, count |-> 0]

RequestNext ==
  \/ \E t \in Tiles, p \in Priorities, force \in BOOLEAN : roadmap_tile_request(t, p, force)
  \/ \E t \in Tiles : MarkStale(t)
  \/ roadmap_tile_reset_session

TransferNext ==
  \E c \in Conns :
    \/ http_cb_progress(c)
    \/ \E failure \in BOOLEAN : http_cb_error(c, failure)
    \/ \E loaded \in BOOLEAN : http_cb_done(c, loaded)

TimerNext ==
  \/ \E c \in Conns : roadmap_tile_manager_check_timeouts(c)
  \/ start_network
  \/ roadmap_tile_manager_login_cb

RefreshNext ==
  \/ roadmap_tile_refresh_all
  \/ refresh_all_tiles
  \/ \E t \in Tiles : roadmap_square_refresh(t)
  \/ roadmap_square_refresh_return

Next == RequestNext \/ TransferNext \/ TimerNext \/ RefreshNext

Spec == Init /\ [][Next]_vars

(***************************************************************************)
(* The event loop keeps running: a loop that was entered finishes, and a   *)
(* periodic timer that stays registered fires again.  Nothing is assumed   *)
(* of the user, the server or the network.                                 *)
(***************************************************************************)
Fairness ==
  /\ WF_vars(start_network)
  /\ WF_vars((\E t \in Tiles : roadmap_square_refresh(t)) \/ roadmap_square_refresh_return)

FairSpec == Spec /\ Fairness

-----------------------------------------------------------------------------
(***************************************************************************)
(* Properties.                                                             *)
(***************************************************************************)

(* Every static has its type, and the queue never outgrows RequestQueue.   *)
TypeOK ==
  /\ tm \in Manager
  /\ Len(tm.queue) <= MaxQueue
  /\ timestamped \subseteq Tiles
  /\ session \in {"Unknown", "Full", "Recent"}
  /\ login \in BOOLEAN
  /\ sweepTimer \in BOOLEAN
  /\ refreshTimer \in BOOLEAN
  /\ refreshing \in [running : BOOLEAN, left : SUBSET Tiles, count : Nat]

(* The counter, the slots and the FLAG_ACTIVE bits tell the same story     *)
(* after any mix of completions, failures, timeouts and re-entrant starts: *)
(* NumOpenConnections counts the occupied slots (so the assertion that a   *)
(* slot is free holds), a tile is active exactly while a connection works  *)
(* for it, and no two connections work for the same tile.                  *)
ConnectionAccounting ==
  /\ tm.open = Cardinality({c \in Conns : tm.slot[c] # NoTile})
  /\ tm.active = {tm.slot[c] : c \in Conns} \ {NoTile}
  /\ \A c, d \in Conns : tm.slot[c] = tm.slot[d] /\ tm.slot[c] # NoTile => c = d

(* No connection is spent on a tile that is already up to date, although   *)
(* the queue may hold several requests for one tile.                       *)
NoRedundantDownload == tm.active \cap tm.uptodate = {}

(* The manager never waits for nothing: while it waits, either the login   *)
(* callback or the retry timer is registered to wake it up, and while the  *)
(* network is up the sweep that aborts silent transfers is running.        *)
NeverWedged ==
  /\ tm.status = "Waiting" => login \/ tm.retry
  /\ tm.status = "Active"  => sweepTimer

(* Requests with nothing to serve them: the network is up, the queue is    *)
(* not empty, and no connection is open.                                   *)
Stalled == tm.status = "Active" /\ tm.queue # <<>> /\ tm.open = 0

(* Completions, errors, requests and (re)starts all start the next tile;   *)
(* only the timeout sweep, which does not call load_next_tile, can leave   *)
(* the manager stalled.                                                    *)
OnlySweepStalls ==
  [][Stalled' => Stalled \/ \E c \in Conns : roadmap_tile_manager_check_timeouts(c)]_vars

Sorted(q) == \A i, j \in 1 .. Len(q) : i < j => q[i].priority >= q[j].priority

(* More urgent requests stay ahead of less urgent ones, whatever is        *)
(* inserted, replaced, requeued or taken; the one exception is a full      *)
(* queue, where a rejected request rotates the queue.                      *)
PriorityOrder ==
  [][Sorted(tm.queue) /\ Len(tm.queue) < MaxQueue => Sorted(tm.queue')]_vars

(* Tiles that are flagged as queued but are not in the queue: a request of *)
(* lower priority is refused for them although nothing will fetch them.    *)
Lost(m) == m.queued \ {m.queue[i].tile : i \in 1 .. Len(m.queue)}

(* A request is lost in this way only by a queue that was full.            *)
LostOnlyWhenFull ==
  [][Lost(tm') \subseteq Lost(tm) \/ Len(tm.queue) = MaxQueue]_vars

(* A stall does not last once a connection failure has installed the retry *)
(* timer.                                                                  *)
RetryEndsStall == (Stalled /\ tm.retry) ~> ~Stalled
=============================================================================
