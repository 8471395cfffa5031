-------------------------- MODULE NetConnectProofs --------------------------
(***************************************************************************)
(* Proofs about NetConnect, for any callers, retries and bounds.  The      *)
(* invariant is stated on a record, because the C functions call each      *)
(* other with the counter in states that the main loop never sees.         *)
(***************************************************************************)
EXTENDS NetConnect, FiniteSetTheorems, TLAPS

(***************************************************************************)
(* The invariant, in named parts.                                          *)
(***************************************************************************)

Typed(n) ==
  /\ n \in Net
  /\ n.due \subseteq n.overdue
  /\ n.overdue \subseteq Watched(n)

Counted(n) == n.connects = Cardinality(Pending(n)) - n.lost

Timed(n) == n.lost = 0 => (n.timer <=> Pending(n) # {})

Inv(n) == Typed(n) /\ Counted(n) /\ Timed(n)

IInv == Inv(net)

LEMMA PendingFinite ==
  ASSUME NEW n
  PROVE  IsFiniteSet(Pending(n)) /\ Cardinality(Pending(n)) \in Nat
<1>1. Pending(n) \subseteq Clients
  BY DEF Pending
<1>2. QED
  BY <1>1, NetConnectAssumption, FS_Subset, FS_CardinalityType

(* One connect more, one connect less.                                     *)
LEMMA PendingAdded ==
  ASSUME NEW n, NEW v, NEW c \in Clients, c \notin Pending(n),
         Pending(v) = Pending(n) \cup {c}
  PROVE  Cardinality(Pending(v)) = Cardinality(Pending(n)) + 1
BY PendingFinite, FS_AddElement

LEMMA PendingRemoved ==
  ASSUME NEW n, NEW v, NEW c \in Clients, c \in Pending(n),
         Pending(v) = Pending(n) \ {c}
  PROVE  /\ Cardinality(Pending(v)) = Cardinality(Pending(n)) - 1
         /\ Pending(v) = {} <=> Cardinality(Pending(n)) = 1
<1>1. Cardinality(Pending(v)) = Cardinality(Pending(n)) - 1
  BY PendingFinite, FS_RemoveElement
<1>2. Pending(v) = {} <=> Cardinality(Pending(v)) = 0
  BY PendingFinite, FS_EmptySet
<1>3. QED
  BY <1>1, <1>2, PendingFinite

(***************************************************************************)
(* The end of a connect.                                                   *)
(***************************************************************************)

Status(outcome) == IF outcome = "open" THEN "open" ELSE "idle"

(* What the caller c sees of a step.                                       *)
Shown(n, v, c, status, result) ==
  /\ v.status = [n.status EXCEPT ![c] = status]
  /\ v.result = [n.result EXCEPT ![c] = result]

(* What a callback leaves, when the connect of c was counted connects times *)
(* too few.                                                                *)
LEMMA CallbackProperties ==
  ASSUME NEW n, Typed(n), NEW c \in Clients, c \in Pending(n),
         n.depth \in 0 .. MaxDepth, NEW outcome \in {"open", "failed"},
         NEW v, v = connect_callback(roadmap_main_remove_input(n, c), c, outcome)
  PROVE  /\ Typed(v)
         /\ Shown(n, v, c, Status(outcome), outcome)
         /\ Pending(v) = Pending(n) \ {c}
         /\ v.connects = n.connects - 1
         /\ v.timer <=> n.timer /\ n.connects # 1
         /\ v.lost = n.lost
<1> DEFINE st == [n.status EXCEPT ![c] = Status(outcome)]
           rs == [n.result EXCEPT ![c] = outcome]
           tm == n.timer /\ n.connects # 1
<1>1. n \in Net /\ n.due \subseteq n.overdue /\ n.overdue \subseteq Watched(n)
  BY DEF Typed
<1>2. /\ st \in [Clients -> {"idle", "pending", "open", "sending"}]
      /\ rs \in [Clients -> {"none", "open", "failed"}]
      /\ tm \in BOOLEAN
      /\ n.depth + 1 \in 0 .. MaxDepth + 1
      /\ n.connects - 1 \in Int
  BY <1>1, NetConnectAssumption DEF Net, Status
<1>3. v = [n EXCEPT !.overdue = n.overdue \ {c}, !.due = n.due \ {c},
                    !.connects = n.connects - 1, !.timer = tm,
                    !.status = st, !.result = rs, !.depth = n.depth + 1]
  BY <1>1 DEF connect_callback, Decrement, roadmap_main_remove_input, Net, Status
<1>4. \A d \in Clients : /\ st[d] = "pending" <=> d # c /\ n.status[d] = "pending"
                         /\ d # c => st[d] = n.status[d]
  BY <1>1 DEF Net, Status
<1> HIDE DEF st, rs, tm
<1>5. /\ v \in Net /\ v.status = st /\ v.result = rs /\ v.timer = tm
      /\ v.connects = n.connects - 1 /\ v.lost = n.lost
      /\ v.overdue = n.overdue \ {c} /\ v.due = n.due \ {c}
  <2>1. n.overdue \ {c} \in SUBSET Clients /\ n.due \ {c} \in SUBSET Clients
    BY <1>1 DEF Net
  <2>2. QED
    BY <1>1, <1>2, <1>3, <2>1 DEF Net
<1>6. Pending(v) = Pending(n) \ {c} /\ Watched(n) \ {c} \subseteq Watched(v)
  BY <1>4, <1>5 DEF Pending, Watched
<1>7. Typed(v)
  BY <1>1, <1>5, <1>6 DEF Typed
<1>8. v.timer <=> n.timer /\ n.connects # 1
  BY <1>5 DEF tm
<1>9. QED
  BY <1>5, <1>6, <1>7, <1>8 DEF st, rs, Shown

(* The counter and the timer are right afterwards even if the timer was    *)
(* not yet set for this connect.                                           *)
LEMMA EndProperties ==
  ASSUME NEW n, Typed(n), Counted(n), NEW c \in Clients, c \in Pending(n),
         n.lost = 0 => (Pending(n) \ {c} # {} => n.timer),
         n.depth \in 0 .. MaxDepth, NEW outcome \in {"open", "failed"},
         NEW v, v = connect_callback(roadmap_main_remove_input(n, c), c, outcome)
  PROVE  Inv(v)
<1>1. /\ Typed(v) /\ Pending(v) = Pending(n) \ {c}
      /\ v.connects = n.connects - 1 /\ v.lost = n.lost
      /\ v.timer <=> n.timer /\ n.connects # 1
  BY CallbackProperties
<1>2. /\ Cardinality(Pending(v)) = Cardinality(Pending(n)) - 1
      /\ Pending(v) = {} <=> Cardinality(Pending(n)) = 1
  BY <1>1, PendingRemoved
<1>3. n.lost \in Nat /\ n.connects \in Int
  BY DEF Typed, Net
<1>4. Counted(v)
  BY <1>1, <1>2, <1>3, PendingFinite DEF Counted
<1>5. Timed(v)
  <2>1. SUFFICES ASSUME n.lost = 0 PROVE v.timer <=> Pending(v) # {}
    BY <1>1 DEF Timed
  <2>2. n.connects = Cardinality(Pending(n))
    BY <2>1, PendingFinite DEF Counted
  <2>3. QED
    BY <1>1, <1>2, <2>1, <2>2
<1>6. QED
  BY <1>1, <1>4, <1>5 DEF Inv

(* What is lost concerns neither the counter nor the timer.                *)
LEMMA LoseProperties ==
  ASSUME NEW n, NEW c \in Clients, NEW v, v = Lose(n, c), n \in Net
  PROVE  /\ Inv(n) => Inv(v)
         /\ Typed(n) => Typed(v)
         /\ v.status = n.status /\ v.result = n.result /\ v.connects = n.connects
         /\ v.lost = n.lost /\ v.timer = n.timer /\ Pending(v) = Pending(n)
<1>1. /\ v \in Net /\ v.status = n.status /\ v.result = n.result
      /\ v.connects = n.connects /\ v.lost = n.lost /\ v.timer = n.timer
      /\ v.due = n.due /\ v.overdue = n.overdue
  BY DEF Lose, Net
<1>2. Pending(v) = Pending(n) /\ Watched(v) = Watched(n)
  BY <1>1 DEF Pending, Watched
<1>3. QED
  BY <1>1, <1>2 DEF Inv, Typed, Counted, Timed

(* The same for every way in which the event of a socket ends.             *)
Ended(n, v, c) ==
  \E outcome \in {"open", "failed"} : Shown(n, v, c, Status(outcome), outcome)

LEMMA IoConnectProperties ==
  ASSUME NEW n, Typed(n), Counted(n), NEW c \in Clients, c \in Pending(n),
         n.lost = 0 => (Pending(n) \ {c} # {} => n.timer),
         n.depth \in 0 .. MaxDepth,
         NEW v \in io_connect_callback(n, c)
  PROVE  Inv(v) /\ Ended(n, v, c)
<1> DEFINE done(outcome) ==
             connect_callback(roadmap_main_remove_input(n, c), c, outcome)
<1>1. ASSUME NEW outcome \in {"open", "failed"}, NEW d, d = done(outcome)
      PROVE  Inv(d) /\ Ended(n, d, c) /\ d \in Net
  <2>1. Inv(d)
    BY <1>1, EndProperties
  <2>2. Shown(n, d, c, Status(outcome), outcome)
    BY <1>1, CallbackProperties
  <2>3. QED
    BY <2>1, <2>2 DEF Ended, Inv, Typed
<1>2. CASE v = done("open") \/ v = done("failed")
  BY <1>1, <1>2
<1>3. CASE v = Lose(done("failed"), c)
  <2>1. PICK d : d = done("failed")
    OBVIOUS
  <2>2. Inv(d) /\ Ended(n, d, c) /\ d \in Net /\ v = Lose(d, c)
    BY <1>1, <1>3, <2>1
  <2>3. Inv(v) /\ v.status = d.status /\ v.result = d.result
    BY <2>2, LoseProperties
  <2>4. QED
    BY <2>2, <2>3 DEF Ended, Shown
<1>4. QED
  BY <1>2, <1>3 DEF io_connect_callback

(***************************************************************************)
(* The start of a connect: w is the record with the new watch, before the  *)
(* timer is looked at.                                                     *)
(***************************************************************************)

WithWatch(n, c, retries) ==
  [n EXCEPT !.connects = @ + 1, !.status[c] = "pending", !.retries[c] = retries]

LEMMA CreateProperties ==
  ASSUME NEW n, NEW c \in Clients, NEW retries,
         NEW w, w = WithWatch(n, c, retries), Typed(w), Counted(w), c \in Pending(w),
         w.lost = 0 => (Pending(w) \ {c} # {} => w.timer),
         n.depth = w.depth,
         NEW v \in create_async_connection(n, c, retries)
  PROVE  /\ Inv(v)
         /\ \/ v.status = w.status /\ v.result = w.result
            \/ Ended(w, v, c)
<1>1. \/ v = [w EXCEPT !.timer = @ \/ w.connects = 1]
      \/ v \in io_connect_callback(w, c) /\ n.depth < MaxDepth
  BY DEF create_async_connection, WithWatch
<1>2. CASE v \in io_connect_callback(w, c) /\ n.depth < MaxDepth
  <2>1. w.depth \in 0 .. MaxDepth
    BY <1>2, NetConnectAssumption DEF Typed, Net
  <2>2. QED
    BY <1>2, <2>1, IoConnectProperties
<1>3. CASE v = [w EXCEPT !.timer = @ \/ w.connects = 1]
  <2> DEFINE tm == w.timer \/ w.connects = 1
  <2>1. w \in Net /\ tm \in BOOLEAN /\ v = [w EXCEPT !.timer = tm]
    BY <1>3 DEF Typed, Net
  <2> HIDE DEF tm
  <2>2. /\ v \in Net /\ v.timer = tm /\ v.connects = w.connects /\ v.lost = w.lost
        /\ v.status = w.status /\ v.result = w.result
        /\ v.due = w.due /\ v.overdue = w.overdue
    BY <2>1 DEF Net
  <2>3. Pending(v) = Pending(w) /\ Watched(v) = Watched(w)
    BY <2>2 DEF Pending, Watched
  <2>4. Typed(v)
    BY <2>2, <2>3 DEF Typed
  <2>5. Counted(v)
    BY <2>2, <2>3 DEF Counted
  <2>6. Timed(v)
    <3>1. SUFFICES ASSUME w.lost = 0 PROVE v.timer
      BY <2>2, <2>3 DEF Timed
    <3>2. w.connects = Cardinality(Pending(w))
      BY <3>1, PendingFinite DEF Counted
    <3>3. Pending(w) \ {c} = {} => Cardinality(Pending(w)) = 1
      <4>1. Pending(w) \ {c} = {} => Pending(w) = {c}
        OBVIOUS
      <4>2. QED
        BY <4>1, FS_Singleton
    <3>4. tm
      BY <3>1, <3>2, <3>3 DEF tm
    <3>5. QED
      BY <2>2, <3>4
  <2>7. QED
    BY <2>2, <2>4, <2>5, <2>6 DEF Inv
<1>4. QED
  BY <1>1, <1>2, <1>3

(***************************************************************************)
(* The steps: each keeps the invariant, and is a step of AsyncConnect or   *)
(* none.                                                                   *)
(***************************************************************************)

(* Two changes of what a caller sees are the second one.                   *)
LEMMA ShownTwice ==
  ASSUME NEW n, n \in Net, NEW w, NEW v, NEW c \in Clients,
         NEW s, NEW r, NEW t, NEW q,
         Shown(n, w, c, s, r), Shown(w, v, c, t, q)
  PROVE  Shown(n, v, c, t, q)
BY DEF Shown, Net

(* What the callers see is what AsyncConnect is told.                      *)
LEMMA SeenOf ==
  ASSUME NEW c \in Clients, net \in Net, NEW s, NEW r, s # "sending",
         Shown(net, net', c, s, r)
  PROVE  /\ Seen(net'.status) = [Seen(net.status) EXCEPT ![c] = s]
         /\ net'.result = [net.result EXCEPT ![c] = r]
         /\ net.status[c] # "sending" => Seen(net.status)[c] = net.status[c]
<1>1. net.status \in [Clients -> {"idle", "pending", "open", "sending"}]
  BY DEF Net
<1>2. net'.status = [net.status EXCEPT ![c] = s] /\ net'.result = [net.result EXCEPT ![c] = r]
  BY DEF Shown
<1>3. QED
  BY <1>1, <1>2 DEF Seen

LEMMA ConnectStep ==
  ASSUME IInv, NEW c \in Clients, roadmap_net_connect_async(c)
  PROVE  Inv(net') /\ (Async!Next \/ UNCHANGED Async!vars)
<1> DEFINE rs == [net.result EXCEPT ![c] = "none"]
           st == [net.status EXCEPT ![c] = "pending"]
           rt == [net.retries EXCEPT ![c] = 0]
           n  == [net EXCEPT !.result = rs]
           w  == WithWatch(n, c, 0)
<1>1. /\ net \in Net /\ Typed(net) /\ Counted(net) /\ Timed(net) /\ net.status[c] = "idle"
      /\ net.depth \in 0 .. MaxDepth + 1
  BY DEF IInv, Inv, Typed, roadmap_net_connect_async, Net
<1>2. net' \in create_async_connection(n, c, 0)
  <2>1. n = [net EXCEPT !.result[c] = "none"]
    BY <1>1 DEF Net
  <2>2. QED
    BY <2>1 DEF roadmap_net_connect_async
<1>3. /\ rs \in [Clients -> {"none", "open", "failed"}]
      /\ st \in [Clients -> {"idle", "pending", "open", "sending"}]
      /\ rt \in [Clients -> 0 .. MaxRetries]
      /\ net.connects + 1 \in Int
  BY <1>1, NetConnectAssumption DEF Net
<1>4. \A d \in Clients : /\ st[d] = "pending" <=> d = c \/ net.status[d] = "pending"
                         /\ st[d] = "sending" <=> net.status[d] = "sending"
  BY <1>1 DEF Net
<1>5. w = [net EXCEPT !.result = rs, !.connects = net.connects + 1, !.status = st,
                      !.retries = rt]
  BY <1>1 DEF WithWatch, Net
<1>6. n.depth = net.depth
  BY <1>1 DEF Net
<1> HIDE DEF n, w
<1>7. Shown(net, w, c, "pending", "none") /\ w.status = st /\ w.result = rs
  BY <1>1, <1>5 DEF Shown, Net
<1> HIDE DEF rs, st, rt
<1>8. /\ w \in Net /\ w.connects = net.connects + 1 /\ w.lost = net.lost
      /\ w.due = net.due /\ w.overdue = net.overdue /\ w.depth = net.depth
      /\ w.timer = net.timer
  BY <1>1, <1>3, <1>5 DEF Net
<1>9. /\ Pending(w) = Pending(net) \cup {c} /\ c \notin Pending(net)
      /\ Watched(net) \subseteq Watched(w)
  BY <1>1, <1>4, <1>7 DEF Pending, Watched
<1>10. Typed(w)
  BY <1>1, <1>8, <1>9 DEF Typed
<1>11. Counted(w)
  <2>1. net.lost \in Nat /\ net.connects \in Int
    BY <1>1 DEF Net
  <2>2. QED
    BY <1>1, <1>8, <1>9, <2>1, PendingAdded, PendingFinite DEF Counted
<1>12. w.lost = 0 => (Pending(w) \ {c} # {} => w.timer)
  <2>1. Pending(w) \ {c} = Pending(net)
    BY <1>9
  <2>2. QED
    BY <1>1, <1>8, <2>1 DEF Timed
<1>13. /\ Inv(net')
       /\ \/ net'.status = w.status /\ net'.result = w.result
          \/ Ended(w, net', c)
  <2>1. ASSUME NEW v \in create_async_connection(n, c, 0)
        PROVE  /\ Inv(v)
               /\ \/ v.status = w.status /\ v.result = w.result
                  \/ Ended(w, v, c)
    BY <1>6, <1>8, <1>9, <1>10, <1>11, <1>12, CreateProperties DEF w
  <2>2. QED
    BY <1>2, <2>1
<1>14. CASE net'.status = w.status /\ net'.result = w.result
  <2>1. Shown(net, net', c, "pending", "none")
    BY <1>7, <1>14 DEF Shown
  <2>2. Async!Connect(c)
    BY <1>1, <2>1, SeenOf DEF Async!Connect
  <2>3. QED
    BY <1>13, <2>2 DEF Async!Next
<1>15. CASE Ended(w, net', c)
  <2>1. PICK o \in {"open", "failed"} : Shown(net, net', c, Status(o), o)
    BY <1>1, <1>7, <1>15, ShownTwice DEF Ended
  <2>2. [Seen(net.status) EXCEPT ![c] = "idle"] = Seen(net.status)
    BY <1>1 DEF Seen
  <2>3. Async!ConnectAtOnce(c)
    BY <1>1, <2>1, <2>2, SeenOf DEF Async!ConnectAtOnce, Status
  <2>4. QED
    BY <1>13, <2>3 DEF Async!Next
<1>16. QED
  BY <1>13, <1>14, <1>15

LEMMA CancelStep ==
  ASSUME IInv, NEW c \in Clients, roadmap_net_cancel_connect(c)
  PROVE  Inv(net') /\ (Async!Next \/ UNCHANGED Async!vars)
<1> DEFINE st == [net.status EXCEPT ![c] = "idle"]
           tm == net.timer /\ net.connects # 1
<1>1. /\ net \in Net /\ Typed(net) /\ Counted(net) /\ Timed(net)
      /\ net.status[c] = "pending" /\ c \in Pending(net)
  BY DEF IInv, Inv, Typed, roadmap_net_cancel_connect, Pending
<1>2. net' = [net EXCEPT !.overdue = net.overdue \ {c}, !.due = net.due \ {c},
                         !.connects = net.connects - 1, !.timer = tm, !.status = st]
  BY <1>1 DEF roadmap_net_cancel_connect, Decrement, roadmap_main_remove_input, Net
<1>3. /\ st \in [Clients -> {"idle", "pending", "open", "sending"}] /\ tm \in BOOLEAN
      /\ net.connects - 1 \in Int
      /\ net.overdue \ {c} \in SUBSET Clients /\ net.due \ {c} \in SUBSET Clients
  BY <1>1 DEF Net
<1>4. \A d \in Clients : /\ st[d] = "pending" <=> d # c /\ net.status[d] = "pending"
                         /\ d # c => st[d] = net.status[d]
  BY <1>1 DEF Net
<1> HIDE DEF st, tm
<1>5. /\ net' \in Net /\ net'.status = st /\ net'.result = net.result
      /\ net'.timer = tm /\ net'.connects = net.connects - 1 /\ net'.lost = net.lost
      /\ net'.overdue = net.overdue \ {c} /\ net'.due = net.due \ {c}
  BY <1>1, <1>2, <1>3 DEF Net
<1>6. PICK v : v = net'
  OBVIOUS
<1>7. Pending(v) = Pending(net) \ {c} /\ Watched(net) \ {c} \subseteq Watched(v)
  BY <1>4, <1>5, <1>6 DEF Pending, Watched
<1>8. Typed(v)
  BY <1>1, <1>5, <1>6, <1>7 DEF Typed
<1>9. /\ Cardinality(Pending(v)) = Cardinality(Pending(net)) - 1
      /\ Pending(v) = {} <=> Cardinality(Pending(net)) = 1
  BY <1>1, <1>7, PendingRemoved
<1>10. net.lost \in Nat /\ net.connects \in Int
  BY <1>1 DEF Net
<1>11. Counted(v)
  BY <1>1, <1>5, <1>6, <1>9, <1>10, PendingFinite DEF Counted
<1>12. Timed(v)
  <2>1. SUFFICES ASSUME net.lost = 0 PROVE v.timer <=> Pending(v) # {}
    BY <1>5, <1>6 DEF Timed
  <2>2. net.connects = Cardinality(Pending(net)) /\ net.timer
    BY <1>1, <2>1, PendingFinite DEF Counted, Timed
  <2>3. v.timer <=> net.connects # 1
    BY <1>5, <1>6, <2>2 DEF tm
  <2>4. QED
    BY <1>9, <2>2, <2>3
<1>13. Async!Cancel(c)
  <2>1. Seen(net'.status) = [Seen(net.status) EXCEPT ![c] = "idle"]
    BY <1>1, <1>5 DEF Seen, st, Net
  <2>2. QED
    BY <1>1, <1>5, <2>1 DEF Async!Cancel, Seen
<1>14. QED
  BY <1>6, <1>8, <1>11, <1>12, <1>13 DEF Inv, Async!Next

(* Steps that touch neither the counter nor the pending connects.          *)
LEMMA QuietStep ==
  ASSUME IInv, net' \in Net, net'.connects = net.connects, net'.lost = net.lost,
         net'.timer = net.timer,
         \A c \in Clients : net'.status[c] = "pending" <=> net.status[c] = "pending",
         net'.due \subseteq net'.overdue,
         \A c \in net'.overdue : net'.status[c] \in {"pending", "sending"}
  PROVE  Inv(net')
<1>1. PICK v : v = net'
  OBVIOUS
<1>2. Pending(v) = Pending(net)
  BY <1>1 DEF Pending
<1>3. v.overdue \subseteq Clients
  BY <1>1 DEF Net
<1>4. v.overdue \subseteq Watched(v)
  BY <1>1, <1>3 DEF Watched
<1>5. QED
  BY <1>1, <1>2, <1>4 DEF IInv, Inv, Typed, Counted, Timed

(* Steps of a connected client: close, start an upload, end it.            *)
LEMMA ConnectedStep ==
  ASSUME IInv, NEW c \in Clients,
         \/ roadmap_net_close(c) \/ roadmap_http_async_prepare_output(c)
         \/ roadmap_http_async_copy_abort(c)
         \/ net.status[c] = "sending" /\ net' = Sent(net, c)
  PROVE  Inv(net') /\ (Async!Next \/ UNCHANGED Async!vars)
<1>1. /\ net \in Net /\ net.due \subseteq net.overdue
      /\ net.overdue \subseteq Watched(net)
  BY DEF IInv, Inv, Typed
<1>2. PICK s \in {"idle", "open", "sending"} :
        /\ net.status[c] \in {"open", "sending"}
        /\ s = "sending" => net.status[c] = "open"
        /\ \/ net' = [net EXCEPT !.status[c] = s] /\ net.status[c] = "open"
           \/ net' = [roadmap_main_remove_input(net, c) EXCEPT !.status[c] = s]
  BY DEF roadmap_net_close, roadmap_http_async_prepare_output,
         roadmap_http_async_copy_abort, Sent
<1> DEFINE st == [net.status EXCEPT ![c] = s]
<1>3. /\ st \in [Clients -> {"idle", "pending", "open", "sending"}]
      /\ \A d \in Clients : st[d] = "pending" <=> net.status[d] = "pending"
      /\ \A d \in Clients : d # c => st[d] = net.status[d]
  BY <1>1, <1>2 DEF Net
<1>4. PICK o, d : /\ net' = [net EXCEPT !.status = st, !.overdue = o, !.due = d]
                  /\ o \in SUBSET Clients /\ d \in SUBSET Clients /\ d \subseteq o
                  /\ o \subseteq Watched(net) \ {c}
  <2>1. CASE net' = [net EXCEPT !.status[c] = s] /\ net.status[c] = "open"
    <3>1. c \notin net.overdue
      BY <1>1, <2>1 DEF Watched
    <3>2. net' = [net EXCEPT !.status = st, !.overdue = net.overdue, !.due = net.due]
      BY <1>1, <2>1 DEF Net
    <3>3. net.overdue \in SUBSET Clients /\ net.due \in SUBSET Clients
      BY <1>1 DEF Net
    <3>4. WITNESS net.overdue, net.due
    <3>5. QED
      BY <1>1, <3>1, <3>2, <3>3
  <2>2. CASE net' = [roadmap_main_remove_input(net, c) EXCEPT !.status[c] = s]
    <3>1. net' = [net EXCEPT !.status = st, !.overdue = net.overdue \ {c},
                             !.due = net.due \ {c}]
      BY <1>1, <2>2 DEF roadmap_main_remove_input, Net
    <3>2. net.overdue \ {c} \in SUBSET Clients /\ net.due \ {c} \in SUBSET Clients
      BY <1>1 DEF Net
    <3>3. /\ net.due \ {c} \subseteq net.overdue \ {c}
          /\ net.overdue \ {c} \subseteq Watched(net) \ {c}
      BY <1>1
    <3>4. WITNESS net.overdue \ {c}, net.due \ {c}
    <3>5. QED
      BY <3>1, <3>2, <3>3
  <2>3. QED
    BY <1>2, <2>1, <2>2
<1> HIDE DEF st
<1>5. /\ net' \in Net /\ net'.status = st /\ net'.result = net.result
      /\ net'.timer = net.timer /\ net'.connects = net.connects /\ net'.lost = net.lost
      /\ net'.overdue = o /\ net'.due = d
  BY <1>1, <1>3, <1>4 DEF Net
<1>6. Inv(net')
  <2>1. \A e \in o : st[e] \in {"pending", "sending"}
    BY <1>3, <1>4 DEF Watched
  <2>2. QED
    BY <1>3, <1>4, <1>5, <2>1, QuietStep
<1>7. Async!Next \/ UNCHANGED Async!vars
  <2>1. net.status \in [Clients -> {"idle", "pending", "open", "sending"}]
    BY <1>1 DEF Net
  <2>2. CASE s = "idle"
    <3>1. Seen(st) = [Seen(net.status) EXCEPT ![c] = "idle"] /\ Seen(net.status)[c] = "open"
      BY <1>2, <2>1, <2>2 DEF Seen, st
    <3>2. Async!Close(c)
      BY <1>5, <3>1 DEF Async!Close
    <3>3. QED
      BY <3>2 DEF Async!Next
  <2>3. CASE s \in {"open", "sending"}
    <3>1. Seen(st) = Seen(net.status)
      BY <1>2, <2>1, <2>3 DEF Seen, st
    <3>2. QED
      BY <1>5, <3>1 DEF Async!vars
  <2>4. QED
    BY <1>2, <2>2, <2>3
<1>8. QED
  BY <1>6, <1>7

(* An upload goes on, or fails: the client sees its socket closed.         *)
LEMMA UploadStep ==
  ASSUME IInv, NEW c \in Clients, roadmap_http_async_write_cb(c)
  PROVE  Inv(net') /\ (Async!Next \/ UNCHANGED Async!vars)
<1>1. /\ net \in Net /\ net.due \subseteq net.overdue
      /\ net.overdue \subseteq Watched(net)
      /\ net.status[c] = "sending" /\ net.depth + 1 \in 0 .. MaxDepth + 1
  BY NetConnectAssumption DEF IInv, Inv, Typed, roadmap_http_async_write_cb, MainLoop, Net
<1>2. CASE net' = Sent(net, c)
  BY <1>1, <1>2, ConnectedStep
<1>3. CASE net' = [net EXCEPT !.depth = @ + 1]
  <2>1. /\ net' \in Net /\ net'.status = net.status /\ net'.result = net.result
        /\ net'.timer = net.timer /\ net'.connects = net.connects /\ net'.lost = net.lost
        /\ net'.overdue = net.overdue /\ net'.due = net.due
    BY <1>1, <1>3 DEF Net
  <2>2. Inv(net')
    BY <1>1, <2>1, QuietStep DEF Watched
  <2>3. QED
    BY <2>1, <2>2 DEF Async!vars
<1>4. CASE net' = UploadFails(net, c)
  <2> DEFINE st == [net.status EXCEPT ![c] = "idle"]
             o  == net.overdue \ {c}
             d  == net.due \ {c}
             t  == net.stale \cup {c}
  <2>1. /\ st \in [Clients -> {"idle", "pending", "open", "sending"}]
        /\ o \in SUBSET Clients /\ d \in SUBSET Clients /\ t \in SUBSET Clients
        /\ \A e \in Clients : st[e] = "pending" <=> net.status[e] = "pending"
        /\ \A e \in Clients : e # c => st[e] = net.status[e]
        /\ d \subseteq o
    BY <1>1 DEF Net
  <2>2. net' = [net EXCEPT !.overdue = o, !.due = d, !.stale = t, !.status = st,
                           !.depth = net.depth + 1]
    BY <1>1, <1>4 DEF UploadFails, Net
  <2>3. \A e \in o : st[e] \in {"pending", "sending"}
    BY <1>1, <2>1 DEF Watched
  <2>4. /\ Seen(st) = [Seen(net.status) EXCEPT ![c] = "idle"]
        /\ Seen(net.status)[c] = "open"
    BY <1>1 DEF Seen, Net
  <2> HIDE DEF st, o, d, t
  <2>5. /\ net' \in Net /\ net'.status = st /\ net'.result = net.result
        /\ net'.timer = net.timer /\ net'.connects = net.connects /\ net'.lost = net.lost
        /\ net'.overdue = o /\ net'.due = d
    BY <1>1, <2>1, <2>2 DEF Net
  <2>6. Inv(net')
    BY <2>1, <2>3, <2>5, QuietStep
  <2>7. Async!Close(c)
    BY <2>4, <2>5 DEF Async!Close
  <2>8. QED
    BY <2>6, <2>7 DEF Async!Next
<1>5. QED
  BY <1>2, <1>3, <1>4 DEF roadmap_http_async_write_cb

LEMMA AgeStep ==
  ASSUME IInv, NEW c \in Clients, Age(c)
  PROVE  Inv(net') /\ (Async!Next \/ UNCHANGED Async!vars)
<1>1. /\ net \in Net /\ net.status[c] \in {"pending", "sending"}
      /\ net' = [net EXCEPT !.overdue = net.overdue \cup {c}]
      /\ net.due \subseteq net.overdue /\ net.overdue \subseteq Watched(net)
      /\ net.overdue \cup {c} \in SUBSET Clients
  BY DEF IInv, Inv, Typed, Age, Net, Pending, Watched
<1>2. /\ net' \in Net /\ net'.status = net.status /\ net'.result = net.result
      /\ net'.timer = net.timer /\ net'.connects = net.connects /\ net'.lost = net.lost
      /\ net'.overdue = net.overdue \cup {c} /\ net'.due = net.due
  BY <1>1 DEF Net
<1>3. Inv(net')
  BY <1>1, <1>2, QuietStep DEF Watched
<1>4. QED
  BY <1>2, <1>3 DEF Async!vars

LEMMA ReturnStep ==
  ASSUME IInv, callback_returns
  PROVE  Inv(net') /\ (Async!Next \/ UNCHANGED Async!vars)
<1>1. /\ net \in Net /\ net' = [net EXCEPT !.depth = net.depth - 1]
      /\ net.due \subseteq net.overdue /\ net.overdue \subseteq Watched(net)
      /\ net.depth - 1 \in 0 .. MaxDepth + 1
  BY NetConnectAssumption DEF IInv, Inv, Typed, callback_returns, Net
<1>2. /\ net' \in Net /\ net'.status = net.status /\ net'.result = net.result
      /\ net'.timer = net.timer /\ net'.connects = net.connects /\ net'.lost = net.lost
      /\ net'.overdue = net.overdue /\ net'.due = net.due
  BY <1>1 DEF Net
<1>3. Inv(net')
  BY <1>1, <1>2, QuietStep DEF Watched
<1>4. QED
  BY <1>2, <1>3 DEF Async!vars

LEMMA SweepStep ==
  ASSUME IInv, check_connect_timeout \/ sweep_ends
  PROVE  Inv(net') /\ (Async!Next \/ UNCHANGED Async!vars)
<1>1. /\ net \in Net /\ net.due \subseteq net.overdue /\ net.overdue \subseteq Watched(net)
  BY DEF IInv, Inv, Typed
<1>2. /\ net' \in Net /\ net'.status = net.status /\ net'.result = net.result
      /\ net'.timer = net.timer /\ net'.connects = net.connects /\ net'.lost = net.lost
      /\ net'.overdue = net.overdue /\ net'.due \in {net.due, net.overdue}
  <2>1. CASE check_connect_timeout
    BY <1>1, <2>1 DEF Net, check_connect_timeout
  <2>2. CASE sweep_ends
    BY <1>1, <2>2 DEF Net, sweep_ends
  <2>3. QED
    BY <2>1, <2>2
<1>3. Inv(net')
  BY <1>1, <1>2, QuietStep DEF Watched
<1>4. QED
  BY <1>2, <1>3 DEF Async!vars

(* A pending connect that ends is answered.                                *)
LEMMA AnswerStep ==
  ASSUME NEW c \in Clients, net \in Net, net.status[c] = "pending", Ended(net, net', c)
  PROVE  Async!Next
<1>1. PICK o \in {"open", "failed"} : Shown(net, net', c, Status(o), o)
  BY DEF Ended
<1>2. Async!Answer(c)
  BY <1>1, SeenOf DEF Async!Answer, Status
<1>3. QED
  BY <1>2 DEF Async!Next

LEMMA IoEventProperties ==
  ASSUME IInv, NEW c \in Clients, net.status[c] = "pending", net.depth = 0,
         net' \in io_connect_callback(net, c)
  PROVE  Inv(net') /\ (Async!Next \/ UNCHANGED Async!vars)
<1>1. /\ Typed(net) /\ Counted(net) /\ Timed(net) /\ c \in Pending(net)
      /\ net.depth \in 0 .. MaxDepth /\ net \in Net
  BY NetConnectAssumption DEF IInv, Inv, Pending, Typed
<1>2. net.lost = 0 => (Pending(net) \ {c} # {} => net.timer)
  BY <1>1 DEF Timed
<1>3. Inv(net') /\ Ended(net, net', c)
  <2>1. ASSUME NEW v \in io_connect_callback(net, c)
        PROVE  Inv(v) /\ Ended(net, v, c)
    BY <1>1, <1>2, IoConnectProperties
  <2>2. QED
    BY <2>1
<1>4. QED
  BY <1>1, <1>3, AnswerStep

(* A reconnect keeps the place of its connect in the counter; one that     *)
(* fails is counted off a second time, and remembered as lost.             *)
LEMMA ReconnectProperties ==
  ASSUME IInv, NEW c \in Clients, net.status[c] = "pending", net.depth = 0,
         net.retries[c] < MaxRetries,
         net' \in Reconnect(roadmap_main_remove_input(net, c), c)
  PROVE  Inv(net') /\ (Async!Next \/ UNCHANGED Async!vars)
<1> DEFINE m  == [net EXCEPT !.connects = net.connects - 1]
           n  == roadmap_main_remove_input(m, c)
           rt == [net.retries EXCEPT ![c] = net.retries[c] + 1]
           w  == WithWatch(n, c, net.retries[c] + 1)
           d  == connect_callback(n, c, "failed")
<1>1. /\ net \in Net /\ Typed(net) /\ Counted(net) /\ Timed(net) /\ c \in Pending(net)
      /\ net.lost \in Nat /\ net.connects \in Int
  BY DEF IInv, Inv, Typed, Net, Pending
<1>2. n = [roadmap_main_remove_input(net, c) EXCEPT !.connects = @ - 1]
  BY <1>1 DEF roadmap_main_remove_input, Net
<1>3. roadmap_main_remove_input(net, c).retries = net.retries
  BY <1>1 DEF roadmap_main_remove_input, Net
<1>4. roadmap_main_remove_input(net, c).lost = net.lost
  BY <1>1 DEF roadmap_main_remove_input, Net
<1>5. \/ net' \in create_async_connection(n, c, net.retries[c] + 1)
      \/ net.lost < MaxLost /\ net' = [d EXCEPT !.lost = @ + 1]
      \/ net.lost < MaxLost /\ net' = [Lose(d, c) EXCEPT !.lost = @ + 1]
  BY <1>2, <1>3, <1>4 DEF Reconnect
<1>6. CASE net' \in create_async_connection(n, c, net.retries[c] + 1)
  <2>1. rt \in [Clients -> 0 .. MaxRetries]
    <3>1. net.retries[c] + 1 \in 0 .. MaxRetries
      BY <1>1, NetConnectAssumption DEF Net
    <3>2. QED
      BY <1>1, <3>1 DEF Net
  <2>2. w = [net EXCEPT !.overdue = net.overdue \ {c}, !.due = net.due \ {c},
                        !.retries = rt]
    <3>1. net.connects - 1 + 1 = net.connects
      BY <1>1
    <3>2. [net.status EXCEPT ![c] = "pending"] = net.status
      BY <1>1 DEF Net
    <3>3. QED
      BY <1>1, <3>1, <3>2 DEF roadmap_main_remove_input, WithWatch, Net
  <2>3. n.depth = net.depth
    BY <1>1 DEF roadmap_main_remove_input, Net
  <2>4. net.overdue \ {c} \in SUBSET Clients /\ net.due \ {c} \in SUBSET Clients
    BY <1>1 DEF Net
  <2> HIDE DEF rt, n, w, m
  <2>5. /\ w \in Net /\ w.connects = net.connects /\ w.lost = net.lost
        /\ w.status = net.status /\ w.result = net.result
        /\ w.due = net.due \ {c} /\ w.overdue = net.overdue \ {c}
        /\ w.timer = net.timer /\ w.depth = net.depth
    BY <1>1, <2>1, <2>2, <2>4 DEF Net
  <2>6. Pending(w) = Pending(net) /\ Watched(w) = Watched(net)
    BY <2>5 DEF Pending, Watched
  <2>7. Typed(w) /\ Counted(w) /\ c \in Pending(w)
    BY <1>1, <2>5, <2>6 DEF Typed, Counted
  <2>8. w.lost = 0 => (Pending(w) \ {c} # {} => w.timer)
    BY <1>1, <2>5, <2>6 DEF Timed
  <2>9. w.depth \in 0 .. MaxDepth /\ n.depth = w.depth
    BY <2>3, <2>5, NetConnectAssumption
  <2>10. /\ Inv(net')
         /\ \/ net'.status = w.status /\ net'.result = w.result
            \/ Ended(w, net', c)
    <3>1. ASSUME NEW v \in create_async_connection(n, c, net.retries[c] + 1)
          PROVE  /\ Inv(v)
                 /\ \/ v.status = w.status /\ v.result = w.result
                    \/ Ended(w, v, c)
      BY <2>7, <2>8, <2>9, CreateProperties DEF w
    <3>2. QED
      BY <1>6, <3>1
  <2>11. CASE net'.status = w.status /\ net'.result = w.result
    BY <2>5, <2>10, <2>11 DEF Async!vars
  <2>12. CASE Ended(w, net', c)
    <3>1. Ended(net, net', c)
      BY <2>5, <2>12 DEF Ended, Shown
    <3>2. QED
      BY <1>1, <2>10, <3>1, AnswerStep
  <2>13. QED
    BY <2>10, <2>11, <2>12
<1>7. ASSUME NEW e \in {d, Lose(d, c)}, net.lost < MaxLost,
             net' = [e EXCEPT !.lost = @ + 1]
      PROVE  Inv(net') /\ (Async!Next \/ UNCHANGED Async!vars)
  <2>1. /\ m \in Net /\ m.status = net.status /\ m.result = net.result
        /\ m.connects = net.connects - 1 /\ m.lost = net.lost /\ m.depth = net.depth
        /\ m.due = net.due /\ m.overdue = net.overdue
    BY <1>1 DEF Net
  <2> HIDE DEF m
  <2>2. Pending(m) = Pending(net) /\ Typed(m) /\ m.depth \in 0 .. MaxDepth
    BY <1>1, <2>1, NetConnectAssumption DEF Typed, Pending, Watched
  <2>3. PICK f : f = d
    OBVIOUS
  <2>4. /\ Typed(f) /\ Shown(m, f, c, "idle", "failed")
        /\ Pending(f) = Pending(net) \ {c} /\ f.connects = net.connects - 1 - 1
        /\ f.lost = net.lost
    <3>1. "failed" \in {"open", "failed"} /\ Status("failed") = "idle"
      BY DEF Status
    <3>2. /\ Typed(f) /\ Shown(m, f, c, Status("failed"), "failed")
          /\ Pending(f) = Pending(m) \ {c} /\ f.connects = m.connects - 1
          /\ f.lost = m.lost
      BY <1>1, <2>2, <2>3, <3>1, CallbackProperties
    <3>3. QED
      BY <2>1, <2>2, <3>1, <3>2
  <2>5. /\ Typed(e) /\ e.status = f.status /\ e.result = f.result
        /\ Pending(e) = Pending(f) /\ e.connects = f.connects /\ e.lost = f.lost
    <3>1. f \in Net
      BY <2>4 DEF Typed
    <3>2. CASE e = f
      BY <2>4, <3>2
    <3>3. CASE e = Lose(f, c)
      BY <2>4, <3>1, <3>3, LoseProperties
    <3>4. QED
      BY <1>7, <2>3, <3>2, <3>3
  <2> HIDE DEF d
  <2>6. e \in Net /\ net.lost + 1 \in 0 .. MaxLost /\ net.lost + 1 # 0
    BY <1>1, <1>7, <2>5, NetConnectAssumption DEF Typed
  <2>7. PICK v : v = net'
    OBVIOUS
  <2>8. /\ v \in Net /\ v.lost = net.lost + 1 /\ v.connects = net.connects - 1 - 1
        /\ v.status = f.status /\ v.result = f.result
        /\ v.due = e.due /\ v.overdue = e.overdue
    BY <1>7, <2>4, <2>5, <2>6, <2>7 DEF Net
  <2>9. Pending(v) = Pending(net) \ {c} /\ Watched(v) = Watched(e)
    BY <2>4, <2>5, <2>8 DEF Pending, Watched
  <2>10. Typed(v)
    BY <2>5, <2>8, <2>9 DEF Typed
  <2>11. Counted(v)
    <3>1. Cardinality(Pending(v)) = Cardinality(Pending(net)) - 1
      BY <1>1, <2>9, PendingRemoved
    <3>2. QED
      BY <1>1, <2>8, <3>1, PendingFinite DEF Counted
  <2>12. Timed(v)
    BY <2>6, <2>8 DEF Timed
  <2>13. Ended(net, net', c)
    <3>1. Shown(net, v, c, Status("failed"), "failed")
      BY <2>1, <2>4, <2>8 DEF Shown, Status
    <3>2. QED
      BY <2>7, <3>1 DEF Ended
  <2>14. QED
    BY <1>1, <2>7, <2>10, <2>11, <2>12, <2>13, AnswerStep DEF Inv
<1>8. QED
  BY <1>5, <1>6, <1>7

LEMMA TimedOutStep ==
  ASSUME IInv, NEW c \in Clients, timed_out(c)
  PROVE  Inv(net') /\ (Async!Next \/ UNCHANGED Async!vars)
<1> DEFINE n == roadmap_main_remove_input(net, c)
<1>1. net \in Net /\ c \in net.due /\ net.depth = 0 /\ net.status[c] = "pending"
  BY DEF IInv, Inv, Typed, timed_out
<1>2. n.retries[c] = net.retries[c]
  BY <1>1 DEF roadmap_main_remove_input, Net
<1>3. CASE net.retries[c] < MaxRetries
  <2>1. net' \in Reconnect(n, c)
    BY <1>2, <1>3 DEF timed_out
  <2>2. QED
    BY <1>1, <1>3, <2>1, ReconnectProperties
<1>4. CASE ~(net.retries[c] < MaxRetries)
  <2>1. net' = Lose(connect_callback(n, c, "failed"), c)
    BY <1>2, <1>4 DEF timed_out
  <2>2. net' \in io_connect_callback(net, c)
    BY <2>1 DEF io_connect_callback
  <2>3. QED
    BY <1>1, <2>2, IoEventProperties
<1>5. QED
  BY <1>3, <1>4

LEMMA InitIInv == Init => IInv
<1> SUFFICES ASSUME Init PROVE IInv
  OBVIOUS
<1>1. /\ net \in Net /\ net.due = {} /\ net.overdue = {} /\ net.connects = 0
      /\ net.lost = 0 /\ net.timer = FALSE /\ \A c \in Clients : net.status[c] = "idle"
  <2>1. 0 \in 0 .. MaxRetries /\ 0 \in 0 .. MaxDepth + 1 /\ 0 \in 0 .. MaxLost
    BY NetConnectAssumption
  <2>2. QED
    BY <2>1 DEF Init, Net
<1>2. Pending(net) = {}
  BY <1>1 DEF Pending
<1>3. QED
  BY <1>1, <1>2, FS_EmptySet DEF IInv, Inv, Typed, Counted, Timed

LEMMA NextStep ==
  IInv /\ [Next]_net => Inv(net') /\ (Async!Next \/ UNCHANGED Async!vars)
<1> SUFFICES ASSUME IInv, [Next]_net
             PROVE  Inv(net') /\ (Async!Next \/ UNCHANGED Async!vars)
  OBVIOUS
<1>1. ASSUME NEW c \in Clients, ClientNext(c)
      PROVE  Inv(net') /\ (Async!Next \/ UNCHANGED Async!vars)
  <2>1. CASE roadmap_net_connect_async(c)
    BY <2>1, ConnectStep
  <2>2. CASE roadmap_net_cancel_connect(c)
    BY <2>2, CancelStep
  <2>3. CASE \/ roadmap_net_close(c) \/ roadmap_http_async_prepare_output(c)
             \/ roadmap_http_async_copy_abort(c)
    BY <2>3, ConnectedStep
  <2>4. CASE io_handler(c)
    BY <2>4, IoEventProperties DEF io_handler, MainLoop
  <2>5. CASE Age(c)
    BY <2>5, AgeStep
  <2>6. CASE timed_out(c)
    BY <2>6, TimedOutStep
  <2>7. CASE roadmap_http_async_write_cb(c)
    BY <2>7, UploadStep
  <2>8. QED
    BY <1>1, <2>1, <2>2, <2>3, <2>4, <2>5, <2>6, <2>7 DEF ClientNext
<1>2. CASE check_connect_timeout \/ sweep_ends
  BY <1>2, SweepStep
<1>3. CASE callback_returns
  BY <1>3, ReturnStep
<1>4. CASE UNCHANGED net
  BY <1>4 DEF IInv, Async!vars
<1>5. QED
  BY <1>1, <1>2, <1>3, <1>4 DEF Next

LEMMA Invariance == Spec => []IInv
<1>1. IInv /\ [Next]_net => IInv'
  <2> SUFFICES ASSUME IInv, [Next]_net PROVE IInv'
    OBVIOUS
  <2>1. Inv(net')
    BY NextStep
  <2>2. QED
    BY <2>1 DEF IInv, Inv, Typed, Counted, Timed, Pending, Watched, Net
<1>2. QED
  BY <1>1, InitIInv, PTL DEF Spec

(***************************************************************************)
(* The theorems.                                                           *)
(***************************************************************************)

(* The net layer keeps its types, and whatever a sweep still has to close  *)
(* is waited for by its client.                                            *)
THEOREM TypeCorrect == Spec => []TypeOK
<1>1. IInv => TypeOK
  BY DEF IInv, Inv, Typed, TypeOK
<1>2. QED
  BY Invariance, <1>1, PTL

(* RoadMapNetNumConnects is the number of pending connects, less one for   *)
(* each reconnect that failed.                                             *)
THEOREM CounterExact == Spec => []ConnectsCounted
<1>1. IInv => ConnectsCounted
  BY DEF IInv, Inv, Counted, ConnectsCounted
<1>2. QED
  BY Invariance, <1>1, PTL

(* The timeout timer is there exactly while a connect is pending, as long  *)
(* as no reconnect failed.                                                 *)
THEOREM TimerCorrect == Spec => []TimerWhilePending
<1>1. IInv => TimerWhilePending
  BY DEF IInv, Inv, Timed, TimerWhilePending
<1>2. QED
  BY Invariance, <1>1, PTL

(* The net layer implements AsyncConnect: timeouts, retries and sweeps are *)
(* invisible, and each connect is answered at most once.                   *)
THEOREM ImplementsAsyncConnect == Spec => AnsweredOnce
<1>1. Init => Async!Init
  BY DEF Init, Async!Init, Seen
<1>2. IInv /\ [Next]_net => [Async!Next]_Async!vars
  BY NextStep
<1>3. QED
  BY <1>1, <1>2, Invariance, PTL DEF Spec, AnsweredOnce, Async!Spec
=============================================================================
