------------------------- MODULE TileManagerProofs -------------------------
(***************************************************************************)
(* Proofs about TileManager, for any tiles, connections, queue length and  *)
(* priorities.  The inductive invariant is stated on the manager's record, *)
(* so that each operator of TileManager has one lemma that says what it    *)
(* preserves, and a step of the specification follows from the lemmas of   *)
(* the operators it is composed of.                                        *)
(***************************************************************************)
EXTENDS TileManager, FiniteSetTheorems, SequenceTheorems, WellFoundedInduction, TLAPS

(***************************************************************************)
(* Sets of numbers and sequences.                                          *)
(***************************************************************************)

LEMMA MinProperties ==
  ASSUME NEW S \in SUBSET Nat, S # {}
  PROVE  Min(S) \in S /\ \A n \in S : Min(S) <= n
<1>1. PICK x \in S : \A y \in S : ~ (<<y, x>> \in OpToRel(<, Nat))
  BY WFMin, NatLessThanWellFounded
<1>2. \A y \in S : x <= y
  <2>1. TAKE y \in S
  <2>2. x \in Nat /\ y \in Nat
    OBVIOUS
  <2>3. y < x => <<y, x>> \in OpToRel(<, Nat)
    BY <2>2, Zenon DEF OpToRel
  <2>4. ~(y < x)
    BY <1>1, <2>3, Zenon
  <2>5. QED
    BY <2>2, <2>4
<1>3. QED
  BY <1>2 DEF Min

(* What Insert returns: the request sits behind all the higher priorities. *)
LEMMA InsertProperties ==
  ASSUME NEW q \in Seq(Request), NEW r \in Request
  PROVE  /\ Insert(q, r) \in Seq(Request)
         /\ Len(Insert(q, r)) = Len(q) + 1
         /\ \E i \in 1 .. Len(q) + 1 :
              /\ \A j \in 1 .. i - 1 : q[j].priority > r.priority
              /\ i <= Len(q) => q[i].priority <= r.priority
              /\ \A j \in 1 .. Len(q) + 1 :
                   Insert(q, r)[j] = IF j < i THEN q[j] ELSE IF j = i THEN r ELSE q[j - 1]
<1> DEFINE S == {j \in 1 .. Len(q) : q[j].priority <= r.priority} \cup {Len(q) + 1}
           i == Min(S)
           a == SubSeq(q, 1, i - 1)
           z == SubSeq(q, i, Len(q))
<1>1. Len(q) \in Nat /\ \A j \in 1 .. Len(q) : q[j] \in Request
  BY LenProperties, ElementOfSeq
<1>2. \A j \in 1 .. Len(q) : q[j].priority \in Int
  BY <1>1, TileManagerAssumption DEF Request, Priorities
<1>3. i \in S /\ \A n \in S : i <= n
  <2>1. S \in SUBSET Nat /\ S # {}
    BY <1>1
  <2>2. QED
    BY <2>1, MinProperties
<1>4. i \in 1 .. Len(q) + 1
  BY <1>1, <1>3
<1>5. \A j \in 1 .. i - 1 : q[j].priority > r.priority
  <2>1. TAKE j \in 1 .. i - 1
  <2>2. j \in 1 .. Len(q) /\ j \notin S
    BY <1>1, <1>3, <1>4
  <2>3. r.priority \in Int
    BY TileManagerAssumption DEF Request, Priorities
  <2>4. QED
    BY <1>2, <2>2, <2>3
<1>6. i <= Len(q) => q[i].priority <= r.priority
  BY <1>1, <1>3
<1> HIDE DEF i
<1>7. /\ a \in Seq(Request)
      /\ Len(a) = i - 1
      /\ \A j \in 1 .. i - 1 : a[j] = q[j]
  <2>1. \A j \in 1 .. i - 1 : q[j] \in Request
    BY <1>1, <1>4
  <2>2. QED
    BY <1>4, <1>1, <2>1, SubSeqProperties
<1>8. /\ z \in Seq(Request)
      /\ Len(z) = Len(q) - i + 1
      /\ \A j \in 1 .. Len(q) - i + 1 : z[j] = q[i + j - 1]
  <2>1. \A j \in i .. Len(q) : q[j] \in Request
    BY <1>1, <1>4
  <2>2. QED
    BY <1>4, <1>1, <2>1, SubSeqProperties
<1>9. /\ <<r>> \in Seq(Request)
      /\ Len(<<r>>) = 1
      /\ <<r>>[1] = r
  OBVIOUS
<1>10. /\ a \o <<r>> \in Seq(Request)
       /\ Len(a \o <<r>>) = i
       /\ \A j \in 1 .. i : (a \o <<r>>)[j] = IF j < i THEN q[j] ELSE r
  BY <1>4, <1>7, <1>9, ConcatProperties
<1>11. /\ (a \o <<r>>) \o z \in Seq(Request)
       /\ Len((a \o <<r>>) \o z) = Len(q) + 1
       /\ \A j \in 1 .. Len(q) + 1 :
            ((a \o <<r>>) \o z)[j] = IF j <= i THEN (a \o <<r>>)[j] ELSE z[j - i]
  <2> DEFINE az == a \o <<r>>
  <2>1. az \in Seq(Request) /\ Len(az) = i /\ z \in Seq(Request) /\ Len(z) = Len(q) - i + 1
    BY <1>8, <1>10
  <2> HIDE DEF a, z, az
  <2>2. /\ az \o z \in Seq(Request)
        /\ Len(az \o z) = Len(az) + Len(z)
        /\ \A j \in 1 .. Len(az) + Len(z) :
             (az \o z)[j] = IF j <= Len(az) THEN az[j] ELSE z[j - Len(az)]
    BY <2>1, ConcatProperties
  <2>3. Len(az) + Len(z) = Len(q) + 1
    BY <2>1, <1>1, <1>4
  <2>4. /\ az \o z \in Seq(Request)
        /\ Len(az \o z) = Len(q) + 1
        /\ \A j \in 1 .. Len(q) + 1 :
             (az \o z)[j] = IF j <= i THEN az[j] ELSE z[j - i]
    BY <2>1, <2>2, <2>3
  <2>5. QED
    BY <2>4 DEF az
<1>12. Insert(q, r) = (a \o <<r>>) \o z
  BY DEF Insert, i
<1>13. \A j \in 1 .. Len(q) + 1 :
         Insert(q, r)[j] = IF j < i THEN q[j] ELSE IF j = i THEN r ELSE q[j - 1]
  <2> HIDE DEF a, z
  <2>1. TAKE j \in 1 .. Len(q) + 1
  <2>2. CASE j <= i
    BY <2>2, <1>1, <1>4, <1>10, <1>11, <1>12
  <2>3. CASE j > i
    <3>1. j - i \in 1 .. Len(q) - i + 1 /\ i + (j - i) - 1 = j - 1
      BY <2>3, <1>1, <1>4
    <3>2. z[j - i] = q[j - 1]
      BY <3>1, <1>8
    <3>3. QED
      BY <2>3, <3>2, <1>1, <1>4, <1>11, <1>12
  <2>4. QED
    BY <2>2, <2>3, <1>1, <1>4
<1>14. QED
  BY <1>4, <1>5, <1>6, <1>11, <1>12, <1>13

LEMMA InsertSorted ==
  ASSUME NEW q \in Seq(Request), NEW r \in Request, Sorted(q)
  PROVE  Sorted(Insert(q, r))
<1> DEFINE s == Insert(q, r)
<1>1. PICK i \in 1 .. Len(q) + 1 :
        /\ \A j \in 1 .. i - 1 : q[j].priority > r.priority
        /\ i <= Len(q) => q[i].priority <= r.priority
        /\ \A j \in 1 .. Len(q) + 1 :
             s[j] = IF j < i THEN q[j] ELSE IF j = i THEN r ELSE q[j - 1]
  BY InsertProperties
<1>2. Len(s) = Len(q) + 1 /\ Len(q) \in Nat
  BY InsertProperties, LenProperties
<1>3. \A j \in 1 .. Len(q) : q[j].priority \in Int
  <2>1. \A j \in 1 .. Len(q) : q[j] \in Request
    BY ElementOfSeq
  <2>2. QED
    BY <2>1, TileManagerAssumption DEF Request, Priorities
<1>4. r.priority \in Int
  BY TileManagerAssumption DEF Request, Priorities
<1> HIDE DEF s
<1>5. SUFFICES ASSUME NEW j \in 1 .. Len(q) + 1, NEW k \in 1 .. Len(q) + 1, j < k
               PROVE  s[j].priority >= s[k].priority
  BY <1>2 DEF Sorted, s
<1>6. \A a, b \in 1 .. Len(q) : a <= b => q[a].priority >= q[b].priority
  BY <1>3, <1>2 DEF Sorted
<1>7. CASE k < i
  BY <1>7, <1>1, <1>2, <1>5, <1>6
<1>8. CASE k = i
  BY <1>8, <1>1, <1>2, <1>3, <1>4, <1>5
<1>9. CASE i < k /\ j < i
  <2>1. s[j] = q[j] /\ s[k] = q[k - 1] /\ k - 1 \in 1 .. Len(q) /\ j \in 1 .. Len(q) /\ j <= k - 1
    BY <1>9, <1>1, <1>2
  <2>2. QED
    BY <2>1, <1>6
<1>10. CASE i < k /\ j = i
  <2>1. s[j] = r /\ s[k] = q[k - 1] /\ k - 1 \in 1 .. Len(q) /\ i \in 1 .. Len(q) /\ i <= k - 1
    BY <1>10, <1>1, <1>2
  <2>2. q[i].priority >= q[k - 1].priority /\ q[i].priority <= r.priority
    BY <2>1, <1>1, <1>6
  <2>3. QED
    BY <2>1, <2>2, <1>3, <1>4
<1>11. CASE i < k /\ i < j
  <2>1. /\ s[j] = q[j - 1] /\ s[k] = q[k - 1]
        /\ k - 1 \in 1 .. Len(q) /\ j - 1 \in 1 .. Len(q) /\ j - 1 <= k - 1
    BY <1>11, <1>1, <1>2, <1>5
  <2>2. QED
    BY <2>1, <1>6
<1>12. QED
  BY <1>1, <1>2, <1>5, <1>7, <1>8, <1>9, <1>10, <1>11

(* The end of a sorted queue is sorted.                                    *)
LEMMA SuffixProperties ==
  ASSUME NEW q \in Seq(Request), NEW k \in 0 .. Len(q)
  PROVE  /\ SubSeq(q, k + 1, Len(q)) \in Seq(Request)
         /\ Len(SubSeq(q, k + 1, Len(q))) = Len(q) - k
         /\ Sorted(q) => Sorted(SubSeq(q, k + 1, Len(q)))
<1> DEFINE s == SubSeq(q, k + 1, Len(q))
<1>1. Len(q) \in Nat /\ \A j \in 1 .. Len(q) : q[j] \in Request
  BY LenProperties, ElementOfSeq
<1>2. /\ s \in Seq(Request)
      /\ Len(s) = Len(q) - k
      /\ \A j \in 1 .. Len(q) - k : s[j] = q[k + j]
  <2>1. \A j \in k + 1 .. Len(q) : q[j] \in Request
    BY <1>1
  <2>2. QED
    BY <1>1, <2>1, SubSeqProperties
<1> HIDE DEF s
<1>3. ASSUME Sorted(q), NEW a \in 1 .. Len(s), NEW b \in 1 .. Len(s), a < b
      PROVE  s[a].priority >= s[b].priority
  <2>1. k + a \in 1 .. Len(q) /\ k + b \in 1 .. Len(q) /\ k + a < k + b
    BY <1>1, <1>2, <1>3
  <2>2. QED
    BY <2>1, <1>2, <1>3 DEF Sorted
<1>4. QED
  BY <1>2, <1>3 DEF Sorted, s

(***************************************************************************)
(* The inductive invariant, on the record of the manager.                  *)
(***************************************************************************)

Used(m) == {c \in Conns : m.slot[c] # NoTile}

SlotsOK(m) ==
  /\ m.open = Cardinality(Used(m))
  /\ m.active = {m.slot[c] : c \in Conns} \ {NoTile}
  /\ \A c, d \in Conns : m.slot[c] = m.slot[d] /\ m.slot[c] # NoTile => c = d

ManagerOK(m) ==
  /\ m \in Manager
  /\ Len(m.queue) <= MaxQueue
  /\ SlotsOK(m)
  /\ m.active \cap m.uptodate = {}

(* The manager only starts to wait when it also installs the retry timer.  *)
Calm(m, r) ==
  \/ r.status = m.status /\ r.retry = m.retry
  \/ r.status = "Waiting" /\ r.retry /\ m.status = "Active"

(* The queue stays sorted, and a queue with room grows by one at most.     *)
Orderly(m, r) ==
  Sorted(m.queue) /\ Len(m.queue) < MaxQueue => Sorted(r.queue)

(* r is m with queue s, which fits in RequestQueue.                        *)
Requeued(m, r, s) ==
  /\ s \in Seq(Request)
  /\ r = [m EXCEPT !.queue = s]
  /\ Len(s) <= MaxQueue
  /\ Sorted(m.queue) /\ Len(m.queue) < MaxQueue => Sorted(s)

(* queue_tile changes the queue and nothing else.                          *)
LEMMA QueueTile ==
  ASSUME NEW m \in Manager, Len(m.queue) <= MaxQueue,
         NEW t \in Tiles, NEW p \in Priorities
  PROVE  \E s : Requeued(m, queue_tile(m, t, p), s)
<1> DEFINE q == m.queue
           r == [tile |-> t, priority |-> p]
<1>1. q \in Seq(Request) /\ r \in Request
  BY DEF Manager, Request
<1>2. Len(q) \in Nat /\ (\A j \in 1 .. Len(q) : q[j] \in Request) /\ MaxQueue \in Nat /\ MaxQueue > 0
  BY <1>1, LenProperties, ElementOfSeq, TileManagerAssumption
<1>3. \A j \in 1 .. Len(q) : q[j].priority \in Nat
  BY <1>2, TileManagerAssumption DEF Request, Priorities
<1>4. p \in Nat
  BY TileManagerAssumption DEF Priorities
<1>5. CASE p = 0 /\ Full(q)
  <2>1. queue_tile(m, t, p) = m
    BY <1>5 DEF queue_tile
  <2>2. m = [m EXCEPT !.queue = q]
    BY DEF Manager
  <2>3. Requeued(m, m, q)
    BY <1>1, <2>2 DEF Requeued
  <2>4. QED
    BY <2>1, <2>3
<1>6. CASE p = 0 /\ ~Full(q)
  <2>1. queue_tile(m, t, p) = [m EXCEPT !.queue = Append(q, r)]
    BY <1>6 DEF queue_tile
  <2>2. Append(q, r) \in Seq(Request) /\ Len(Append(q, r)) = Len(q) + 1
    BY <1>1, AppendProperties
  <2>3. ASSUME Sorted(q) PROVE Sorted(Append(q, r))
    <3> DEFINE s == Append(q, r)
    <3>1. /\ Len(s) = Len(q) + 1
          /\ \A j \in 1 .. Len(q) : s[j] = q[j]
          /\ s[Len(q) + 1] = r
      BY <1>1, AppendProperties
    <3> HIDE DEF s
    <3>2. ASSUME NEW j \in 1 .. Len(s), NEW k \in 1 .. Len(s), j < k
          PROVE  s[j].priority >= s[k].priority
      <4>1. CASE k <= Len(q)
        BY <4>1, <3>1, <3>2, <2>3, <1>2 DEF Sorted
      <4>2. CASE k = Len(q) + 1
        <5>1. s[k].priority = 0 /\ s[j] = q[j] /\ j \in 1 .. Len(q)
          BY <4>2, <3>1, <3>2, <1>2, <1>6
        <5>2. QED
          BY <5>1, <1>3
      <4>3. QED
        BY <4>1, <4>2, <3>1, <1>2
    <3>3. QED
      BY <3>2 DEF Sorted, s
  <2>4. Len(q) + 1 <= MaxQueue
    BY <1>2, <1>6 DEF Full
  <2>5. Requeued(m, queue_tile(m, t, p), Append(q, r))
    BY <2>1, <2>2, <2>3, <2>4 DEF Requeued
  <2>6. QED
    BY <2>5
<1>7. CASE p # 0 /\ ~Full(q)
  <2>1. queue_tile(m, t, p) = [m EXCEPT !.queue = Insert(q, r)]
    BY <1>7 DEF queue_tile
  <2>2. Len(q) + 1 <= MaxQueue
    BY <1>2, <1>7 DEF Full
  <2>3. Requeued(m, queue_tile(m, t, p), Insert(q, r))
    BY <1>1, <2>1, <2>2, InsertProperties, InsertSorted DEF Requeued
  <2>4. QED
    BY <2>3
<1>8. CASE p # 0 /\ Full(q)
  <2> DEFINE front == SubSeq(q, 1, Len(q) - 1)
             last  == q[Len(q)]
  <2>1. Len(q) = MaxQueue /\ Len(q) > 0
    BY <1>2, <1>8 DEF Full
  <2>2. last \in Request /\ <<last>> \in Seq(Request) /\ Len(<<last>>) = 1
    BY <1>2, <2>1
  <2>3. front \in Seq(Request) /\ Len(front) = MaxQueue - 1
    <3>1. \A j \in 1 .. Len(q) - 1 : q[j] \in Request
      BY <1>2
    <3>2. QED
      BY <3>1, <1>2, <2>1, SubSeqProperties
  <2>4. <<last>> \o front \in Seq(Request) /\ Len(<<last>> \o front) = MaxQueue
    <3> HIDE DEF last, front
    <3>1. QED
      BY <2>2, <2>3, <1>2, ConcatProperties
  <2>5. Insert(front, r) \in Seq(Request) /\ Len(Insert(front, r)) = MaxQueue
    <3> HIDE DEF front
    <3>1. QED
      BY <1>1, <2>3, <1>2, InsertProperties
  <2>6. last.priority \in Nat
    BY <1>3, <1>2, <2>1
  <2>7. CASE last.priority > p
    <3>1. queue_tile(m, t, p) = [m EXCEPT !.queue = <<last>> \o front]
      BY <1>8, <2>7, <2>6, <1>4 DEF queue_tile
    <3> DEFINE s == <<last>> \o front
    <3>2. s \in Seq(Request) /\ Len(s) <= MaxQueue /\ ~(Len(m.queue) < MaxQueue)
      BY <2>1, <2>4, <1>2
    <3>3. queue_tile(m, t, p) = [m EXCEPT !.queue = s]
      BY <3>1
    <3> HIDE DEF s
    <3>4. Requeued(m, queue_tile(m, t, p), s)
      BY <3>2, <3>3 DEF Requeued
    <3>5. QED
      BY <3>4
  <2>8. CASE last.priority <= p
    <3>1. queue_tile(m, t, p) = [m EXCEPT !.queue = Insert(front, r)]
      BY <1>8, <2>8, <2>6, <1>4 DEF queue_tile
    <3> DEFINE s == Insert(front, r)
    <3>2. s \in Seq(Request) /\ Len(s) <= MaxQueue /\ ~(Len(m.queue) < MaxQueue)
      BY <2>1, <2>5, <1>2
    <3>3. queue_tile(m, t, p) = [m EXCEPT !.queue = s]
      BY <3>1
    <3> HIDE DEF s
    <3>4. Requeued(m, queue_tile(m, t, p), s)
      BY <3>2, <3>3 DEF Requeued
    <3>5. QED
      BY <3>4
  <2>9. QED
    BY <2>6, <2>7, <2>8, <1>4
<1>9. QED
  BY <1>5, <1>6, <1>7, <1>8

LEMMA QueueTileOK ==
  ASSUME NEW m, ManagerOK(m), NEW t \in Tiles, NEW p \in Priorities
  PROVE  /\ ManagerOK(queue_tile(m, t, p))
         /\ queue_tile(m, t, p).status = m.status
         /\ queue_tile(m, t, p).retry = m.retry
         /\ queue_tile(m, t, p).slot = m.slot
         /\ Orderly(m, queue_tile(m, t, p))
<1>1. PICK s : Requeued(m, queue_tile(m, t, p), s)
  BY QueueTile DEF ManagerOK
<1> DEFINE r == queue_tile(m, t, p)
<1>2. m \in Manager
  BY DEF ManagerOK
<1> HIDE DEF r
<1>3. r = [m EXCEPT !.queue = s] /\ s \in Seq(Request) /\ Len(s) <= MaxQueue
  BY <1>1 DEF Requeued, r
<1>4. r \in Manager
  BY <1>2, <1>3 DEF Manager
<1>5. /\ r.queue = s /\ r.slot = m.slot /\ r.open = m.open /\ r.active = m.active
      /\ r.uptodate = m.uptodate /\ r.status = m.status /\ r.retry = m.retry
  BY <1>2, <1>3 DEF Manager
<1>6. SlotsOK(r)
  BY <1>5 DEF ManagerOK, SlotsOK, Used
<1>7. ManagerOK(r) /\ Orderly(m, r)
  BY <1>1, <1>3, <1>4, <1>5, <1>6 DEF ManagerOK, Orderly, Requeued
<1>8. QED
  BY <1>5, <1>7 DEF r

(* What does not touch the queue, the slots or the flags keeps them right. *)
LEMMA RefreshCount ==
  ASSUME NEW m, ManagerOK(m)
  PROVE  /\ ManagerOK(tile_refresh_cb(m))
         /\ tile_refresh_cb(m).status = m.status
         /\ tile_refresh_cb(m).retry = m.retry
         /\ tile_refresh_cb(m).slot = m.slot
         /\ tile_refresh_cb(m).queue = m.queue
         /\ tile_refresh_cb(m).uptodate = m.uptodate
<1> DEFINE r == tile_refresh_cb(m)
<1>1. m \in Manager
  BY DEF ManagerOK
<1>2. m.total \in Int /\ m.done \in Int
  BY <1>1 DEF Manager
<1>3. r = m \/ r = [m EXCEPT !.done = 0, !.total = -1] \/ r = [m EXCEPT !.done = @ + 1]
  BY <1>2 DEF tile_refresh_cb
<1> HIDE DEF r
<1>4. /\ r.queue = m.queue /\ r.slot = m.slot /\ r.open = m.open /\ r.active = m.active
      /\ r.uptodate = m.uptodate /\ r.status = m.status /\ r.retry = m.retry
      /\ r \in Manager
  <2>1. CASE r = m
    BY <2>1, <1>1
  <2>2. CASE r = [m EXCEPT !.done = 0, !.total = -1]
    <3> DEFINE a == [m EXCEPT !.done = 0]
    <3>1. r = [a EXCEPT !.total = -1]
      BY <2>2, <1>1 DEF Manager
    <3>2. /\ a.queue = m.queue /\ a.slot = m.slot /\ a.open = m.open /\ a.active = m.active
          /\ a.uptodate = m.uptodate /\ a.status = m.status /\ a.retry = m.retry
          /\ a \in Manager
      BY <1>1 DEF Manager
    <3> HIDE DEF a
    <3>3. QED
      BY <3>1, <3>2 DEF Manager
  <2>3. CASE r = [m EXCEPT !.done = @ + 1]
    BY <2>3, <1>1, <1>2 DEF Manager
  <2>4. QED
    BY <1>3, <2>1, <2>2, <2>3
<1>5. ManagerOK(r)
  BY <1>4 DEF ManagerOK, SlotsOK, Used
<1>6. QED
  BY <1>4, <1>5 DEF r

LEMMA ReleaseOK ==
  ASSUME NEW m, ManagerOK(m), NEW c \in Conns, m.slot[c] # NoTile
  PROVE  /\ ManagerOK(Release(m, c))
         /\ m.slot[c] \in Tiles
         /\ Release(m, c).status = m.status
         /\ Release(m, c).retry = m.retry
         /\ Release(m, c).queue = m.queue
         /\ Release(m, c).active = m.active \ {m.slot[c]}
         /\ Release(m, c).uptodate = m.uptodate
<1> DEFINE r == Release(m, c)
<1>1. m \in Manager /\ SlotsOK(m)
  BY DEF ManagerOK
<1>2. m.slot \in [Conns -> Tiles \cup {NoTile}] /\ m.open \in Int /\ m.slot[c] \in Tiles
  BY <1>1 DEF Manager
<1>3. /\ r.slot = [m.slot EXCEPT ![c] = NoTile]
      /\ r.open = m.open - 1
      /\ r.active = m.active \ {m.slot[c]}
      /\ r.timed = m.timed \ {c}
      /\ r.queue = m.queue /\ r.uptodate = m.uptodate
      /\ r.status = m.status /\ r.retry = m.retry
  BY <1>1 DEF Manager, Release
<1>4. r \in Manager
  <2>1. [m.slot EXCEPT ![c] = NoTile] \in [Conns -> Tiles \cup {NoTile}]
    BY <1>2
  <2>2. /\ m.timed \ {c} \in SUBSET Conns
        /\ m.active \ {m.slot[c]} \in SUBSET Tiles
        /\ m.open - 1 \in Int
    BY <1>1, <1>2 DEF Manager
  <2>3. r = [m EXCEPT !.active = m.active \ {m.slot[c]},
                      !.slot = [m.slot EXCEPT ![c] = NoTile],
                      !.timed = m.timed \ {c}, !.open = m.open - 1]
    BY <1>1 DEF Manager, Release
  <2> HIDE DEF r
  <2>4. QED
    BY <1>1, <2>1, <2>2, <2>3 DEF Manager
<1> HIDE DEF r
<1>5. \A d \in Conns : r.slot[d] = IF d = c THEN NoTile ELSE m.slot[d]
  BY <1>2, <1>3
<1>6. r.open = Cardinality(Used(r))
  <2>1. Used(r) = Used(m) \ {c} /\ c \in Used(m)
    BY <1>5 DEF Used
  <2>2. IsFiniteSet(Used(m))
    BY TileManagerAssumption, FS_Subset DEF Used
  <2>3. Cardinality(Used(r)) = Cardinality(Used(m)) - 1
    BY <2>1, <2>2, FS_RemoveElement
  <2>4. QED
    BY <2>3, <1>1, <1>3 DEF SlotsOK
<1>7. r.active = {r.slot[d] : d \in Conns} \ {NoTile}
  BY <1>1, <1>3, <1>5 DEF SlotsOK
<1>8. \A d, e \in Conns : r.slot[d] = r.slot[e] /\ r.slot[d] # NoTile => d = e
  BY <1>1, <1>5 DEF SlotsOK
<1>9. ManagerOK(r)
  BY <1>3, <1>4, <1>6, <1>7, <1>8 DEF ManagerOK, SlotsOK
<1>10. QED
  BY <1>2, <1>3, <1>9 DEF r

LEMMA RequeueTile ==
  ASSUME NEW m, ManagerOK(m), NEW c \in Conns, m.slot[c] # NoTile
  PROVE  /\ ManagerOK(requeue_tile(m, c))
         /\ requeue_tile(m, c).status = m.status
         /\ requeue_tile(m, c).retry = m.retry
         /\ Orderly(m, requeue_tile(m, c))
<1> DEFINE e == Release(m, c)
           t == m.slot[c]
           p == m.priority[t]
<1>1. ManagerOK(e) /\ t \in Tiles /\ e.queue = m.queue /\ e.status = m.status /\ e.retry = m.retry
  BY ReleaseOK
<1>2. p \in Priorities
  BY <1>1 DEF ManagerOK, Manager
<1>3. requeue_tile(m, c) = queue_tile(e, t, p)
  BY DEF requeue_tile
<1> HIDE DEF e, t, p
<1>4. QED
  BY <1>1, <1>2, <1>3, QueueTileOK DEF Orderly

LEMMA OnConnectionFailure ==
  ASSUME NEW m, ManagerOK(m), NEW c \in Conns, m.slot[c] # NoTile
  PROVE  /\ ManagerOK(on_connection_failure(m, c))
         /\ Calm(m, on_connection_failure(m, c))
         /\ Orderly(m, on_connection_failure(m, c))
<1> DEFINE r == requeue_tile(m, c)
           w == [r EXCEPT !.status = "Waiting", !.retry = TRUE]
<1>1. ManagerOK(r) /\ r.status = m.status /\ r.retry = m.retry /\ Orderly(m, r)
  BY RequeueTile
<1>2. on_connection_failure(m, c) = IF m.status = "Active" THEN w ELSE r
  BY DEF on_connection_failure
<1>3. /\ w.queue = r.queue /\ w.slot = r.slot /\ w.open = r.open /\ w.active = r.active
      /\ w.uptodate = r.uptodate /\ w.status = "Waiting" /\ w.retry = TRUE
      /\ w \in Manager
  <2> HIDE DEF r
  <2>1. r \in Manager
    BY <1>1 DEF ManagerOK
  <2>2. QED
    BY <2>1 DEF Manager
<1> HIDE DEF r, w
<1>4. ManagerOK(w) /\ Orderly(m, w)
  BY <1>1, <1>3 DEF ManagerOK, SlotsOK, Used, Orderly
<1>5. QED
  BY <1>1, <1>2, <1>3, <1>4 DEF Calm

LEMMA HttpAsyncCopy ==
  ASSUME NEW m, ManagerOK(m), NEW c \in Conns, m.slot[c] # NoTile,
         NEW r \in roadmap_http_async_copy(m, c)
  PROVE  ManagerOK(r) /\ Calm(m, r) /\ Orderly(m, r)
<1> DEFINE e == tile_refresh_cb(m)
<1>1. CASE r = m
  BY <1>1 DEF Calm, Orderly
<1>2. CASE r = on_connection_failure(e, c)
  <2>1. /\ ManagerOK(e) /\ e.status = m.status /\ e.retry = m.retry
        /\ e.slot = m.slot /\ e.queue = m.queue
    BY RefreshCount
  <2> HIDE DEF e
  <2>2. ManagerOK(r) /\ Calm(e, r) /\ Orderly(e, r)
    BY <1>2, <2>1, OnConnectionFailure
  <2>3. QED
    BY <2>1, <2>2 DEF Calm, Orderly
<1>3. QED
  BY <1>1, <1>2 DEF roadmap_http_async_copy

LEMMA PoppedOK ==
  ASSUME NEW m, ManagerOK(m), NEW k \in 0 .. Len(m.queue)
  PROVE  /\ ManagerOK(Popped(m, k))
         /\ Popped(m, k).status = m.status
         /\ Popped(m, k).retry = m.retry
         /\ Popped(m, k).slot = m.slot
         /\ Popped(m, k).open = m.open
         /\ Popped(m, k).active = m.active
         /\ Popped(m, k).uptodate = m.uptodate
         /\ Len(Popped(m, k).queue) = Len(m.queue) - k
         /\ Sorted(m.queue) => Sorted(Popped(m, k).queue)
<1> DEFINE r == Popped(m, k)
           s == SubSeq(m.queue, k + 1, Len(m.queue))
           g == m.queued \ {m.queue[i].tile : i \in 1 .. k}
<1>1. m \in Manager /\ m.queue \in Seq(Request) /\ Len(m.queue) \in Nat /\ MaxQueue \in Nat
  BY LenProperties, TileManagerAssumption DEF ManagerOK, Manager
<1>2. /\ s \in Seq(Request)
      /\ Len(s) = Len(m.queue) - k
      /\ Sorted(m.queue) => Sorted(s)
  BY <1>1, SuffixProperties
<1>3. g \in SUBSET Tiles
  BY <1>1 DEF Manager
<1>4. r = [m EXCEPT !.queue = s, !.queued = g]
  BY <1>1 DEF Popped, Manager
<1> HIDE DEF r, s, g
<1>5. /\ r.queue = s /\ r.slot = m.slot /\ r.open = m.open /\ r.active = m.active
      /\ r.uptodate = m.uptodate /\ r.status = m.status /\ r.retry = m.retry
      /\ r \in Manager
  BY <1>1, <1>2, <1>3, <1>4 DEF Manager
<1>6. ManagerOK(r)
  <2>1. Len(r.queue) <= MaxQueue
    BY <1>1, <1>2, <1>5 DEF ManagerOK
  <2>2. QED
    BY <2>1, <1>5 DEF ManagerOK, SlotsOK, Used
<1>7. QED
  BY <1>2, <1>5, <1>6 DEF r

LEMMA OccupiedOK ==
  ASSUME NEW m, ManagerOK(m), NEW c \in Conns, m.slot[c] = NoTile,
         NEW t \in Tiles, t \notin m.active \cup m.uptodate
  PROVE  /\ ManagerOK(Occupied(m, c, t))
         /\ Occupied(m, c, t).status = m.status
         /\ Occupied(m, c, t).retry = m.retry
         /\ Occupied(m, c, t).queue = m.queue
         /\ Occupied(m, c, t).slot[c] = t
<1> DEFINE r == Occupied(m, c, t)
<1>1. m \in Manager /\ SlotsOK(m) /\ t # NoTile
  BY TileManagerAssumption DEF ManagerOK
<1>2. m.slot \in [Conns -> Tiles \cup {NoTile}] /\ m.open \in Int
  BY <1>1 DEF Manager
<1>3. /\ r.slot = [m.slot EXCEPT ![c] = t]
      /\ r.open = m.open + 1
      /\ r.active = m.active \cup {t}
      /\ r.queue = m.queue /\ r.uptodate = m.uptodate
      /\ r.status = m.status /\ r.retry = m.retry
  BY <1>1 DEF Manager, Occupied
<1>4. r \in Manager
  <2>1. /\ [m.slot EXCEPT ![c] = t] \in [Conns -> Tiles \cup {NoTile}]
        /\ m.active \cup {t} \in SUBSET Tiles
        /\ m.open + 1 \in Int
    BY <1>1, <1>2 DEF Manager
  <2>2. r = [m EXCEPT !.slot = [m.slot EXCEPT ![c] = t], !.active = m.active \cup {t},
                      !.open = m.open + 1]
    BY <1>1 DEF Manager, Occupied
  <2> HIDE DEF r
  <2>3. QED
    BY <1>1, <2>1, <2>2 DEF Manager
<1> HIDE DEF r
<1>5. \A d \in Conns : r.slot[d] = IF d = c THEN t ELSE m.slot[d]
  BY <1>2, <1>3
<1>6. r.open = Cardinality(Used(r))
  <2>1. Used(r) = Used(m) \cup {c} /\ c \notin Used(m)
    BY <1>1, <1>5 DEF Used
  <2>2. IsFiniteSet(Used(m))
    BY TileManagerAssumption, FS_Subset DEF Used
  <2>3. Cardinality(Used(r)) = Cardinality(Used(m)) + 1
    BY <2>1, <2>2, FS_AddElement
  <2>4. QED
    BY <2>3, <1>1, <1>3 DEF SlotsOK
<1>7. r.active = {r.slot[d] : d \in Conns} \ {NoTile}
  BY <1>1, <1>3, <1>5 DEF SlotsOK
<1>8. \A d, e \in Conns : r.slot[d] = r.slot[e] /\ r.slot[d] # NoTile => d = e
  BY <1>1, <1>5 DEF SlotsOK
<1>9. ManagerOK(r)
  BY <1>3, <1>4, <1>6, <1>7, <1>8 DEF ManagerOK, SlotsOK
<1>10. QED
  BY <1>3, <1>5, <1>9 DEF r

(* Whatever load_next_tile leaves behind; it keeps even a full queue       *)
(* sorted, since it requeues a request only after it took one.             *)
LEMMA LoadNextTile ==
  ASSUME NEW m, ManagerOK(m), NEW r \in load_next_tile(m)
  PROVE  /\ ManagerOK(r)
         /\ Calm(m, r)
         /\ Sorted(m.queue) => Sorted(r.queue)
<1>1. /\ m \in Manager /\ m.queue \in Seq(Request) /\ Len(m.queue) \in Nat
      /\ m.open \in Int /\ MaxConcurrent \in Nat /\ MaxQueue \in Nat
  BY LenProperties, TileManagerAssumption, FS_CardinalityType
  DEF ManagerOK, Manager, MaxConcurrent
<1>2. CASE m.open >= MaxConcurrent \/ m.status # "Active"
  BY <1>1, <1>2 DEF load_next_tile, Calm
<1>3. CASE m.open < MaxConcurrent /\ m.status = "Active" /\ Ready(m) = {}
  <2>1. r = Popped(m, Len(m.queue))
    BY <1>1, <1>3 DEF load_next_tile
  <2>2. QED
    BY <2>1, <1>1, PoppedOK DEF Calm
<1>4. CASE m.open < MaxConcurrent /\ m.status = "Active" /\ Ready(m) # {}
  <2> DEFINE k == Min(Ready(m))
             t == m.queue[k].tile
             p == Popped(m, k)
  <2>1. k \in Ready(m)
    <3>1. Ready(m) \in SUBSET Nat
      BY <1>1 DEF Ready
    <3>2. QED
      BY <3>1, <1>4, MinProperties
  <2>2. k \in 1 .. Len(m.queue) /\ t \notin m.active \cup m.uptodate
    BY <2>1 DEF Ready
  <2>3. t \in Tiles
    <3> HIDE DEF k
    <3>1. m.queue[k] \in Request
      BY <2>2, <1>1, ElementOfSeq
    <3>2. QED
      BY <3>1 DEF Request
  <2>4. PICK c \in Conns : m.slot[c] = NoTile /\ r \in roadmap_http_async_copy(Occupied(p, c, t), c)
    BY <1>1, <1>4 DEF load_next_tile
  <2> HIDE DEF k, t
  <2>5. /\ ManagerOK(p) /\ p.status = m.status /\ p.retry = m.retry /\ p.slot = m.slot
        /\ p.active = m.active /\ p.uptodate = m.uptodate
        /\ Len(p.queue) = Len(m.queue) - k
        /\ Sorted(m.queue) => Sorted(p.queue)
    BY <2>2, <1>1, PoppedOK
  <2> DEFINE o == Occupied(p, c, t)
  <2> HIDE DEF p
  <2>6. /\ ManagerOK(o) /\ o.status = p.status /\ o.retry = p.retry
        /\ o.queue = p.queue /\ o.slot[c] = t
    BY <2>2, <2>3, <2>4, <2>5, OccupiedOK
  <2>7. r \in roadmap_http_async_copy(o, c)
    BY <2>4
  <2> HIDE DEF o
  <2>8. ManagerOK(r) /\ Calm(o, r) /\ Orderly(o, r)
    BY <2>3, <2>6, <2>7, HttpAsyncCopy, TileManagerAssumption
  <2>9. Len(o.queue) < MaxQueue
    BY <2>2, <2>5, <2>6, <1>1 DEF ManagerOK
  <2>10. QED
    BY <2>5, <2>6, <2>8, <2>9 DEF Calm, Orderly
<1>5. QED
  BY <1>1, <1>2, <1>3, <1>4

(* A tile that stops being up to date, or a manager that becomes active,   *)
(* keeps the rest.                                                         *)
LEMMA StatusOK ==
  ASSUME NEW m, ManagerOK(m)
  PROVE  LET a == [m EXCEPT !.status = "Active"]
         IN  ManagerOK(a) /\ a.status = "Active" /\ a.retry = m.retry /\ a.queue = m.queue
<1> DEFINE a == [m EXCEPT !.status = "Active"]
<1>1. m \in Manager
  BY DEF ManagerOK
<1>2. /\ a.queue = m.queue /\ a.slot = m.slot /\ a.open = m.open /\ a.active = m.active
      /\ a.uptodate = m.uptodate /\ a.status = "Active" /\ a.retry = m.retry
      /\ a \in Manager
  BY <1>1 DEF Manager
<1> HIDE DEF a
<1>3. ManagerOK(a)
  BY <1>2 DEF ManagerOK, SlotsOK, Used
<1>4. QED
  BY <1>2, <1>3 DEF a

LEMMA StaleOK ==
  ASSUME NEW m, ManagerOK(m), NEW t \in Tiles
  PROVE  LET a == [m EXCEPT !.uptodate = @ \ {t}]
         IN  ManagerOK(a) /\ a.status = m.status /\ a.retry = m.retry /\ a.queue = m.queue
<1> DEFINE a == [m EXCEPT !.uptodate = @ \ {t}]
<1>1. m \in Manager
  BY DEF ManagerOK
<1>2. /\ a.queue = m.queue /\ a.slot = m.slot /\ a.open = m.open /\ a.active = m.active
      /\ a.uptodate = m.uptodate \ {t} /\ a.status = m.status /\ a.retry = m.retry
  BY <1>1 DEF Manager
<1>3. a \in Manager
  <2>1. m.uptodate \ {t} \in SUBSET Tiles /\ a = [m EXCEPT !.uptodate = m.uptodate \ {t}]
    BY <1>1 DEF Manager
  <2> HIDE DEF a
  <2>2. QED
    BY <1>1, <2>1 DEF Manager
<1> HIDE DEF a
<1>4. ManagerOK(a)
  BY <1>2, <1>3 DEF ManagerOK, SlotsOK, Used
<1>5. QED
  BY <1>2, <1>4 DEF a

(* A finished transfer frees its slot before the next tile is started, so  *)
(* the tile may be marked up to date without being active.                 *)
LEMMA FinishOK ==
  ASSUME NEW m, ManagerOK(m), NEW c \in Conns, m.slot[c] # NoTile, NEW r \in Finish(m, c)
  PROVE  /\ ManagerOK(r)
         /\ Calm(m, r)
         /\ Sorted(m.queue) => Sorted(r.queue)
<1> DEFINE e == tile_refresh_cb(m)
           f == Release(e, c)
           u == f.uptodate \cup {m.slot[c]}
           g == [f EXCEPT !.uptodate = u]
<1>1. /\ ManagerOK(e) /\ e.status = m.status /\ e.retry = m.retry
      /\ e.slot = m.slot /\ e.queue = m.queue
  BY RefreshCount
<1>2. f \in Manager
  <2> HIDE DEF e
  <2>1. QED
    BY <1>1, ReleaseOK DEF ManagerOK
<1>3. r \in load_next_tile(g)
  BY <1>2 DEF Finish, Manager
<1> HIDE DEF e
<1>4. /\ ManagerOK(f) /\ f.status = e.status /\ f.retry = e.retry /\ f.queue = e.queue
      /\ f.active = e.active \ {m.slot[c]} /\ m.slot[c] \in Tiles
  BY <1>1, ReleaseOK
<1> HIDE DEF f
<1>5. u \in SUBSET Tiles /\ f.active \cap u = {}
  BY <1>2, <1>4 DEF ManagerOK, Manager
<1> HIDE DEF u
<1>6. /\ g.queue = f.queue /\ g.slot = f.slot /\ g.open = f.open /\ g.active = f.active
      /\ g.uptodate = u /\ g.status = f.status /\ g.retry = f.retry
      /\ g \in Manager
  BY <1>2, <1>5 DEF Manager
<1> HIDE DEF g
<1>7. ManagerOK(g)
  BY <1>4, <1>5, <1>6 DEF ManagerOK, SlotsOK, Used
<1>8. ManagerOK(r) /\ Calm(g, r) /\ (Sorted(g.queue) => Sorted(r.queue))
  BY <1>3, <1>7, LoadNextTile
<1>9. QED
  BY <1>1, <1>4, <1>6, <1>8 DEF Calm

LEMMA SubmitOK ==
  ASSUME NEW m, ManagerOK(m), NEW t \in Tiles, NEW p \in Priorities, NEW r \in Submit(m, t, p)
  PROVE  /\ ManagerOK(r)
         /\ \/ Calm(m, r)
            \/ m.status = "First" /\ r.status = "Waiting" /\ r.retry = m.retry
         /\ Orderly(m, r)
<1> DEFINE q == queue_tile(m, t, p)
           e == [q EXCEPT !.queued = @ \cup {t}, !.priority[t] = p]
           w == [e EXCEPT !.status = "Waiting"]
<1>1. /\ ManagerOK(q) /\ q.status = m.status /\ q.retry = m.retry
      /\ Orderly(m, q) /\ q \in Manager
  BY QueueTileOK DEF ManagerOK
<1>2. m.status \in {"First", "Waiting", "Active"}
  BY DEF ManagerOK, Manager
<1>3. \/ m.status = "First" /\ r = w
      \/ m.status = "Waiting" /\ r = e
      \/ m.status = "Active" /\ r \in load_next_tile(e)
  BY <1>2 DEF Submit
<1> HIDE DEF q
<1>4. /\ e.queue = q.queue /\ e.slot = q.slot /\ e.open = q.open /\ e.active = q.active
      /\ e.uptodate = q.uptodate /\ e.status = q.status /\ e.retry = q.retry
      /\ e \in Manager
  <2> DEFINE g == q.queued \cup {t}
             h == [q.priority EXCEPT ![t] = p]
  <2>1. g \in SUBSET Tiles /\ h \in [Tiles -> Priorities]
    BY <1>1 DEF Manager
  <2>2. e = [q EXCEPT !.queued = g, !.priority = h]
    BY <1>1 DEF Manager
  <2> HIDE DEF e, g, h
  <2>3. QED
    BY <1>1, <2>1, <2>2 DEF Manager
<1> HIDE DEF e
<1>5. /\ w.queue = e.queue /\ w.slot = e.slot /\ w.open = e.open /\ w.active = e.active
      /\ w.uptodate = e.uptodate /\ w.status = "Waiting" /\ w.retry = e.retry
      /\ w \in Manager
  BY <1>4 DEF Manager
<1> HIDE DEF w
<1>6. ManagerOK(e)
  BY <1>1, <1>4 DEF ManagerOK, SlotsOK, Used
<1>7. ManagerOK(w)
  BY <1>5, <1>6 DEF ManagerOK, SlotsOK, Used
<1>8. CASE m.status = "First" /\ r = w
  BY <1>8, <1>1, <1>4, <1>5, <1>7 DEF Orderly
<1>9. CASE m.status = "Waiting" /\ r = e
  BY <1>9, <1>1, <1>4, <1>6 DEF Orderly, Calm
<1>10. CASE m.status = "Active" /\ r \in load_next_tile(e)
  <2>1. ManagerOK(r) /\ Calm(e, r) /\ (Sorted(e.queue) => Sorted(r.queue))
    BY <1>6, <1>10, LoadNextTile
  <2>2. QED
    BY <2>1, <1>1, <1>4 DEF Orderly, Calm
<1>11. QED
  BY <1>3, <1>8, <1>9, <1>10

(***************************************************************************)
(* The inductive invariant of the specification.  A retry timer exists     *)
(* only once the network was up, hence only once the sweep is running.     *)
(***************************************************************************)

OthersOK ==
  /\ timestamped \subseteq Tiles
  /\ session \in {"Unknown", "Full", "Recent"}
  /\ login \in BOOLEAN
  /\ sweepTimer \in BOOLEAN
  /\ refreshTimer \in BOOLEAN
  /\ refreshing \in [running : BOOLEAN, left : SUBSET Tiles, count : Nat]

IInv ==
  /\ ManagerOK(tm)
  /\ OthersOK
  /\ NeverWedged
  /\ tm.retry => sweepTimer

LEMMA InitIInv == Init => IInv
<1> SUFFICES ASSUME Init PROVE IInv
  OBVIOUS
<1>1. tm.status = "First" /\ tm.queue = <<>> /\ tm.slot = [c \in Conns |-> NoTile]
      /\ tm.open = 0 /\ tm.active = {} /\ tm.uptodate = {} /\ tm.retry = FALSE
  BY DEF Init
<1>2. tm \in Manager
  <2>1. 0 \in Priorities /\ -1 \in Int /\ 0 \in Int
    BY TileManagerAssumption DEF Priorities
  <2>2. [t \in Tiles |-> 0] \in [Tiles -> Priorities]
    BY <2>1
  <2>3. [c \in Conns |-> NoTile] \in [Conns -> Tiles \cup {NoTile}]
    OBVIOUS
  <2>4. <<>> \in Seq(Request)
    OBVIOUS
  <2> DEFINE none == -1
  <2>5. /\ none \in Int
        /\ tm = [status |-> "First", queue |-> <<>>, slot |-> [c \in Conns |-> NoTile],
                 timed |-> {}, open |-> 0, queued |-> {}, active |-> {}, uptodate |-> {},
                 unforce |-> {}, priority |-> [t \in Tiles |-> 0], retry |-> FALSE,
                 done |-> 0, total |-> none]
    BY <2>1 DEF Init
  <2> HIDE DEF none
  <2>6. QED
    BY <2>2, <2>3, <2>4, <2>5 DEF Manager
<1>3. Len(tm.queue) <= MaxQueue
  BY <1>1, TileManagerAssumption
<1>4. SlotsOK(tm)
  <2>1. Used(tm) = {}
    BY <1>1 DEF Used
  <2>2. QED
    BY <2>1, <1>1, FS_EmptySet DEF SlotsOK
<1>5. QED
  BY <1>1, <1>2, <1>3, <1>4 DEF Init, IInv, ManagerOK, OthersOK, NeverWedged

(* One step per action; each follows from the lemma of what it calls.      *)
LEMMA StepIInv == IInv /\ [Next]_vars => IInv'
<1> SUFFICES ASSUME IInv, [Next]_vars PROVE IInv'
  OBVIOUS
<1>ok. ManagerOK(tm) /\ tm \in Manager /\ tm.status \in {"First", "Waiting", "Active"}
  BY DEF IInv, ManagerOK, Manager
<1>prime. ManagerOK(tm') => ManagerOK(tm)'
  BY DEF ManagerOK, SlotsOK, Used
<1>calm. ASSUME ManagerOK(tm'), Calm(tm, tm'), OthersOK', login => login', sweepTimer' = sweepTimer
         PROVE  IInv'
  BY <1>calm, <1>prime DEF IInv, NeverWedged, Calm, OthersOK
<1>1. ASSUME NEW t \in Tiles, NEW p \in Priorities, NEW force \in BOOLEAN,
             roadmap_tile_request(t, p, force)
      PROVE  IInv'
  <2>1. OthersOK'
    BY <1>1 DEF IInv, OthersOK, roadmap_tile_request, init_loading_session
  <2>2. CASE tm' \in Submit(tm, t, p) /\ login' = (login \/ tm.status = "First")
    <3>1. sweepTimer' = sweepTimer
      BY <1>1 DEF roadmap_tile_request
    <3>2. ManagerOK(tm') /\ \/ Calm(tm, tm')
                            \/ tm.status = "First" /\ tm'.status = "Waiting" /\ tm'.retry = tm.retry
      BY <2>2, <1>ok, SubmitOK
    <3>3. QED
      BY <2>1, <2>2, <3>1, <3>2, <1>prime DEF IInv, NeverWedged, Calm, OthersOK
  <2>3. CASE tm' = [tm EXCEPT !.unforce = @ \cup {t}] /\ login' = login
    <3>1. sweepTimer' = sweepTimer
      BY <1>1 DEF roadmap_tile_request
    <3>2. /\ tm'.queue = tm.queue /\ tm'.slot = tm.slot /\ tm'.open = tm.open
          /\ tm'.active = tm.active /\ tm'.uptodate = tm.uptodate
          /\ tm'.status = tm.status /\ tm'.retry = tm.retry
      BY <2>3, <1>ok DEF Manager
    <3>3. tm' \in Manager
      <4>1. tm.unforce \cup {t} \in SUBSET Tiles /\ tm' = [tm EXCEPT !.unforce = tm.unforce \cup {t}]
        BY <2>3, <1>ok DEF Manager
      <4>2. QED
        BY <4>1, <1>ok DEF Manager
    <3>4. ManagerOK(tm')
      BY <3>2, <3>3, <1>ok DEF ManagerOK, SlotsOK, Used
    <3>5. QED
      BY <2>1, <2>3, <3>1, <3>2, <3>4, <1>calm DEF Calm
  <2>4. QED
    BY <1>1, <2>2, <2>3 DEF roadmap_tile_request
<1>2. ASSUME NEW t \in Tiles, MarkStale(t)
      PROVE  IInv'
  <2>1. ManagerOK(tm') /\ tm'.status = tm.status /\ tm'.retry = tm.retry
    BY <1>2, <1>ok, StaleOK DEF MarkStale
  <2>2. OthersOK' /\ login' = login /\ sweepTimer' = sweepTimer
    BY <1>2 DEF IInv, MarkStale, OthersOK
  <2>3. QED
    BY <2>1, <2>2, <1>calm DEF Calm
<1>3. ASSUME roadmap_tile_reset_session
      PROVE  IInv'
  <2>1. tm' = tm /\ OthersOK' /\ login' = login /\ sweepTimer' = sweepTimer
    BY <1>3 DEF IInv, roadmap_tile_reset_session, OthersOK
  <2>2. QED
    BY <2>1, <1>ok, <1>calm DEF Calm
<1>4. ASSUME NEW c \in Conns, http_cb_progress(c)
      PROVE  IInv'
  <2>1. OthersOK' /\ login' = login /\ sweepTimer' = sweepTimer
    BY <1>4 DEF IInv, http_cb_progress, OthersOK
  <2>2. tm.timed \cup {c} \in SUBSET Conns /\ tm' = [tm EXCEPT !.timed = tm.timed \cup {c}]
    BY <1>4, <1>ok DEF http_cb_progress, Manager
  <2>3. /\ tm'.queue = tm.queue /\ tm'.slot = tm.slot /\ tm'.open = tm.open
        /\ tm'.active = tm.active /\ tm'.uptodate = tm.uptodate
        /\ tm'.status = tm.status /\ tm'.retry = tm.retry
        /\ tm' \in Manager
    BY <2>2, <1>ok DEF Manager
  <2>4. ManagerOK(tm') /\ Calm(tm, tm')
    BY <2>3, <1>ok DEF ManagerOK, SlotsOK, Used, Calm
  <2>5. QED
    BY <2>1, <2>4, <1>calm
<1>5. ASSUME NEW c \in Conns, NEW failure \in BOOLEAN, http_cb_error(c, failure)
      PROVE  IInv'
  <2>1. OthersOK' /\ login' = login /\ sweepTimer' = sweepTimer /\ tm.slot[c] # NoTile
    BY <1>5 DEF IInv, http_cb_error, OthersOK, Busy
  <2>2. CASE tm' = on_connection_failure(tile_refresh_cb(tm), c)
    <3> DEFINE e == tile_refresh_cb(tm)
    <3>1. ManagerOK(e) /\ e.status = tm.status /\ e.retry = tm.retry /\ e.slot = tm.slot
      BY <1>ok, RefreshCount
    <3> HIDE DEF e
    <3>2. ManagerOK(tm') /\ Calm(e, tm')
      BY <2>1, <2>2, <3>1, OnConnectionFailure DEF e
    <3>3. QED
      BY <2>1, <3>1, <3>2, <1>calm DEF Calm
  <2>3. CASE tm' \in Finish(tm, c)
    <3>1. ManagerOK(tm') /\ Calm(tm, tm')
      BY <2>1, <2>3, <1>ok, FinishOK
    <3>2. QED
      BY <2>1, <3>1, <1>calm
  <2>4. QED
    BY <1>5, <2>2, <2>3 DEF http_cb_error
<1>6. ASSUME NEW c \in Conns, NEW loaded \in BOOLEAN, http_cb_done(c, loaded)
      PROVE  IInv'
  <2>1. /\ login' = login /\ sweepTimer' = sweepTimer /\ tm.slot[c] # NoTile
        /\ tm' \in Finish(tm, c)
    BY <1>6 DEF http_cb_done, Busy
  <2>2. tm.slot[c] \in Tiles
    BY <2>1, <1>ok DEF Manager
  <2>3. OthersOK'
    BY <1>6, <2>2 DEF IInv, http_cb_done, OthersOK
  <2>4. ManagerOK(tm') /\ Calm(tm, tm')
    BY <2>1, <1>ok, FinishOK
  <2>5. QED
    BY <2>1, <2>3, <2>4, <1>calm
<1>7. ASSUME NEW c \in Conns, roadmap_tile_manager_check_timeouts(c)
      PROVE  IInv'
  <2>1. /\ login' = login /\ sweepTimer' = sweepTimer /\ tm.slot[c] # NoTile
        /\ tm' = requeue_tile(tm, c) /\ OthersOK'
    BY <1>7 DEF roadmap_tile_manager_check_timeouts, Busy, IInv, OthersOK
  <2>2. ManagerOK(tm') /\ tm'.status = tm.status /\ tm'.retry = tm.retry
    BY <2>1, <1>ok, RequeueTile
  <2>3. QED
    BY <2>1, <2>2, <1>calm DEF Calm
<1>8. ASSUME start_network \/ roadmap_tile_manager_login_cb
      PROVE  IInv'
  <2> DEFINE a == [tm EXCEPT !.status = "Active"]
  <2>1. ManagerOK(a) /\ a.status = "Active" /\ a.retry = tm.retry
    BY <1>ok, StatusOK
  <2>2. tm' \in load_next_tile(a) /\ sweepTimer' = TRUE /\ OthersOK'
    BY <1>8 DEF start_network, roadmap_tile_manager_login_cb, IInv, OthersOK
  <2> HIDE DEF a
  <2>3. ManagerOK(tm') /\ Calm(a, tm')
    BY <2>1, <2>2, LoadNextTile
  <2>4. QED
    BY <2>1, <2>2, <2>3, <1>prime DEF IInv, NeverWedged, Calm
<1>9. ASSUME roadmap_tile_refresh_all
      PROVE  IInv'
  <2>1. tm' = tm /\ OthersOK' /\ login' = login /\ sweepTimer' = sweepTimer
    BY <1>9 DEF IInv, roadmap_tile_refresh_all, OthersOK
  <2>2. QED
    BY <2>1, <1>ok, <1>calm DEF Calm
<1>count. ASSUME NEW d \in Int, NEW n \in Int, tm' = [tm EXCEPT !.done = d, !.total = n]
          PROVE  ManagerOK(tm') /\ Calm(tm, tm')
  <2>1. /\ tm'.queue = tm.queue /\ tm'.slot = tm.slot /\ tm'.open = tm.open
        /\ tm'.active = tm.active /\ tm'.uptodate = tm.uptodate
        /\ tm'.status = tm.status /\ tm'.retry = tm.retry
        /\ tm' \in Manager
    BY <1>count, <1>ok DEF Manager
  <2>2. QED
    BY <2>1, <1>ok DEF ManagerOK, SlotsOK, Used, Calm
<1>10. ASSUME refresh_all_tiles
       PROVE  IInv'
  <2>1. login' = login /\ sweepTimer' = sweepTimer /\ tm' = [tm EXCEPT !.done = 0, !.total = -1]
    BY <1>10 DEF refresh_all_tiles
  <2>2. OthersOK'
    <3>1. PICK cached \in SUBSET Tiles :
            refreshing' = [running |-> TRUE, left |-> cached, count |-> 0]
      BY <1>10 DEF refresh_all_tiles
    <3>2. refreshing' \in [running : BOOLEAN, left : SUBSET Tiles, count : Nat]
      BY <3>1
    <3>3. QED
      BY <3>2, <1>10 DEF IInv, refresh_all_tiles, OthersOK
  <2>3. ManagerOK(tm') /\ Calm(tm, tm')
    <3> DEFINE none == -1
    <3>1. none \in Int /\ 0 \in Int /\ tm' = [tm EXCEPT !.done = 0, !.total = none]
      BY <2>1
    <3> HIDE DEF none
    <3>2. QED
      BY <3>1, <1>count
  <2>4. QED
    BY <2>1, <2>2, <2>3, <1>calm
<1>11. ASSUME NEW t \in Tiles, roadmap_square_refresh(t)
       PROVE  IInv'
  <2> DEFINE stale == [tm EXCEPT !.uptodate = @ \ {t}]
             asked == refreshing.count < MaxQueue /\ Acceptable(stale, t, MaxPriority)
  <2>1. ManagerOK(stale) /\ stale.status = tm.status /\ stale.retry = tm.retry
    BY <1>ok, StaleOK
  <2>2. /\ tm' \in IF asked THEN Submit(stale, t, MaxPriority) ELSE {stale}
        /\ login' = (login \/ (asked /\ tm.status = "First"))
        /\ sweepTimer' = sweepTimer
    BY <1>11, Zenon DEF roadmap_square_refresh
  <2>3. OthersOK'
    <3> DEFINE n == IF refreshing.count < MaxQueue THEN refreshing.count + 1 ELSE refreshing.count
               l == refreshing.left \ {t}
    <3>1. refreshing \in [running : BOOLEAN, left : SUBSET Tiles, count : Nat]
      BY DEF IInv, OthersOK
    <3>2. refreshing' = [refreshing EXCEPT !.left = l, !.count = n]
      BY <1>11, <3>1 DEF roadmap_square_refresh
    <3>3. n \in Nat /\ l \in SUBSET Tiles
      BY <3>1
    <3> HIDE DEF n, l
    <3>4. refreshing' \in [running : BOOLEAN, left : SUBSET Tiles, count : Nat]
      BY <3>1, <3>2, <3>3
    <3>5. login' \in BOOLEAN
      BY <2>2
    <3>6. QED
      BY <3>4, <3>5, <1>11 DEF IInv, roadmap_square_refresh, OthersOK
  <2> HIDE DEF stale, asked
  <2>4. CASE asked
    <3>1. MaxPriority \in Priorities
      BY TileManagerAssumption DEF Priorities
    <3>2. ManagerOK(tm') /\ \/ Calm(stale, tm')
                            \/ /\ stale.status = "First" /\ tm'.status = "Waiting"
                               /\ tm'.retry = stale.retry
      BY <2>1, <2>2, <2>4, <3>1, SubmitOK
    <3>3. QED
      BY <2>1, <2>2, <2>3, <2>4, <3>2, <1>prime DEF IInv, NeverWedged, Calm, OthersOK
  <2>5. CASE ~asked
    <3>1. tm' = stale /\ (login => login')
      BY <2>2, <2>5
    <3>2. QED
      BY <2>1, <2>2, <2>3, <3>1, <1>calm DEF Calm
  <2>6. QED
    BY <2>4, <2>5
<1>12. ASSUME roadmap_square_refresh_return
       PROVE  IInv'
  <2>1. login' = login /\ sweepTimer' = sweepTimer /\ tm' = [tm EXCEPT !.total = refreshing.count]
    BY <1>12 DEF roadmap_square_refresh_return
  <2>2. OthersOK'
    BY <1>12 DEF IInv, roadmap_square_refresh_return, OthersOK
  <2>3. tm.done \in Int /\ refreshing.count \in Int
    BY <1>ok DEF Manager, IInv, OthersOK
  <2>4. tm' = [tm EXCEPT !.done = tm.done, !.total = refreshing.count]
    BY <2>1, <1>ok DEF Manager
  <2>5. ManagerOK(tm') /\ Calm(tm, tm')
    BY <2>3, <2>4, <1>count
  <2>6. QED
    BY <2>1, <2>2, <2>5, <1>calm
<1>13. CASE UNCHANGED vars
  <2>1. tm' = tm /\ OthersOK' /\ login' = login /\ sweepTimer' = sweepTimer
    BY <1>13 DEF IInv, vars, OthersOK
  <2>2. QED
    BY <2>1, <1>ok, <1>calm DEF Calm
<1>14. QED
  BY <1>1, <1>2, <1>3, <1>4, <1>5, <1>6, <1>7, <1>8, <1>9, <1>10, <1>11, <1>12, <1>13
  DEF Next, RequestNext, TransferNext, TimerNext, RefreshNext

LEMMA InductiveInvariant == Spec => []IInv
  BY InitIInv, StepIInv, PTL DEF Spec

(***************************************************************************)
(* Theorems.                                                               *)
(***************************************************************************)

(* Every static keeps its type and RequestQueue is never overrun.          *)
THEOREM TypeCorrect == Spec => []TypeOK
<1>1. IInv => TypeOK
  BY DEF IInv, ManagerOK, OthersOK, TypeOK
<1>2. QED
  BY <1>1, InductiveInvariant, PTL

(* NumOpenConnections, the slots and FLAG_ACTIVE agree: the search for a   *)
(* free slot in load_next_tile always finds one, and no two connections    *)
(* work for the same tile.                                                 *)
THEOREM ConnectionsAccounted == Spec => []ConnectionAccounting
<1>1. IInv => ConnectionAccounting
  BY DEF IInv, ManagerOK, SlotsOK, Used, ConnectionAccounting
<1>2. QED
  BY <1>1, InductiveInvariant, PTL

(* No connection is spent on a tile that is already up to date.            *)
THEOREM DownloadsNeeded == Spec => []NoRedundantDownload
<1>1. IInv => NoRedundantDownload
  BY DEF IInv, ManagerOK, NoRedundantDownload
<1>2. QED
  BY <1>1, InductiveInvariant, PTL

(* A waiting manager has a callback or a timer that wakes it up, and an    *)
(* active one has the sweep.                                               *)
THEOREM AlwaysAwakened == Spec => []NeverWedged
<1>1. IInv => NeverWedged
  BY DEF IInv
<1>2. QED
  BY <1>1, InductiveInvariant, PTL

(* A step that starts transfers takes requests off first, and the others   *)
(* touch the queue through queue_tile only.                                *)
LEMMA StepOrderly == IInv /\ [Next]_vars => Orderly(tm, tm')
<1> SUFFICES ASSUME IInv, [Next]_vars PROVE Orderly(tm, tm')
  OBVIOUS
<1>ok. ManagerOK(tm) /\ tm \in Manager
  BY DEF IInv, ManagerOK
<1>same. ASSUME tm'.queue = tm.queue PROVE Orderly(tm, tm')
  BY <1>same DEF Orderly
<1>1. ASSUME NEW t \in Tiles, NEW p \in Priorities, NEW force \in BOOLEAN,
             roadmap_tile_request(t, p, force)
      PROVE  Orderly(tm, tm')
  <2>1. CASE tm' \in Submit(tm, t, p)
    BY <2>1, <1>ok, SubmitOK
  <2>2. CASE tm' = [tm EXCEPT !.unforce = @ \cup {t}]
    BY <2>2, <1>ok, <1>same DEF Manager
  <2>3. QED
    BY <1>1, <2>1, <2>2 DEF roadmap_tile_request
<1>2. ASSUME NEW c \in Conns, NEW failure \in BOOLEAN, http_cb_error(c, failure)
      PROVE  Orderly(tm, tm')
  <2> DEFINE e == tile_refresh_cb(tm)
  <2>1. tm.slot[c] # NoTile /\ ManagerOK(e) /\ e.queue = tm.queue /\ e.slot = tm.slot
    BY <1>2, <1>ok, RefreshCount DEF http_cb_error, Busy
  <2>2. tm' = on_connection_failure(e, c) \/ tm' \in Finish(tm, c)
    BY <1>2 DEF http_cb_error
  <2> HIDE DEF e
  <2>3. QED
    BY <2>1, <2>2, <1>ok, OnConnectionFailure, FinishOK DEF Orderly
<1>3. ASSUME NEW c \in Conns, NEW loaded \in BOOLEAN, http_cb_done(c, loaded)
      PROVE  Orderly(tm, tm')
  BY <1>3, <1>ok, FinishOK DEF http_cb_done, Busy, Orderly
<1>4. ASSUME NEW c \in Conns, roadmap_tile_manager_check_timeouts(c)
      PROVE  Orderly(tm, tm')
  BY <1>4, <1>ok, RequeueTile DEF roadmap_tile_manager_check_timeouts, Busy
<1>5. ASSUME start_network \/ roadmap_tile_manager_login_cb
      PROVE  Orderly(tm, tm')
  <2> DEFINE a == [tm EXCEPT !.status = "Active"]
  <2>1. ManagerOK(a) /\ a.queue = tm.queue
    BY <1>ok, StatusOK
  <2>2. tm' \in load_next_tile(a)
    BY <1>5 DEF start_network, roadmap_tile_manager_login_cb
  <2> HIDE DEF a
  <2>3. QED
    BY <2>1, <2>2, LoadNextTile DEF Orderly
<1>6. ASSUME NEW t \in Tiles, roadmap_square_refresh(t)
      PROVE  Orderly(tm, tm')
  <2> DEFINE stale == [tm EXCEPT !.uptodate = @ \ {t}]
  <2>1. ManagerOK(stale) /\ stale.queue = tm.queue /\ MaxPriority \in Priorities
    BY <1>ok, StaleOK, TileManagerAssumption DEF Priorities
  <2>2. tm' \in Submit(stale, t, MaxPriority) \/ tm' = stale
    BY <1>6 DEF roadmap_square_refresh
  <2> HIDE DEF stale
  <2>3. QED
    BY <2>1, <2>2, SubmitOK DEF Orderly
<1>7. ASSUME \/ \E t \in Tiles : MarkStale(t)
             \/ \E c \in Conns : http_cb_progress(c)
             \/ roadmap_tile_reset_session
             \/ roadmap_tile_refresh_all
             \/ refresh_all_tiles
             \/ roadmap_square_refresh_return
             \/ UNCHANGED vars
      PROVE  Orderly(tm, tm')
  <2>1. tm'.queue = tm.queue
    BY <1>7, <1>ok DEF Manager, MarkStale, http_cb_progress, roadmap_tile_reset_session,
                       roadmap_tile_refresh_all, refresh_all_tiles,
                       roadmap_square_refresh_return, vars
  <2>2. QED
    BY <2>1, <1>same
<1>8. QED
  BY <1>1, <1>2, <1>3, <1>4, <1>5, <1>6, <1>7
  DEF Next, RequestNext, TransferNext, TimerNext, RefreshNext

(* Higher priorities stay first in a queue that was not full.              *)
THEOREM PriorityOrdered == Spec => PriorityOrder
<1>1. IInv /\ [Next]_vars => [Sorted(tm.queue) /\ Len(tm.queue) < MaxQueue => Sorted(tm.queue')]_vars
  BY StepOrderly DEF Orderly
<1>2. QED
  BY <1>1, InductiveInvariant, PTL DEF Spec, PriorityOrder

(***************************************************************************)
(* What a step may do to requests: lose one, or leave them to nobody.      *)
(***************************************************************************)

TilesOf(q) == {q[i].tile : i \in 1 .. Len(q)}

(* The flags of the tiles never say more than the queue does, unless they  *)
(* did so before.                                                          *)
NoLoss(m, r) == Lost(r) \subseteq Lost(m)

Stalls(m) == m.status = "Active" /\ m.queue # <<>> /\ m.open = 0

Steady(m, r) == Stalls(r) => Stalls(m)

(* A request that is appended or inserted puts no other one out.           *)
LEMMA TilesOfLonger ==
  ASSUME NEW q \in Seq(Request), NEW r \in Request
  PROVE  /\ TilesOf(q) \cup {r.tile} \subseteq TilesOf(Append(q, r))
         /\ TilesOf(q) \cup {r.tile} \subseteq TilesOf(Insert(q, r))
<1>1. Len(q) \in Nat
  BY LenProperties
<1>2. ASSUME NEW s, Len(s) = Len(q) + 1, NEW i \in 1 .. Len(q) + 1,
             \A j \in 1 .. Len(q) + 1 :
               s[j] = IF j < i THEN q[j] ELSE IF j = i THEN r ELSE q[j - 1]
      PROVE  TilesOf(q) \cup {r.tile} \subseteq TilesOf(s)
  <2>1. r.tile \in TilesOf(s)
    <3>1. s[i] = r /\ i \in 1 .. Len(s)
      BY <1>1, <1>2
    <3>2. QED
      BY <3>1 DEF TilesOf
  <2>2. ASSUME NEW j \in 1 .. Len(q) PROVE q[j].tile \in TilesOf(s)
    <3>1. \E k \in 1 .. Len(s) : s[k] = q[j]
      <4>1. CASE j < i
        BY <4>1, <1>1, <1>2
      <4>2. CASE j >= i
        <5>1. j + 1 \in 1 .. Len(q) + 1 /\ ~(j + 1 < i) /\ j + 1 # i /\ (j + 1) - 1 = j
          BY <4>2, <1>1
        <5>2. s[j + 1] = q[j]
          BY <5>1, <1>2
        <5>3. QED
          BY <5>1, <5>2, <1>2
      <4>3. QED
        BY <4>1, <4>2
    <3>2. QED
      BY <3>1 DEF TilesOf
  <2>3. QED
    BY <2>1, <2>2 DEF TilesOf
<1>3. TilesOf(q) \cup {r.tile} \subseteq TilesOf(Append(q, r))
  <2> DEFINE s == Append(q, r)
             i == Len(q) + 1
  <2>1. /\ Len(s) = Len(q) + 1 /\ s[Len(q) + 1] = r
        /\ \A j \in 1 .. Len(q) : s[j] = q[j]
    BY AppendProperties
  <2> HIDE DEF s
  <2>2. \A j \in 1 .. Len(q) + 1 : s[j] = IF j < i THEN q[j] ELSE IF j = i THEN r ELSE q[j - 1]
    BY <1>1, <2>1
  <2>3. i \in 1 .. Len(q) + 1
    BY <1>1
  <2> HIDE DEF i
  <2>4. TilesOf(q) \cup {r.tile} \subseteq TilesOf(s)
    BY <1>2, <2>1, <2>2, <2>3
  <2>5. QED
    BY <2>4 DEF s
<1>4. TilesOf(q) \cup {r.tile} \subseteq TilesOf(Insert(q, r))
  BY <1>2, InsertProperties
<1>5. QED
  BY <1>3, <1>4

(* A queue with room takes the request and keeps the others.               *)
LEMMA QueueTileKeeps ==
  ASSUME NEW m, ManagerOK(m), Len(m.queue) < MaxQueue,
         NEW t \in Tiles, NEW p \in Priorities
  PROVE  /\ TilesOf(m.queue) \cup {t} \subseteq TilesOf(queue_tile(m, t, p).queue)
         /\ queue_tile(m, t, p).queued = m.queued
<1> DEFINE r == [tile |-> t, priority |-> p]
<1>1. m \in Manager /\ m.queue \in Seq(Request) /\ r \in Request
  BY DEF ManagerOK, Manager, Request
<1>2. Len(m.queue) \in Nat /\ MaxQueue \in Nat /\ p \in Nat
  BY <1>1, LenProperties, TileManagerAssumption DEF Priorities
<1>3. ~Full(m.queue)
  BY <1>2 DEF Full
<1>4. \/ queue_tile(m, t, p) = [m EXCEPT !.queue = Append(m.queue, r)]
      \/ queue_tile(m, t, p) = [m EXCEPT !.queue = Insert(m.queue, r)]
  BY <1>1, <1>2, <1>3 DEF queue_tile, Manager
<1>5. r.tile = t
  OBVIOUS
<1> HIDE DEF r
<1>6. /\ TilesOf(m.queue) \cup {t} \subseteq TilesOf(Append(m.queue, r))
      /\ TilesOf(m.queue) \cup {t} \subseteq TilesOf(Insert(m.queue, r))
  BY <1>1, <1>5, TilesOfLonger
<1>7. CASE queue_tile(m, t, p) = [m EXCEPT !.queue = Append(m.queue, r)]
  BY <1>1, <1>6, <1>7 DEF Manager
<1>8. CASE queue_tile(m, t, p) = [m EXCEPT !.queue = Insert(m.queue, r)]
  BY <1>1, <1>6, <1>8 DEF Manager
<1>9. QED
  BY <1>4, <1>7, <1>8

(* A tile that is requeued into a queue with room is not lost, and the     *)
(* manager that lost the network does not call itself active.              *)
LEMMA RequeueKeeps ==
  ASSUME NEW m, ManagerOK(m), NEW c \in Conns, m.slot[c] # NoTile
  PROVE  /\ Len(m.queue) < MaxQueue => NoLoss(m, requeue_tile(m, c))
         /\ Len(m.queue) < MaxQueue => NoLoss(m, on_connection_failure(m, c))
         /\ on_connection_failure(m, c).status # "Active"
<1> DEFINE e == Release(m, c)
           t == m.slot[c]
           p == m.priority[t]
           r == requeue_tile(m, c)
           f == on_connection_failure(m, c)
<1>1. ManagerOK(e) /\ t \in Tiles /\ e.queue = m.queue
  BY ReleaseOK
<1>2. e.queued = m.queued /\ m \in Manager
  BY DEF Release, ManagerOK, Manager
<1>3. p \in Priorities
  BY <1>1, <1>2 DEF Manager
<1>4. r = queue_tile(e, t, p)
  BY DEF requeue_tile
<1> HIDE DEF e, t, p
<1>5. ASSUME Len(m.queue) < MaxQueue PROVE NoLoss(m, r)
  <2>1. TilesOf(e.queue) \subseteq TilesOf(r.queue) /\ r.queued = e.queued
    BY <1>1, <1>3, <1>4, <1>5, QueueTileKeeps
  <2>2. QED
    BY <1>1, <1>2, <2>1 DEF NoLoss, Lost, TilesOf
<1>6. r.status = m.status /\ r \in Manager
  BY RequeueTile DEF ManagerOK
<1>7. f = IF m.status = "Active" THEN [r EXCEPT !.status = "Waiting", !.retry = TRUE] ELSE r
  BY DEF on_connection_failure
<1> HIDE DEF r
<1>8. f.queue = r.queue /\ f.queued = r.queued /\ f.status # "Active"
  BY <1>6, <1>7 DEF Manager
<1>9. NoLoss(m, r) => NoLoss(m, f)
  BY <1>8 DEF NoLoss, Lost
<1>10. QED
  BY <1>5, <1>8, <1>9 DEF r

(* Requests that are taken off the queue lose their flags with their       *)
(* places.                                                                 *)
LEMMA PoppedKeeps ==
  ASSUME NEW m, ManagerOK(m), NEW k \in 0 .. Len(m.queue)
  PROVE  NoLoss(m, Popped(m, k))
<1> DEFINE q == m.queue
           s == SubSeq(q, k + 1, Len(q))
           r == Popped(m, k)
<1>1. m \in Manager /\ q \in Seq(Request) /\ Len(q) \in Nat
  BY LenProperties DEF ManagerOK, Manager
<1>2. \A j \in 1 .. Len(q) : q[j] \in Request
  BY <1>1, ElementOfSeq
<1>3. /\ Len(s) = Len(q) - k
      /\ \A j \in 1 .. Len(q) - k : s[j] = q[k + j]
  <2>1. \A j \in k + 1 .. Len(q) : q[j] \in Request
    BY <1>1, <1>2
  <2>2. QED
    BY <1>1, <2>1, SubSeqProperties
<1>4. r.queue = s /\ r.queued = m.queued \ {q[i].tile : i \in 1 .. k}
  BY <1>1 DEF Popped, Manager
<1> HIDE DEF q, s, r
<1>5. ASSUME NEW i \in 1 .. Len(q)
      PROVE  q[i].tile \in {q[j].tile : j \in 1 .. k} \cup TilesOf(s)
  <2>1. CASE i <= k
    BY <2>1, <1>1
  <2>2. CASE i > k
    <3>1. i - k \in 1 .. Len(q) - k /\ k + (i - k) = i
      BY <2>2, <1>1
    <3>2. s[i - k] = q[i]
      BY <3>1, <1>3
    <3>3. QED
      BY <3>1, <3>2, <1>3 DEF TilesOf
  <2>3. QED
    BY <2>1, <2>2, <1>1
<1>6. TilesOf(q) \subseteq {q[j].tile : j \in 1 .. k} \cup TilesOf(s)
  BY <1>5 DEF TilesOf
<1>7. Lost(r) \subseteq m.queued \ TilesOf(q)
  BY <1>4, <1>6 DEF Lost, TilesOf
<1>8. QED
  BY <1>7 DEF NoLoss, Lost, TilesOf, q, r

(* load_next_tile looks for a request to serve until there is a connection *)
(* open, the network is lost, or the queue is empty; a request that fails  *)
(* at once finds room, since it was taken off first.                       *)
LEMMA LoadNextKeeps ==
  ASSUME NEW m, ManagerOK(m), NEW r \in load_next_tile(m)
  PROVE  NoLoss(m, r) /\ ~Stalls(r)
<1>1. /\ m \in Manager /\ m.queue \in Seq(Request) /\ Len(m.queue) \in Nat
      /\ m.open \in Nat /\ MaxConcurrent \in Nat \ {0} /\ MaxQueue \in Nat
  <2>1. m \in Manager /\ m.queue \in Seq(Request) /\ m.open = Cardinality(Used(m))
    BY DEF ManagerOK, Manager, SlotsOK
  <2>2. IsFiniteSet(Used(m)) /\ IsFiniteSet(Conns) /\ Conns # {}
    BY TileManagerAssumption, FS_Subset DEF Used
  <2>3. Cardinality(Used(m)) \in Nat /\ Cardinality(Conns) \in Nat /\ Cardinality(Conns) # 0
    BY <2>2, FS_CardinalityType, FS_EmptySet
  <2>4. QED
    BY <2>1, <2>3, LenProperties, TileManagerAssumption DEF MaxConcurrent
<1>2. CASE m.open >= MaxConcurrent \/ m.status # "Active"
  BY <1>1, <1>2 DEF load_next_tile, NoLoss, Stalls
<1>3. CASE m.open < MaxConcurrent /\ m.status = "Active" /\ Ready(m) = {}
  <2>1. r = Popped(m, Len(m.queue))
    BY <1>1, <1>3 DEF load_next_tile
  <2>2. Len(m.queue) \in 0 .. Len(m.queue)
    BY <1>1
  <2>3. ManagerOK(r) /\ Len(r.queue) = Len(m.queue) - Len(m.queue) /\ NoLoss(m, r)
    BY <2>1, <2>2, PoppedOK, PoppedKeeps
  <2>4. r.queue = <<>>
    BY <2>3, <1>1, EmptySeq DEF ManagerOK, Manager
  <2>5. QED
    BY <2>3, <2>4 DEF Stalls
<1>4. CASE m.open < MaxConcurrent /\ m.status = "Active" /\ Ready(m) # {}
  <2> DEFINE k == Min(Ready(m))
             t == m.queue[k].tile
             p == Popped(m, k)
             o(c) == Occupied(p, c, t)
             f(c) == tile_refresh_cb(o(c))
  <2>1. k \in Ready(m)
    <3>1. Ready(m) \in SUBSET Nat
      BY <1>1 DEF Ready
    <3>2. QED
      BY <3>1, <1>4, MinProperties
  <2>2. k \in 1 .. Len(m.queue) /\ t \notin m.active \cup m.uptodate
    BY <2>1 DEF Ready
  <2>3. t \in Tiles
    <3> HIDE DEF k
    <3>1. m.queue[k] \in Request
      BY <2>2, <1>1, ElementOfSeq
    <3>2. QED
      BY <3>1 DEF Request
  <2>4. PICK c \in Conns : m.slot[c] = NoTile /\ r \in roadmap_http_async_copy(o(c), c)
    BY <1>1, <1>4 DEF load_next_tile
  <2> HIDE DEF k, t
  <2>5. /\ ManagerOK(p) /\ p.slot = m.slot /\ p.open = m.open
        /\ p.active = m.active /\ p.uptodate = m.uptodate
        /\ Len(p.queue) = Len(m.queue) - k
        /\ NoLoss(m, p)
    BY <2>2, <1>1, PoppedOK, PoppedKeeps
  <2> HIDE DEF p
  <2>6. ManagerOK(o(c)) /\ o(c).queue = p.queue /\ o(c).slot[c] = t
    BY <2>2, <2>3, <2>4, <2>5, OccupiedOK
  <2>7. o(c).queued = p.queued /\ o(c).open = p.open + 1
    BY <2>5 DEF Occupied, ManagerOK, Manager
  <2>8. r = o(c) \/ r = on_connection_failure(f(c), c)
    BY <2>4 DEF roadmap_http_async_copy
  <2> HIDE DEF o
  <2>9. NoLoss(m, o(c)) /\ ~Stalls(o(c))
    BY <1>1, <2>5, <2>6, <2>7 DEF NoLoss, Lost, Stalls
  <2>10. CASE r = on_connection_failure(f(c), c)
    <3>1. ManagerOK(f(c)) /\ f(c).slot = o(c).slot /\ f(c).queue = o(c).queue
      BY <2>6, RefreshCount
    <3>2. f(c).queued = o(c).queued
      BY <2>6 DEF tile_refresh_cb, ManagerOK, Manager
    <3> HIDE DEF f
    <3>3. Len(f(c).queue) < MaxQueue
      BY <1>1, <2>2, <2>5, <2>6, <3>1 DEF ManagerOK
    <3>4. t # NoTile
      BY <2>3, TileManagerAssumption
    <3>5. NoLoss(f(c), r) /\ r.status # "Active"
      BY <2>6, <2>10, <3>1, <3>3, <3>4, RequeueKeeps
    <3>6. QED
      BY <2>9, <3>1, <3>2, <3>5 DEF NoLoss, Lost, Stalls
  <2>11. QED
    BY <2>8, <2>9, <2>10
<1>5. QED
  BY <1>1, <1>2, <1>3, <1>4

(* The same of a transfer that is over ...                                 *)
LEMMA FinishKeeps ==
  ASSUME NEW m, ManagerOK(m), NEW c \in Conns, m.slot[c] # NoTile, NEW r \in Finish(m, c)
  PROVE  NoLoss(m, r) /\ ~Stalls(r)
<1> DEFINE e == tile_refresh_cb(m)
           f == Release(e, c)
           u == f.uptodate \cup {m.slot[c]}
           g == [f EXCEPT !.uptodate = u]
<1>1. /\ ManagerOK(e) /\ e.slot = m.slot /\ e.queue = m.queue
  BY RefreshCount
<1>2. e.queued = m.queued
  BY DEF tile_refresh_cb, ManagerOK, Manager
<1>3. f \in Manager
  <2> HIDE DEF e
  <2>1. QED
    BY <1>1, ReleaseOK DEF ManagerOK
<1>4. r \in load_next_tile(g)
  BY <1>3 DEF Finish, Manager
<1> HIDE DEF e
<1>5. /\ ManagerOK(f) /\ f.queue = e.queue
      /\ f.active = e.active \ {m.slot[c]} /\ m.slot[c] \in Tiles
  BY <1>1, ReleaseOK
<1>6. f.queued = e.queued
  BY <1>1 DEF Release, ManagerOK, Manager
<1> HIDE DEF f
<1>7. u \in SUBSET Tiles /\ f.active \cap u = {}
  BY <1>3, <1>5 DEF ManagerOK, Manager
<1> HIDE DEF u
<1>8. /\ g.queue = f.queue /\ g.slot = f.slot /\ g.open = f.open /\ g.active = f.active
      /\ g.uptodate = u /\ g.queued = f.queued /\ g \in Manager
  BY <1>3, <1>7 DEF Manager
<1> HIDE DEF g
<1>9. ManagerOK(g)
  BY <1>5, <1>7, <1>8 DEF ManagerOK, SlotsOK, Used
<1>10. NoLoss(g, r) /\ ~Stalls(r)
  BY <1>4, <1>9, LoadNextKeeps
<1>11. QED
  BY <1>1, <1>2, <1>5, <1>6, <1>8, <1>10 DEF NoLoss, Lost

(* ... and of a request that somebody makes.                               *)
LEMMA SubmitKeeps ==
  ASSUME NEW m, ManagerOK(m), NEW t \in Tiles, NEW p \in Priorities, NEW r \in Submit(m, t, p)
  PROVE  /\ Len(m.queue) < MaxQueue => NoLoss(m, r)
         /\ ~Stalls(r)
<1> DEFINE q == queue_tile(m, t, p)
           g == q.queued \cup {t}
           h == [q.priority EXCEPT ![t] = p]
           e == [q EXCEPT !.queued = g, !.priority = h]
<1>1. ManagerOK(q) /\ q.status = m.status /\ q \in Manager
  BY QueueTileOK DEF ManagerOK
<1>2. m.status \in {"First", "Waiting", "Active"}
  BY DEF ManagerOK, Manager
<1>3. e = [q EXCEPT !.queued = @ \cup {t}, !.priority[t] = p]
  BY <1>1 DEF Manager
<1>4. \/ m.status = "First" /\ r = [e EXCEPT !.status = "Waiting"]
      \/ m.status = "Waiting" /\ r = e
      \/ m.status = "Active" /\ r \in load_next_tile(e)
  BY <1>2, <1>3 DEF Submit
<1>5. Len(m.queue) < MaxQueue =>
        TilesOf(m.queue) \cup {t} \subseteq TilesOf(q.queue) /\ q.queued = m.queued
  BY QueueTileKeeps
<1> HIDE DEF q
<1>6. g \in SUBSET Tiles /\ h \in [Tiles -> Priorities]
  BY <1>1 DEF Manager
<1> HIDE DEF h
<1>7. /\ e.queue = q.queue /\ e.slot = q.slot /\ e.open = q.open /\ e.active = q.active
      /\ e.uptodate = q.uptodate /\ e.status = q.status /\ e.queued = q.queued \cup {t}
      /\ e \in Manager
  BY <1>1, <1>6 DEF Manager
<1> HIDE DEF e
<1>8. ManagerOK(e)
  BY <1>1, <1>7 DEF ManagerOK, SlotsOK, Used
<1>9. Len(m.queue) < MaxQueue => NoLoss(m, e)
  BY <1>5, <1>7 DEF NoLoss, Lost, TilesOf
<1>10. CASE m.status = "First" /\ r = [e EXCEPT !.status = "Waiting"]
  <2>1. r.queue = e.queue /\ r.queued = e.queued /\ r.status = "Waiting"
    BY <1>7, <1>10 DEF Manager
  <2>2. QED
    BY <1>9, <2>1 DEF NoLoss, Lost, Stalls
<1>11. CASE m.status = "Waiting" /\ r = e
  BY <1>1, <1>7, <1>9, <1>11 DEF Stalls
<1>12. CASE m.status = "Active" /\ r \in load_next_tile(e)
  <2>1. NoLoss(e, r) /\ ~Stalls(r)
    BY <1>8, <1>12, LoadNextKeeps
  <2>2. QED
    BY <1>9, <2>1 DEF NoLoss
<1>13. QED
  BY <1>4, <1>10, <1>11, <1>12

(* Every step loses nothing unless the queue is full, and leaves requests  *)
(* to nobody only if it is a sweep.                                        *)
Sweep == \E c \in Conns : roadmap_tile_manager_check_timeouts(c)

KeepsRequests ==
  /\ Len(tm.queue) < MaxQueue => NoLoss(tm, tm')
  /\ Steady(tm, tm') \/ Sweep

LEMMA StepKeepsRequests == IInv /\ [Next]_vars => KeepsRequests
<1> SUFFICES ASSUME IInv, [Next]_vars PROVE KeepsRequests
  OBVIOUS
<1>ok. ManagerOK(tm) /\ tm \in Manager
  BY DEF IInv, ManagerOK
<1>same. ASSUME tm'.queue = tm.queue, tm'.queued = tm.queued, tm'.status = tm.status,
                tm'.open = tm.open
         PROVE  KeepsRequests
  BY <1>same DEF KeepsRequests, NoLoss, Lost, Steady, Stalls
<1>1. ASSUME NEW t \in Tiles, NEW p \in Priorities, NEW force \in BOOLEAN,
             roadmap_tile_request(t, p, force)
      PROVE  KeepsRequests
  <2>1. CASE tm' \in Submit(tm, t, p)
    BY <2>1, <1>ok, SubmitKeeps DEF KeepsRequests, Steady
  <2>2. CASE tm' = [tm EXCEPT !.unforce = @ \cup {t}]
    BY <2>2, <1>ok, <1>same DEF Manager
  <2>3. QED
    BY <1>1, <2>1, <2>2 DEF roadmap_tile_request
<1>2. ASSUME NEW c \in Conns, NEW failure \in BOOLEAN, http_cb_error(c, failure)
      PROVE  KeepsRequests
  <2> DEFINE e == tile_refresh_cb(tm)
  <2>1. tm.slot[c] # NoTile /\ ManagerOK(e) /\ e.queue = tm.queue /\ e.slot = tm.slot
    BY <1>2, <1>ok, RefreshCount DEF http_cb_error, Busy
  <2>2. e.queued = tm.queued
    BY <1>ok DEF tile_refresh_cb, Manager
  <2>3. tm' = on_connection_failure(e, c) \/ tm' \in Finish(tm, c)
    BY <1>2 DEF http_cb_error
  <2> HIDE DEF e
  <2>4. CASE tm' = on_connection_failure(e, c)
    <3>1. (Len(e.queue) < MaxQueue => NoLoss(e, tm')) /\ tm'.status # "Active"
      BY <2>1, <2>4, RequeueKeeps
    <3>2. QED
      BY <2>1, <2>2, <3>1 DEF KeepsRequests, NoLoss, Lost, Steady, Stalls
  <2>5. CASE tm' \in Finish(tm, c)
    BY <2>1, <2>5, <1>ok, FinishKeeps DEF KeepsRequests, Steady
  <2>6. QED
    BY <2>3, <2>4, <2>5
<1>3. ASSUME NEW c \in Conns, NEW loaded \in BOOLEAN, http_cb_done(c, loaded)
      PROVE  KeepsRequests
  BY <1>3, <1>ok, FinishKeeps DEF http_cb_done, Busy, KeepsRequests, Steady
<1>4. ASSUME NEW c \in Conns, roadmap_tile_manager_check_timeouts(c)
      PROVE  KeepsRequests
  <2>1. tm' = requeue_tile(tm, c) /\ tm.slot[c] # NoTile
    BY <1>4 DEF roadmap_tile_manager_check_timeouts, Busy
  <2>2. QED
    BY <2>1, <1>4, <1>ok, RequeueKeeps DEF KeepsRequests, Sweep
<1>5. ASSUME start_network \/ roadmap_tile_manager_login_cb
      PROVE  KeepsRequests
  <2> DEFINE a == [tm EXCEPT !.status = "Active"]
  <2>1. ManagerOK(a) /\ a.queue = tm.queue /\ a.queued = tm.queued
    BY <1>ok, StatusOK DEF Manager
  <2>2. tm' \in load_next_tile(a)
    BY <1>5 DEF start_network, roadmap_tile_manager_login_cb
  <2> HIDE DEF a
  <2>3. NoLoss(a, tm') /\ ~Stalls(tm')
    BY <2>1, <2>2, LoadNextKeeps
  <2>4. QED
    BY <2>1, <2>3 DEF KeepsRequests, NoLoss, Lost, Steady
<1>6. ASSUME NEW t \in Tiles, roadmap_square_refresh(t)
      PROVE  KeepsRequests
  <2> DEFINE stale == [tm EXCEPT !.uptodate = @ \ {t}]
  <2>1. ManagerOK(stale) /\ stale.queue = tm.queue /\ MaxPriority \in Priorities
    BY <1>ok, StaleOK, TileManagerAssumption DEF Priorities
  <2>2. stale.queued = tm.queued /\ stale.status = tm.status /\ stale.open = tm.open
    BY <1>ok DEF Manager
  <2>3. tm' \in Submit(stale, t, MaxPriority) \/ tm' = stale
    BY <1>6 DEF roadmap_square_refresh
  <2> HIDE DEF stale
  <2>4. CASE tm' = stale
    BY <2>1, <2>2, <2>4, <1>same
  <2>5. CASE tm' \in Submit(stale, t, MaxPriority)
    <3>1. (Len(stale.queue) < MaxQueue => NoLoss(stale, tm')) /\ ~Stalls(tm')
      BY <2>1, <2>5, SubmitKeeps
    <3>2. QED
      BY <2>1, <2>2, <3>1 DEF KeepsRequests, NoLoss, Lost, Steady
  <2>6. QED
    BY <2>3, <2>4, <2>5
<1>7. ASSUME \/ \E t \in Tiles : MarkStale(t)
             \/ \E c \in Conns : http_cb_progress(c)
             \/ roadmap_tile_reset_session
             \/ roadmap_tile_refresh_all
             \/ refresh_all_tiles
             \/ roadmap_square_refresh_return
             \/ UNCHANGED vars
      PROVE  KeepsRequests
  <2>1. /\ tm'.queue = tm.queue /\ tm'.queued = tm.queued /\ tm'.status = tm.status
        /\ tm'.open = tm.open
    BY <1>7, <1>ok DEF Manager, MarkStale, http_cb_progress, roadmap_tile_reset_session,
                       roadmap_tile_refresh_all, refresh_all_tiles,
                       roadmap_square_refresh_return, vars
  <2>2. QED
    BY <2>1, <1>same
<1>8. QED
  BY <1>1, <1>2, <1>3, <1>4, <1>5, <1>6, <1>7
  DEF Next, RequestNext, TransferNext, TimerNext, RefreshNext

(* Only the sweep leaves queued requests with no connection to serve them: *)
(* every other step that frees one starts the next tile itself.            *)
THEOREM SweepAloneStalls == Spec => OnlySweepStalls
<1>1. IInv /\ [Next]_vars => [Stalled' => Stalled \/ Sweep]_vars
  BY StepKeepsRequests DEF KeepsRequests, Steady, Stalls, Stalled
<1>2. QED
  BY <1>1, InductiveInvariant, PTL DEF Spec, OnlySweepStalls, Sweep

(* A tile keeps its queued flag without a place in the queue only after    *)
(* the queue was full.                                                     *)
THEOREM FullQueueAloneLoses == Spec => LostOnlyWhenFull
<1>1. IInv /\ [Next]_vars => [Lost(tm') \subseteq Lost(tm) \/ Len(tm.queue) = MaxQueue]_vars
  <2> SUFFICES ASSUME IInv, [Next]_vars, Len(tm.queue) # MaxQueue
               PROVE  Lost(tm') \subseteq Lost(tm)
    OBVIOUS
  <2>1. Len(tm.queue) < MaxQueue
    BY LenProperties, TileManagerAssumption DEF IInv, ManagerOK, Manager
  <2>2. QED
    BY <2>1, StepKeepsRequests DEF KeepsRequests, NoLoss
<1>2. QED
  BY <1>1, InductiveInvariant, PTL DEF Spec, LostOnlyWhenFull
=============================================================================
