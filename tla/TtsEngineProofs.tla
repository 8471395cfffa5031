-------------------------- MODULE TtsEngineProofs --------------------------
(***************************************************************************)
(* Proofs about TtsEngine, for any number of texts, voices, slots and      *)
(* contexts and any limits.  The slots of the queue are told by their      *)
(* place in the history `order', and the inductive invariant says, for     *)
(* each function that may be running, which entries it holds.              *)
(***************************************************************************)
EXTENDS TtsEngine, FiniteSetTheorems, SequenceTheorems, TLAPS

Injective(s) == \A j, k \in 1 .. Len(s) : s[j] = s[k] => j = k

(* The links of q thread the slots of o, and its other slots are clean.    *)
Threads(q, o) ==
  IF o = <<>> THEN q.head = NoSlot /\ q.tail = 0
  ELSE /\ q.head = o[1] /\ q.tail = o[Len(o)]
       /\ q.next[o[Len(o)]] = NoSlot
       /\ \A k \in 1 .. Len(o) - 1 : q.next[o[k]] = o[k + 1]

Entries(q) ==
  /\ \A s \in Slots :
       IF q.busy[s] THEN q.key[s] \in Texts /\ q.status[s] \in {"idle", "committed"}
       ELSE q.next[s] = NoSlot /\ q.status[s] = "undefined"
  /\ \A s1, s2 \in Slots :
       q.busy[s1] /\ q.busy[s2] /\ q.key[s1] = q.key[s2] => s1 = s2

ListOf(q, o) ==
  /\ \A s \in Slots : q.busy[s] <=> s \in Members(o)
  /\ Injective(o) /\ Threads(q, o) /\ Entries(q)

(* A provider request holds its entries and its context.                   *)
Holds(r, q, p) ==
  /\ Injective(r.idx_list) /\ r.ctx \in p
  /\ \A s \in Members(r.idx_list) : q.status[s] = "committed"

Apart(r1, r2) ==
  r1.ctx # r2.ctx /\ \A s \in Members(r1.idx_list) : s \notin Members(r2.idx_list)

SentHold ==
  /\ IsFiniteSet(outstanding)
  /\ \A r \in outstanding :
       Holds(r, queue, pool) /\ \A other \in outstanding : r # other => Apart(r, other)

(* The walk has passed the first n entries.                                *)
Passed(f, q, o, n) ==
  /\ f.slot = IF n < Len(o) THEN o[n + 1] ELSE NoSlot
  /\ \A k \in 1 .. Len(f.idx_list) : \E j \in 1 .. n : f.idx_list[k] = o[j]
  /\ f.idx_list = <<>> => \A j \in 1 .. n : q.status[o[j]] # "idle"

Walking ==
  frame.at = "walk" =>
    /\ Injective(frame.idx_list)
    /\ \A s \in Members(frame.idx_list) : queue.status[s] = "idle"
    /\ \E n \in 0 .. Len(order) : Passed(frame, queue, order, n)

Posting ==
  frame.at = "request_cb" =>
    /\ Holds(Posted, queue, pool)
    /\ \A r \in outstanding : Apart(Posted, r)

(* Of the answer that is processed, the entries from the i-th on are held. *)
Responding ==
  frame.at = "response" =>
    /\ Injective(frame.idx_list) /\ frame.ctx \in pool
    /\ frame.i >= 1 /\ frame.synthesized \subseteq 1 .. Len(frame.idx_list)
    /\ \A k \in frame.i .. Len(frame.idx_list) : queue.status[frame.idx_list[k]] = "committed"
    /\ \A r \in outstanding :
         /\ frame.ctx # r.ctx
         /\ \A k \in frame.i .. Len(frame.idx_list) :
              frame.idx_list[k] \notin Members(r.idx_list)

(* The requests that are out, those that are uncounted yet left out.       *)
Counted ==
  CASE frame.at = "main"                     -> active <= Cardinality(outstanding)
    [] frame.at = "walk"                     -> active + frame.depth <= Cardinality(outstanding)
    [] frame.at \in {"request_cb", "response"} ->
         active + frame.depth <= Cardinality(outstanding) + 1

RetryAwaits ==
  frame.at = "main"
    /\ (\E s \in Slots : queue.status[s] = "idle" /\ request[s].retry_index > 0)
  => outstanding # {} \/ pool = Contexts

IInv ==
  /\ TypeOK /\ ListOf(queue, order) /\ SentHold
  /\ Walking /\ Posting /\ Responding /\ Counted /\ RetryAwaits

(***************************************************************************)
(* Numbers, sets and sequences.                                            *)
(***************************************************************************)

LEMMA LeastIs ==
  ASSUME NEW S \in SUBSET Int, NEW k \in S, \A j \in S : k <= j
  PROVE  Least(S) = k
<1>1. Least(S) \in S /\ \A j \in S : Least(S) <= j
  BY DEF Least
<1>2. k \in Int /\ Least(S) \in Int /\ Least(S) <= k /\ k <= Least(S)
  BY <1>1
<1>3. QED
  BY <1>2

LEMMA LeastProperties ==
  ASSUME NEW S \in SUBSET Nat, S # {}
  PROVE  Least(S) \in S /\ \A j \in S : Least(S) <= j
<1>1. PICK x \in S : \A y \in S : ~ (<<y, x>> \in OpToRel(<, Nat))
  BY WFMin, NatLessThanWellFounded
<1>2. \A y \in S : x <= y
  <2>1. TAKE y \in S
  <2>2. x \in Nat /\ y \in Nat
    OBVIOUS
  <2>3. y < x => <<y, x>> \in OpToRel(<, Nat)
    BY <2>2, Zenon DEF OpToRel
  <2>4. ~(y < x)
    BY <1>1, <2>3, Zenon
  <2>5. QED
    BY <2>2, <2>4
<1>3. QED
  BY <1>2 DEF Least

LEMMA Sizes ==
  /\ QueueSize \in Nat /\ QueueSize > 0 /\ BatchLimit \in Nat /\ BatchLimit > 0
  /\ ConcurrentLimit \in Nat /\ ConcurrentLimit > 0 /\ RetryCount \in Nat
  /\ Slots \subseteq Nat /\ 0 \in Slots /\ NoSlot \notin Slots /\ Contexts \subseteq Nat
<1>1. \A n \in {QueueSize, PoolSize, BatchLimit, ConcurrentLimit} : n \in Nat \ {0}
  BY TtsAssumption
<1>2. \A n \in Nat \ {0} : n > 0
  OBVIOUS
<1>3. QueueSize \in Nat \ {0} /\ BatchLimit \in Nat \ {0} /\ ConcurrentLimit \in Nat \ {0} /\ PoolSize \in Nat
  BY <1>1
<1>4. RetryCount \in Nat
  BY TtsAssumption
<1>5. QED
  BY <1>2, <1>3, <1>4 DEF Slots, NoSlot, Contexts

(* The slots of a sequence, one more and one less.                         *)
LEMMA AppendMembers ==
  ASSUME NEW o \in Seq(Slots), NEW i \in Slots
  PROVE  /\ Append(o, i) \in Seq(Slots) /\ Len(Append(o, i)) = Len(o) + 1
         /\ \A k \in 1 .. Len(o) : Append(o, i)[k] = o[k]
         /\ Append(o, i)[Len(o) + 1] = i
         /\ Members(Append(o, i)) = Members(o) \cup {i}
<1> DEFINE a == Append(o, i)
           n == Len(o)
<1>1. a \in Seq(Slots) /\ Len(a) = n + 1 /\ n \in Nat
      /\ (\A k \in 1 .. n : a[k] = o[k]) /\ a[n + 1] = i
  OBVIOUS
<1>2. Members(a) = {a[k] : k \in 1 .. n + 1}
  BY <1>1 DEF Members
<1>3. Members(o) = {o[k] : k \in 1 .. n}
  BY DEF Members
<1> HIDE DEF a, n
<1>4. \A k \in 1 .. n + 1 : k \in 1 .. n \/ k = n + 1
  BY <1>1
<1>5. (\A k \in 1 .. n : k \in 1 .. n + 1) /\ n + 1 \in 1 .. n + 1
  BY <1>1
<1>6. Members(a) = Members(o) \cup {i}
  BY <1>1, <1>2, <1>3, <1>4, <1>5
<1>7. QED
  BY <1>1, <1>6 DEF a, n

LEMMA InjectiveAppend ==
  ASSUME NEW o \in Seq(Slots), Injective(o), NEW i \in Slots, i \notin Members(o),
         NEW a, a = Append(o, i)
  PROVE  Injective(a)
<1> DEFINE n == Len(o)
<1>1. n \in Nat /\ Len(a) = n + 1 /\ (\A k \in 1 .. n : a[k] = o[k]) /\ a[n + 1] = i
  BY AppendMembers
<1>2. \A k \in 1 .. n : o[k] # i
  BY DEF Members
<1>3. \A j, k \in 1 .. n : o[j] = o[k] => j = k
  BY DEF Injective
<1> HIDE DEF n
<1>4. \A k \in 1 .. n + 1 : k \in 1 .. n \/ k = n + 1
  BY <1>1
<1>5. \A j, k \in 1 .. n + 1 : a[j] = a[k] => j = k
  BY <1>1, <1>2, <1>3, <1>4
<1>6. QED
  BY <1>1, <1>5 DEF Injective

LEMMA WithoutMembers ==
  ASSUME NEW o \in Seq(Slots), Injective(o), NEW k \in 1 .. Len(o)
  PROVE  LET w == Without(o, o[k])
         IN  /\ w \in Seq(Slots) /\ Len(w) = Len(o) - 1
             /\ \A j \in 1 .. Len(o) - 1 : w[j] = o[IF j < k THEN j ELSE j + 1]
             /\ Members(w) = Members(o) \ {o[k]} /\ Injective(w)
<1> DEFINE n == Len(o)
           w == Without(o, o[k])
           f(j) == IF j < k THEN j ELSE j + 1
<1>1. n \in Nat /\ k \in 1 .. n /\ n - 1 \in Nat /\ o \in [1 .. n -> Slots]
  OBVIOUS
<1>2. (CHOOSE j \in 1 .. n : o[j] = o[k]) = k
  BY DEF Injective
<1>3. w = [j \in 1 .. n - 1 |-> o[f(j)]]
  BY <1>2 DEF Without
<1>4. \A j, m \in 1 .. n : o[j] = o[m] => j = m
  BY DEF Injective
<1>5. Members(o) = {o[j] : j \in 1 .. n}
  BY DEF Members
<1> HIDE DEF n
<1>6. \A j \in 1 .. n - 1 : f(j) \in 1 .. n /\ f(j) # k
  BY <1>1
<1>7. \A j, m \in 1 .. n - 1 : f(j) = f(m) => j = m
  BY <1>1
<1>8. \A m \in 1 .. n : m # k => \E j \in 1 .. n - 1 : f(j) = m
  <2>1. TAKE m \in 1 .. n
  <2>2. HAVE m # k
  <2>3. CASE m < k
    <3>1. m \in 1 .. n - 1 /\ f(m) = m
      BY <1>1, <2>3
    <3>2. QED
      BY <3>1
  <2>4. CASE m > k
    <3>1. m - 1 \in 1 .. n - 1 /\ f(m - 1) = m
      BY <1>1, <2>4
    <3>2. QED
      BY <3>1
  <2>5. QED
    BY <1>1, <2>2, <2>3, <2>4
<1>9. w \in [1 .. n - 1 -> Slots] /\ \A j \in 1 .. n - 1 : w[j] = o[f(j)]
  BY <1>1, <1>3, <1>6
<1> HIDE DEF w, f
<1>10. w \in Seq(Slots) /\ Len(w) = n - 1
  <2>1. w \in Seq(Slots)
    BY <1>1, <1>9, SeqDef
  <2>2. QED
    BY <1>1, <1>9, <2>1
<1>11. Members(w) = {w[j] : j \in 1 .. n - 1}
  BY <1>10 DEF Members
<1>12. Members(w) = Members(o) \ {o[k]}
  BY <1>1, <1>4, <1>5, <1>6, <1>8, <1>9, <1>11
<1>13. Injective(w)
  BY <1>4, <1>6, <1>7, <1>9, <1>10 DEF Injective
<1>14. \A j \in 1 .. n - 1 : w[j] = o[IF j < k THEN j ELSE j + 1]
  BY <1>9 DEF f
<1>15. QED
  BY <1>10, <1>12, <1>13, <1>14 DEF n, w

(***************************************************************************)
(* The linked list.                                                        *)
(***************************************************************************)

LEMMA AddFields ==
  ASSUME NEW q \in Queue, NEW i \in Slots, NEW text \in Texts
  PROVE  LET d == tts_queue_add(q, i, text)
         IN  /\ d \in Queue /\ d.tail = i
             /\ d.head = IF q.head = NoSlot THEN i ELSE q.head
             /\ \A s \in Slots :
                  /\ d.busy[s] = (s = i \/ q.busy[s])
                  /\ d.next[s] = IF s = i THEN NoSlot ELSE IF s = q.tail THEN i ELSE q.next[s]
                  /\ d.key[s] = IF s = i THEN text ELSE q.key[s]
                  /\ d.status[s] = IF s = i THEN "idle" ELSE q.status[s]
<1> DEFINE d == tts_queue_add(q, i, text)
           next1 == [q.next EXCEPT ![q.tail] = i]
           next2 == [next1 EXCEPT ![i] = NoSlot]
<1>1. /\ q.busy \in [Slots -> BOOLEAN] /\ q.next \in [Slots -> Slots \cup {NoSlot}]
      /\ q.key \in [Slots -> Texts \cup {NoText}]
      /\ q.status \in [Slots -> {"undefined", "idle", "committed"}]
      /\ q.head \in Slots \cup {NoSlot} /\ q.tail \in Slots
  BY DEF Queue
<1>2. next1 \in [Slots -> Slots \cup {NoSlot}]
      /\ \A s \in Slots : next1[s] = IF s = q.tail THEN i ELSE q.next[s]
  BY <1>1
<1>3. next2 \in [Slots -> Slots \cup {NoSlot}]
      /\ \A s \in Slots : next2[s] = IF s = i THEN NoSlot ELSE next1[s]
  BY <1>2
<1>4. d = [q EXCEPT !.next = next2, !.tail = i, !.busy = [q.busy EXCEPT ![i] = TRUE],
                    !.key = [q.key EXCEPT ![i] = text],
                    !.status = [q.status EXCEPT ![i] = "idle"],
                    !.head = IF q.head = NoSlot THEN i ELSE q.head]
  BY DEF tts_queue_add
<1> HIDE DEF d, next1, next2
<1>5. [q.busy EXCEPT ![i] = TRUE] \in [Slots -> BOOLEAN]
      /\ \A s \in Slots : [q.busy EXCEPT ![i] = TRUE][s] = (s = i \/ q.busy[s])
  BY <1>1
<1>6. [q.key EXCEPT ![i] = text] \in [Slots -> Texts \cup {NoText}]
      /\ \A s \in Slots : [q.key EXCEPT ![i] = text][s] = IF s = i THEN text ELSE q.key[s]
  BY <1>1
<1>7. [q.status EXCEPT ![i] = "idle"] \in [Slots -> {"undefined", "idle", "committed"}]
      /\ \A s \in Slots :
           [q.status EXCEPT ![i] = "idle"][s] = IF s = i THEN "idle" ELSE q.status[s]
  BY <1>1
<1>8. /\ d.next = next2 /\ d.tail = i /\ d.busy = [q.busy EXCEPT ![i] = TRUE]
      /\ d.key = [q.key EXCEPT ![i] = text] /\ d.status = [q.status EXCEPT ![i] = "idle"]
      /\ d.head = IF q.head = NoSlot THEN i ELSE q.head
  BY <1>4 DEF Queue
<1>9. d \in Queue
  BY <1>1, <1>3, <1>4, <1>5, <1>6, <1>7 DEF Queue
<1>10. QED
  BY <1>2, <1>3, <1>5, <1>6, <1>7, <1>8, <1>9 DEF d

(* A text that has no entry yet is threaded behind the others.             *)
LEMMA AddList ==
  ASSUME NEW q \in Queue, NEW o \in Seq(Slots), ListOf(q, o),
         NEW i \in Slots, ~ q.busy[i], o = <<>> => i = 0,
         NEW text \in Texts, \A s \in Slots : q.busy[s] => q.key[s] # text
  PROVE  ListOf(tts_queue_add(q, i, text), Append(o, i))
<1> DEFINE d == tts_queue_add(q, i, text)
           a == Append(o, i)
           n == Len(o)
<1>1. /\ d \in Queue /\ d.tail = i
      /\ d.head = IF q.head = NoSlot THEN i ELSE q.head
      /\ \A s \in Slots :
           /\ d.busy[s] = (s = i \/ q.busy[s])
           /\ d.next[s] = IF s = i THEN NoSlot ELSE IF s = q.tail THEN i ELSE q.next[s]
           /\ d.key[s] = IF s = i THEN text ELSE q.key[s]
           /\ d.status[s] = IF s = i THEN "idle" ELSE q.status[s]
  BY AddFields
<1>2. /\ a \in Seq(Slots) /\ Len(a) = n + 1 /\ n \in Nat
      /\ (\A k \in 1 .. n : a[k] = o[k]) /\ a[n + 1] = i
      /\ Members(a) = Members(o) \cup {i} /\ a # <<>>
  BY AppendMembers
<1>3. \A s \in Slots : q.busy[s] <=> s \in Members(o)
  BY DEF ListOf
<1>4. i \notin Members(o)
  BY <1>3
<1>5. Injective(a)
  <2>1. Injective(o)
    BY DEF ListOf
  <2>2. QED
    BY <1>4, <2>1, InjectiveAppend
<1>6. /\ \A k \in 1 .. n : o[k] \in Slots /\ o[k] # i
      /\ \A j, k \in 1 .. n : o[j] = o[k] => j = k
      /\ (o = <<>>) <=> (n = 0)
  BY <1>4, EmptySeq DEF Members, ListOf, Injective
<1>7. IF o = <<>> THEN q.head = NoSlot /\ q.tail = 0
      ELSE /\ q.head = o[1] /\ q.tail = o[n] /\ q.next[o[n]] = NoSlot
           /\ \A k \in 1 .. n - 1 : q.next[o[k]] = o[k + 1]
  BY DEF ListOf, Threads
<1>8. Entries(q)
  BY DEF ListOf
<1>13. (o = <<>> => i = 0) /\ (o # <<>> => o[n] \in Members(o))
  <2>1. o # <<>> => n \in 1 .. n
    BY <1>2, <1>6
  <2>2. QED
    BY <2>1 DEF Members
<1>15. \A s \in Slots : q.busy[s] \in BOOLEAN
  BY DEF Queue
<1> HIDE DEF d, a, n
<1>9. \A s \in Slots : d.busy[s] <=> s \in Members(a)
  BY <1>1, <1>2, <1>3
<1>10. Entries(d)
  <2>1. \A s \in Slots :
          IF d.busy[s] THEN d.key[s] \in Texts /\ d.status[s] \in {"idle", "committed"}
          ELSE d.next[s] = NoSlot /\ d.status[s] = "undefined"
    <3>1. TAKE s \in Slots
    <3>2. CASE s = i
      BY <1>1, <3>2
    <3>3. CASE s # i /\ s = q.tail
      <4>1. o # <<>>
        BY <1>7, <1>13, <3>3
      <4>2. q.busy[s]
        BY <1>3, <1>7, <1>13, <3>3, <4>1
      <4>3. q.key[s] \in Texts /\ q.status[s] \in {"idle", "committed"}
        BY <1>8, <4>2 DEF Entries
      <4>4. QED
        BY <1>1, <3>3, <4>2, <4>3
    <3>4. CASE s # i /\ s # q.tail
      <4>1. /\ d.busy[s] = q.busy[s] /\ d.next[s] = q.next[s]
            /\ d.key[s] = q.key[s] /\ d.status[s] = q.status[s]
        <5>1. d.busy[s] = (s = i \/ q.busy[s])
          BY <1>1
        <5>2. QED
          BY <1>1, <3>4, <5>1, <1>15
      <4>2. QED
        BY <1>8, <4>1 DEF Entries
    <3>5. QED
      BY <3>2, <3>3, <3>4
  <2>2. \A s1, s2 \in Slots :
          d.busy[s1] /\ d.busy[s2] /\ d.key[s1] = d.key[s2] => s1 = s2
    BY <1>1, <1>8 DEF Entries
  <2>3. QED
    BY <2>1, <2>2 DEF Entries
<1>11. Threads(d, a)
  <2>1. CASE o = <<>>
    <3>1. n = 0
      BY <1>6, <2>1
    <3>2. d.head = i /\ d.tail = i /\ d.next[i] = NoSlot /\ a[1] = i /\ Len(a) = 1
      BY <1>1, <1>2, <1>7, <2>1, <3>1
    <3>3. \A k \in 1 .. 1 - 1 : d.next[a[k]] = a[k + 1]
      OBVIOUS
    <3>4. QED
      BY <1>2, <3>2, <3>3 DEF Threads
  <2>2. CASE o # <<>>
    <3>1. n \in 1 .. n /\ n >= 1 /\ 1 \in 1 .. n
      BY <1>2, <1>6, <2>2
    <3>2. d.head = a[1]
      BY <1>1, <1>2, <1>6, <1>7, <2>2, <3>1, Sizes
    <3>3. d.tail = a[n + 1] /\ d.next[a[n + 1]] = NoSlot
      BY <1>1, <1>2
    <3>4. ASSUME NEW k \in 1 .. n
          PROVE  d.next[a[k]] = a[k + 1]
      <4>1. a[k] = o[k] /\ o[k] \in Slots /\ o[k] # i
        BY <1>2, <1>6
      <4>2. CASE k = n
        BY <1>1, <1>2, <1>7, <2>2, <4>1, <4>2
      <4>3. CASE k # n
        <5>1. k \in 1 .. n - 1 /\ k + 1 \in 1 .. n
          BY <1>2, <4>3
        <5>2. o[k] # q.tail
          BY <1>6, <1>7, <2>2, <3>1, <4>3
        <5>3. d.next[a[k]] = q.next[o[k]]
          BY <1>1, <4>1, <5>2
        <5>4. QED
          BY <1>2, <1>7, <2>2, <5>1, <5>3
      <4>4. QED
        BY <4>2, <4>3
    <3>5. \A k \in 1 .. (n + 1) - 1 : d.next[a[k]] = a[k + 1]
      BY <1>2, <3>4
    <3>6. QED
      BY <1>2, <3>2, <3>3, <3>5 DEF Threads
  <2>3. QED
    BY <2>1, <2>2
<1>12. ListOf(d, a)
  BY <1>5, <1>9, <1>10, <1>11 DEF ListOf
<1>14. QED
  BY <1>12 DEF d, a

Before(q, x) == {s \in Slots : q.next[s] = x}

LEMMA RemoveFields ==
  ASSUME NEW q \in Queue, NEW x \in Slots, Before(q, x) # {} => Least(Before(q, x)) \in Slots
  PROVE  LET d == tts_queue_remove(q, x)
             B == Before(q, x)
         IN  /\ d \in Queue
             /\ d.head = IF x = q.head THEN q.next[x] ELSE q.head
             /\ d.tail = IF x # q.tail THEN q.tail ELSE IF B = {} THEN 0 ELSE Least(B)
             /\ \A s \in Slots :
                  /\ d.busy[s] = (s # x /\ q.busy[s])
                  /\ d.next[s] = IF s = x THEN NoSlot
                                 ELSE IF B # {} /\ s = Least(B) THEN q.next[x] ELSE q.next[s]
                  /\ d.key[s] = IF s = x THEN NoText ELSE q.key[s]
                  /\ d.status[s] = IF s = x THEN "undefined" ELSE q.status[s]
<1> DEFINE d == tts_queue_remove(q, x)
           B == Before(q, x)
           p == Least(B)
           next1 == IF B = {} THEN q.next ELSE [q.next EXCEPT ![p] = q.next[x]]
           next2 == [next1 EXCEPT ![x] = NoSlot]
           busy2 == [q.busy EXCEPT ![x] = FALSE]
           key2 == [q.key EXCEPT ![x] = NoText]
           status2 == [q.status EXCEPT ![x] = "undefined"]
           head2 == IF x = q.head THEN q.next[x] ELSE q.head
           tail2 == IF x # q.tail THEN q.tail ELSE IF B = {} THEN 0 ELSE p
<1>1. /\ q.busy \in [Slots -> BOOLEAN] /\ q.next \in [Slots -> Slots \cup {NoSlot}]
      /\ q.key \in [Slots -> Texts \cup {NoText}]
      /\ q.status \in [Slots -> {"undefined", "idle", "committed"}]
      /\ q.head \in Slots \cup {NoSlot} /\ q.tail \in Slots
  BY DEF Queue
<1>2. d = [busy |-> busy2, next |-> next2, key |-> key2, status |-> status2,
           head |-> head2, tail |-> tail2]
  BY DEF tts_queue_remove, Before
<1>3. B # {} => p \in Slots
  OBVIOUS
<1> HIDE DEF p, B
<1>4. next1 \in [Slots -> Slots \cup {NoSlot}]
      /\ \A s \in Slots : next1[s] = IF B # {} /\ s = p THEN q.next[x] ELSE q.next[s]
  BY <1>1, <1>3
<1> HIDE DEF next1
<1>5. next2 \in [Slots -> Slots \cup {NoSlot}]
      /\ \A s \in Slots : next2[s] = IF s = x THEN NoSlot ELSE next1[s]
  BY <1>4
<1>6. /\ busy2 \in [Slots -> BOOLEAN]
      /\ \A s \in Slots : busy2[s] = (s # x /\ q.busy[s])
  BY <1>1
<1>7. /\ key2 \in [Slots -> Texts \cup {NoText}]
      /\ \A s \in Slots : key2[s] = IF s = x THEN NoText ELSE q.key[s]
  BY <1>1
<1>8. /\ status2 \in [Slots -> {"undefined", "idle", "committed"}]
      /\ \A s \in Slots : status2[s] = IF s = x THEN "undefined" ELSE q.status[s]
  BY <1>1
<1>9. head2 \in Slots \cup {NoSlot} /\ tail2 \in Slots
  BY <1>1, <1>3, Sizes
<1>10. head2 = (IF x = q.head THEN q.next[x] ELSE q.head)
       /\ tail2 = (IF x # q.tail THEN q.tail ELSE IF B = {} THEN 0 ELSE p)
  OBVIOUS
<1> HIDE DEF d, next2, busy2, key2, status2, head2, tail2
<1>11. d \in Queue
  BY <1>2, <1>5, <1>6, <1>7, <1>8, <1>9 DEF Queue
<1>12. /\ d.busy = busy2 /\ d.next = next2 /\ d.key = key2 /\ d.status = status2
       /\ d.head = head2 /\ d.tail = tail2
  BY <1>2
<1>13. QED
  BY <1>4, <1>5, <1>6, <1>7, <1>8, <1>10, <1>11, <1>12 DEF d, p, B

(* The entries that lead to a slot: its predecessor, if it has one.        *)
LEMMA BeforeEntry ==
  ASSUME NEW q \in Queue, NEW o \in Seq(Slots), ListOf(q, o), NEW k \in 1 .. Len(o),
         NEW B, B = Before(q, o[k])
  PROVE  IF k = 1 THEN B = {} ELSE B = {o[k - 1]} /\ Least(B) = o[k - 1] /\ o[k - 1] \in Slots
<1> DEFINE n == Len(o)
<1> USE DEF Before
<1>1. /\ n \in Nat /\ k \in 1 .. n /\ o # <<>>
      /\ \A j \in 1 .. n : o[j] \in Slots
      /\ \A j, m \in 1 .. n : o[j] = o[m] => j = m
  BY EmptySeq DEF ListOf, Injective
<1>2. /\ \A s \in Slots : q.busy[s] <=> \E j \in 1 .. n : s = o[j]
      /\ \A s \in Slots : ~ q.busy[s] => q.next[s] = NoSlot
      /\ q.next[o[n]] = NoSlot
      /\ \A j \in 1 .. n - 1 : q.next[o[j]] = o[j + 1]
  BY <1>1 DEF ListOf, Threads, Entries, Members
<1> HIDE DEF n
<1>3. ASSUME NEW s \in Slots, q.next[s] = o[k]
      PROVE  k # 1 /\ s = o[k - 1]
  <2>1. q.busy[s]
    BY <1>1, <1>2, <1>3, Sizes
  <2>2. PICK j \in 1 .. n : s = o[j]
    BY <1>2, <2>1
  <2>3. j # n
    BY <1>1, <1>2, <1>3, <2>2, Sizes
  <2>4. j \in 1 .. n - 1 /\ j + 1 \in 1 .. n
    BY <1>1, <2>3
  <2>5. o[j + 1] = o[k]
    BY <1>2, <1>3, <2>2, <2>4
  <2>6. j + 1 = k
    BY <1>1, <2>4, <2>5
  <2>7. j = k - 1 /\ k # 1
    BY <1>1, <2>4, <2>6
  <2>8. QED
    BY <2>2, <2>7
<1>4. CASE k = 1
  BY <1>3, <1>4
<1>5. CASE k # 1
  <2>1. k - 1 \in 1 .. n - 1 /\ k - 1 \in 1 .. n /\ (k - 1) + 1 = k
    BY <1>1, <1>5
  <2>2. q.next[o[k - 1]] = o[k] /\ o[k - 1] \in Slots
    BY <1>1, <1>2, <2>1
  <2>3. B = {o[k - 1]}
    BY <1>3, <2>2
  <2> DEFINE before == o[k - 1]
  <2>4. before \in Slots /\ B = {before}
    BY <2>2, <2>3
  <2> HIDE DEF before
  <2>5. Least(B) = before
    <3>1. before \in Int
      BY <2>4, Sizes
    <3>2. B \in SUBSET Int /\ before \in B /\ \A s \in B : before <= s
      BY <2>4, <3>1
    <3>3. QED
      BY <3>2, LeastIs
  <2>6. QED
    BY <1>5, <2>2, <2>3, <2>5 DEF before
<1>6. QED
  BY <1>4, <1>5

(* An entry leaves the list, wherever it is.                               *)
LEMMA RemoveList ==
  ASSUME NEW q \in Queue, NEW o \in Seq(Slots), ListOf(q, o), NEW x \in Slots, q.busy[x]
  PROVE  /\ tts_queue_remove(q, x) \in Queue
         /\ Without(o, x) \in Seq(Slots)
         /\ ListOf(tts_queue_remove(q, x), Without(o, x))
         /\ \A s \in Slots : tts_queue_remove(q, x).status[s]
                               = IF s = x THEN "undefined" ELSE q.status[s]
<1> DEFINE d == tts_queue_remove(q, x)
           w == Without(o, x)
           n == Len(o)
           B == Before(q, x)
           p == Least(B)
<1>1. PICK k \in 1 .. n : x = o[k]
  BY DEF ListOf, Members
<1>2. /\ w \in Seq(Slots) /\ Len(w) = n - 1
      /\ \A j \in 1 .. n - 1 : w[j] = o[IF j < k THEN j ELSE j + 1]
      /\ Members(w) = Members(o) \ {x} /\ Injective(w)
  BY <1>1, WithoutMembers DEF ListOf
<1>3. IF k = 1 THEN B = {} ELSE B = {o[k - 1]} /\ p = o[k - 1] /\ o[k - 1] \in Slots
  <2>1. B = Before(q, o[k]) /\ k \in 1 .. Len(o)
    BY <1>1
  <2> HIDE DEF B
  <2>2. QED
    BY <2>1, BeforeEntry
<1>4. /\ n \in Nat /\ k \in 1 .. n /\ o # <<>>
      /\ \A j \in 1 .. n : o[j] \in Slots
      /\ \A j, m \in 1 .. n : o[j] = o[m] => j = m
  BY <1>1, EmptySeq DEF ListOf, Injective
<1>5. /\ q.head = o[1] /\ q.tail = o[n] /\ q.next[o[n]] = NoSlot
      /\ \A j \in 1 .. n - 1 : q.next[o[j]] = o[j + 1]
      /\ \A s \in Slots : q.busy[s] <=> s \in Members(o)
  BY <1>4 DEF ListOf, Threads
<1>6. Entries(q) /\ (w = <<>> <=> n - 1 = 0)
  BY <1>2, EmptySeq DEF ListOf
<1>7. /\ d \in Queue
      /\ d.head = IF x = q.head THEN q.next[x] ELSE q.head
      /\ d.tail = IF x # q.tail THEN q.tail ELSE IF B = {} THEN 0 ELSE p
      /\ \A s \in Slots :
           /\ d.busy[s] = (s # x /\ q.busy[s])
           /\ d.next[s] = IF s = x THEN NoSlot
                          ELSE IF B # {} /\ s = p THEN q.next[x] ELSE q.next[s]
           /\ d.key[s] = IF s = x THEN NoText ELSE q.key[s]
           /\ d.status[s] = IF s = x THEN "undefined" ELSE q.status[s]
  <2>1. B # {} => Least(B) \in Slots
    BY <1>3
  <2>2. QED
    BY <2>1, RemoveFields
<1> HIDE DEF d, w, n, B, p
<1>8. \A s \in Slots :
        d.next[s] = IF s = x THEN NoSlot
                    ELSE IF k # 1 /\ s = o[k - 1] THEN q.next[x] ELSE q.next[s]
  BY <1>3, <1>7
<1>9. d.head = (IF k = 1 THEN q.next[o[1]] ELSE o[1])
      /\ d.tail = (IF k # n THEN o[n] ELSE IF k = 1 THEN 0 ELSE o[k - 1])
  <2>1. n \in 1 .. n /\ 1 \in 1 .. n
    BY <1>4
  <2>2. (x = o[1] <=> k = 1) /\ (x = o[n] <=> k = n)
    BY <1>1, <1>4, <2>1
  <2>3. QED
    BY <1>3, <1>5, <1>7, <2>2
<1>10. Entries(d)
  <2>1. ASSUME NEW s \in Slots
        PROVE  IF d.busy[s] THEN d.key[s] \in Texts /\ d.status[s] \in {"idle", "committed"}
               ELSE d.next[s] = NoSlot /\ d.status[s] = "undefined"
    <3>1. CASE s = x
      BY <1>7, <3>1
    <3>2. CASE s # x /\ q.busy[s]
      BY <1>6, <1>7, <3>2 DEF Entries
    <3>3. CASE s # x /\ ~ q.busy[s]
      <4>1. ~ d.busy[s] /\ d.status[s] = q.status[s]
        BY <1>7, <3>3
      <4>2. q.next[s] = NoSlot /\ q.status[s] = "undefined"
        BY <1>6, <3>3 DEF Entries
      <4>3. k # 1 => q.busy[o[k - 1]]
        <5>1. k # 1 => k - 1 \in 1 .. n
          BY <1>4
        <5>2. k # 1 => o[k - 1] \in Members(o) /\ o[k - 1] \in Slots
          BY <1>4, <5>1 DEF Members, n
        <5>3. QED
          BY <1>5, <5>2
      <4>4. d.next[s] = NoSlot
        BY <1>8, <3>3, <4>2, <4>3
      <4>5. QED
        BY <4>1, <4>2, <4>4
    <3>4. QED
      BY <3>1, <3>2, <3>3
  <2>2. \A s1, s2 \in Slots :
          d.busy[s1] /\ d.busy[s2] /\ d.key[s1] = d.key[s2] => s1 = s2
    BY <1>6, <1>7 DEF Entries
  <2>3. QED
    BY <2>1, <2>2 DEF Entries
<1>11. \A s \in Slots : d.busy[s] <=> s \in Members(w)
  BY <1>2, <1>5, <1>7
<1>12. Threads(d, w)
  <2>1. CASE n = 1
    <3>1. k = 1
      BY <1>4, <2>1
    <3>2. QED
      BY <1>5, <1>6, <1>9, <2>1, <3>1 DEF Threads
  <2>2. CASE n # 1
    <3>1. n - 1 \in 1 .. n - 1 /\ 1 \in 1 .. n - 1 /\ n > 1 /\ w # <<>>
      BY <1>4, <1>6, <2>2
    <3>2. d.head = w[1]
      <4>1. CASE k = 1
        <5>1. w[1] = o[1 + 1]
          BY <1>2, <3>1, <4>1
        <5>2. QED
          BY <1>5, <1>9, <3>1, <4>1, <5>1
      <4>2. CASE k # 1
        <5>1. 1 < k
          BY <1>4, <4>2
        <5>2. w[1] = o[1]
          BY <1>2, <3>1, <5>1
        <5>3. QED
          BY <1>9, <4>2, <5>2
      <4>3. QED
        BY <4>1, <4>2
    <3>3. d.tail = w[n - 1] /\ d.next[w[n - 1]] = NoSlot
      <4>1. CASE k = n
        <5>1. n - 1 < k /\ k # 1 /\ k - 1 = n - 1 /\ k - 1 \in 1 .. n
          BY <1>4, <3>1, <4>1
        <5>2. w[n - 1] = o[k - 1]
          BY <1>2, <3>1, <5>1
        <5>3. o[k - 1] \in Slots /\ o[k - 1] # x
          BY <1>1, <1>4, <5>1
        <5>4. q.next[x] = NoSlot
          BY <1>1, <1>5, <4>1
        <5>5. d.next[o[k - 1]] = NoSlot
          BY <1>8, <5>1, <5>3, <5>4
        <5>6. QED
          BY <1>9, <4>1, <5>1, <5>2, <5>5
      <4>2. CASE k # n
        <5>1. ~ (n - 1 < k) /\ (n - 1) + 1 = n /\ n \in 1 .. n /\ (k # 1 => k - 1 \in 1 .. n /\ k - 1 # n)
          BY <1>4, <3>1, <4>2
        <5>2. w[n - 1] = o[n]
          BY <1>2, <3>1, <5>1
        <5>3. o[n] \in Slots /\ o[n] # x /\ (k # 1 => o[n] # o[k - 1])
          BY <1>1, <1>4, <4>2, <5>1
        <5>4. d.next[o[n]] = NoSlot
          BY <1>5, <1>8, <5>3
        <5>5. QED
          BY <1>9, <4>2, <5>2, <5>4
      <4>3. QED
        BY <4>1, <4>2
    <3>4. ASSUME NEW j \in 1 .. (n - 1) - 1
          PROVE  d.next[w[j]] = w[j + 1]
      <4>1. j \in 1 .. n - 1 /\ j + 1 \in 1 .. n - 1 /\ j \in 1 .. n /\ j + 1 \in 1 .. n
            /\ (j + 1) + 1 \in 1 .. n /\ k - 1 < k
        BY <1>4, <3>1
      <4>2. CASE j + 1 < k
        <5>1. j < k /\ j # k /\ j # k - 1 /\ (k # 1 => k - 1 \in 1 .. n)
          BY <1>4, <4>1, <4>2
        <5>2. w[j] = o[j] /\ w[j + 1] = o[j + 1]
          BY <1>2, <4>1, <4>2, <5>1
        <5>3. o[j] \in Slots /\ o[j] # x /\ (k # 1 => o[j] # o[k - 1])
          BY <1>1, <1>4, <4>1, <5>1
        <5>4. d.next[o[j]] = q.next[o[j]]
          BY <1>8, <5>3
        <5>5. QED
          BY <1>5, <4>1, <5>2, <5>4
      <4>3. CASE j + 1 = k
        <5>1. j < k /\ ~ (j + 1 < k) /\ k # 1 /\ j = k - 1 /\ k \in 1 .. n - 1 /\ j # k
          BY <1>4, <4>1, <4>3
        <5>2. w[j] = o[k - 1] /\ w[j + 1] = o[k + 1]
          BY <1>2, <4>1, <4>3, <5>1
        <5>3. o[k - 1] \in Slots /\ o[k - 1] # x
          BY <1>1, <1>4, <4>1, <5>1
        <5>4. d.next[o[k - 1]] = q.next[x]
          BY <1>8, <5>1, <5>3
        <5>5. q.next[x] = o[k + 1]
          BY <1>1, <1>5, <5>1
        <5>6. QED
          BY <5>2, <5>4, <5>5
      <4>4. CASE j + 1 > k
        <5>1. ~ (j < k) /\ ~ (j + 1 < k) /\ j + 1 # k /\ (k # 1 => k - 1 \in 1 .. n /\ j + 1 # k - 1)
          BY <1>4, <4>1, <4>4
        <5>2. w[j] = o[j + 1] /\ w[j + 1] = o[(j + 1) + 1]
          BY <1>2, <4>1, <5>1
        <5>3. o[j + 1] \in Slots /\ o[j + 1] # x /\ (k # 1 => o[j + 1] # o[k - 1])
          BY <1>1, <1>4, <4>1, <5>1
        <5>4. d.next[o[j + 1]] = q.next[o[j + 1]]
          BY <1>8, <5>3
        <5>5. QED
          BY <1>5, <4>1, <5>2, <5>4
      <4>5. QED
        BY <1>4, <4>1, <4>2, <4>3, <4>4
    <3>5. QED
      BY <1>2, <3>1, <3>2, <3>3, <3>4 DEF Threads
  <2>3. QED
    BY <2>1, <2>2
<1>13. ListOf(d, w)
  BY <1>2, <1>11, <1>10, <1>12 DEF ListOf
<1>14. QED
  BY <1>2, <1>7, <1>13 DEF d, w

(* A change of states that are in use leaves the list as it is.            *)
LEMMA StatusList ==
  ASSUME NEW q \in Queue, NEW o, ListOf(q, o),
         NEW f \in [Slots -> {"undefined", "idle", "committed"}],
         \A s \in Slots : IF q.busy[s] THEN f[s] \in {"idle", "committed"}
                          ELSE f[s] = "undefined"
  PROVE  /\ [q EXCEPT !.status = f] \in Queue
         /\ [q EXCEPT !.status = f].status = f
         /\ [q EXCEPT !.status = f].busy = q.busy
         /\ [q EXCEPT !.status = f].key = q.key
         /\ ListOf([q EXCEPT !.status = f], o)
<1> DEFINE d == [q EXCEPT !.status = f]
<1>1. d \in Queue
  BY DEF Queue
<1>2. /\ d.status = f /\ d.busy = q.busy /\ d.key = q.key /\ d.next = q.next
      /\ d.head = q.head /\ d.tail = q.tail
  BY DEF Queue
<1> HIDE DEF d
<1>3. Entries(d)
  BY <1>2 DEF ListOf, Entries
<1>4. Threads(d, o)
  BY <1>2 DEF ListOf, Threads
<1>5. ListOf(d, o)
  BY <1>2, <1>3, <1>4 DEF ListOf
<1>6. QED
  BY <1>1, <1>2, <1>5 DEF d

(***************************************************************************)
(* The function that is running.                                           *)
(***************************************************************************)

WalkFrame ==
  [at : {"walk"}, depth : Nat, slot : Slots \cup {NoSlot}, idx_list : Seq(Slots)]

PostFrame ==
  [at : {"request_cb"}, depth : Nat, ctx : Contexts, voice : Voices, idx_list : Seq(Slots)]

AnswerFrame ==
  [at : {"response"}, depth : Nat, ctx : Contexts, voice : Voices, idx_list : Seq(Slots),
   i : Nat, synthesized : SUBSET Nat, apply_retry : BOOLEAN]

LEMMA FrameKinds ==
  ASSUME NEW f \in Frame
  PROVE  /\ f.at \in {"main", "walk", "request_cb", "response"}
         /\ f.at = "main" => f = MainLoop
         /\ f.at = "walk" => f \in WalkFrame
         /\ f.at = "request_cb" => f \in PostFrame
         /\ f.at = "response" => f \in AnswerFrame
<1>1. CASE f = MainLoop
  BY <1>1 DEF MainLoop
<1>2. CASE f \in WalkFrame
  BY <1>2 DEF WalkFrame
<1>3. CASE f \in PostFrame
  BY <1>3 DEF PostFrame
<1>4. CASE f \in AnswerFrame
  BY <1>4 DEF AnswerFrame
<1>5. QED
  BY <1>1, <1>2, <1>3, <1>4 DEF Frame, WalkFrame, PostFrame, AnswerFrame

LEMMA KindsAreFrames ==
  /\ MainLoop \in Frame /\ MainLoop.at = "main" /\ WalkFrame \subseteq Frame
  /\ PostFrame \subseteq Frame /\ AnswerFrame \subseteq Frame
BY DEF Frame, WalkFrame, PostFrame, AnswerFrame, MainLoop

(* The entries whose answers are still to come.                            *)
Flight(out, f) ==
  {Members(r.idx_list) : r \in out}
    \cup (IF f.at = "request_cb" THEN {Members(f.idx_list)}
          ELSE IF f.at = "response"
          THEN {{f.idx_list[k] : k \in f.i .. Len(f.idx_list)}} ELSE {})

Flying(s, out, f) ==
  \/ \E r \in out : s \in Members(r.idx_list)
  \/ f.at = "request_cb" /\ s \in Members(f.idx_list)
  \/ f.at = "response" /\ \E k \in f.i .. Len(f.idx_list) : s = f.idx_list[k]

LEMMA FlightUnion ==
  ASSUME NEW out, NEW f, NEW s
  PROVE  s \in UNION Flight(out, f) <=> Flying(s, out, f)
<1>1. CASE f.at = "request_cb"
  BY <1>1 DEF Flight, Flying
<1>2. CASE f.at = "response"
  BY <1>2 DEF Flight, Flying
<1>3. CASE f.at # "request_cb" /\ f.at # "response"
  BY <1>3 DEF Flight, Flying
<1>4. QED
  BY <1>1, <1>2, <1>3

(* No step but the end of an answer after a retry strands an entry.        *)
NoneStranded ==
  \A s \in Slots :
    queue'.busy[s] /\ queue'.status[s] = "committed" /\ ~ Flying(s, outstanding', frame')
      => queue.busy[s] /\ queue.status[s] = "committed" /\ ~ Flying(s, outstanding, frame)

Excused == frame.at = "response" /\ frame.apply_retry

LEMMA StrandedStep ==
  NoneStranded => Stranded' \subseteq Stranded
<1>1. InFlight = Flight(outstanding, frame)
  BY DEF InFlight, Flight
<1>2. InFlight' = Flight(outstanding', frame')
  BY DEF InFlight, Flight
<1>3. \A s : s \in UNION InFlight <=> Flying(s, outstanding, frame)
  BY <1>1, FlightUnion
<1>4. \A s : s \in UNION InFlight' <=> Flying(s, outstanding', frame')
  BY <1>2, FlightUnion
<1>5. Stranded = {s \in Slots : queue.busy[s] /\ queue.status[s] = "committed"
                                 /\ s \notin UNION InFlight}
  BY DEF Stranded
<1>6. Stranded' = {s \in Slots : queue'.busy[s] /\ queue'.status[s] = "committed"
                                  /\ s \notin UNION InFlight'}
  BY DEF Stranded
<1>7. QED
  BY <1>3, <1>4, <1>5, <1>6 DEF NoneStranded

(***************************************************************************)
(* Requests and commits.                                                   *)
(***************************************************************************)

LEMMA QueueTypes ==
  ASSUME NEW q \in Queue, NEW o, ListOf(q, o), NEW s \in Slots
  PROVE  /\ q.status[s] \in {"undefined", "idle", "committed"} /\ q.busy[s] \in BOOLEAN
         /\ q.next[s] \in Slots \cup {NoSlot}
         /\ q.status[s] \in {"idle", "committed"} <=> q.busy[s]
         /\ q.busy[s] => q.key[s] \in Texts
BY DEF Queue, ListOf, Entries

LEMMA OutstandingCount ==
  ASSUME SentHold
  PROVE  /\ Cardinality(outstanding) \in Nat
         /\ Cardinality(outstanding) > 0 => outstanding # {}
<1>1. IsFiniteSet(outstanding)
  BY DEF SentHold
<1>2. QED
  BY <1>1, FS_CardinalityType, FS_EmptySet

LEMMA QueueOne ==
  ASSUME TypeOK, ListOf(queue, order), NEW text \in Texts, NEW retry \in BOOLEAN,
         NEW callback \in BOOLEAN, _queue_one(text, retry, callback)
  PROVE  /\ queue' \in Queue /\ order' \in Seq(Slots) /\ ListOf(queue', order')
         /\ request' \in [Slots -> Request]
         /\ \A s \in Slots :
              /\ queue.status[s] = "committed" => queue'.status[s] = "committed"
              /\ queue'.status[s] = "committed" =>
                   queue.status[s] = "committed" /\ queue.busy[s]
              /\ queue'.status[s] = "idle" /\ request'[s].retry_index > 0
                   => queue.status[s] = "idle" /\ request[s].retry_index > 0
<1>1. /\ queue \in Queue /\ order \in Seq(Slots) /\ request \in [Slots -> Request]
  BY DEF TypeOK
<1>2. \A s \in Slots : request[s] \in Request
  BY <1>1
<1>3. CASE Holding(text) # {}
  <2> DEFINE h == Least(Holding(text))
  <2>1. h \in Slots
    <3>1. Holding(text) \in SUBSET Nat /\ Holding(text) \subseteq Slots
      BY Sizes DEF Holding
    <3>2. QED
      BY <1>3, <3>1, LeastProperties
  <2>2. UNCHANGED <<queue, order>>
    BY <1>3 DEF _queue_one
  <2>3. request' = [request EXCEPT ![h].waiting = @ \/ callback]
    BY <1>3 DEF _queue_one
  <2> HIDE DEF h
  <2>4. request[h] \in Request
    BY <1>2, <2>1
  <2> DEFINE w == request[h].waiting \/ callback
             r == [request[h] EXCEPT !.waiting = w]
  <2>5. w \in BOOLEAN
    OBVIOUS
  <2>6. request' = [request EXCEPT ![h] = r]
    BY <2>3
  <2> HIDE DEF w
  <2>7. r \in Request /\ r.retry_index = request[h].retry_index
    BY <2>4, <2>5 DEF Request
  <2> HIDE DEF r
  <2>8. request' \in [Slots -> Request]
        /\ \A s \in Slots : request'[s].retry_index = request[s].retry_index
    BY <1>1, <2>1, <2>6, <2>7
  <2>9. \A s \in Slots : queue.status[s] = "committed" => queue.busy[s]
    BY <1>1, QueueTypes
  <2>10. QED
    BY <1>1, <2>2, <2>8, <2>9
<1>4. CASE Holding(text) = {}
  <2> DEFINE i == Least(Free)
             d == tts_queue_add(queue, i, text)
             r == [retry |-> retry, retry_index |-> 0, waiting |-> callback]
  <2>1. Free # {} /\ queue' = d /\ request' = [request EXCEPT ![i] = r]
        /\ order' = Append(order, i)
    BY <1>4 DEF _queue_one
  <2>2. i \in Free /\ \A s \in Free : i <= s
    <3>1. Free \in SUBSET Nat
      BY Sizes DEF Free
    <3>2. QED
      BY <2>1, <3>1, LeastProperties
  <2>3. i \in Slots /\ ~ queue.busy[i]
    BY <2>2 DEF Free
  <2>4. order = <<>> => i = 0
    <3>1. HAVE order = <<>>
    <3>2. Members(order) = {}
      BY <3>1 DEF Members
    <3>3. Free = Slots
      BY <3>2 DEF Free, ListOf
    <3>4. i <= 0 /\ i \in Nat
      BY <2>2, <2>3, <3>3, Sizes
    <3>5. QED
      BY <3>4
  <2>5. \A s \in Slots : queue.busy[s] => queue.key[s] # text
    BY <1>4 DEF Holding
  <2> HIDE DEF i
  <2>6. /\ d \in Queue
        /\ \A s \in Slots : d.status[s] = IF s = i THEN "idle" ELSE queue.status[s]
    BY <1>1, <2>3, AddFields
  <2>7. ListOf(d, Append(order, i)) /\ Append(order, i) \in Seq(Slots)
    BY <1>1, <2>3, <2>4, <2>5, AddList
  <2> HIDE DEF d
  <2>8. r \in Request /\ ~ (r.retry_index > 0)
    BY Sizes DEF Request
  <2> HIDE DEF r
  <2>9. request' \in [Slots -> Request]
        /\ \A s \in Slots : request'[s] = IF s = i THEN r ELSE request[s]
    BY <1>1, <2>1, <2>3, <2>8
  <2>10. \A s \in Slots : queue.status[s] = "committed" => queue.busy[s]
    BY <1>1, QueueTypes
  <2>11. ASSUME NEW s \in Slots
         PROVE  /\ queue.status[s] = "committed" => queue'.status[s] = "committed"
                /\ queue'.status[s] = "committed" =>
                     queue.status[s] = "committed" /\ queue.busy[s]
                /\ queue'.status[s] = "idle" /\ request'[s].retry_index > 0
                     => queue.status[s] = "idle" /\ request[s].retry_index > 0
    <3>1. CASE s = i
      BY <2>1, <2>3, <2>6, <2>8, <2>9, <2>10, <3>1
    <3>2. CASE s # i
      BY <2>1, <2>6, <2>9, <2>10, <3>2
    <3>3. QED
      BY <3>1, <3>2
  <2>12. QED
    BY <2>1, <2>6, <2>7, <2>9, <2>11
<1>5. QED
  BY <1>3, <1>4

(* Back in the main loop: the count covers the requests that are out.      *)
LEMMA Returned ==
  ASSUME NEW count \in Int, NEW depth \in Nat, CommitReturns(count, depth),
         SentHold', count + depth <= Cardinality(outstanding'),
         \/ outstanding' # {} \/ pool' = Contexts
         \/ \A s \in Slots : ~ (queue'.status[s] = "idle" /\ request'[s].retry_index > 0)
  PROVE  /\ active' \in Int /\ frame' \in Frame /\ frame'.at = "main"
         /\ Walking' /\ Posting' /\ Responding' /\ Counted' /\ RetryAwaits'
<1>1. frame' = MainLoop /\ frame'.at = "main" /\ frame' \in Frame
  BY KindsAreFrames DEF CommitReturns
<1>2. active' = count + depth
  BY DEF CommitReturns
<1>3. Walking' /\ Posting' /\ Responding'
  BY <1>1 DEF Walking, Posting, Responding
<1>4. Counted'
  BY <1>1, <1>2 DEF Counted
<1>5. RetryAwaits'
  BY <1>1 DEF RetryAwaits
<1>6. QED
  BY <1>1, <1>2, <1>3, <1>4, <1>5

(* A commit starts its walk or returns at the limit.                       *)
LEMMA CommitStep ==
  ASSUME NEW count \in Int, NEW depth \in Nat, Commit(queue', count, depth),
         queue' \in Queue, order' \in Seq(Slots), ListOf(queue', order'),
         SentHold', count + depth <= Cardinality(outstanding')
  PROVE  /\ active' \in Int /\ frame' \in Frame /\ frame'.at \in {"main", "walk"}
         /\ Walking' /\ Posting' /\ Responding' /\ Counted' /\ RetryAwaits'
<1>1. CASE count >= ConcurrentLimit
  <2>1. CommitReturns(count, depth)
    BY <1>1 DEF Commit
  <2>2. Cardinality(outstanding') \in Nat /\ (Cardinality(outstanding') > 0 => outstanding' # {})
    <3>1. IsFiniteSet(outstanding')
      BY DEF SentHold
    <3>2. QED
      BY <3>1, FS_CardinalityType, FS_EmptySet
  <2>3. outstanding' # {}
    BY <1>1, <2>2, Sizes
  <2>4. QED
    BY <2>1, <2>3, Returned
<1>2. CASE ~ (count >= ConcurrentLimit)
  <2>1. active' = count
        /\ frame' = [at |-> "walk", depth |-> depth, slot |-> queue'.head, idx_list |-> <<>>]
    BY <1>2 DEF Commit
  <2>2. queue'.head \in Slots \cup {NoSlot} /\ <<>> \in Seq(Slots)
    BY EmptySeq DEF Queue
  <2>3. frame' \in WalkFrame
    BY <2>1, <2>2 DEF WalkFrame
  <2>4. /\ frame' \in Frame /\ frame'.at = "walk" /\ frame'.slot = queue'.head
        /\ frame'.depth = depth /\ frame'.idx_list = <<>> /\ Len(frame'.idx_list) = 0
    BY <2>1, <2>3, KindsAreFrames
  <2>5. Posting' /\ Responding' /\ RetryAwaits'
    BY <2>4 DEF Posting, Responding, RetryAwaits
  <2>6. Counted'
    BY <2>1, <2>4 DEF Counted
  <2>7. Injective(frame'.idx_list) /\ Members(frame'.idx_list) = {}
    BY <2>4 DEF Injective, Members
  <2>8. Passed(frame', queue', order', 0) /\ 0 \in 0 .. Len(order')
    <3>1. order' = <<>> <=> Len(order') = 0
      BY EmptySeq
    <3>2. Len(order') \in Nat
      OBVIOUS
    <3>3. Threads(queue', order')
      BY DEF ListOf
    <3>4. frame'.slot = IF 0 < Len(order') THEN order'[0 + 1] ELSE NoSlot
      BY <2>4, <3>1, <3>2, <3>3 DEF Threads
    <3>5. QED
      BY <2>4, <3>2, <3>4 DEF Passed
  <2>9. Walking'
    BY <2>4, <2>7, <2>8 DEF Walking
  <2>10. QED
    BY <2>1, <2>4, <2>5, <2>6, <2>9
<1>3. QED
  BY <1>1, <1>2

(***************************************************************************)
(* The steps.                                                              *)
(***************************************************************************)

LEMMA RequestMembers ==
  ASSUME NEW r \in ProviderRequest
  PROVE  /\ r.idx_list \in Seq(Slots) /\ r.ctx \in Contexts /\ r.voice \in Voices
         /\ Members(r.idx_list) \subseteq Slots /\ Len(r.idx_list) \in Nat
         /\ \A k \in 1 .. Len(r.idx_list) : r.idx_list[k] \in Slots
BY DEF ProviderRequest, Members

(* Requests stay as they are held while their entries stay committed.      *)
LEMMA SentStable ==
  ASSUME SentHold, outstanding' \subseteq outstanding, pool \subseteq pool',
         \A r \in outstanding' : \A s \in Members(r.idx_list) :
           queue.status[s] = "committed" => queue'.status[s] = "committed"
  PROVE  SentHold'
<1>1. IsFiniteSet(outstanding')
  BY FS_Subset DEF SentHold
<1>2. \A r \in outstanding' : Holds(r, queue, pool)
  BY DEF SentHold
<1>3. \A r \in outstanding' : Holds(r, queue', pool')
  BY <1>2 DEF Holds
<1>4. \A r \in outstanding' : \A other \in outstanding' : r # other => Apart(r, other)
  BY DEF SentHold
<1>5. QED
  BY <1>1, <1>3, <1>4 DEF SentHold

(* Nothing is held by the function that runs, before and after.            *)
LEMMA FreeSteps ==
  ASSUME NEW s, NEW out, NEW f, f.at \in {"main", "walk"}
  PROVE  Flying(s, out, f) <=> \E r \in out : s \in Members(r.idx_list)
BY DEF Flying

LEMMA RequestStep ==
  ASSUME IInv, NEW t \in Texts, NEW retry \in BOOLEAN, tts_request_ex(t, retry)
  PROVE  IInv' /\ NoneStranded
<1>1. /\ frame.at = "main" /\ _queue_one(t, retry, TRUE) /\ TRUE \in BOOLEAN
      /\ UNCHANGED <<pool, voice, store, outstanding, changing>>
  BY DEF tts_request_ex
<1>2. /\ queue' \in Queue /\ order' \in Seq(Slots) /\ ListOf(queue', order')
      /\ request' \in [Slots -> Request]
      /\ \A s \in Slots :
           /\ queue.status[s] = "committed" => queue'.status[s] = "committed"
           /\ queue'.status[s] = "committed" =>
                queue.status[s] = "committed" /\ queue.busy[s]
           /\ queue'.status[s] = "idle" /\ request'[s].retry_index > 0
                => queue.status[s] = "idle" /\ request[s].retry_index > 0
  BY <1>1, QueueOne DEF IInv
<1>3. SentHold'
  <2>1. \A r \in outstanding' : \A s \in Members(r.idx_list) : s \in Slots
    BY <1>1, RequestMembers DEF IInv, TypeOK
  <2>2. QED
    BY <1>1, <1>2, <2>1, SentStable DEF IInv
<1>4. active \in Int /\ active <= Cardinality(outstanding) /\ 0 \in Nat
      /\ active + 0 <= Cardinality(outstanding')
      /\ Cardinality(outstanding) \in Nat /\ frame = MainLoop
  BY <1>1, OutstandingCount, FrameKinds DEF IInv, Counted, TypeOK
<1>5. /\ active' \in Int /\ frame' \in Frame /\ frame'.at \in {"main", "walk"}
      /\ Walking' /\ Posting' /\ Responding' /\ Counted' /\ RetryAwaits'
  <2>1. CASE BatchLimit = 1
    <3>1. Commit(queue', active, 0)
      BY <2>1 DEF tts_request_ex
    <3>2. QED
      BY <1>2, <1>3, <1>4, <3>1, CommitStep
  <2>2. CASE BatchLimit # 1
    <3>1. UNCHANGED <<active, frame>>
      BY <2>2 DEF tts_request_ex
    <3>2. active' = active /\ frame' = frame /\ frame'.at = "main" /\ frame' \in Frame
      BY <1>1, <3>1 DEF IInv, TypeOK
    <3>3. Walking' /\ Posting' /\ Responding' /\ Counted'
      BY <1>1, <1>4, <3>2 DEF Walking, Posting, Responding, Counted
    <3>4. RetryAwaits'
      BY <1>1, <1>2, <3>2 DEF RetryAwaits, IInv
    <3>5. QED
      BY <1>4, <3>2, <3>3, <3>4
  <2>3. QED
    BY <2>1, <2>2
<1>6. TypeOK'
  BY <1>1, <1>2, <1>5 DEF IInv, TypeOK
<1>7. NoneStranded
  BY <1>1, <1>2, <1>5, FreeSteps DEF NoneStranded
<1>8. QED
  BY <1>2, <1>3, <1>5, <1>6, <1>7 DEF IInv

LEMMA PlaylistStep ==
  ASSUME IInv, NEW t \in Texts, NEW v \in Voices, tts_playlist_add(t, v)
  PROVE  IInv' /\ NoneStranded
<1>1. /\ frame.at = "main" /\ UNCHANGED <<pool, voice, outstanding, changing>>
      /\ store' = [store EXCEPT ![v][t] = NoAudio] /\ FALSE \in BOOLEAN
  BY DEF tts_playlist_add
<1>2. store' \in [Voices -> [Texts -> Texts \cup {NoAudio, NoFile}]]
  <2>1. store \in [Voices -> [Texts -> Texts \cup {NoAudio, NoFile}]]
    BY DEF IInv, TypeOK
  <2>2. store[v] \in [Texts -> Texts \cup {NoAudio, NoFile}]
    BY <2>1
  <2> DEFINE held == [store[v] EXCEPT ![t] = NoAudio]
  <2>3. held \in [Texts -> Texts \cup {NoAudio, NoFile}]
    BY <2>2
  <2>4. store' = [store EXCEPT ![v] = held]
    BY <1>1
  <2> HIDE DEF held
  <2>5. QED
    BY <2>1, <2>3, <2>4
<1>3. active \in Int /\ active <= Cardinality(outstanding) /\ 0 \in Nat
      /\ active + 0 <= Cardinality(outstanding')
      /\ Cardinality(outstanding) \in Nat /\ frame = MainLoop
  BY <1>1, OutstandingCount, FrameKinds DEF IInv, Counted, TypeOK
<1>4. CASE v = voice
  <2>1. _queue_one(t, FALSE, FALSE) /\ Commit(queue', active, 0)
    BY <1>4 DEF tts_playlist_add
  <2>2. /\ queue' \in Queue /\ order' \in Seq(Slots) /\ ListOf(queue', order')
        /\ request' \in [Slots -> Request]
        /\ \A s \in Slots :
             /\ queue.status[s] = "committed" => queue'.status[s] = "committed"
             /\ queue'.status[s] = "committed" =>
                  queue.status[s] = "committed" /\ queue.busy[s]
    BY <1>1, <2>1, QueueOne DEF IInv
  <2>3. SentHold'
    <3>1. \A r \in outstanding' : \A s \in Members(r.idx_list) : s \in Slots
      BY <1>1, RequestMembers DEF IInv, TypeOK
    <3>2. QED
      BY <1>1, <2>2, <3>1, SentStable DEF IInv
  <2>4. /\ active' \in Int /\ frame' \in Frame /\ frame'.at \in {"main", "walk"}
        /\ Walking' /\ Posting' /\ Responding' /\ Counted' /\ RetryAwaits'
    BY <1>3, <2>1, <2>2, <2>3, CommitStep
  <2>5. TypeOK'
    BY <1>1, <1>2, <2>2, <2>4 DEF IInv, TypeOK
  <2>6. NoneStranded
    BY <1>1, <2>2, <2>4, FreeSteps DEF NoneStranded
  <2>7. QED
    BY <2>2, <2>3, <2>4, <2>5, <2>6 DEF IInv
<1>5. CASE v # voice
  <2>1. UNCHANGED <<queue, request, order, active, frame>>
    BY <1>5 DEF tts_playlist_add
  <2>2. TypeOK'
    BY <1>1, <1>2, <2>1 DEF IInv, TypeOK
  <2>3. /\ ListOf(queue', order') /\ SentHold' /\ Walking' /\ Posting' /\ Responding'
        /\ Counted' /\ RetryAwaits'
    BY <1>1, <2>1 DEF IInv, SentHold, Walking, Posting, Posted, Responding, Counted, RetryAwaits
  <2>4. NoneStranded
    BY <1>1, <2>1 DEF NoneStranded
  <2>5. QED
    BY <2>2, <2>3, <2>4 DEF IInv
<1>6. QED
  BY <1>4, <1>5

(* The voice changes, and with it the count; or only the store changes.    *)
LEMMA VoiceStep ==
  ASSUME IInv,
         \/ \E v \in Voices : tts_set_voice(v)
         \/ \E v \in Voices : _voice_updated(v)
         \/ tts_clear_cache
         \/ VoiceChangedReturns
  PROVE  IInv' /\ NoneStranded
<1>1. /\ frame.at = "main" /\ UNCHANGED <<queue, request, pool, outstanding, frame, order>>
      /\ active' \in {0, active}
  BY DEF tts_set_voice, _voice_updated, tts_clear_cache, VoiceChangedReturns
<1>2. voice' \in Voices
  BY DEF tts_set_voice, _voice_updated, tts_clear_cache, VoiceChangedReturns, IInv, TypeOK
<1>3. changing' \in BOOLEAN
  BY DEF tts_set_voice, _voice_updated, tts_clear_cache, VoiceChangedReturns, IInv, TypeOK
<1>4. store' \in [Voices -> [Texts -> Texts \cup {NoAudio, NoFile}]]
  <2>1. store \in [Voices -> [Texts -> Texts \cup {NoAudio, NoFile}]]
    BY DEF IInv, TypeOK
  <2>2. [t \in Texts |-> NoAudio] \in [Texts -> Texts \cup {NoAudio, NoFile}]
    OBVIOUS
  <2> DEFINE empty == [t \in Texts |-> NoAudio]
  <2>3. \/ store' = store \/ \E v \in Voices : store' = [store EXCEPT ![v] = empty]
        \/ store' = [v \in Voices |-> empty]
    BY DEF tts_set_voice, _voice_updated, tts_clear_cache, VoiceChangedReturns
  <2> HIDE DEF empty
  <2>4. empty \in [Texts -> Texts \cup {NoAudio, NoFile}]
    BY <2>2 DEF empty
  <2>5. QED
    BY <2>1, <2>3, <2>4
<1>5. TypeOK'
  BY <1>1, <1>2, <1>3, <1>4 DEF IInv, TypeOK
<1>6. Counted'
  <2>1. active <= Cardinality(outstanding) /\ Cardinality(outstanding) \in Nat
    BY <1>1, OutstandingCount DEF IInv, Counted
  <2>2. active' <= Cardinality(outstanding') /\ frame'.at = "main"
    BY <1>1, <2>1
  <2>3. QED
    BY <2>2 DEF Counted
<1>7. /\ ListOf(queue', order') /\ SentHold' /\ Walking' /\ Posting' /\ Responding'
      /\ RetryAwaits'
  BY <1>1 DEF IInv, SentHold, Walking, Posting, Responding, RetryAwaits
<1>8. NoneStranded
  BY <1>1 DEF NoneStranded
<1>9. QED
  BY <1>5, <1>6, <1>7, <1>8 DEF IInv

LEMMA CommitEntryStep ==
  ASSUME IInv, tts_commit
  PROVE  IInv' /\ NoneStranded
<1>1. /\ frame.at = "main" /\ Commit(queue, active, 0)
      /\ UNCHANGED <<queue, request, pool, voice, store, outstanding, changing, order>>
  BY DEF tts_commit
<1>2. /\ queue' \in Queue /\ order' \in Seq(Slots) /\ ListOf(queue', order')
      /\ Commit(queue', active, 0)
  BY <1>1 DEF IInv, TypeOK
<1>3. SentHold'
  BY <1>1 DEF SentHold, IInv
<1>4. active \in Int /\ 0 \in Nat /\ active + 0 <= Cardinality(outstanding')
  BY <1>1, OutstandingCount DEF IInv, Counted, TypeOK
<1>5. /\ active' \in Int /\ frame' \in Frame /\ frame'.at \in {"main", "walk"}
      /\ Walking' /\ Posting' /\ Responding' /\ Counted' /\ RetryAwaits'
  BY <1>2, <1>3, <1>4, CommitStep
<1>6. TypeOK'
  BY <1>1, <1>5 DEF IInv, TypeOK
<1>7. NoneStranded
  BY <1>1, <1>5, FreeSteps DEF NoneStranded
<1>8. QED
  BY <1>2, <1>3, <1>5, <1>6, <1>7 DEF IInv

(* The walk passes one more entry.                                         *)
LEMMA WalkStep ==
  ASSUME IInv, tts_queue_get_indexes
  PROVE  IInv' /\ NoneStranded
<1> DEFINE o == order
           n == Len(order)
           l == frame.idx_list
           s == frame.slot
           idle == queue.status[s] = "idle"
           l2 == IF idle THEN Append(l, s) ELSE l
<1>1. /\ frame.at = "walk" /\ s # NoSlot
      /\ frame' = [frame EXCEPT !.slot = queue.next[s], !.idx_list = l2]
      /\ UNCHANGED <<queue, request, pool, active, voice, store, outstanding, changing, order>>
  BY DEF tts_queue_get_indexes, MoreToCollect
<1>2. frame \in WalkFrame /\ s \in Slots /\ l \in Seq(Slots)
  <2>1. frame \in WalkFrame
    BY <1>1, FrameKinds DEF IInv, TypeOK
  <2>2. QED
    BY <1>1, <2>1 DEF WalkFrame
<1>3. queue.next[s] \in Slots \cup {NoSlot}
  BY <1>2, QueueTypes DEF IInv, TypeOK
<1>4. l2 \in Seq(Slots)
  BY <1>2
<1>5. /\ frame' \in WalkFrame /\ frame'.at = "walk" /\ frame'.slot = queue.next[s]
      /\ frame'.idx_list = l2 /\ frame'.depth = frame.depth
  <2> HIDE DEF l2, s
  <2>1. QED
    BY <1>1, <1>2, <1>3, <1>4 DEF WalkFrame
<1>6. frame' \in Frame
  BY <1>5, KindsAreFrames
<1>7. PICK m \in 0 .. n : Passed(frame, queue, order, m)
  BY <1>1 DEF IInv, Walking
<1>8. /\ n \in Nat /\ Injective(o) /\ \A j \in 1 .. n : o[j] \in Slots
      /\ \A j, k \in 1 .. n : o[j] = o[k] => j = k
      /\ o # <<>> => /\ queue.next[o[n]] = NoSlot
                     /\ \A k \in 1 .. n - 1 : queue.next[o[k]] = o[k + 1]
  BY DEF IInv, TypeOK, ListOf, Threads, Injective
<1>9. /\ s = IF m < n THEN o[m + 1] ELSE NoSlot
      /\ \A k \in 1 .. Len(l) : \E j \in 1 .. m : l[k] = o[j]
      /\ l = <<>> => \A j \in 1 .. m : queue.status[o[j]] # "idle"
  BY <1>7 DEF Passed
<1>10. m \in Nat /\ m + 1 \in 1 .. n /\ s = o[m + 1] /\ o # <<>>
  <2>1. m < n
    BY <1>1, <1>9
  <2>2. m \in Nat /\ m + 1 \in 1 .. n
    BY <1>8, <2>1
  <2>3. o # <<>>
    BY <2>2
  <2>4. QED
    BY <1>9, <2>1, <2>2, <2>3
<1>11. Injective(l) /\ \A k \in 1 .. Len(l) : queue.status[l[k]] = "idle"
  BY <1>1 DEF IInv, Walking, Members
<1>12. s \notin Members(l)
  <2>1. SUFFICES ASSUME s \in Members(l) PROVE FALSE
    OBVIOUS
  <2>2. PICK k \in 1 .. Len(l) : s = l[k]
    BY <2>1 DEF Members
  <2>3. PICK j \in 1 .. m : l[k] = o[j]
    BY <1>9
  <2>4. j \in 1 .. n /\ j # m + 1
    BY <1>8, <1>10
  <2>5. o[j] = o[m + 1]
    BY <1>10, <2>2, <2>3
  <2>6. QED
    BY <1>8, <1>10, <2>4, <2>5
<1> HIDE DEF s, l, l2, n, o
<1>13. /\ Injective(l2) /\ Members(l2) \subseteq Members(l) \cup {s}
       /\ \A x \in Members(l2) : queue.status[x] = "idle"
       /\ \A k \in 1 .. Len(l2) : (\E j \in 1 .. Len(l) : l2[k] = l[j]) \/ l2[k] = s
       /\ l2 = <<>> => l = <<>> /\ ~ idle
  <2>1. CASE idle
    <3>1. /\ l2 = Append(l, s) /\ Len(l2) = Len(l) + 1 /\ Members(l2) = Members(l) \cup {s}
          /\ Len(l) \in Nat
          /\ \A k \in 1 .. Len(l) : l2[k] = l[k]
          /\ l2[Len(l) + 1] = s
      BY <1>2, <2>1, AppendMembers DEF l2
    <3>2. Injective(l2)
      BY <1>2, <1>11, <1>12, <3>1, InjectiveAppend
    <3>3. \A x \in Members(l2) : queue.status[x] = "idle"
      BY <1>11, <2>1, <3>1 DEF Members
    <3>4. \A k \in 1 .. Len(l2) : k \in 1 .. Len(l) \/ k = Len(l) + 1
      BY <3>1
    <3>5. l2 # <<>>
      BY <3>1
    <3>6. QED
      BY <3>1, <3>2, <3>3, <3>4, <3>5
  <2>2. CASE ~ idle
    <3>1. l2 = l
      BY <2>2 DEF l2
    <3>2. QED
      BY <1>11, <2>2, <3>1 DEF Members
  <2>3. QED
    BY <2>1, <2>2
<1>14. Passed(frame', queue', order', m + 1)
  <2>1. frame'.slot = IF m + 1 < n THEN o[(m + 1) + 1] ELSE NoSlot
    <3>1. CASE m + 1 < n
      <4>1. m + 1 \in 1 .. n - 1
        BY <1>8, <1>10, <3>1
      <4>2. queue.next[o[m + 1]] = o[(m + 1) + 1]
        BY <1>8, <1>10, <4>1
      <4>3. QED
        BY <1>5, <1>10, <3>1, <4>2
    <3>2. CASE ~ (m + 1 < n)
      <4>1. m + 1 = n
        BY <1>8, <1>10, <3>2
      <4>2. QED
        BY <1>5, <1>8, <1>10, <3>2, <4>1
    <3>3. QED
      BY <3>1, <3>2
  <2>2. \A j \in 1 .. m + 1 : j \in 1 .. m \/ j = m + 1
    BY <1>10
  <2>3. (\A j \in 1 .. m : j \in 1 .. m + 1) /\ m + 1 \in 1 .. m + 1
    BY <1>10
  <2>4. \A k \in 1 .. Len(l2) : \E j \in 1 .. m + 1 : l2[k] = o[j]
    BY <1>9, <1>10, <1>13, <2>3
  <2>5. l2 = <<>> => \A j \in 1 .. m + 1 : queue.status[o[j]] # "idle"
    BY <1>9, <1>10, <1>13, <2>2
  <2>6. QED
    BY <1>1, <1>5, <2>1, <2>4, <2>5 DEF Passed, n, o
<1>15. Walking'
  <2>1. m + 1 \in 0 .. Len(order')
    BY <1>1, <1>8, <1>10 DEF n
  <2>2. QED
    BY <1>1, <1>5, <1>13, <1>14, <2>1 DEF Walking
<1>16. Posting' /\ Responding' /\ RetryAwaits'
  BY <1>5 DEF Posting, Responding, RetryAwaits
<1>17. Counted'
  BY <1>1, <1>5 DEF IInv, Counted
<1>18. TypeOK' /\ ListOf(queue', order') /\ SentHold'
  BY <1>1, <1>6 DEF IInv, TypeOK, SentHold
<1>19. NoneStranded
  <2>1. queue' = queue /\ outstanding' = outstanding
    BY <1>1
  <2>2. frame.at \in {"main", "walk"} /\ frame'.at \in {"main", "walk"}
    BY <1>1, <1>5
  <2>3. \A x : Flying(x, outstanding', frame') <=> Flying(x, outstanding, frame)
    BY <2>1, <2>2, FreeSteps
  <2>4. QED
    BY <2>1, <2>3 DEF NoneStranded
<1>20. QED
  BY <1>15, <1>16, <1>17, <1>18, <1>19 DEF IInv

(* The walk ends: with nothing to send or no context, or with a request.   *)
LEMMA BatchStep ==
  ASSUME IInv, CommitBatch
  PROVE  IInv' /\ NoneStranded
<1> DEFINE l == frame.idx_list
<1>1. /\ frame.at = "walk" /\ ~ MoreToCollect
      /\ UNCHANGED <<request, voice, store, outstanding, changing, order>>
  BY DEF CommitBatch
<1>2. frame \in WalkFrame /\ l \in Seq(Slots) /\ frame.depth \in Nat
  <2>1. frame \in WalkFrame
    BY <1>1, FrameKinds DEF IInv, TypeOK
  <2>2. QED
    BY <2>1 DEF WalkFrame
<1>3. /\ active \in Int /\ active + frame.depth <= Cardinality(outstanding)
      /\ Cardinality(outstanding) \in Nat /\ voice \in Voices
  BY <1>1, OutstandingCount DEF IInv, Counted, TypeOK
<1>4. CASE l = <<>> \/ pool = Contexts
  <2>1. /\ CommitReturns(active, frame.depth) /\ UNCHANGED <<queue, pool>>
    BY <1>4 DEF CommitBatch
  <2>2. SentHold'
    BY <1>1, <2>1 DEF SentHold, IInv
  <2>3. ASSUME l = <<>>, NEW s \in Slots PROVE queue.status[s] # "idle"
    <3>1. frame.slot = NoSlot
      <4>1. Len(l) = 0
        BY <2>3
      <4>2. Len(l) < BatchLimit
        BY <4>1, Sizes
      <4>3. QED
        BY <1>1, <4>2 DEF MoreToCollect
    <3>2. PICK m \in 0 .. Len(order) : Passed(frame, queue, order, m)
      BY <1>1 DEF IInv, Walking
    <3>3. Len(order) \in Nat /\ m \in Nat /\ \A j \in 1 .. Len(order) : order[j] \in Slots
      BY DEF IInv, TypeOK
    <3>4. ~ (m < Len(order))
      <4>1. SUFFICES ASSUME m < Len(order) PROVE FALSE
        OBVIOUS
      <4>2. m + 1 \in 1 .. Len(order)
        BY <3>3, <4>1
      <4>3. frame.slot = order[m + 1]
        BY <3>2, <4>1 DEF Passed
      <4>4. QED
        BY <3>1, <3>3, <4>2, <4>3, Sizes
    <3>5. m = Len(order)
      BY <3>3, <3>4
    <3>6. \A j \in 1 .. Len(order) : queue.status[order[j]] # "idle"
      BY <2>3, <3>2, <3>5 DEF Passed
    <3>7. queue.busy[s] => s \in Members(order)
      BY DEF IInv, ListOf
    <3>8. queue.status[s] = "idle" => queue.busy[s]
      BY QueueTypes DEF IInv, TypeOK
    <3>9. QED
      BY <3>6, <3>7, <3>8 DEF Members
  <2>4. /\ active' \in Int /\ frame' \in Frame /\ frame'.at = "main"
        /\ Walking' /\ Posting' /\ Responding' /\ Counted' /\ RetryAwaits'
    <3>1. \/ pool' = Contexts
          \/ \A s \in Slots : ~ (queue'.status[s] = "idle" /\ request'[s].retry_index > 0)
      BY <1>4, <2>1, <2>3
    <3>2. active + frame.depth <= Cardinality(outstanding')
      BY <1>1, <1>3
    <3>3. QED
      BY <1>2, <1>3, <2>1, <2>2, <3>1, <3>2, Returned
  <2>5. TypeOK' /\ ListOf(queue', order')
    BY <1>1, <2>1, <2>4 DEF IInv, TypeOK
  <2>6. NoneStranded
    <3>1. frame.at \in {"main", "walk"} /\ frame'.at \in {"main", "walk"}
      BY <1>1, <2>4
    <3>2. \A x : Flying(x, outstanding', frame') <=> Flying(x, outstanding, frame)
      BY <1>1, <3>1, FreeSteps
    <3>3. QED
      BY <2>1, <3>2 DEF NoneStranded
  <2>7. QED
    BY <2>2, <2>4, <2>5, <2>6 DEF IInv
<1>5. CASE ~ (l = <<>> \/ pool = Contexts)
  <2> DEFINE ctx == Least(Contexts \ pool)
             f == [s \in Slots |-> IF s \in Members(l) THEN "committed" ELSE queue.status[s]]
  <2>1. /\ pool' = pool \cup {ctx}
        /\ queue' = [queue EXCEPT !.status = f]
        /\ frame' = [at |-> "request_cb", depth |-> frame.depth + 1, ctx |-> ctx,
                     voice |-> voice, idx_list |-> l]
        /\ UNCHANGED active
    BY <1>5 DEF CommitBatch
  <2>2. ctx \in Contexts /\ ctx \notin pool
    <3>1. Contexts \ pool \in SUBSET Nat /\ Contexts \ pool # {}
      BY <1>5, Sizes DEF IInv, TypeOK
    <3>2. QED
      BY <3>1, LeastProperties
  <2>3. /\ Injective(l) /\ \A s \in Members(l) : queue.status[s] = "idle"
        /\ Members(l) \subseteq Slots
    BY <1>1, <1>2 DEF IInv, Walking, Members
  <2>4. /\ f \in [Slots -> {"undefined", "idle", "committed"}]
        /\ \A s \in Slots : f[s] = IF s \in Members(l) THEN "committed" ELSE queue.status[s]
    BY DEF IInv, TypeOK, Queue
  <2> HIDE DEF ctx, f
  <2>5. \A s \in Slots : IF queue.busy[s] THEN f[s] \in {"idle", "committed"}
                         ELSE f[s] = "undefined"
    <3>1. TAKE s \in Slots
    <3>2. /\ queue.status[s] \in {"undefined", "idle", "committed"}
          /\ queue.status[s] \in {"idle", "committed"} <=> queue.busy[s]
      BY QueueTypes DEF IInv, TypeOK
    <3>3. CASE s \in Members(l)
      BY <2>3, <2>4, <3>2, <3>3
    <3>4. CASE s \notin Members(l)
      BY <2>4, <3>2, <3>4
    <3>5. QED
      BY <3>3, <3>4
  <2>6. queue' \in Queue /\ queue'.status = f /\ queue'.busy = queue.busy /\ ListOf(queue', order')
    BY <1>1, <2>1, <2>4, <2>5, StatusList DEF IInv, TypeOK
  <2>7. /\ frame' \in PostFrame /\ frame'.at = "request_cb" /\ frame'.idx_list = l
        /\ frame'.ctx = ctx /\ frame'.depth = frame.depth + 1
    <3>1. frame.depth + 1 \in Nat
      BY <1>2
    <3>2. QED
      BY <1>2, <1>3, <2>1, <2>2, <3>1 DEF PostFrame
  <2>8. \A s \in Slots : queue.status[s] = "committed" => queue'.status[s] = "committed"
    BY <2>4, <2>6
  <2>9. SentHold'
    <3>1. \A r \in outstanding' : \A s \in Members(r.idx_list) : s \in Slots
      BY <1>1, RequestMembers DEF IInv, TypeOK
    <3>2. QED
      BY <1>1, <2>1, <2>8, <3>1, SentStable DEF IInv
  <2>10. Posting'
    <3>1. Posted'.ctx = ctx /\ Posted'.idx_list = l
      BY <2>7 DEF Posted
    <3>2. Holds(Posted', queue', pool')
      BY <2>1, <2>3, <2>4, <2>6, <3>1 DEF Holds
    <3>3. ASSUME NEW r \in outstanding PROVE Apart(Posted', r)
      <4>1. r.ctx \in pool /\ \A s \in Members(r.idx_list) : queue.status[s] = "committed"
        BY DEF IInv, SentHold, Holds
      <4>2. QED
        BY <2>2, <2>3, <3>1, <4>1 DEF Apart
    <3>4. QED
      BY <1>1, <3>2, <3>3 DEF Posting
  <2>11. Walking' /\ Responding' /\ RetryAwaits'
    BY <2>7 DEF Walking, Responding, RetryAwaits
  <2>12. Counted'
    <3>1. active + (frame.depth + 1) <= Cardinality(outstanding) + 1
      BY <1>2, <1>3
    <3>2. active' + frame'.depth <= Cardinality(outstanding') + 1
      BY <1>1, <2>1, <2>7, <3>1
    <3>3. QED
      BY <2>7, <3>2 DEF Counted
  <2>13. TypeOK'
    <3>1. frame' \in Frame
      BY <2>7, KindsAreFrames
    <3>2. pool' \subseteq Contexts
      BY <2>1, <2>2 DEF IInv, TypeOK
    <3>3. active' \in Int
      BY <1>3, <2>1
    <3>4. QED
      BY <1>1, <2>6, <3>1, <3>2, <3>3 DEF IInv, TypeOK
  <2>14. NoneStranded
    <3>1. ASSUME NEW s \in Slots, queue'.busy[s], queue'.status[s] = "committed",
                 ~ Flying(s, outstanding', frame')
          PROVE  queue.busy[s] /\ queue.status[s] = "committed" /\ ~ Flying(s, outstanding, frame)
      <4>1. s \notin Members(l) /\ ~ \E r \in outstanding : s \in Members(r.idx_list)
        BY <1>1, <2>7, <3>1 DEF Flying
      <4>2. ~ Flying(s, outstanding, frame)
        BY <1>1, <4>1, FreeSteps
      <4>3. QED
        BY <2>4, <2>6, <3>1, <4>1, <4>2
    <3>2. QED
      BY <3>1 DEF NoneStranded
  <2>15. QED
    BY <2>6, <2>9, <2>10, <2>11, <2>12, <2>13, <2>14 DEF IInv
<1>6. QED
  BY <1>4, <1>5

LEMMA PostedProperties ==
  ASSUME IInv, frame.at = "request_cb"
  PROVE  /\ frame \in PostFrame /\ frame.depth \in Nat /\ Posted \in ProviderRequest
         /\ Posted.idx_list = frame.idx_list /\ Posted.ctx = frame.ctx
         /\ Posted.voice = frame.voice
         /\ Holds(Posted, queue, pool) /\ \A r \in outstanding : Apart(Posted, r)
         /\ Posted \notin outstanding
<1>1. frame \in PostFrame
  BY FrameKinds DEF IInv, TypeOK
<1>2. frame.depth \in Nat /\ Posted \in ProviderRequest
  BY <1>1 DEF PostFrame, Posted, ProviderRequest
<1>3. Holds(Posted, queue, pool) /\ \A r \in outstanding : Apart(Posted, r)
  BY DEF IInv, Posting
<1>4. Posted \notin outstanding
  BY <1>3 DEF Apart
<1>5. QED
  BY <1>1, <1>2, <1>3, <1>4 DEF Posted

LEMMA SentStep ==
  ASSUME IInv, RequestSent
  PROVE  IInv' /\ NoneStranded
<1>1. /\ frame.at = "request_cb" /\ outstanding' = outstanding \cup {Posted}
      /\ CommitReturns(active, frame.depth)
      /\ UNCHANGED <<queue, request, pool, voice, store, changing, order>>
  BY DEF RequestSent
<1>2. /\ frame \in PostFrame /\ frame.depth \in Nat /\ Posted \in ProviderRequest
      /\ Posted.idx_list = frame.idx_list /\ Posted.ctx = frame.ctx
      /\ Holds(Posted, queue, pool) /\ \A r \in outstanding : Apart(Posted, r)
      /\ Posted \notin outstanding
  BY <1>1, PostedProperties
<1>3. /\ active \in Int /\ active + frame.depth <= Cardinality(outstanding) + 1
      /\ Cardinality(outstanding) \in Nat /\ IsFiniteSet(outstanding)
  BY <1>1, OutstandingCount DEF IInv, Counted, TypeOK, SentHold
<1>4. IsFiniteSet(outstanding') /\ Cardinality(outstanding') = Cardinality(outstanding) + 1
  BY <1>1, <1>2, <1>3, FS_AddElement
<1> DEFINE p == Posted
<1>5. p = Posted
  OBVIOUS
<1> HIDE DEF p
<1>6. SentHold'
  <2>1. ASSUME NEW r \in outstanding'
        PROVE  Holds(r, queue', pool')
    <3>1. r \in outstanding \/ r = p
      BY <1>1, <1>5
    <3>2. QED
      BY <1>1, <1>2, <1>5, <3>1 DEF IInv, SentHold
  <2>2. ASSUME NEW r \in outstanding', NEW other \in outstanding', r # other
        PROVE  Apart(r, other)
    <3>1. CASE r \in outstanding /\ other \in outstanding
      BY <2>2, <3>1 DEF IInv, SentHold
    <3>2. CASE r = p /\ other \in outstanding
      BY <1>2, <1>5, <3>2
    <3>3. CASE r \in outstanding /\ other = p
      <4>1. Apart(p, r)
        BY <1>2, <1>5, <3>3
      <4>2. QED
        BY <3>3, <4>1 DEF Apart
    <3>4. QED
      BY <1>1, <1>5, <2>2, <3>1, <3>2, <3>3
  <2>3. QED
    BY <1>4, <2>1, <2>2 DEF SentHold
<1>7. /\ active' \in Int /\ frame' \in Frame /\ frame'.at = "main"
      /\ Walking' /\ Posting' /\ Responding' /\ Counted' /\ RetryAwaits'
  <2>1. outstanding' # {} /\ active + frame.depth <= Cardinality(outstanding')
    BY <1>1, <1>3, <1>4
  <2>2. QED
    BY <1>1, <1>2, <1>3, <1>6, <2>1, Returned
<1>8. TypeOK'
  <2>1. outstanding' \subseteq ProviderRequest
    BY <1>1, <1>2 DEF IInv, TypeOK
  <2>2. QED
    BY <1>1, <1>7, <2>1 DEF IInv, TypeOK
<1>9. NoneStranded
  <2>1. ASSUME NEW s, Flying(s, outstanding, frame)
        PROVE  Flying(s, outstanding', frame')
    <3>1. CASE \E r \in outstanding : s \in Members(r.idx_list)
      BY <1>1, <3>1 DEF Flying
    <3>2. CASE s \in Members(frame.idx_list)
      <4>1. p \in outstanding' /\ s \in Members(p.idx_list)
        BY <1>1, <1>2, <1>5, <3>2
      <4>2. QED
        BY <4>1 DEF Flying
    <3>3. QED
      BY <1>1, <2>1, <3>1, <3>2 DEF Flying
  <2>2. QED
    BY <1>1, <2>1 DEF NoneStranded
<1>10. QED
  BY <1>1, <1>6, <1>7, <1>8, <1>9 DEF IInv

(* The frame of an answer that starts.                                     *)
LEMMA AnsweringFrame ==
  ASSUME NEW r \in ProviderRequest, NEW depth \in Nat,
         NEW synthesized \in SUBSET (1 .. Len(r.idx_list))
  PROVE  LET f == Answering(r, depth, synthesized)
         IN  /\ f \in AnswerFrame /\ f.at = "response" /\ f.depth = depth /\ f.ctx = r.ctx
             /\ f.idx_list = r.idx_list /\ f.i = 1 /\ f.synthesized = synthesized
<1>1. synthesized \in SUBSET Nat
  OBVIOUS
<1>2. r.ctx \in Contexts /\ r.voice \in Voices /\ r.idx_list \in Seq(Slots)
  BY RequestMembers
<1>3. QED
  BY <1>1, <1>2 DEF Answering, AnswerFrame

(* An answer starts, of a request that held its entries.                   *)
LEMMA AnswerStarts ==
  ASSUME IInv, NEW r \in ProviderRequest, NEW depth \in Nat,
         NEW synthesized \in SUBSET (1 .. Len(r.idx_list)),
         frame' = Answering(r, depth, synthesized),
         Holds(r, queue, pool), outstanding' \subseteq outstanding,
         \A other \in outstanding' : Apart(r, other),
         active + depth <= Cardinality(outstanding') + 1,
         UNCHANGED <<queue, request, pool, active, voice, store, changing, order>>,
         \A s : Flying(s, outstanding, frame) =>
                  s \in Members(r.idx_list) \/ \E other \in outstanding' : s \in Members(other.idx_list)
  PROVE  IInv' /\ NoneStranded
<1> DEFINE l == r.idx_list
           n == Len(l)
<1>1. /\ frame' \in AnswerFrame /\ frame'.at = "response" /\ frame'.depth = depth
      /\ frame'.ctx = r.ctx /\ frame'.idx_list = l /\ frame'.i = 1
      /\ frame'.synthesized = synthesized
  BY AnsweringFrame
<1>2. frame' \in Frame
  BY <1>1, KindsAreFrames
<1>3. Injective(l) /\ r.ctx \in pool /\ \A k \in 1 .. n : queue.status[l[k]] = "committed"
  BY DEF Holds, Members
<1>4. SentHold'
  BY SentStable DEF IInv
<1>5. TypeOK'
  BY <1>2 DEF IInv, TypeOK
<1>6. \A other \in outstanding' :
        r.ctx # other.ctx /\ \A k \in 1 .. n : l[k] \notin Members(other.idx_list)
  BY DEF Apart, Members
<1>7. Responding'
  BY <1>1, <1>3, <1>6 DEF Responding
<1>8. Walking' /\ Posting' /\ RetryAwaits'
  BY <1>1 DEF Walking, Posting, RetryAwaits
<1>9. Counted'
  BY <1>1 DEF Counted
<1>10. ListOf(queue', order')
  BY DEF IInv
<1>11. ASSUME NEW s, Flying(s, outstanding, frame)
       PROVE  Flying(s, outstanding', frame')
  <2>1. CASE s \in Members(l)
    <3>1. \E k \in frame'.i .. Len(frame'.idx_list) : s = frame'.idx_list[k]
      BY <1>1, <2>1 DEF Members
    <3>2. QED
      BY <1>1, <3>1 DEF Flying
  <2>2. CASE \E other \in outstanding' : s \in Members(other.idx_list)
    BY <2>2 DEF Flying
  <2>3. QED
    BY <1>11, <2>1, <2>2
<1>12. NoneStranded
  BY <1>11 DEF NoneStranded
<1>13. QED
  BY <1>4, <1>5, <1>7, <1>8, <1>9, <1>10, <1>12 DEF IInv

LEMMA FailsStep ==
  ASSUME IInv, RequestFails
  PROVE  IInv' /\ NoneStranded
<1>1. /\ frame.at = "request_cb" /\ frame' = Answering(Posted, frame.depth, {})
      /\ UNCHANGED <<queue, request, pool, active, voice, store, outstanding, changing, order>>
  BY DEF RequestFails
<1>2. /\ frame.depth \in Nat /\ Posted \in ProviderRequest
      /\ Posted.idx_list = frame.idx_list
      /\ Holds(Posted, queue, pool) /\ \A r \in outstanding : Apart(Posted, r)
  BY <1>1, PostedProperties
<1>3. active + frame.depth <= Cardinality(outstanding) + 1
  BY <1>1 DEF IInv, Counted
<1> DEFINE p == Posted
           none == {}
<1>4. p \in ProviderRequest /\ none \in SUBSET (1 .. Len(p.idx_list))
  BY <1>2
<1>5. \A s : Flying(s, outstanding, frame) =>
               s \in Members(p.idx_list) \/ \E r \in outstanding : s \in Members(r.idx_list)
  BY <1>1, <1>2 DEF Flying
<1>6. /\ Holds(p, queue, pool) /\ (\A r \in outstanding : Apart(p, r))
      /\ frame' = Answering(p, frame.depth, none)
  BY <1>1, <1>2
<1> HIDE DEF p, none
<1>7. outstanding' = outstanding
  BY <1>1
<1>8. QED
  BY <1>1, <1>2, <1>3, <1>4, <1>5, <1>6, <1>7, AnswerStarts

LEMMA ResponseStep ==
  ASSUME IInv, NEW r \in outstanding, _on_response(r)
  PROVE  IInv' /\ NoneStranded
<1>1. /\ frame.at = "main" /\ outstanding' = outstanding \ {r}
      /\ UNCHANGED <<queue, request, pool, active, voice, store, changing, order>>
  BY DEF _on_response
<1>2. PICK synthesized \in SUBSET (1 .. Len(r.idx_list)) : frame' = Answering(r, 0, synthesized)
  BY DEF _on_response
<1>3. r \in ProviderRequest /\ 0 \in Nat
  BY DEF IInv, TypeOK
<1>4. Holds(r, queue, pool) /\ \A other \in outstanding' : Apart(r, other)
  BY <1>1 DEF IInv, SentHold
<1>5. active + 0 <= Cardinality(outstanding') + 1
  <2>1. active \in Int /\ active <= Cardinality(outstanding) /\ IsFiniteSet(outstanding)
    BY <1>1 DEF IInv, Counted, TypeOK, SentHold
  <2>2. Cardinality(outstanding') = Cardinality(outstanding) - 1 /\ Cardinality(outstanding) \in Nat
    BY <1>1, <2>1, FS_RemoveElement, OutstandingCount DEF IInv
  <2>3. QED
    BY <2>1, <2>2
<1>6. \A s : Flying(s, outstanding, frame) =>
               s \in Members(r.idx_list) \/ \E other \in outstanding' : s \in Members(other.idx_list)
  BY <1>1 DEF Flying
<1>7. outstanding' \subseteq outstanding
  BY <1>1
<1>8. QED
  BY <1>1, <1>2, <1>3, <1>4, <1>5, <1>6, <1>7, AnswerStarts

LEMMA CurrentProperties ==
  ASSUME IInv, InResponse
  PROVE  /\ frame \in AnswerFrame /\ frame.at = "response" /\ frame.idx_list \in Seq(Slots)
         /\ frame.i \in 1 .. Len(frame.idx_list) /\ Len(frame.idx_list) \in Nat
         /\ \A k \in 1 .. Len(frame.idx_list) : frame.idx_list[k] \in Slots
         /\ Current \in Slots /\ queue.status[Current] = "committed" /\ queue.busy[Current]
         /\ queue.key[Current] \in Texts /\ request[Current] \in Request
<1>1. frame.at = "response" /\ frame.i <= Len(frame.idx_list)
  BY DEF InResponse
<1>2. frame \in AnswerFrame
  BY <1>1, FrameKinds DEF IInv, TypeOK
<1>3. frame.idx_list \in Seq(Slots) /\ frame.i \in Nat /\ frame.i >= 1
  BY <1>1, <1>2 DEF AnswerFrame, IInv, Responding
<1>4. /\ frame.i \in 1 .. Len(frame.idx_list) /\ frame.i \in frame.i .. Len(frame.idx_list)
      /\ Len(frame.idx_list) \in Nat
  BY <1>1, <1>3
<1>5. \A k \in 1 .. Len(frame.idx_list) : frame.idx_list[k] \in Slots
  BY <1>3
<1>6. Current \in Slots /\ queue.status[Current] = "committed"
  BY <1>1, <1>4, <1>5 DEF IInv, Responding, Current
<1>7. queue.busy[Current] /\ queue.key[Current] \in Texts
  BY <1>6, QueueTypes DEF IInv, TypeOK
<1>8. request[Current] \in Request
  BY <1>6 DEF IInv, TypeOK
<1>9. QED
  BY <1>1, <1>2, <1>3, <1>4, <1>5, <1>6, <1>7, <1>8

(* The i-th audio is of the i-th text or of a later one.                   *)
LEMMA TtsData ==
  ASSUME IInv, InResponse
  PROVE  tts_data(frame.i) \in Texts \cup {NoFile}
<1> DEFINE i == frame.i
           l == frame.idx_list
           synthesized == frame.synthesized
           k == Least(Ith(i))
<1>1. /\ l \in Seq(Slots) /\ i \in 1 .. Len(l) /\ Len(l) \in Nat
      /\ \A j \in 1 .. Len(l) : l[j] \in Slots
  BY CurrentProperties
<1>2. synthesized \subseteq 1 .. Len(l) /\ \A j \in i .. Len(l) : queue.status[l[j]] = "committed"
  BY DEF IInv, Responding, InResponse
<1>3. CASE Ith(i) = {}
  BY <1>3 DEF tts_data
<1>4. CASE Ith(i) # {}
  <2>1. Ith(i) \in SUBSET Nat
    BY <1>2 DEF Ith
  <2>2. k \in Ith(i)
    BY <1>4, <2>1, LeastProperties
  <2> HIDE DEF k
  <2>3. k \in synthesized /\ Cardinality({j \in synthesized : j < k}) = i - 1
    BY <2>2 DEF Ith
  <2>4. k \in 1 .. Len(l) /\ k \in Nat
    BY <1>2, <2>3
  <2>5. Cardinality({j \in synthesized : j < k}) <= k - 1
    <3> DEFINE below == {j \in synthesized : j < k}
    <3>1. below \subseteq 1 .. k - 1
      BY <1>2, <2>4
    <3>2. IsFiniteSet(1 .. k - 1) /\ Cardinality(1 .. k - 1) = k - 1
      BY <2>4, FS_Interval
    <3> HIDE DEF below
    <3>3. Cardinality(below) <= Cardinality(1 .. k - 1)
      BY <3>1, <3>2, FS_Subset
    <3>4. QED
      BY <3>2, <3>3 DEF below
  <2>6. k \in i .. Len(l)
    BY <1>1, <2>3, <2>4, <2>5
  <2>7. l[k] \in Slots /\ queue.status[l[k]] = "committed"
    BY <1>1, <1>2, <2>4, <2>6
  <2>8. queue.key[l[k]] \in Texts
    BY <2>7, QueueTypes DEF IInv, TypeOK
  <2>9. tts_data(i) = queue.key[l[k]]
    BY <1>4 DEF tts_data, k
  <2>10. QED
    BY <2>8, <2>9
<1>5. QED
  BY <1>3, <1>4

(* One entry of an answer is dealt with; the others are left alone.        *)
LEMMA EntryStep ==
  ASSUME IInv, InResponse, frame' \in AnswerFrame,
         frame'.depth = frame.depth, frame'.ctx = frame.ctx, frame'.idx_list = frame.idx_list,
         frame'.synthesized = frame.synthesized, frame'.i = frame.i + 1,
         UNCHANGED <<pool, active, outstanding>>,
         \A s \in Slots : s # Current => queue'.status[s] = queue.status[s]
  PROVE  /\ frame' \in Frame /\ SentHold' /\ Walking' /\ Posting' /\ Responding'
         /\ Counted' /\ RetryAwaits'
         /\ (\A s \in Slots : s # Current => queue'.busy[s] = queue.busy[s])
              /\ queue'.status[Current] # "committed" => NoneStranded
<1> DEFINE i == frame.i
           l == frame.idx_list
           n == Len(l)
<1>1. /\ frame.at = "response" /\ i \in 1 .. n /\ n \in Nat
      /\ \A k \in 1 .. n : l[k] \in Slots
      /\ Current = l[i]
  BY CurrentProperties DEF Current
<1>2. /\ Injective(l) /\ frame.ctx \in pool /\ frame.synthesized \subseteq 1 .. n
      /\ \A k \in i .. n : queue.status[l[k]] = "committed"
      /\ \A r \in outstanding :
           frame.ctx # r.ctx /\ \A k \in i .. n : l[k] \notin Members(r.idx_list)
  BY <1>1 DEF IInv, Responding
<1>3. frame'.at = "response" /\ frame' \in Frame
  BY KindsAreFrames DEF AnswerFrame
<1> HIDE DEF i, l, n
<1>4. i \in i .. n /\ i + 1 >= 1 /\ \A k \in i + 1 .. n : k \in i .. n /\ k \in 1 .. n /\ k # i
  BY <1>1
<1>5. \A k \in i + 1 .. n : l[k] # Current
  BY <1>1, <1>2, <1>4 DEF Injective, n
<1>6. /\ frame'.idx_list = l /\ frame'.i = i + 1 /\ Len(frame'.idx_list) = n
      /\ UNCHANGED <<pool, active, outstanding>>
  BY DEF l, i, n
<1>7. \A k \in i + 1 .. n : queue'.status[l[k]] = "committed"
  BY <1>1, <1>2, <1>4, <1>5
<1>8. SentHold'
  <2>1. ASSUME NEW r \in outstanding, NEW s \in Members(r.idx_list)
        PROVE  s \in Slots /\ s # Current
    <3>1. s \in Slots
      BY RequestMembers DEF IInv, TypeOK
    <3>2. QED
      BY <1>1, <1>2, <1>4, <3>1
  <2>2. outstanding' \subseteq outstanding /\ pool \subseteq pool'
    BY <1>6
  <2>3. \A r \in outstanding' : \A s \in Members(r.idx_list) :
          queue.status[s] = "committed" => queue'.status[s] = "committed"
    BY <2>1, <2>2
  <2>4. QED
    BY <2>2, <2>3, SentStable DEF IInv
<1>9. Responding'
  <2>1. \A k \in frame'.i .. Len(frame'.idx_list) : queue'.status[frame'.idx_list[k]] = "committed"
    BY <1>6, <1>7
  <2>2. \A r \in outstanding' :
          /\ frame'.ctx # r.ctx
          /\ \A k \in frame'.i .. Len(frame'.idx_list) :
               frame'.idx_list[k] \notin Members(r.idx_list)
    BY <1>2, <1>4, <1>6
  <2>3. /\ Injective(frame'.idx_list) /\ frame'.ctx \in pool'
        /\ frame'.i >= 1 /\ frame'.synthesized \subseteq 1 .. Len(frame'.idx_list)
    BY <1>2, <1>4, <1>6
  <2>4. QED
    BY <2>1, <2>2, <2>3 DEF Responding
<1>10. Walking' /\ Posting' /\ RetryAwaits'
  BY <1>3 DEF Walking, Posting, RetryAwaits
<1>11. Counted'
  <2>1. active + frame.depth <= Cardinality(outstanding) + 1
    BY <1>1 DEF IInv, Counted
  <2>2. active' + frame'.depth <= Cardinality(outstanding') + 1
    BY <1>6, <2>1
  <2>3. QED
    BY <1>3, <2>2 DEF Counted
<1>12. ASSUME \A s \in Slots : s # Current => queue'.busy[s] = queue.busy[s],
              queue'.status[Current] # "committed"
       PROVE  NoneStranded
  <2>1. ASSUME NEW s \in Slots, s # Current, Flying(s, outstanding, frame)
        PROVE  Flying(s, outstanding', frame')
    <3>1. CASE \E r \in outstanding : s \in Members(r.idx_list)
      BY <1>6, <3>1 DEF Flying
    <3>2. CASE \E k \in i .. n : s = l[k]
      <4>1. PICK k \in i .. n : s = l[k]
        BY <3>2
      <4>2. k \in i + 1 .. n
        BY <1>1, <2>1, <4>1
      <4>3. \E j \in frame'.i .. Len(frame'.idx_list) : s = frame'.idx_list[j]
        BY <1>6, <4>1, <4>2
      <4>4. QED
        BY <1>3, <4>3 DEF Flying
    <3>3. QED
      BY <1>1, <2>1, <3>1, <3>2 DEF Flying, i, n, l
  <2>2. QED
    BY <1>12, <2>1 DEF NoneStranded
<1>13. QED
  BY <1>3, <1>8, <1>9, <1>10, <1>11, <1>12

LEMMA DequeueStep ==
  ASSUME IInv, NEW x \in Slots, queue.busy[x], Dequeue(x)
  PROVE  /\ queue' \in Queue /\ order' \in Seq(Slots) /\ ListOf(queue', order')
         /\ request' \in [Slots -> Request]
         /\ \A s \in Slots : queue'.status[s] = IF s = x THEN "undefined" ELSE queue.status[s]
         /\ \A s \in Slots : s # x => queue'.busy[s] = queue.busy[s]
<1>1. /\ queue' = tts_queue_remove(queue, x) /\ order' = Without(order, x)
      /\ request' = [request EXCEPT ![x] = NoRequest]
  BY DEF Dequeue
<1>2. /\ queue' \in Queue /\ order' \in Seq(Slots) /\ ListOf(queue', order')
      /\ \A s \in Slots : queue'.status[s] = IF s = x THEN "undefined" ELSE queue.status[s]
  BY <1>1, RemoveList DEF IInv, TypeOK
<1>3. request' \in [Slots -> Request]
  <2>1. NoRequest \in Request
    BY Sizes DEF NoRequest, Request
  <2>2. QED
    BY <1>1, <2>1 DEF IInv, TypeOK
<1>4. ASSUME NEW s \in Slots, s # x PROVE queue'.busy[s] = queue.busy[s]
  <2>1. queue'.status[s] = queue.status[s]
    BY <1>2, <1>4
  <2>2. queue'.busy[s] \in BOOLEAN /\ (queue'.status[s] \in {"idle", "committed"} <=> queue'.busy[s])
    BY <1>2, QueueTypes
  <2>3. queue.busy[s] \in BOOLEAN /\ (queue.status[s] \in {"idle", "committed"} <=> queue.busy[s])
    BY QueueTypes DEF IInv, TypeOK
  <2>4. QED
    BY <2>1, <2>2, <2>3
<1>5. QED
  BY <1>2, <1>3, <1>4

LEMMA StoreStep ==
  ASSUME IInv, StoreAudio
  PROVE  IInv' /\ (NoneStranded \/ Excused)
<1> DEFINE audio == tts_data(frame.i)
           text == queue.key[Current]
<1>1. /\ InResponse /\ frame' = [frame EXCEPT !.i = @ + 1]
      /\ UNCHANGED <<pool, active, voice, outstanding, changing>>
      /\ store' = IF frame.voice = voice THEN [store EXCEPT ![voice][text] = audio] ELSE store
  BY DEF StoreAudio
<1>2. /\ frame \in AnswerFrame /\ frame.at = "response" /\ Current \in Slots
      /\ queue.busy[Current] /\ text \in Texts /\ request[Current] \in Request
      /\ frame.i \in Nat
  BY <1>1, CurrentProperties
<1>3. audio \in Texts \cup {NoAudio, NoFile}
  BY <1>1, TtsData
<1> HIDE DEF audio, text
<1>4. store' \in [Voices -> [Texts -> Texts \cup {NoAudio, NoFile}]]
  <2>1. store \in [Voices -> [Texts -> Texts \cup {NoAudio, NoFile}]] /\ voice \in Voices
    BY DEF IInv, TypeOK
  <2>2. store[voice] \in [Texts -> Texts \cup {NoAudio, NoFile}]
    BY <2>1
  <2> DEFINE held == [store[voice] EXCEPT ![text] = audio]
  <2>3. held \in [Texts -> Texts \cup {NoAudio, NoFile}]
    BY <1>2, <1>3, <2>2
  <2>4. store' = store \/ store' = [store EXCEPT ![voice] = held]
    BY <1>1
  <2> HIDE DEF held
  <2>5. QED
    BY <2>1, <2>3, <2>4
<1>5. /\ frame' \in AnswerFrame /\ frame'.depth = frame.depth /\ frame'.ctx = frame.ctx
      /\ frame'.idx_list = frame.idx_list /\ frame'.synthesized = frame.synthesized
      /\ frame'.i = frame.i + 1
  BY <1>1, <1>2 DEF AnswerFrame
<1>6. CASE frame.apply_retry
  <2>1. /\ request' = [request EXCEPT ![Current].waiting = FALSE]
        /\ UNCHANGED <<queue, order>>
    BY <1>6 DEF StoreAudio
  <2>2. request' \in [Slots -> Request]
    <3> DEFINE r == [request[Current] EXCEPT !.waiting = FALSE]
    <3>1. r \in Request
      BY <1>2 DEF Request
    <3>2. request' = [request EXCEPT ![Current] = r]
      BY <2>1
    <3> HIDE DEF r
    <3>3. QED
      BY <1>2, <3>1, <3>2 DEF IInv, TypeOK
  <2>3. frame' \in Frame /\ SentHold' /\ Walking' /\ Posting' /\ Responding' /\ Counted' /\ RetryAwaits'
    BY <1>1, <1>5, <2>1, EntryStep
  <2>4. TypeOK' /\ ListOf(queue', order')
    BY <1>1, <1>4, <2>1, <2>2, <2>3 DEF IInv, TypeOK
  <2>5. Excused
    BY <1>2, <1>6 DEF Excused
  <2>6. QED
    BY <2>3, <2>4, <2>5 DEF IInv
<1>7. CASE ~ frame.apply_retry
  <2>1. Dequeue(Current)
    BY <1>7 DEF StoreAudio
  <2>2. /\ queue' \in Queue /\ order' \in Seq(Slots) /\ ListOf(queue', order')
        /\ request' \in [Slots -> Request]
        /\ \A s \in Slots : queue'.status[s] = IF s = Current THEN "undefined" ELSE queue.status[s]
        /\ \A s \in Slots : s # Current => queue'.busy[s] = queue.busy[s]
    BY <1>2, <2>1, DequeueStep
  <2>3. queue'.status[Current] # "committed"
        /\ \A s \in Slots : s # Current => queue'.status[s] = queue.status[s]
    BY <1>2, <2>2
  <2>4. /\ frame' \in Frame /\ SentHold' /\ Walking' /\ Posting' /\ Responding'
        /\ Counted' /\ RetryAwaits' /\ NoneStranded
    BY <1>1, <1>5, <2>2, <2>3, EntryStep
  <2>5. TypeOK'
    BY <1>1, <1>4, <2>2, <2>4 DEF IInv, TypeOK
  <2>6. QED
    BY <2>2, <2>4, <2>5 DEF IInv
<1>8. QED
  BY <1>6, <1>7

LEMMA FailStep ==
  ASSUME IInv, FailEntry
  PROVE  IInv' /\ NoneStranded
<1> DEFINE again == _apply_retry(Current)
<1>1. /\ InResponse /\ frame' = [frame EXCEPT !.i = @ + 1, !.apply_retry = again]
      /\ UNCHANGED <<pool, active, voice, store, outstanding, changing>>
  BY DEF FailEntry
<1>2. /\ frame \in AnswerFrame /\ frame.at = "response" /\ Current \in Slots
      /\ queue.busy[Current] /\ request[Current] \in Request /\ frame.i \in Nat
  BY <1>1, CurrentProperties
<1>3. again \in BOOLEAN
  BY <1>2 DEF _apply_retry, Request
<1>7. /\ frame' \in AnswerFrame /\ frame'.depth = frame.depth /\ frame'.ctx = frame.ctx
      /\ frame'.idx_list = frame.idx_list /\ frame'.synthesized = frame.synthesized
      /\ frame'.i = frame.i + 1
  <2> DEFINE next == frame.i + 1
  <2>1. next \in Nat /\ frame' = [frame EXCEPT !.i = next, !.apply_retry = again]
    BY <1>1, <1>2
  <2> HIDE DEF next, again
  <2>2. /\ frame' \in AnswerFrame /\ frame'.depth = frame.depth /\ frame'.ctx = frame.ctx
        /\ frame'.idx_list = frame.idx_list /\ frame'.synthesized = frame.synthesized
        /\ frame'.i = next
    BY <1>2, <1>3, <2>1 DEF AnswerFrame
  <2>3. QED
    BY <2>2 DEF next
<1>4. CASE again
  <2> DEFINE f == [queue.status EXCEPT ![Current] = "idle"]
             r == [request[Current] EXCEPT !.retry_index = @ + 1]
  <2>1. /\ request' = [request EXCEPT ![Current] = r]
        /\ queue' = [queue EXCEPT !.status = f] /\ UNCHANGED order
    BY <1>4 DEF FailEntry
  <2>2. r \in Request
    <3>1. request[Current].retry_index < RetryCount /\ request[Current].retry_index \in 0 .. RetryCount
      BY <1>2, <1>4 DEF _apply_retry, Request
    <3>2. request[Current].retry_index + 1 \in 0 .. RetryCount
      BY <3>1, Sizes
    <3>3. QED
      BY <1>2, <3>2 DEF Request
  <2>3. /\ f \in [Slots -> {"undefined", "idle", "committed"}]
        /\ \A s \in Slots : f[s] = IF s = Current THEN "idle" ELSE queue.status[s]
    BY <1>2 DEF IInv, TypeOK, Queue
  <2> HIDE DEF f, r, again
  <2>4. \A s \in Slots : IF queue.busy[s] THEN f[s] \in {"idle", "committed"}
                         ELSE f[s] = "undefined"
    <3>1. TAKE s \in Slots
    <3>2. /\ queue.status[s] \in {"undefined", "idle", "committed"}
          /\ queue.status[s] \in {"idle", "committed"} <=> queue.busy[s]
      BY QueueTypes DEF IInv, TypeOK
    <3>3. CASE s = Current
      BY <1>2, <2>3, <3>3
    <3>4. CASE s # Current
      BY <2>3, <3>2, <3>4
    <3>5. QED
      BY <3>3, <3>4
  <2>5. queue' \in Queue /\ queue'.status = f /\ queue'.busy = queue.busy /\ ListOf(queue', order')
    BY <2>1, <2>3, <2>4, StatusList DEF IInv, TypeOK
  <2>6. request' \in [Slots -> Request]
    BY <1>2, <2>1, <2>2 DEF IInv, TypeOK
  <2>8. /\ queue'.status[Current] # "committed"
        /\ \A s \in Slots : s # Current => queue'.status[s] = queue.status[s]
        /\ \A s \in Slots : s # Current => queue'.busy[s] = queue.busy[s]
    BY <1>2, <2>3, <2>5
  <2>9. /\ frame' \in Frame /\ SentHold' /\ Walking' /\ Posting' /\ Responding'
        /\ Counted' /\ RetryAwaits' /\ NoneStranded
    BY <1>1, <1>7, <2>8, EntryStep
  <2>10. TypeOK'
    BY <1>1, <2>1, <2>5, <2>6, <2>9 DEF IInv, TypeOK
  <2>11. QED
    BY <2>5, <2>9, <2>10 DEF IInv
<1>5. CASE ~ again
  <2>1. Dequeue(Current)
    BY <1>5 DEF FailEntry
  <2> HIDE DEF again
  <2>2. /\ queue' \in Queue /\ order' \in Seq(Slots) /\ ListOf(queue', order')
        /\ request' \in [Slots -> Request]
        /\ \A s \in Slots : queue'.status[s] = IF s = Current THEN "undefined" ELSE queue.status[s]
        /\ \A s \in Slots : s # Current => queue'.busy[s] = queue.busy[s]
    BY <1>2, <2>1, DequeueStep
  <2>3. queue'.status[Current] # "committed"
        /\ \A s \in Slots : s # Current => queue'.status[s] = queue.status[s]
    BY <1>2, <2>2
  <2>5. /\ frame' \in Frame /\ SentHold' /\ Walking' /\ Posting' /\ Responding'
        /\ Counted' /\ RetryAwaits' /\ NoneStranded
    BY <1>1, <1>7, <2>2, <2>3, EntryStep
  <2>6. TypeOK'
    BY <1>1, <2>2, <2>5 DEF IInv, TypeOK
  <2>7. QED
    BY <2>2, <2>5, <2>6 DEF IInv
<1>6. QED
  BY <1>4, <1>5

LEMMA ProcessedStep ==
  ASSUME IInv, ResponseProcessed
  PROVE  IInv' /\ NoneStranded
<1>1. /\ frame.at = "response" /\ frame.i > Len(frame.idx_list)
      /\ Commit(queue, active - 1, frame.depth)
      /\ UNCHANGED <<queue, request, pool, voice, store, outstanding, changing, order>>
  BY DEF ResponseProcessed
<1>2. frame \in AnswerFrame /\ frame.depth \in Nat /\ frame.i \in Nat /\ Len(frame.idx_list) \in Nat
  <2>1. frame \in AnswerFrame
    BY <1>1, FrameKinds DEF IInv, TypeOK
  <2>2. QED
    BY <2>1 DEF AnswerFrame
<1>3. /\ queue' \in Queue /\ order' \in Seq(Slots) /\ ListOf(queue', order')
      /\ Commit(queue', active - 1, frame.depth)
  BY <1>1 DEF IInv, TypeOK
<1>4. SentHold'
  BY <1>1 DEF SentHold, IInv
<1>5. active - 1 \in Int /\ (active - 1) + frame.depth <= Cardinality(outstanding')
  <2>1. /\ active + frame.depth <= Cardinality(outstanding) + 1 /\ active \in Int
        /\ Cardinality(outstanding) \in Nat
    BY <1>1, OutstandingCount DEF IInv, Counted, TypeOK
  <2>2. QED
    BY <1>1, <1>2, <2>1
<1>6. /\ active' \in Int /\ frame' \in Frame /\ frame'.at \in {"main", "walk"}
      /\ Walking' /\ Posting' /\ Responding' /\ Counted' /\ RetryAwaits'
  <2> DEFINE count == active - 1
  <2>1. count \in Int /\ count + frame.depth <= Cardinality(outstanding') /\ Commit(queue', count, frame.depth)
    BY <1>3, <1>5
  <2> HIDE DEF count
  <2>2. QED
    BY <1>2, <1>3, <1>4, <2>1, CommitStep
<1>7. TypeOK'
  BY <1>1, <1>6 DEF IInv, TypeOK
<1>8. NoneStranded
  <2>1. frame.i .. Len(frame.idx_list) = {}
    BY <1>1, <1>2
  <2>2. \A s : Flying(s, outstanding, frame) => Flying(s, outstanding', frame')
    BY <1>1, <2>1 DEF Flying
  <2>3. QED
    BY <1>1, <2>2 DEF NoneStranded
<1>9. QED
  BY <1>3, <1>4, <1>6, <1>7, <1>8 DEF IInv

(***************************************************************************)
(* The theorems.                                                           *)
(***************************************************************************)

LEMMA InitIInv == Init => IInv
<1> SUFFICES ASSUME Init PROVE IInv
  OBVIOUS
<1>1. /\ queue = EmptyQueue /\ request = [s \in Slots |-> NoRequest]
      /\ pool = {} /\ active = 0 /\ voice \in Voices
      /\ store = [v \in Voices |-> [t \in Texts |-> NoAudio]]
      /\ outstanding = {} /\ frame = MainLoop /\ changing = FALSE /\ order = <<>>
  BY DEF Init
<1>2. EmptyQueue \in Queue
  BY Sizes DEF EmptyQueue, Queue
<1>3. /\ queue.head = NoSlot /\ queue.tail = 0
      /\ \A s \in Slots : ~ queue.busy[s] /\ queue.next[s] = NoSlot /\ queue.status[s] = "undefined"
  BY <1>1 DEF EmptyQueue
<1>4. NoRequest \in Request
  BY Sizes DEF NoRequest, Request
<1>5. frame \in Frame /\ frame.at = "main"
  BY <1>1, KindsAreFrames
<1>6. order \in Seq(Slots) /\ Members(order) = {} /\ Injective(order)
  BY <1>1, EmptySeq DEF Members, Injective
<1>7. TypeOK
  <2>1. store \in [Voices -> [Texts -> Texts \cup {NoAudio, NoFile}]]
    BY <1>1
  <2>2. request \in [Slots -> Request] /\ queue \in Queue
    BY <1>1, <1>2, <1>4
  <2>3. /\ pool \subseteq Contexts /\ active \in Int /\ voice \in Voices
        /\ outstanding \subseteq ProviderRequest
    BY <1>1
  <2>4. changing \in BOOLEAN
    BY <1>1, Zenon
  <2>5. QED
    BY <1>5, <1>6, <2>1, <2>2, <2>3, <2>4 DEF TypeOK
<1>8. ListOf(queue, order)
  BY <1>1, <1>3, <1>6 DEF ListOf, Threads, Entries
<1>9. SentHold /\ Cardinality(outstanding) = 0
  BY <1>1, FS_EmptySet DEF SentHold
<1>10. Walking /\ Posting /\ Responding
  BY <1>5 DEF Walking, Posting, Responding
<1>11. Counted
  BY <1>1, <1>5, <1>9 DEF Counted
<1>12. RetryAwaits
  BY <1>3 DEF RetryAwaits
<1>13. QED
  BY <1>7, <1>8, <1>9, <1>10, <1>11, <1>12 DEF IInv

LEMMA StepIInv ==
  ASSUME IInv, [Next]_vars
  PROVE  IInv' /\ (Stranded' \subseteq Stranded \/ Excused \/ UNCHANGED vars)
<1>1. CASE UNCHANGED vars
  <2>1. IInv'
    BY <1>1 DEF vars, IInv, TypeOK, SentHold, Walking, Posting, Posted, Responding,
                Counted, RetryAwaits
  <2>2. QED
    BY <1>1, <2>1
<1>2. CASE Next
  <2>1. ASSUME NEW t \in Texts, NEW retry \in BOOLEAN, tts_request_ex(t, retry)
        PROVE  IInv' /\ NoneStranded
    BY <2>1, RequestStep
  <2>2. tts_commit => IInv' /\ NoneStranded
    BY CommitEntryStep
  <2>3. tts_queue_get_indexes => IInv' /\ NoneStranded
    BY WalkStep
  <2>4. CommitBatch => IInv' /\ NoneStranded
    BY BatchStep
  <2>5. RequestSent => IInv' /\ NoneStranded
    BY SentStep
  <2>6. RequestFails => IInv' /\ NoneStranded
    BY FailsStep
  <2>7. ASSUME NEW t \in Texts, NEW v \in Voices, tts_playlist_add(t, v)
        PROVE  IInv' /\ NoneStranded
    BY <2>7, PlaylistStep
  <2>8. \/ \E v \in Voices : tts_set_voice(v)
        \/ \E v \in Voices : _voice_updated(v)
        \/ tts_clear_cache
        \/ VoiceChangedReturns
        => IInv' /\ NoneStranded
    BY VoiceStep
  <2>9. ASSUME NEW r \in outstanding, _on_response(r)
        PROVE  IInv' /\ NoneStranded
    BY <2>9, ResponseStep
  <2>10. StoreAudio => IInv' /\ (NoneStranded \/ Excused)
    BY StoreStep
  <2>11. FailEntry => IInv' /\ NoneStranded
    BY FailStep
  <2>12. ResponseProcessed => IInv' /\ NoneStranded
    BY ProcessedStep
  <2>13. IInv' /\ (NoneStranded \/ Excused)
    BY <1>2, <2>1, <2>2, <2>3, <2>4, <2>5, <2>6, <2>7, <2>8, <2>9, <2>10, <2>11, <2>12
    DEF Next
  <2>14. QED
    BY <2>13, StrandedStep
<1>3. QED
  BY <1>1, <1>2

(* The entries of the queue, and the requests that hold them, are as the   *)
(* inductive invariant says, whatever is asked, sent, answered or changed. *)
THEOREM Invariance == Spec => []IInv
BY InitIInv, StepIInv, PTL DEF Spec

(* The slots of an injective list are as many as it is long.               *)
LEMMA CountMembers ==
  ASSUME NEW o \in Seq(Slots), Injective(o)
  PROVE  Cardinality(Members(o)) = Len(o)
<1> DEFINE n == Len(o)
           S == Members(o)
<1>1. n \in Nat /\ o \in [1 .. n -> S] /\ S = {o[k] : k \in 1 .. n}
      /\ \A j, k \in 1 .. n : o[j] = o[k] => j = k
  BY DEF Members, Injective
<1>2. o \in Bijection(1 .. n, S)
  BY <1>1 DEF Bijection, Injection, Surjection, IsInjective
<1> HIDE DEF S, n
<1>3. Cardinality(S) = n
  BY <1>1, <1>2, FS_CountingElements DEF ExistsBijection
<1>4. QED
  BY <1>3 DEF S, n

LEMMA ListIsQueue == IInv => QueueIsList
<1> SUFFICES ASSUME IInv PROVE QueueIsList
  OBVIOUS
<1>1. ListOf(queue, order) /\ order \in Seq(Slots) /\ queue \in Queue /\ TypeOK
  BY DEF IInv, TypeOK
<1>2. \A s1, s2 \in Slots :
        queue.busy[s1] /\ queue.busy[s2] /\ queue.key[s1] = queue.key[s2] => s1 = s2
  BY <1>1 DEF ListOf, Entries
<1>3. OneEntryPerText
  <2>1. SUFFICES ASSUME NEW t \in Texts PROVE Cardinality(Holding(t)) <= 1
    BY DEF OneEntryPerText
  <2>2. CASE Holding(t) = {}
    <3>1. Cardinality(Holding(t)) = 0
      BY <2>2, FS_EmptySet
    <3>2. QED
      BY <3>1
  <2>3. CASE Holding(t) # {}
    <3>1. PICK s : s \in Holding(t)
      BY <2>3
    <3>2. Holding(t) = {s}
      BY <1>2, <3>1 DEF Holding
    <3>3. Cardinality(Holding(t)) = 1
      BY <3>2, FS_Singleton
    <3>4. QED
      BY <3>3
  <2>4. QED
    BY <2>2, <2>3
<1>4. {s \in Slots : queue.busy[s]} = Members(order)
  <2>1. Members(order) \subseteq Slots
    BY <1>1 DEF Members
  <2>2. QED
    BY <1>1, <2>1 DEF ListOf
<1>5. Cardinality(Members(order)) = Len(order)
  BY <1>1, CountMembers DEF ListOf
<1>6. Threads(queue, order)
  BY <1>1 DEF ListOf
<1>7. QED
  BY <1>1, <1>3, <1>4, <1>5, <1>6 DEF QueueIsList, Threads

(* QueueIsList: the links of tts_queue.c thread the occupied slots in the  *)
(* order of their arrival, and no text has two entries.                    *)
THEOREM QueueIsThreaded == Spec => []QueueIsList
BY Invariance, ListIsQueue, PTL

LEMMA HeldRequests == IInv => RequestsHold
<1> SUFFICES ASSUME IInv PROVE RequestsHold
  OBVIOUS
<1>1. ActiveIsBacked
  BY DEF IInv, Counted, ActiveIsBacked, MainLoop
<1>2. queue \in Queue /\ ListOf(queue, order)
  BY DEF IInv, TypeOK
<1>3. \A s \in Slots : queue.status[s] = "committed" => queue.busy[s]
  BY <1>2, QueueTypes
<1> DEFINE posted == IF frame.at = "request_cb" THEN {Members(frame.idx_list)}
                     ELSE IF frame.at = "response"
                     THEN {{frame.idx_list[k] : k \in frame.i .. Len(frame.idx_list)}} ELSE {}
           sent == {Members(r.idx_list) : r \in outstanding}
<1>4. InFlight = sent \cup posted
  BY DEF InFlight
<1>5. ASSUME NEW e \in sent
      PROVE  \A s \in e : s \in Slots /\ queue.status[s] = "committed"
  <2>1. PICK r \in outstanding : e = Members(r.idx_list)
    BY <1>5
  <2>2. Holds(r, queue, pool) /\ Members(r.idx_list) \subseteq Slots
    BY RequestMembers DEF IInv, TypeOK, SentHold
  <2>3. QED
    BY <2>1, <2>2 DEF Holds
<1>6. ASSUME NEW e \in posted
      PROVE  /\ \A s \in e : s \in Slots /\ queue.status[s] = "committed"
             /\ \A r \in outstanding : \A s \in e : s \notin Members(r.idx_list)
             /\ \A other \in posted : other = e
  <2>1. CASE frame.at = "request_cb"
    <3>1. e = Members(frame.idx_list) /\ posted = {e}
      BY <1>6, <2>1
    <3>2. /\ Posted \in ProviderRequest /\ Posted.idx_list = frame.idx_list
          /\ Holds(Posted, queue, pool) /\ \A r \in outstanding : Apart(Posted, r)
      BY <2>1, PostedProperties
    <3>3. Members(frame.idx_list) \subseteq Slots
      BY <3>2, RequestMembers
    <3>4. QED
      BY <3>1, <3>2, <3>3 DEF Holds, Apart
  <2>2. CASE frame.at = "response"
    <3>1. e = {frame.idx_list[k] : k \in frame.i .. Len(frame.idx_list)} /\ posted = {e}
      BY <1>6, <2>2
    <3>2. frame \in AnswerFrame
      BY <2>2, FrameKinds DEF IInv, TypeOK
    <3>3. /\ \A k \in frame.i .. Len(frame.idx_list) : queue.status[frame.idx_list[k]] = "committed"
          /\ \A r \in outstanding : \A k \in frame.i .. Len(frame.idx_list) :
               frame.idx_list[k] \notin Members(r.idx_list)
          /\ frame.i >= 1
      BY <2>2 DEF IInv, Responding
    <3>4. \A k \in frame.i .. Len(frame.idx_list) : frame.idx_list[k] \in Slots
      <4>1. frame.i \in Nat /\ Len(frame.idx_list) \in Nat /\ frame.idx_list \in Seq(Slots)
        BY <3>2 DEF AnswerFrame
      <4>2. \A k \in frame.i .. Len(frame.idx_list) : k \in 1 .. Len(frame.idx_list)
        BY <3>3, <4>1
      <4>3. QED
        BY <4>1, <4>2
    <3>5. QED
      BY <3>1, <3>3, <3>4
  <2>3. CASE frame.at # "request_cb" /\ frame.at # "response"
    BY <1>6, <2>3
  <2>4. QED
    BY <2>1, <2>2, <2>3
<1>7. \A e \in InFlight : \A s \in e : queue.busy[s] /\ queue.status[s] = "committed"
  BY <1>3, <1>4, <1>5, <1>6
<1>8. ASSUME NEW e1 \in InFlight, NEW e2 \in InFlight, e1 # e2
      PROVE  e1 \cap e2 = {}
  <2>1. CASE e1 \in sent /\ e2 \in sent
    <3>1. PICK r1 \in outstanding : e1 = Members(r1.idx_list)
      BY <2>1
    <3>2. PICK r2 \in outstanding : e2 = Members(r2.idx_list)
      BY <2>1
    <3>3. Apart(r1, r2)
      BY <1>8, <3>1, <3>2 DEF IInv, SentHold
    <3>4. QED
      BY <3>1, <3>2, <3>3 DEF Apart
  <2>2. CASE e1 \in posted /\ e2 \in sent
    <3>1. PICK r2 \in outstanding : e2 = Members(r2.idx_list)
      BY <2>2
    <3> HIDE DEF posted, sent
    <3>2. QED
      BY <1>6, <2>2, <3>1
  <2>3. CASE e1 \in sent /\ e2 \in posted
    <3>1. PICK r1 \in outstanding : e1 = Members(r1.idx_list)
      BY <2>3
    <3> HIDE DEF posted, sent
    <3>2. QED
      BY <1>6, <2>3, <3>1
  <2>4. CASE e1 \in posted /\ e2 \in posted
    <3> HIDE DEF posted, sent
    <3>1. QED
      BY <1>6, <1>8, <2>4
  <2> HIDE DEF posted, sent
  <2>5. QED
    BY <1>4, <1>8, <2>1, <2>2, <2>3, <2>4
<1>9. \A r1, r2 \in outstanding : r1.ctx = r2.ctx => r1 = r2
  BY DEF IInv, SentHold, Apart
<1>10. QED
  BY <1>1, <1>7, <1>8, <1>9 DEF RequestsHold

(* RequestsHold: the entries of a provider request stay occupied and       *)
(* committed until its own answer, and are in no other request; the count  *)
(* of the requests never exceeds those that are out.                       *)
THEOREM RequestsAreHeld == Spec => []RequestsHold
BY Invariance, HeldRequests, PTL

(* RetryIsServed: while a failed entry waits for its retry an answer is    *)
(* still to come, or the contexts have run dry.                            *)
THEOREM RetriesAreServed == Spec => []RetryIsServed
<1>1. IInv => RetryIsServed
  BY KindsAreFrames DEF IInv, RetryAwaits, RetryIsServed
<1>2. QED
  BY <1>1, Invariance, PTL

(* OnlyAfterRetryStranded: an entry is left committed with no answer to    *)
(* come only by an answer that had another of its texts retried.           *)
THEOREM StrandedAfterRetry == Spec => OnlyAfterRetryStranded
<1>1. IInv /\ [Next]_vars
        => [Stranded' \subseteq Stranded \/ (frame.at = "response" /\ frame.apply_retry)]_vars
  BY StepIInv DEF Excused
<1>2. QED
  BY <1>1, Invariance, PTL DEF Spec, OnlyAfterRetryStranded
============================================================================
