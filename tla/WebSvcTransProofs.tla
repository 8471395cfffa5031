------------------------- MODULE WebSvcTransProofs -------------------------
(***************************************************************************)
(* Proofs about WebSvcTrans, for any requests, types, queue length and     *)
(* number of retries.  The invariant is stated on the record of a session, *)
(* and one lemma per operator says what the operator keeps of it; the      *)
(* operators call each other as the C functions do, and so do the lemmas.  *)
(***************************************************************************)
EXTENDS WebSvcTransRefines, SequenceTheorems, TLAPS

(***************************************************************************)
(* The invariant, in named parts.                                          *)
(***************************************************************************)

IdsDistinct(q) ==
  \A i, j \in 1 .. Len(q) : q[i].id = q[j].id => i = j

TypesDistinct(q) ==
  \A i, j \in 1 .. Len(q) : q[i].type = q[j].type /\ q[i].type # NoType => i = j

Called(w)  == {i \in Ids : w.calls[i] > 0}
Located(w) == IdsOf(w.queue) \cup Current(w) \cup w.silenced \cup Called(w)

Typed(w) == w \in Session /\ Len(w.queue) <= MaxQueue

(* Every request is in one place.                                          *)
Unique(w) ==
  /\ Current(w) \cap IdsOf(w.queue) = {}
  /\ (Current(w) \cup IdsOf(w.queue)) \cap (w.silenced \cup Called(w)) = {}
  /\ Called(w) \cap w.silenced = {}
  /\ \A i \in Ids : w.calls[i] <= 1
  /\ IdsDistinct(w.queue)
  /\ TypesDistinct(w.queue)

HasWork(w) ==
  /\ w.connecting \/ w.socket <=> Running(w)
  /\ ~(w.connecting /\ w.socket)
  /\ w.receiving = w.socket
  /\ Running(w) <=> w.item # NoItem

NoParser(w) == \A i \in 1 .. Len(w.stack) : w.stack[i].call # "parser"

(* A parser that still sees its transaction works for the right one; none  *)
(* is left when the session has been given back.                           *)
Framed(w) ==
  /\ \A i \in 1 .. Len(w.stack) :
       w.stack[i].call = "parser" /\ ~Canceled(w) => Current(w) = {w.stack[i].id}
  /\ w.deleting => w.state \in {"stopping", "freed"}
  /\ w.deleting \/ w.state = "freed" => NoParser(w)

SessionInv(w) == Typed(w) /\ Unique(w) /\ HasWork(w) /\ Framed(w)

IInv == SessionInv(ws) /\ Located(ws) = ws.accepted

(***************************************************************************)
(* Sequences.                                                              *)
(***************************************************************************)

LEMMA AppendIds ==
  ASSUME NEW q \in Seq(Item), NEW r \in Item
  PROVE  /\ Append(q, r) \in Seq(Item)
         /\ Len(Append(q, r)) = Len(q) + 1
         /\ IdsOf(Append(q, r)) = IdsOf(q) \cup {r.id}
<1>1. /\ Append(q, r) \in Seq(Item)
      /\ Len(Append(q, r)) = Len(q) + 1
      /\ \A i \in 1 .. Len(q) : Append(q, r)[i] = q[i]
      /\ Append(q, r)[Len(q) + 1] = r
  OBVIOUS
<1>2. Len(q) \in Nat
  OBVIOUS
<1> DEFINE a == Append(q, r)
<1> HIDE DEF a
<1>3. /\ Len(a) = Len(q) + 1
      /\ \A i \in 1 .. Len(q) : a[i] = q[i]
      /\ a[Len(q) + 1] = r
  BY <1>1 DEF a
<1>4. IdsOf(a) \subseteq IdsOf(q) \cup {r.id}
  <2>1. SUFFICES ASSUME NEW i \in 1 .. Len(a)
                 PROVE  a[i].id \in IdsOf(q) \cup {r.id}
    BY DEF IdsOf
  <2>2. i \in 1 .. Len(q) \/ i = Len(q) + 1
    BY <1>2, <1>3
  <2>3. QED
    BY <1>3, <2>2 DEF IdsOf
<1>5. IdsOf(q) \subseteq IdsOf(a)
  <2>1. SUFFICES ASSUME NEW i \in 1 .. Len(q)
                 PROVE  q[i].id \in IdsOf(a)
    BY DEF IdsOf
  <2>2. i \in 1 .. Len(a) /\ a[i] = q[i]
    BY <1>2, <1>3
  <2>3. QED
    BY <2>2 DEF IdsOf
<1>6. r.id \in IdsOf(a)
  <2>1. Len(q) + 1 \in 1 .. Len(a) /\ a[Len(q) + 1] = r
    BY <1>2, <1>3
  <2>2. QED
    BY <2>1 DEF IdsOf
<1>7. QED
  BY <1>1, <1>4, <1>5, <1>6 DEF a

LEMMA AppendDistinct ==
  ASSUME NEW q \in Seq(Item), NEW r \in Item, IdsDistinct(q), TypesDistinct(q),
         r.id \notin IdsOf(q),
         r.type # NoType => \A i \in 1 .. Len(q) : q[i].type # r.type
  PROVE  IdsDistinct(Append(q, r)) /\ TypesDistinct(Append(q, r))
<1>1. /\ Len(Append(q, r)) = Len(q) + 1
      /\ \A i \in 1 .. Len(q) : Append(q, r)[i] = q[i]
      /\ Append(q, r)[Len(q) + 1] = r
      /\ Len(q) \in Nat
  OBVIOUS
<1> DEFINE a == Append(q, r)
<1> HIDE DEF a
<1>2. /\ Len(a) = Len(q) + 1
      /\ \A i \in 1 .. Len(q) : a[i] = q[i]
      /\ a[Len(q) + 1] = r
      /\ Len(q) \in Nat
  BY <1>1 DEF a
<1>3. \A i \in 1 .. Len(a) : i \in 1 .. Len(q) \/ i = Len(q) + 1
  BY <1>2
<1>4. \A i \in 1 .. Len(q) : q[i].id # r.id
  BY DEF IdsOf
<1>5. IdsDistinct(a)
  BY <1>2, <1>3, <1>4 DEF IdsDistinct
<1>6. TypesDistinct(a)
  BY <1>2, <1>3 DEF TypesDistinct
<1>7. QED
  BY <1>5, <1>6 DEF a

(* What is left of a queue without its first item.                         *)
LEMMA TailIds ==
  ASSUME NEW q \in Seq(Item), q # <<>>, IdsDistinct(q), TypesDistinct(q)
  PROVE  /\ Head(q) \in Item
         /\ Tail(q) \in Seq(Item)
         /\ Len(Tail(q)) = Len(q) - 1
         /\ Len(q) \in Nat \ {0}
         /\ IdsOf(q) = IdsOf(Tail(q)) \cup {Head(q).id}
         /\ Head(q).id \notin IdsOf(Tail(q))
         /\ IdsDistinct(Tail(q)) /\ TypesDistinct(Tail(q))
<1>1. /\ Head(q) = q[1] /\ Head(q) \in Item
      /\ Tail(q) \in Seq(Item)
      /\ Len(Tail(q)) = Len(q) - 1
      /\ Len(q) \in Nat \ {0}
      /\ \A i \in 1 .. Len(q) - 1 : Tail(q)[i] = q[i + 1]
  BY HeadTailProperties, EmptySeq, ElementOfSeq
<1> DEFINE z == Tail(q)
<1> HIDE DEF z
<1>2. /\ Len(z) = Len(q) - 1
      /\ Len(q) \in Nat \ {0}
      /\ \A i \in 1 .. Len(z) : z[i] = q[i + 1] /\ i + 1 \in 2 .. Len(q)
  BY <1>1 DEF z
<1>3. \A i \in 2 .. Len(q) : i - 1 \in 1 .. Len(z) /\ z[i - 1] = q[i]
  BY <1>2
<1>4. 1 \in 1 .. Len(q)
  BY <1>2
<1>5. IdsOf(z) \subseteq IdsOf(q)
  <2>1. \A i \in 1 .. Len(z) : i + 1 \in 1 .. Len(q) /\ z[i].id = q[i + 1].id
    BY <1>2
  <2>2. QED
    BY <2>1 DEF IdsOf
<1>6. q[1].id \in IdsOf(q)
  BY <1>4 DEF IdsOf
<1>7. IdsOf(q) \subseteq IdsOf(z) \cup {q[1].id}
  <2>1. SUFFICES ASSUME NEW i \in 1 .. Len(q), i # 1
                 PROVE  q[i].id \in IdsOf(z)
    BY DEF IdsOf
  <2>2. i \in 2 .. Len(q)
    BY <1>2, <2>1
  <2>3. QED
    BY <1>3, <2>2 DEF IdsOf
<1>8. q[1].id \notin IdsOf(z)
  <2>1. \A i \in 1 .. Len(z) : z[i].id # q[1].id
    BY <1>2, <1>4 DEF IdsDistinct
  <2>2. QED
    BY <2>1 DEF IdsOf
<1>9. IdsDistinct(z) /\ TypesDistinct(z)
  <2>1. \A i, j \in 1 .. Len(z) : i + 1 = j + 1 => i = j
    OBVIOUS
  <2>2. \A i \in 1 .. Len(z) : z[i] = q[i + 1] /\ i + 1 \in 1 .. Len(q)
    BY <1>2
  <2>3. IdsDistinct(z)
    BY <2>1, <2>2 DEF IdsDistinct
  <2>4. TypesDistinct(z)
    BY <2>1, <2>2 DEF TypesDistinct
  <2>5. QED
    BY <2>3, <2>4
<1>10. QED
  BY <1>1, <1>5, <1>6, <1>7, <1>8, <1>9 DEF z

(* wstq_remove_type takes the request of the type out, and only that.      *)
LEMMA WithoutTypeProperties ==
  ASSUME NEW q \in Seq(Item), NEW t \in Types, IdsDistinct(q), TypesDistinct(q)
  PROVE  LET z == WithoutType(q, t)
         IN  /\ z \in Seq(Item)
             /\ Len(z) <= Len(q)
             /\ IdsOf(z) \subseteq IdsOf(q)
             /\ IdsDistinct(z) /\ TypesDistinct(z)
             /\ \A i \in 1 .. Len(z) : z[i].type # t
<1> DEFINE k == CHOOSE j \in 1 .. Len(q) : q[j].type = t
           a == SubSeq(q, 1, k - 1)
           b == SubSeq(q, k + 1, Len(q))
           z == WithoutType(q, t)
<1>1. Len(q) \in Nat /\ \A i \in 1 .. Len(q) : q[i] \in Item
  BY LenProperties, ElementOfSeq
<1>2. CASE ~\E i \in 1 .. Len(q) : q[i].type = t
  <2>1. z = q
    BY <1>2 DEF WithoutType
  <2>2. QED
    BY <1>1, <1>2, <2>1
<1>3. CASE \E i \in 1 .. Len(q) : q[i].type = t
  <2>1. k \in 1 .. Len(q) /\ q[k].type = t
    BY <1>3
  <2>2. z = a \o b
    BY <1>3 DEF WithoutType
  <2> HIDE DEF k, z
  <2>3. /\ a \in Seq(Item)
        /\ Len(a) = k - 1
        /\ \A i \in 1 .. k - 1 : a[i] = q[i]
    <3>1. \A i \in 1 .. k - 1 : q[i] \in Item
      BY <1>1, <2>1
    <3>2. QED
      BY <1>1, <2>1, <3>1, SubSeqProperties
  <2>4. /\ b \in Seq(Item)
        /\ Len(b) = Len(q) - k
        /\ \A i \in 1 .. Len(q) - k : b[i] = q[k + i]
    <3>1. \A i \in k + 1 .. Len(q) : q[i] \in Item
      BY <1>1, <2>1
    <3>2. QED
      BY <1>1, <2>1, <3>1, SubSeqProperties
  <2> HIDE DEF a, b
  <2>5. /\ a \o b \in Seq(Item)
        /\ Len(a \o b) = Len(a) + Len(b)
        /\ \A i \in 1 .. Len(a) + Len(b) :
             (a \o b)[i] = IF i <= Len(a) THEN a[i] ELSE b[i - Len(a)]
    BY <2>3, <2>4, ConcatProperties
  <2>6. z \in Seq(Item) /\ Len(z) = Len(q) - 1
    BY <1>1, <2>1, <2>2, <2>3, <2>4, <2>5
  <2> DEFINE from(i) == IF i < k THEN i ELSE i + 1
  <2>7. \A i \in 1 .. Len(z) : z[i] = q[from(i)] /\ from(i) \in 1 .. Len(q) /\ from(i) # k
    <3>1. TAKE i \in 1 .. Len(z)
    <3>2. CASE i < k
      BY <3>2, <1>1, <2>1, <2>2, <2>3, <2>4, <2>5, <2>6
    <3>3. CASE i >= k
      <4>1. i - (k - 1) \in 1 .. Len(q) - k /\ k + (i - (k - 1)) = i + 1
        BY <3>3, <1>1, <2>1, <2>6
      <4>2. b[i - (k - 1)] = q[i + 1]
        BY <4>1, <2>4
      <4>3. z[i] = b[i - (k - 1)]
        BY <3>3, <1>1, <2>1, <2>2, <2>3, <2>4, <2>5, <2>6
      <4>4. QED
        BY <3>3, <4>2, <4>3, <1>1, <2>1, <2>6
    <3>4. QED
      BY <3>2, <3>3, <1>1, <2>1
  <2>8. \A i, j \in 1 .. Len(z) : from(i) = from(j) => i = j
    <3>1. \A i, j \in Nat : from(i) = from(j) => i = j
      BY <2>1, <1>1
    <3>2. QED
      BY <3>1, <2>6
  <2> HIDE DEF from
  <2>9. IdsOf(z) \subseteq IdsOf(q)
    BY <2>7 DEF IdsOf
  <2>10. IdsDistinct(z)
    BY <2>7, <2>8 DEF IdsDistinct
  <2>11. TypesDistinct(z)
    BY <2>7, <2>8 DEF TypesDistinct
  <2>12. \A i \in 1 .. Len(z) : z[i].type # t
    <3>1. t # NoType
      BY WebSvcTransAssumption
    <3>2. \A i \in 1 .. Len(q) : q[i].type = t => i = k
      BY <2>1, <3>1 DEF TypesDistinct
    <3>3. QED
      BY <2>7, <3>2
  <2>13. QED
    <3>1. Len(z) <= Len(q)
      BY <1>1, <2>6
    <3>2. QED
      BY <2>6, <2>9, <2>10, <2>11, <2>12, <3>1 DEF z
<1>4. QED
  BY <1>2, <1>3

(***************************************************************************)
(* The end of a transaction.                                               *)
(***************************************************************************)

(* Fields that a callback, or the lack of one, does not change.            *)
SameSession(v, w) ==
  /\ v.state = w.state /\ v.queue = w.queue /\ v.item = w.item
  /\ v.notify = w.notify /\ v.connecting = w.connecting /\ v.socket = w.socket
  /\ v.receiving = w.receiving /\ v.retries = w.retries /\ v.parser = w.parser
  /\ v.buffered = w.buffered /\ v.deleting = w.deleting /\ v.accepted = w.accepted

LEMMA ReportProperties ==
  ASSUME NEW w, Typed(w), Unique(w), NEW id \in Ids, id \notin Located(w),
         NEW wanted \in BOOLEAN, NEW ok \in BOOLEAN, NEW parsed \in BOOLEAN
  PROVE  LET v == Report(w, id, wanted, ok, parsed)
         IN  /\ Typed(v) /\ Unique(v) /\ SameSession(v, w)
             /\ Located(v) = Located(w) \cup {id}
             /\ \A i \in 1 .. Len(v.stack) : v.stack[i].call = "parser" =>
                  i \in 1 .. Len(w.stack) /\ v.stack[i] = w.stack[i]
<1> DEFINE f == [call |-> "callback", id |-> id, ok |-> ok, parsed |-> parsed]
           c == [w.calls EXCEPT ![id] = @ + 1]
           v == Report(w, id, wanted, ok, parsed)
<1>1. w \in Session /\ w.calls \in [Ids -> Nat] /\ w.silenced \in SUBSET Ids
  BY DEF Typed, Session
<1>2. CASE wanted
  <2>1. v = [w EXCEPT !.calls = c, !.stack = Append(w.stack, f)]
    BY <1>1, <1>2 DEF Report, Session
  <2>2. f \in CallbackFrame
    BY DEF CallbackFrame
  <2>3. /\ Append(w.stack, f) \in Seq(ParserFrame \cup CallbackFrame)
        /\ Len(Append(w.stack, f)) = Len(w.stack) + 1
        /\ \A i \in 1 .. Len(w.stack) : Append(w.stack, f)[i] = w.stack[i]
        /\ Append(w.stack, f)[Len(w.stack) + 1].call = "callback"
        /\ Len(w.stack) \in Nat
    BY <1>1, <2>2 DEF Session
  <2>4. c \in [Ids -> Nat] /\ \A i \in Ids : c[i] = IF i = id THEN w.calls[i] + 1 ELSE w.calls[i]
    BY <1>1
  <2>5. w.calls[id] = 0 /\ id \notin w.silenced
    BY <1>1 DEF Located, Called
  <2> HIDE DEF f, c
  <2>6. /\ v \in Session /\ v.calls = c /\ v.stack = Append(w.stack, f)
        /\ v.silenced = w.silenced /\ SameSession(v, w)
    BY <1>1, <2>1, <2>3, <2>4 DEF Session, SameSession
  <2> HIDE DEF v
  <2>7. Called(v) = Called(w) \cup {id}
    BY <1>1, <2>4, <2>5, <2>6 DEF Called
  <2>8. Current(v) = Current(w) /\ v.queue = w.queue
    BY <2>6 DEF Current, SameSession
  <2>9. Located(v) = Located(w) \cup {id}
    BY <2>6, <2>7, <2>8 DEF Located
  <2>10. Unique(v)
    BY <2>4, <2>5, <2>6, <2>7, <2>8 DEF Unique, Located
  <2>11. \A i \in 1 .. Len(v.stack) : v.stack[i].call = "parser" =>
           i \in 1 .. Len(w.stack) /\ v.stack[i] = w.stack[i]
    <3>1. TAKE i \in 1 .. Len(v.stack)
    <3>2. i \in 1 .. Len(w.stack) \/ i = Len(w.stack) + 1
      BY <2>3, <2>6
    <3>3. QED
      BY <2>3, <2>6, <3>2
  <2>12. QED
    BY <2>6, <2>8, <2>9, <2>10, <2>11 DEF Typed, v
<1>3. CASE ~wanted
  <2>1. v = [w EXCEPT !.silenced = w.silenced \cup {id}]
    BY <1>1, <1>3 DEF Report, Session
  <2>2. /\ v \in Session /\ v.silenced = w.silenced \cup {id}
        /\ v.calls = w.calls /\ v.stack = w.stack /\ SameSession(v, w)
    BY <1>1, <2>1 DEF Session, SameSession
  <2> HIDE DEF v
  <2>3. Current(v) = Current(w) /\ v.queue = w.queue /\ Called(v) = Called(w)
    BY <2>2 DEF Current, SameSession, Called
  <2>4. Located(v) = Located(w) \cup {id}
    BY <2>2, <2>3 DEF Located
  <2>5. Unique(v)
    BY <2>2, <2>3 DEF Unique, Located
  <2>6. QED
    BY <2>2, <2>3, <2>4, <2>5 DEF Typed, v
<1>4. QED
  BY <1>2, <1>3

LEMMA FreeProperties ==
  ASSUME NEW w, Typed(w), Unique(w), w.state # "freed",
         ~w.connecting, NoParser(w),
         NEW v, v = wst_context_free(w)
  PROVE  /\ SessionInv(v) /\ ~Running(v)
         /\ Located(v) = Located(w) /\ v.accepted = w.accepted
<1> DEFINE gone == w.silenced \cup IdsOf(w.queue) \cup Current(w)
<1>1. w \in Session
  BY DEF Typed
<1>2. IdsOf(w.queue) \subseteq Ids /\ Current(w) \subseteq Ids
  <2>1. \A i \in 1 .. Len(w.queue) : w.queue[i] \in Item
    BY <1>1, LenProperties, ElementOfSeq DEF Session
  <2>2. w.item # NoItem => w.item \in Item
    BY <1>1 DEF Session
  <2>3. QED
    BY <2>1, <2>2 DEF IdsOf, Current, Item
<1>3. gone \in SUBSET Ids
  BY <1>1, <1>2 DEF Session
<1> HIDE DEF gone
<1>4. v = [w EXCEPT !.state = "freed", !.socket = FALSE, !.receiving = FALSE,
                    !.queue = <<>>, !.item = NoItem, !.silenced = gone]
  BY <1>1 DEF wst_context_free, gone, Session
<1>5. /\ v \in Session /\ v.state = "freed" /\ v.socket = FALSE /\ v.receiving = FALSE
      /\ v.connecting = FALSE /\ v.queue = <<>> /\ v.item = NoItem /\ v.silenced = gone
      /\ v.calls = w.calls /\ v.accepted = w.accepted /\ v.stack = w.stack
  <2>1. <<>> \in Seq(Item)
    BY EmptySeq
  <2>2. QED
    BY <1>1, <1>3, <1>4, <2>1 DEF Session
<1>6. IdsOf(v.queue) = {} /\ Current(v) = {} /\ Called(v) = Called(w)
  BY <1>5 DEF IdsOf, Current, Called
<1>7. Typed(v)
  BY <1>5, WebSvcTransAssumption DEF Typed
<1>8. Unique(v)
  <2>1. Called(w) \cap gone = {}
    BY DEF Unique, gone
  <2>2. IdsDistinct(v.queue) /\ TypesDistinct(v.queue)
    BY <1>5 DEF IdsDistinct, TypesDistinct
  <2>3. QED
    BY <1>5, <1>6, <2>1, <2>2 DEF Unique
<1>9. HasWork(v) /\ ~Running(v)
  BY <1>5 DEF HasWork, Running
<1>10. Framed(v)
  BY <1>5 DEF Framed, NoParser
<1>11. Located(v) = Located(w)
  BY <1>5, <1>6 DEF Located, gone
<1>12. QED
  BY <1>5, <1>7, <1>8, <1>9, <1>10, <1>11 DEF SessionInv

(* Every way in which a transaction ends.                                  *)
LEMMA CompletedProperties ==
  ASSUME NEW w, Typed(w), Unique(w), Running(w), w.item \in Item,
         w.deleting => ~w.connecting /\ NoParser(w),
         NEW res, NEW late \in BOOLEAN,
         NEW v \in wst_transaction_completed(w, res, late)
  PROVE  /\ SessionInv(v)
         /\ Located(v) = Located(w) /\ v.accepted = w.accepted
         /\ res # "timed_out" => ~Running(v)
         /\ ~w.deleting => v.queue = w.queue /\ ~v.deleting /\ v.state # "freed"
<1> DEFINE parsed == w.parser = "parse_completed"
           b == wst_context_reset(Closed(w), FALSE)
           done(ok) == Report(b, w.item.id, w.notify, ok, parsed)
<1>1. w \in Session /\ w.item.id \in Ids /\ w.item # NoItem
  BY WebSvcTransAssumption DEF Typed, Item
<1>2. CASE w.deleting
  <2>1. v = wst_context_free(w)
    BY <1>2 DEF wst_transaction_completed
  <2>2. w.state # "freed"
    BY DEF Running
  <2>3. QED
    BY <1>2, <2>1, <2>2, FreeProperties
<1>3. b = [w EXCEPT !.connecting = FALSE, !.socket = FALSE, !.receiving = FALSE,
                    !.state = "idle", !.retries = 0, !.parser = "not_parsed",
                    !.buffered = FALSE, !.item = NoItem]
  BY <1>1 DEF wst_context_reset, Closed, FirstState, Session
<1> HIDE DEF b
<1>4. /\ b \in Session /\ b.state = "idle" /\ b.connecting = FALSE /\ b.socket = FALSE
      /\ b.receiving = FALSE /\ b.parser = "not_parsed" /\ b.item = NoItem
      /\ b.queue = w.queue /\ b.calls = w.calls /\ b.silenced = w.silenced
      /\ b.accepted = w.accepted /\ b.stack = w.stack /\ b.deleting = w.deleting
  <2>1. 0 \in 0 .. MaxRetries
    BY WebSvcTransAssumption
  <2>2. QED
    BY <1>1, <1>3, <2>1 DEF Session
<1>5. Current(b) = {} /\ Called(b) = Called(w) /\ Current(w) = {w.item.id}
  BY <1>1, <1>4 DEF Current, Called
<1>6. Typed(b) /\ Unique(b) /\ w.item.id \notin Located(b)
  BY <1>4, <1>5 DEF Typed, Unique, Located
<1>7. ~w.deleting => \A ok \in BOOLEAN :
        /\ SessionInv(done(ok)) /\ ~Running(done(ok))
        /\ Located(done(ok)) = Located(w) /\ done(ok).accepted = w.accepted
        /\ done(ok).queue = w.queue /\ ~done(ok).deleting /\ done(ok).state # "freed"
  <2>1. SUFFICES ASSUME ~w.deleting, NEW ok \in BOOLEAN, NEW d, d = done(ok)
                 PROVE  /\ SessionInv(d) /\ ~Running(d)
                        /\ Located(d) = Located(w) /\ d.accepted = w.accepted
                        /\ d.queue = w.queue /\ ~d.deleting /\ d.state # "freed"
    OBVIOUS
  <2>2. w.notify \in BOOLEAN /\ parsed \in BOOLEAN
    BY <1>1 DEF Session
  <2> HIDE DEF parsed
  <2>3. /\ Typed(d) /\ Unique(d) /\ SameSession(d, b)
        /\ Located(d) = Located(b) \cup {w.item.id}
    BY <1>1, <1>6, <2>1, <2>2, ReportProperties
  <2>4. /\ d.state = "idle" /\ d.connecting = FALSE /\ d.socket = FALSE
        /\ d.receiving = FALSE /\ d.parser = "not_parsed" /\ d.item = NoItem
        /\ d.queue = w.queue /\ d.accepted = w.accepted /\ d.deleting = FALSE
    <3>1. w.deleting = FALSE
      BY <1>1, <2>1 DEF Session
    <3>2. QED
      BY <1>4, <2>3, <3>1 DEF SameSession
  <2>5. HasWork(d) /\ ~Running(d)
    BY <2>4 DEF HasWork, Running
  <2>6. Framed(d)
    BY <2>4 DEF Framed, Canceled
  <2>7. Located(d) = Located(w)
    BY <1>4, <1>5, <2>3 DEF Located
  <2>8. QED
    BY <2>3, <2>4, <2>5, <2>6, <2>7 DEF SessionInv
<1>8. CASE ~w.deleting /\ v = Retried(Closed(w)) /\ MayRetry(w, res, late)
  <2>1. v = [w EXCEPT !.connecting = TRUE, !.socket = FALSE, !.receiving = FALSE,
                      !.state = "active", !.retries = w.retries + 1,
                      !.parser = FirstState(w.item.v2)]
    BY <1>1, <1>8 DEF Retried, Closed, Session
  <2>2. w.retries + 1 \in 0 .. MaxRetries
    BY <1>1, <1>8, WebSvcTransAssumption DEF MayRetry, Session
  <2>3. FirstState(w.item.v2) \in {"not_acked", "not_parsed"}
    BY DEF FirstState
  <2>4. /\ v \in Session /\ v.state = "active" /\ v.connecting = TRUE /\ v.socket = FALSE
        /\ v.receiving = FALSE /\ v.parser = FirstState(w.item.v2) /\ v.item = w.item
        /\ v.queue = w.queue /\ v.calls = w.calls /\ v.silenced = w.silenced
        /\ v.accepted = w.accepted /\ v.stack = w.stack /\ v.deleting = w.deleting
    BY <1>1, <2>1, <2>2, <2>3 DEF Session
  <2>5. Current(v) = Current(w) /\ Called(v) = Called(w)
    BY <2>4 DEF Current, Called
  <2>6. Typed(v) /\ Unique(v) /\ Located(v) = Located(w)
    BY <2>4, <2>5 DEF Typed, Unique, Located
  <2>7. HasWork(v)
    BY <1>1, <2>4 DEF HasWork, Running
  <2>8. Framed(v)
    BY <1>8, <2>3, <2>4 DEF Framed, Canceled
  <2>9. res = "timed_out"
    BY <1>8 DEF MayRetry
  <2>10. QED
    BY <2>4, <2>6, <2>7, <2>8, <2>9 DEF SessionInv
<1>9. ~w.deleting => \/ \E ok \in BOOLEAN : v = done(ok)
                     \/ v = Retried(Closed(w)) /\ MayRetry(w, res, late)
  BY DEF wst_transaction_completed, b
<1> HIDE DEF done
<1>10. QED
  BY <1>2, <1>7, <1>8, <1>9

LEMMA StopProperties ==
  ASSUME NEW w, SessionInv(w), ~w.deleting, w.state # "freed",
         NEW now \in BOOLEAN, NEW notify \in BOOLEAN,
         NEW v \in wst_stop_trans__int(w, now, notify)
  PROVE  /\ SessionInv(v)
         /\ Located(v) = Located(w) /\ v.accepted = w.accepted
         /\ v.queue = w.queue /\ ~v.deleting /\ v.state # "freed"
         /\ now => ~Running(v)
<1>1. w \in Session
  BY DEF SessionInv, Typed
<1>2. CASE ~Running(w)
  <2>1. v = w
    BY <1>2 DEF wst_stop_trans__int
  <2>2. QED
    BY <1>2, <2>1
<1>3. CASE Running(w) /\ now
  <2> DEFINE b == [w EXCEPT !.notify = w.notify /\ notify]
  <2>1. v \in wst_transaction_completed(b, "aborted", FALSE)
    BY <1>1, <1>3 DEF wst_stop_trans__int, Session
  <2>2. (w.notify /\ notify) \in BOOLEAN
    OBVIOUS
  <2>3. /\ b \in Session /\ b.state = w.state /\ b.queue = w.queue /\ b.item = w.item
        /\ b.deleting = w.deleting /\ b.calls = w.calls /\ b.silenced = w.silenced
        /\ b.accepted = w.accepted
    BY <1>1, <2>2 DEF Session
  <2> HIDE DEF b
  <2>4. Current(b) = Current(w) /\ Called(b) = Called(w) /\ Running(b)
    BY <1>3, <2>3 DEF Current, Called, Running
  <2>5. Typed(b) /\ Unique(b) /\ Located(b) = Located(w)
    BY <2>3, <2>4 DEF SessionInv, Typed, Unique, Located
  <2>6. b.item \in Item
    BY <1>1, <1>3, <2>3 DEF SessionInv, HasWork, Session
  <2>7. FALSE \in BOOLEAN /\ ~b.deleting /\ "aborted" # "timed_out"
    BY <2>3
  <2>8. /\ SessionInv(v) /\ Located(v) = Located(b) /\ v.accepted = b.accepted
        /\ v.queue = b.queue /\ ~v.deleting /\ v.state # "freed" /\ ~Running(v)
    BY <2>1, <2>4, <2>5, <2>6, <2>7, CompletedProperties
  <2>9. QED
    BY <2>3, <2>5, <2>8
<1>4. CASE Running(w) /\ ~now
  <2>1. v = [w EXCEPT !.state = "stopping"]
    BY <1>4 DEF wst_stop_trans__int
  <2>2. /\ v \in Session /\ v.state = "stopping" /\ v.queue = w.queue /\ v.item = w.item
        /\ v.deleting = w.deleting /\ v.calls = w.calls /\ v.silenced = w.silenced
        /\ v.accepted = w.accepted /\ v.connecting = w.connecting /\ v.socket = w.socket
        /\ v.receiving = w.receiving /\ v.stack = w.stack /\ v.parser = w.parser
    BY <1>1, <2>1 DEF Session
  <2>3. Current(v) = Current(w) /\ Called(v) = Called(w) /\ Running(v)
    BY <2>2 DEF Current, Called, Running
  <2>4. Typed(v) /\ Unique(v) /\ Located(v) = Located(w)
    BY <2>2, <2>3 DEF SessionInv, Typed, Unique, Located
  <2>5. HasWork(v)
    BY <1>4, <2>2, <2>3 DEF SessionInv, HasWork
  <2>6. Framed(v)
    BY <2>2, <2>3 DEF SessionInv, Framed, Canceled, NoParser
  <2>7. QED
    BY <1>4, <2>2, <2>4, <2>5, <2>6 DEF SessionInv
<1>5. QED
  BY <1>2, <1>3, <1>4

(***************************************************************************)
(* The start of a transaction.                                             *)
(***************************************************************************)

(* No request of the type is left in the queue, and none is lost.          *)
LEMMA RemoveTypeProperties ==
  ASSUME NEW w, SessionInv(w), ~w.deleting, w.state # "freed", NEW t \in Types,
         NEW v \in wstq_RemoveType(w, t)
  PROVE  /\ SessionInv(v)
         /\ Located(v) = Located(w) /\ v.accepted = w.accepted
         /\ ~v.deleting /\ v.state # "freed"
         /\ \A i \in 1 .. Len(v.queue) : v.queue[i].type # t
<1> DEFINE z    == WithoutType(w.queue, t)
           gone == w.silenced \cup (IdsOf(w.queue) \ IdsOf(z))
           r    == [w EXCEPT !.queue = z, !.silenced = gone]
<1>1. /\ w \in Session /\ w.queue \in Seq(Item) /\ Len(w.queue) <= MaxQueue
      /\ Unique(w) /\ Len(w.queue) \in Nat
  BY LenProperties DEF SessionInv, Typed, Session
<1>2. v \in (IF Running(r) /\ r.item.type = t
             THEN wst_stop_trans__int(r, TRUE, FALSE) ELSE {r})
  <2>1. r.state = w.state /\ r.item = w.item
    BY <1>1 DEF Session
  <2>2. r = [w EXCEPT !.queue = WithoutType(@, t),
                      !.silenced = @ \cup (IdsOf(w.queue) \ IdsOf(WithoutType(w.queue, t)))]
    BY <1>1 DEF Session
  <2>3. QED
    BY <2>1, <2>2 DEF wstq_RemoveType, Running
<1>3. /\ z \in Seq(Item) /\ Len(z) <= Len(w.queue) /\ IdsOf(z) \subseteq IdsOf(w.queue)
      /\ IdsDistinct(z) /\ TypesDistinct(z)
      /\ \A i \in 1 .. Len(z) : z[i].type # t
  BY <1>1, WithoutTypeProperties DEF Unique
<1>4. IdsOf(w.queue) \subseteq Ids
  <2>1. \A i \in 1 .. Len(w.queue) : w.queue[i] \in Item
    BY <1>1, ElementOfSeq
  <2>2. QED
    BY <2>1 DEF IdsOf, Item
<1> HIDE DEF z
<1>5. gone \in SUBSET Ids
  BY <1>1, <1>4 DEF Session
<1> HIDE DEF gone
<1>6. /\ r \in Session /\ r.queue = z /\ r.silenced = gone /\ r.state = w.state
      /\ r.item = w.item /\ r.deleting = w.deleting /\ r.calls = w.calls
      /\ r.accepted = w.accepted /\ r.connecting = w.connecting /\ r.socket = w.socket
      /\ r.receiving = w.receiving /\ r.stack = w.stack /\ r.parser = w.parser
  BY <1>1, <1>3, <1>5 DEF Session
<1> HIDE DEF r
<1>7. Current(r) = Current(w) /\ Called(r) = Called(w) /\ (Running(r) <=> Running(w))
  BY <1>6 DEF Current, Called, Running
<1>8. Typed(r)
  <2>1. Len(z) \in Nat /\ MaxQueue \in Nat
    BY <1>3, LenProperties, WebSvcTransAssumption
  <2>2. QED
    BY <1>1, <1>3, <1>6, <2>1 DEF Typed
<1>9. Unique(r)
  BY <1>1, <1>3, <1>6, <1>7 DEF Unique, gone
<1>10. Located(r) = Located(w)
  BY <1>3, <1>6, <1>7 DEF Located, gone
<1>11. HasWork(r)
  BY <1>6, <1>7 DEF SessionInv, HasWork
<1>12. Framed(r)
  BY <1>6, <1>7 DEF SessionInv, Framed, Canceled, NoParser
<1>13. SessionInv(r)
  BY <1>8, <1>9, <1>11, <1>12 DEF SessionInv
<1>14. /\ SessionInv(v) /\ Located(v) = Located(r) /\ v.accepted = r.accepted
       /\ ~v.deleting /\ v.state # "freed" /\ v.queue = r.queue
  <2>1. CASE v = r
    BY <2>1, <1>6, <1>13
  <2>2. CASE v \in wst_stop_trans__int(r, TRUE, FALSE)
    BY <2>2, <1>6, <1>13, StopProperties
  <2>3. QED
    BY <1>2, <2>1, <2>2
<1>15. QED
  BY <1>3, <1>6, <1>10, <1>14

(* An idle session whose connect failed at once.                           *)
LEMMA ResetProperties ==
  ASSUME NEW w, SessionInv(w), ~Running(w), ~w.deleting, w.state # "freed",
         NEW v2 \in BOOLEAN, NEW v, v = wst_context_reset(w, v2)
  PROVE  /\ SessionInv(v)
         /\ Located(v) = Located(w) /\ v.accepted = w.accepted
         /\ ~v.deleting /\ v.state # "freed"
<1>1. /\ w \in Session /\ w.item = NoItem /\ w.deleting = FALSE
      /\ w.connecting = FALSE /\ w.socket = FALSE
  BY DEF SessionInv, Typed, HasWork, Session
<1>2. 0 \in 0 .. MaxRetries /\ FirstState(v2) \in {"not_acked", "not_parsed"}
  BY WebSvcTransAssumption DEF FirstState
<1>3. /\ v \in Session /\ v.state = "idle" /\ v.item = NoItem /\ v.parser = FirstState(v2)
      /\ v.receiving = FALSE /\ v.queue = w.queue /\ v.calls = w.calls
      /\ v.silenced = w.silenced /\ v.accepted = w.accepted /\ v.connecting = w.connecting
      /\ v.socket = w.socket /\ v.stack = w.stack /\ v.deleting = FALSE
  BY <1>1, <1>2 DEF Session, wst_context_reset
<1>4. Current(v) = Current(w) /\ Called(v) = Called(w) /\ ~Running(v)
  BY <1>1, <1>3 DEF Current, Called, Running
<1>5. Typed(v) /\ Unique(v) /\ Located(v) = Located(w)
  BY <1>3, <1>4 DEF SessionInv, Typed, Unique, Located
<1>6. HasWork(v)
  BY <1>1, <1>3, <1>4 DEF SessionInv, HasWork
<1>7. Framed(v)
  BY <1>2, <1>3 DEF Framed, Canceled
<1>8. QED
  BY <1>3, <1>5, <1>6, <1>7 DEF SessionInv

(* An idle session whose connect is under way.                             *)
LEMMA LoadProperties ==
  ASSUME NEW w, SessionInv(w), ~Running(w), ~w.deleting, w.state # "freed",
         NEW r \in Item, r.id \notin Located(w), NEW v, v = wst_context_load(w, r)
  PROVE  /\ SessionInv(v)
         /\ Located(v) = Located(w) \cup {r.id} /\ v.accepted = w.accepted
         /\ ~v.deleting /\ v.state # "freed"
<1>1. /\ w \in Session /\ w.item = NoItem /\ w.deleting = FALSE
      /\ w.connecting = FALSE /\ w.socket = FALSE
  BY DEF SessionInv, Typed, HasWork, Session
<1>2. 0 \in 0 .. MaxRetries /\ FirstState(r.v2) \in {"not_acked", "not_parsed"}
  BY WebSvcTransAssumption DEF FirstState
<1>3. /\ v \in Session /\ v.state = "active" /\ v.item = r /\ v.parser = FirstState(r.v2)
      /\ v.receiving = FALSE /\ v.queue = w.queue /\ v.calls = w.calls
      /\ v.silenced = w.silenced /\ v.accepted = w.accepted /\ v.connecting = TRUE
      /\ v.socket = FALSE /\ v.stack = w.stack /\ v.deleting = FALSE
  BY <1>1, <1>2 DEF Session, wst_context_reset, wst_context_load
<1>4. Current(w) = {} /\ Current(v) = {r.id} /\ Called(v) = Called(w) /\ Running(v)
  BY <1>1, <1>3, WebSvcTransAssumption DEF Current, Called, Running
<1>5. Typed(v) /\ Located(v) = Located(w) \cup {r.id}
  BY <1>3, <1>4 DEF SessionInv, Typed, Located
<1>6. Unique(v)
  BY <1>3, <1>4 DEF SessionInv, Unique, Located
<1>7. HasWork(v)
  BY <1>3, <1>4, WebSvcTransAssumption DEF HasWork
<1>8. Framed(v)
  BY <1>2, <1>3 DEF Framed, Canceled
<1>9. QED
  BY <1>3, <1>5, <1>6, <1>7, <1>8 DEF SessionInv

(* A busy session, whose queue has no request of the type.                 *)
LEMMA AddProperties ==
  ASSUME NEW w, SessionInv(w), Running(w), ~w.deleting,
         NEW r \in Item, r.id \notin Located(w),
         r.type # NoType => \A i \in 1 .. Len(w.queue) : w.queue[i].type # r.type,
         NEW s \in wstq_Add(w, r)
  PROVE  /\ SessionInv(s.ws)
         /\ Located(s.ws) = Located(w) \cup (IF s.ok THEN {r.id} ELSE {})
         /\ s.ws.accepted = w.accepted /\ ~s.ws.deleting /\ s.ws.state # "freed"
         /\ s.ok \in BOOLEAN
<1>1. /\ w \in Session /\ w.queue \in Seq(Item) /\ Len(w.queue) <= MaxQueue
      /\ Len(w.queue) \in Nat /\ w.state # "freed"
  BY LenProperties DEF SessionInv, Typed, Session, Running
<1>2. CASE s = NotStarted(w)
  BY <1>1, <1>2 DEF NotStarted
<1>3. CASE Len(w.queue) < MaxQueue /\ s = Started([w EXCEPT !.queue = Append(@, r)])
  <2> DEFINE a == Append(w.queue, r)
             v == [w EXCEPT !.queue = a]
  <2>1. s.ok = TRUE /\ s.ws = v
    BY <1>1, <1>3 DEF Started, Session
  <2>2. /\ a \in Seq(Item) /\ Len(a) = Len(w.queue) + 1
        /\ IdsOf(a) = IdsOf(w.queue) \cup {r.id}
    BY <1>1, AppendIds
  <2>3. IdsDistinct(a) /\ TypesDistinct(a)
    BY <1>1, AppendDistinct DEF SessionInv, Unique, Located
  <2> HIDE DEF a
  <2>4. /\ v \in Session /\ v.queue = a /\ v.state = w.state /\ v.item = w.item
        /\ v.deleting = w.deleting /\ v.calls = w.calls /\ v.silenced = w.silenced
        /\ v.accepted = w.accepted /\ v.connecting = w.connecting /\ v.socket = w.socket
        /\ v.receiving = w.receiving /\ v.stack = w.stack /\ v.parser = w.parser
    BY <1>1, <2>2 DEF Session
  <2> HIDE DEF v
  <2>5. Current(v) = Current(w) /\ Called(v) = Called(w) /\ Running(v)
    BY <2>4 DEF Current, Called, Running
  <2>6. Len(a) <= MaxQueue
    BY <1>1, <1>3, <2>2, WebSvcTransAssumption
  <2>7. Typed(v) /\ Located(v) = Located(w) \cup {r.id}
    BY <2>2, <2>4, <2>5, <2>6 DEF Typed, Located
  <2>8. Unique(v)
    BY <2>2, <2>3, <2>4, <2>5 DEF SessionInv, Unique, Located
  <2>9. HasWork(v)
    BY <2>4, <2>5 DEF SessionInv, HasWork
  <2>10. Framed(v)
    BY <2>4, <2>5 DEF SessionInv, Framed, Canceled, NoParser
  <2>11. QED
    BY <1>1, <2>1, <2>4, <2>7, <2>8, <2>9, <2>10 DEF SessionInv
<1>4. QED
  BY <1>2, <1>3 DEF wstq_Add

(* Whether a call starts or queues the request, replaces others for it or  *)
(* fails: nothing but this request is new.                                 *)
LEMMA StartProperties ==
  ASSUME NEW w, SessionInv(w), ~w.deleting, w.state # "freed",
         NEW r \in Item, r.id \notin Located(w),
         NEW s \in wst_start_trans__int(w, r)
  PROVE  /\ SessionInv(s.ws)
         /\ Located(s.ws) = Located(w) \cup (IF s.ok THEN {r.id} ELSE {})
         /\ s.ws.accepted = w.accepted
         /\ s.ok \in BOOLEAN
<1>1. r.type \in Types \cup {NoType} /\ r.v2 \in BOOLEAN
  BY DEF Item
<1>2. PICK v \in IF Running(w) /\ r.type # NoType THEN wstq_RemoveType(w, r.type) ELSE {w} :
        s \in (IF Running(v) THEN wstq_Add(v, r)
               ELSE {Started(wst_context_load(v, r)), NotStarted(wst_context_reset(v, r.v2))})
  BY DEF wst_start_trans__int
<1>3. /\ SessionInv(v) /\ Located(v) = Located(w) /\ v.accepted = w.accepted
      /\ ~v.deleting /\ v.state # "freed"
      /\ Running(v) /\ r.type # NoType => \A i \in 1 .. Len(v.queue) : v.queue[i].type # r.type
  <2>1. CASE Running(w) /\ r.type # NoType
    BY <1>1, <1>2, <2>1, RemoveTypeProperties
  <2>2. CASE ~(Running(w) /\ r.type # NoType)
    BY <1>2, <2>2
  <2>3. QED
    BY <2>1, <2>2
<1>4. CASE Running(v)
  <2>1. s \in wstq_Add(v, r)
    BY <1>2, <1>4
  <2>2. QED
    BY <1>3, <1>4, <2>1, AddProperties
<1>5. CASE ~Running(v) /\ s = Started(wst_context_load(v, r))
  <2>1. s.ok = TRUE /\ s.ws = wst_context_load(v, r)
    BY <1>5 DEF Started
  <2>2. r.id \notin Located(v)
    BY <1>3
  <2>3. /\ SessionInv(s.ws) /\ Located(s.ws) = Located(v) \cup {r.id}
        /\ s.ws.accepted = v.accepted
    BY <1>3, <1>5, <2>1, <2>2, LoadProperties
  <2>4. QED
    BY <1>3, <2>1, <2>3
<1>6. CASE ~Running(v) /\ s = NotStarted(wst_context_reset(v, r.v2))
  <2>1. s.ok = FALSE /\ s.ws = wst_context_reset(v, r.v2)
    BY <1>6 DEF NotStarted
  <2>2. QED
    BY <1>1, <1>3, <1>6, <2>1, ResetProperties
<1>7. QED
  BY <1>2, <1>4, <1>5, <1>6

(* A request that was in no place is given up.                             *)
LEMMA SilenceProperties ==
  ASSUME NEW w, SessionInv(w), NEW id \in Ids, id \notin Located(w),
         NEW v, v = [w EXCEPT !.silenced = @ \cup {id}]
  PROVE  /\ SessionInv(v)
         /\ Located(v) = Located(w) \cup {id} /\ v.accepted = w.accepted
<1>1. w \in Session
  BY DEF SessionInv, Typed
<1>2. /\ v \in Session /\ v.queue = w.queue /\ v.state = w.state /\ v.item = w.item
      /\ v.deleting = w.deleting /\ v.calls = w.calls /\ v.silenced = w.silenced \cup {id}
      /\ v.accepted = w.accepted /\ v.connecting = w.connecting /\ v.socket = w.socket
      /\ v.receiving = w.receiving /\ v.stack = w.stack /\ v.parser = w.parser
  BY <1>1 DEF Session
<1>3. Current(v) = Current(w) /\ Called(v) = Called(w) /\ (Running(v) <=> Running(w))
  BY <1>2 DEF Current, Called, Running
<1>4. Typed(v) /\ Located(v) = Located(w) \cup {id}
  BY <1>2, <1>3 DEF SessionInv, Typed, Located
<1>5. Unique(v)
  BY <1>2, <1>3 DEF SessionInv, Unique, Located
<1>6. HasWork(v)
  BY <1>2, <1>3 DEF SessionInv, HasWork
<1>7. Framed(v)
  BY <1>2, <1>3 DEF SessionInv, Framed, Canceled, NoParser
<1>8. QED
  BY <1>2, <1>4, <1>5, <1>6, <1>7 DEF SessionInv

(***************************************************************************)
(* The steps.                                                              *)
(***************************************************************************)

(* IInv of the next state is a fact about the record ws'.                  *)
LEMMA NextIInv ==
  ASSUME SessionInv(ws'), Located(ws') = ws'.accepted
  PROVE  IInv'
BY DEF IInv, SessionInv, Typed, Unique, HasWork, Framed, Located, Called, Current, IdsOf,
       Running, Canceled, NoParser, IdsDistinct, TypesDistinct, Session

(* The request of a call becomes an accepted one.                          *)
LEMMA AcceptProperties ==
  ASSUME NEW w, SessionInv(w), NEW id \in Ids,
         NEW v, v = [w EXCEPT !.accepted = @ \cup {id}]
  PROVE  /\ SessionInv(v)
         /\ Located(v) = Located(w) /\ v.accepted = w.accepted \cup {id}
<1>1. w \in Session
  BY DEF SessionInv, Typed
<1>2. /\ v \in Session /\ v.queue = w.queue /\ v.state = w.state /\ v.item = w.item
      /\ v.deleting = w.deleting /\ v.calls = w.calls /\ v.silenced = w.silenced
      /\ v.accepted = w.accepted \cup {id} /\ v.connecting = w.connecting
      /\ v.socket = w.socket /\ v.receiving = w.receiving /\ v.stack = w.stack
      /\ v.parser = w.parser
  BY <1>1 DEF Session
<1>3. Current(v) = Current(w) /\ Called(v) = Called(w) /\ (Running(v) <=> Running(w))
  BY <1>2 DEF Current, Called, Running
<1>4. Typed(v) /\ Located(v) = Located(w)
  BY <1>2, <1>3 DEF SessionInv, Typed, Located
<1>5. Unique(v)
  BY <1>2, <1>3 DEF SessionInv, Unique, Located
<1>6. HasWork(v)
  BY <1>2, <1>3 DEF SessionInv, HasWork
<1>7. Framed(v)
  BY <1>2, <1>3 DEF SessionInv, Framed, Canceled, NoParser
<1>8. QED
  BY <1>2, <1>4, <1>5, <1>6, <1>7 DEF SessionInv

LEMMA StartTransStep ==
  ASSUME IInv, NEW r \in Item, wst_start_trans(r)
  PROVE  IInv'
<1>1. SessionInv(ws) /\ Located(ws) = ws.accepted /\ r.id \in Ids
  BY DEF IInv, Item
<1>2. ~ws.deleting /\ ws.state # "freed" /\ r.id \notin Located(ws)
  BY <1>1 DEF wst_start_trans, Usable
<1>3. PICK s \in wst_start_trans__int(ws, r) :
        ws' = IF s.ok THEN [s.ws EXCEPT !.accepted = @ \cup {r.id}] ELSE s.ws
  BY DEF wst_start_trans
<1>4. /\ SessionInv(s.ws) /\ s.ws.accepted = ws.accepted /\ s.ok \in BOOLEAN
      /\ Located(s.ws) = Located(ws) \cup (IF s.ok THEN {r.id} ELSE {})
  BY <1>1, <1>2, StartProperties
<1>5. CASE s.ok = TRUE
  <2>1. /\ SessionInv(ws') /\ Located(ws') = Located(s.ws)
        /\ ws'.accepted = s.ws.accepted \cup {r.id}
    BY <1>1, <1>3, <1>4, <1>5, AcceptProperties
  <2>2. QED
    BY <1>1, <1>4, <1>5, <2>1, NextIInv
<1>6. CASE s.ok = FALSE
  BY <1>1, <1>3, <1>4, <1>6, NextIInv
<1>7. QED
  BY <1>4, <1>5, <1>6

LEMMA StopTransStep ==
  ASSUME IInv, NEW now \in BOOLEAN, wst_stop_trans(now)
  PROVE  IInv'
<1>1. SessionInv(ws) /\ Located(ws) = ws.accepted /\ TRUE \in BOOLEAN
  BY DEF IInv
<1>2. ~ws.deleting /\ ws.state # "freed" /\ ws' \in wst_stop_trans__int(ws, now, TRUE)
  BY DEF wst_stop_trans, Usable
<1>3. SessionInv(ws') /\ Located(ws') = Located(ws) /\ ws'.accepted = ws.accepted
  BY <1>1, <1>2, StopProperties
<1>4. QED
  BY <1>1, <1>3, NextIInv

LEMMA ProcessQueueItemStep ==
  ASSUME IInv, wst_process_queue_item
  PROVE  IInv'
<1> DEFINE r == Head(ws.queue)
           z == Tail(ws.queue)
           w == [ws EXCEPT !.queue = z]
<1>1. /\ ws \in Session /\ ws.queue \in Seq(Item) /\ ws.queue # <<>> /\ Unique(ws)
      /\ Located(ws) = ws.accepted /\ SessionInv(ws) /\ Len(ws.queue) <= MaxQueue
      /\ ~ws.deleting /\ ws.state # "freed"
  BY DEF IInv, SessionInv, Typed, Session, wst_process_queue_item, Usable
<1>2. /\ r \in Item /\ z \in Seq(Item)
      /\ Len(z) = Len(ws.queue) - 1 /\ Len(ws.queue) \in Nat \ {0}
      /\ IdsOf(ws.queue) = IdsOf(z) \cup {r.id} /\ r.id \notin IdsOf(z)
      /\ IdsDistinct(z) /\ TypesDistinct(z)
  BY <1>1, TailIds DEF Unique
<1>3. PICK s \in wst_start_trans__int(w, r) :
        ws' = IF s.ok THEN s.ws ELSE [s.ws EXCEPT !.silenced = @ \cup {r.id}]
  <2>1. w = [ws EXCEPT !.queue = Tail(@)]
    BY <1>1 DEF Session
  <2>2. QED
    BY <2>1 DEF wst_process_queue_item
<1>4. r.id \in Ids
  BY <1>2 DEF Item
<1> HIDE DEF r, z
<1>5. /\ w \in Session /\ w.queue = z /\ w.state = ws.state /\ w.item = ws.item
      /\ w.deleting = ws.deleting /\ w.calls = ws.calls /\ w.silenced = ws.silenced
      /\ w.accepted = ws.accepted /\ w.connecting = ws.connecting /\ w.socket = ws.socket
      /\ w.receiving = ws.receiving /\ w.stack = ws.stack /\ w.parser = ws.parser
  BY <1>1, <1>2 DEF Session
<1> HIDE DEF w
<1>6. Current(w) = Current(ws) /\ Called(w) = Called(ws) /\ (Running(w) <=> Running(ws))
  BY <1>5 DEF Current, Called, Running
<1>7. Len(z) <= MaxQueue
  BY <1>1, <1>2, WebSvcTransAssumption
<1>8. Typed(w)
  BY <1>5, <1>7 DEF Typed
<1>9. Unique(w)
  BY <1>1, <1>2, <1>5, <1>6 DEF Unique
<1>10. r.id \notin Located(w) /\ Located(ws) = Located(w) \cup {r.id}
  BY <1>1, <1>2, <1>5, <1>6 DEF Unique, Located
<1>11. HasWork(w)
  BY <1>1, <1>5, <1>6 DEF SessionInv, HasWork
<1>12. Framed(w)
  BY <1>1, <1>5, <1>6 DEF SessionInv, Framed, Canceled, NoParser
<1>13. SessionInv(w) /\ ~w.deleting /\ w.state # "freed"
  BY <1>1, <1>5, <1>8, <1>9, <1>11, <1>12 DEF SessionInv
<1>14. /\ SessionInv(s.ws) /\ s.ws.accepted = w.accepted /\ s.ok \in BOOLEAN
       /\ Located(s.ws) = Located(w) \cup (IF s.ok THEN {r.id} ELSE {})
  BY <1>2, <1>10, <1>13, StartProperties
<1>15. CASE s.ok = TRUE
  BY <1>1, <1>3, <1>5, <1>10, <1>14, <1>15, NextIInv
<1>16. CASE s.ok = FALSE
  <2>1. r.id \notin Located(s.ws)
    BY <1>10, <1>14, <1>16
  <2>2. ws' = [s.ws EXCEPT !.silenced = @ \cup {r.id}]
    BY <1>3, <1>16
  <2>3. /\ SessionInv(ws') /\ Located(ws') = Located(s.ws) \cup {r.id}
        /\ ws'.accepted = s.ws.accepted
    BY <1>4, <1>14, <2>1, <2>2, SilenceProperties
  <2>4. QED
    BY <1>1, <1>5, <1>10, <1>14, <1>16, <2>3, NextIInv
<1>17. QED
  BY <1>14, <1>15, <1>16

LEMMA QueueClearStep ==
  ASSUME IInv, wst_queue_clear
  PROVE  IInv'
<1> DEFINE gone == ws.silenced \cup IdsOf(ws.queue)
<1>1. /\ ws \in Session /\ ws.queue \in Seq(Item) /\ Unique(ws) /\ SessionInv(ws)
      /\ Located(ws) = ws.accepted
      /\ ws' = [ws EXCEPT !.queue = <<>>, !.silenced = gone]
  BY DEF IInv, SessionInv, Typed, Session, wst_queue_clear
<1>2. gone \in SUBSET Ids
  <2>1. \A i \in 1 .. Len(ws.queue) : ws.queue[i] \in Item
    BY <1>1, ElementOfSeq
  <2>2. QED
    BY <1>1, <2>1 DEF IdsOf, Item, Session
<1> HIDE DEF gone
<1>3. /\ ws' \in Session /\ ws'.queue = <<>> /\ ws'.state = ws.state /\ ws'.item = ws.item
      /\ ws'.deleting = ws.deleting /\ ws'.calls = ws.calls /\ ws'.silenced = gone
      /\ ws'.accepted = ws.accepted /\ ws'.connecting = ws.connecting
      /\ ws'.socket = ws.socket /\ ws'.receiving = ws.receiving /\ ws'.stack = ws.stack
      /\ ws'.parser = ws.parser
  <2>1. <<>> \in Seq(Item)
    BY EmptySeq
  <2>2. QED
    BY <1>1, <1>2, <2>1 DEF Session
<1> DEFINE v == ws'
<1> HIDE DEF v
<1>4. /\ v \in Session /\ v.queue = <<>> /\ v.state = ws.state /\ v.item = ws.item
      /\ v.deleting = ws.deleting /\ v.calls = ws.calls /\ v.silenced = gone
      /\ v.accepted = ws.accepted /\ v.connecting = ws.connecting
      /\ v.socket = ws.socket /\ v.receiving = ws.receiving /\ v.stack = ws.stack
      /\ v.parser = ws.parser
  BY <1>3 DEF v
<1>5. /\ Current(v) = Current(ws) /\ Called(v) = Called(ws)
      /\ (Running(v) <=> Running(ws)) /\ IdsOf(v.queue) = {}
  BY <1>4 DEF Current, Called, Running, IdsOf
<1>6. Typed(v) /\ Located(v) = Located(ws)
  BY <1>4, <1>5, WebSvcTransAssumption DEF Typed, Located, gone
<1>7. Unique(v)
  <2>1. IdsDistinct(v.queue) /\ TypesDistinct(v.queue)
    BY <1>4 DEF IdsDistinct, TypesDistinct
  <2>2. QED
    BY <1>1, <1>4, <1>5, <2>1 DEF Unique, gone
<1>8. HasWork(v)
  BY <1>1, <1>4, <1>5 DEF SessionInv, HasWork
<1>9. Framed(v)
  BY <1>1, <1>4, <1>5 DEF SessionInv, Framed, Canceled, NoParser
<1>10. SessionInv(v) /\ Located(v) = v.accepted
  BY <1>1, <1>4, <1>6, <1>7, <1>8, <1>9 DEF SessionInv
<1>11. QED
  BY <1>10, NextIInv DEF v

LEMMA TermStep ==
  ASSUME IInv, wst_term
  PROVE  IInv'
<1>1. /\ ws \in Session /\ SessionInv(ws) /\ Typed(ws) /\ Unique(ws) /\ HasWork(ws)
      /\ Located(ws) = ws.accepted /\ ws.state # "freed" /\ ~ws.deleting /\ NoParser(ws)
  BY DEF IInv, SessionInv, Typed, wst_term, Usable, NoParser
<1>2. CASE ~Running(ws)
  <2>1. ws' = wst_context_free(ws) /\ ~ws.connecting
    BY <1>1, <1>2 DEF wst_term, HasWork
  <2>2. SessionInv(ws') /\ Located(ws') = Located(ws) /\ ws'.accepted = ws.accepted
    BY <1>1, <2>1, FreeProperties
  <2>3. QED
    BY <1>1, <2>2, NextIInv
<1>3. CASE Running(ws)
  <2> DEFINE v == [ws EXCEPT !.deleting = TRUE, !.state = "stopping"]
  <2>1. ws' = v
    BY <1>3 DEF wst_term
  <2>2. /\ v \in Session /\ v.state = "stopping" /\ v.queue = ws.queue /\ v.item = ws.item
        /\ v.calls = ws.calls /\ v.silenced = ws.silenced
        /\ v.accepted = ws.accepted /\ v.connecting = ws.connecting
        /\ v.socket = ws.socket /\ v.receiving = ws.receiving /\ v.stack = ws.stack
        /\ v.parser = ws.parser
    BY <1>1 DEF Session
  <2> HIDE DEF v
  <2>3. Current(v) = Current(ws) /\ Called(v) = Called(ws) /\ Running(v)
    BY <2>2 DEF Current, Called, Running
  <2>4. Typed(v) /\ Unique(v) /\ Located(v) = Located(ws)
    BY <1>1, <2>2, <2>3 DEF Typed, Unique, Located
  <2>5. HasWork(v)
    BY <1>1, <1>3, <2>2, <2>3 DEF HasWork
  <2>6. Framed(v)
    BY <1>1, <2>2 DEF Framed, NoParser
  <2>7. SessionInv(v) /\ Located(v) = v.accepted
    BY <1>1, <2>2, <2>4, <2>5, <2>6 DEF SessionInv
  <2>8. QED
    BY <2>1, <2>7, NextIInv
<1>4. QED
  BY <1>2, <1>3

LEMMA SocketConnectedStep ==
  ASSUME IInv, NEW outcome \in {"no_socket", "not_sent", "sent"},
         on_socket_connected(outcome)
  PROVE  IInv'
<1> DEFINE closed == [ws EXCEPT !.connecting = FALSE]
           open   == [ws EXCEPT !.connecting = FALSE, !.socket = TRUE]
<1>1. /\ ws \in Session /\ SessionInv(ws) /\ Typed(ws) /\ Unique(ws) /\ HasWork(ws)
      /\ Located(ws) = ws.accepted /\ ws.connecting /\ ws.stack = <<>> /\ NoParser(ws)
  BY DEF IInv, SessionInv, Typed, on_socket_connected, MainLoop, NoParser
<1>2. Running(ws) /\ ws.item \in Item
  BY <1>1 DEF HasWork, Session
<1>3. ASSUME NEW w \in {closed, open}, NEW res,
             ws' \in wst_transaction_completed(w, res, FALSE)
      PROVE  IInv'
  <2>1. /\ w \in Session /\ w.state = ws.state /\ w.queue = ws.queue /\ w.item = ws.item
        /\ w.calls = ws.calls /\ w.silenced = ws.silenced /\ w.connecting = FALSE
        /\ w.accepted = ws.accepted /\ w.stack = ws.stack /\ w.deleting = ws.deleting
    BY <1>1, <1>3 DEF Session
  <2> HIDE DEF closed, open
  <2>2. Current(w) = Current(ws) /\ Called(w) = Called(ws) /\ Running(w) /\ NoParser(w)
    BY <1>1, <1>2, <2>1 DEF Current, Called, Running, NoParser
  <2>3. Typed(w) /\ Unique(w) /\ Located(w) = Located(ws)
    BY <1>1, <2>1, <2>2 DEF Typed, Unique, Located
  <2>4. w.item \in Item /\ ~w.connecting /\ FALSE \in BOOLEAN
    BY <1>2, <2>1
  <2>5. SessionInv(ws') /\ Located(ws') = Located(w) /\ ws'.accepted = w.accepted
    <3>1. ASSUME NEW v \in wst_transaction_completed(w, res, FALSE)
          PROVE  SessionInv(v) /\ Located(v) = Located(w) /\ v.accepted = w.accepted
      BY <2>2, <2>3, <2>4, CompletedProperties
    <3>2. QED
      BY <1>3, <3>1
  <2>6. QED
    BY <1>1, <2>1, <2>3, <2>5, NextIInv
<1>4. CASE outcome = "sent" /\ ws.state # "stopping"
  <2> DEFINE v == [ws EXCEPT !.connecting = FALSE, !.socket = TRUE, !.receiving = TRUE]
  <2>1. ws' = v
    BY <1>1, <1>4 DEF on_socket_connected, Session
  <2>2. /\ v \in Session /\ v.state = ws.state /\ v.queue = ws.queue /\ v.item = ws.item
        /\ v.calls = ws.calls /\ v.silenced = ws.silenced /\ v.deleting = ws.deleting
        /\ v.accepted = ws.accepted /\ v.connecting = FALSE
        /\ v.socket = TRUE /\ v.receiving = TRUE /\ v.stack = ws.stack
        /\ v.parser = ws.parser
    BY <1>1 DEF Session
  <2> HIDE DEF v
  <2>3. Current(v) = Current(ws) /\ Called(v) = Called(ws) /\ Running(v)
    BY <1>2, <2>2 DEF Current, Called, Running
  <2>4. Typed(v) /\ Unique(v) /\ Located(v) = Located(ws)
    BY <1>1, <2>2, <2>3 DEF Typed, Unique, Located
  <2>5. HasWork(v)
    BY <1>1, <1>2, <2>2, <2>3 DEF HasWork
  <2>6. Framed(v)
    BY <1>1, <2>2, <2>3 DEF SessionInv, Framed, NoParser, Canceled
  <2>7. SessionInv(v) /\ Located(v) = v.accepted
    BY <1>1, <2>2, <2>4, <2>5, <2>6 DEF SessionInv
  <2>8. QED
    BY <2>1, <2>7, NextIInv
<1>5. CASE outcome = "no_socket"
  <2>1. ws' \in wst_transaction_completed(closed, "failed", FALSE)
    BY <1>5 DEF on_socket_connected
  <2>2. QED
    BY <2>1, <1>3
<1>6. CASE outcome # "no_socket" /\ ws.state = "stopping"
  <2>1. ws' \in wst_transaction_completed(open, "aborted", FALSE)
    BY <1>6 DEF on_socket_connected
  <2>2. QED
    BY <2>1, <1>3
<1>7. CASE outcome = "not_sent" /\ ws.state # "stopping"
  <2>1. ws' \in wst_transaction_completed(open, "failed", FALSE)
    BY <1>7 DEF on_socket_connected
  <2>2. QED
    BY <2>1, <1>3
<1>8. QED
  BY <1>4, <1>5, <1>6, <1>7

(* A transaction whose connection is not under way ends in the main loop.  *)
LEMMA EndStep ==
  ASSUME IInv, Running(ws), NEW res, NEW late \in BOOLEAN,
         ws.deleting => ~ws.connecting /\ NoParser(ws),
         ws' \in wst_transaction_completed(ws, res, late)
  PROVE  IInv'
<1>1. /\ SessionInv(ws) /\ Typed(ws) /\ Unique(ws) /\ Located(ws) = ws.accepted
      /\ ws.item \in Item
  BY DEF IInv, SessionInv, HasWork, Typed, Session
<1>2. SessionInv(ws') /\ Located(ws') = Located(ws) /\ ws'.accepted = ws.accepted
  BY <1>1, CompletedProperties
<1>3. QED
  BY <1>1, <1>2, NextIInv

LEMMA WatchdogStep ==
  ASSUME IInv, NEW late \in BOOLEAN, wst_watchdog(late)
  PROVE  IInv'
<1>1. Running(ws) /\ ~ws.deleting /\ ws' \in wst_transaction_completed(ws, "timed_out", late)
  BY DEF wst_watchdog, Usable
<1>2. QED
  BY <1>1, EndStep

(* The parser state moves on.                                              *)
LEMMA ContinueProperties ==
  ASSUME NEW w, SessionInv(w), Running(w),
         NEW p \in {"not_acked", "not_parsed", "parse_completed"}, NEW rest \in BOOLEAN,
         NoParser(w) \/ p = w.parser,
         NEW v, v = Continue(w, p, rest)
  PROVE  SessionInv(v) /\ Located(v) = Located(w) /\ v.accepted = w.accepted
<1>1. w \in Session
  BY DEF SessionInv, Typed
<1>2. /\ v \in Session /\ v.queue = w.queue /\ v.state = w.state /\ v.item = w.item
      /\ v.deleting = w.deleting /\ v.calls = w.calls /\ v.silenced = w.silenced
      /\ v.accepted = w.accepted /\ v.connecting = w.connecting
      /\ v.socket = w.socket /\ v.receiving = w.receiving /\ v.stack = w.stack
      /\ v.parser = p
  BY <1>1 DEF Session, Continue
<1>3. Current(v) = Current(w) /\ Called(v) = Called(w) /\ Running(v)
  BY <1>2 DEF Current, Called, Running
<1>4. Typed(v) /\ Unique(v) /\ Located(v) = Located(w)
  BY <1>2, <1>3 DEF SessionInv, Typed, Unique, Located
<1>5. HasWork(v)
  BY <1>2, <1>3 DEF SessionInv, HasWork
<1>6. Framed(v)
  BY <1>2, <1>3 DEF SessionInv, Framed, Canceled, NoParser
<1>7. QED
  BY <1>2, <1>4, <1>5, <1>6 DEF SessionInv

LEMMA CallParserProperties ==
  ASSUME NEW w, SessionInv(w), w.stack = <<>>, w.state = "active",
         NEW last \in BOOLEAN, NEW v, v = CallParser(w, last)
  PROVE  SessionInv(v) /\ Located(v) = Located(w) /\ v.accepted = w.accepted
<1> DEFINE f == [call |-> "parser", id |-> w.item.id, last |-> last]
<1>1. w \in Session /\ Running(w) /\ w.item # NoItem /\ w.item \in Item /\ w.deleting = FALSE
  BY DEF SessionInv, Typed, HasWork, Running, Session, Framed
<1>2. f \in ParserFrame
  BY <1>1 DEF ParserFrame, Item
<1>3. /\ v.queue = w.queue /\ v.state = w.state /\ v.item = w.item
      /\ v.deleting = w.deleting /\ v.calls = w.calls /\ v.silenced = w.silenced
      /\ v.accepted = w.accepted /\ v.connecting = w.connecting
      /\ v.socket = w.socket /\ v.receiving = w.receiving /\ v.stack = <<f>>
      /\ v.parser = "parse_completed" /\ v \in Session
  <2>1. /\ Append(<<>>, f) = <<f>>
        /\ <<f>> \in Seq(ParserFrame \cup CallbackFrame)
    BY <1>2
  <2>2. v = [w EXCEPT !.parser = "parse_completed", !.buffered = FALSE, !.stack = <<f>>]
    BY <1>1, <2>1 DEF CallParser, Continue, Session
  <2> HIDE DEF f
  <2>3. QED
    BY <1>1, <2>1, <2>2 DEF Session
<1>4. Current(v) = {f.id} /\ Current(v) = Current(w) /\ Called(v) = Called(w) /\ Running(v)
  BY <1>1, <1>3 DEF Current, Called, Running
<1> HIDE DEF f
<1>5. Typed(v) /\ Unique(v) /\ Located(v) = Located(w)
  BY <1>3, <1>4 DEF SessionInv, Typed, Unique, Located
<1>6. HasWork(v)
  BY <1>3, <1>4, <1>1 DEF SessionInv, HasWork
<1>7. Framed(v)
  <2>1. \A i \in 1 .. Len(v.stack) : v.stack[i] = f
    BY <1>3
  <2>2. QED
    BY <1>1, <1>3, <1>4, <2>1 DEF Framed
<1>8. QED
  BY <1>3, <1>5, <1>6, <1>7 DEF SessionInv

LEMMA DataReceivedStep ==
  ASSUME IInv, NEW read \in {"error", "nothing", "bytes"}, on_data_received(read)
  PROVE  IInv'
<1>1. /\ SessionInv(ws) /\ Located(ws) = ws.accepted /\ ws \in Session
      /\ ws.receiving /\ ws.stack = <<>> /\ NoParser(ws)
  BY DEF IInv, SessionInv, Typed, on_data_received, MainLoop, NoParser
<1>2. Running(ws) /\ ~ws.connecting
  BY <1>1 DEF SessionInv, HasWork
<1>3. ASSUME NEW res, ws' \in wst_transaction_completed(ws, res, FALSE)
      PROVE  IInv'
  BY <1>1, <1>2, <1>3, EndStep
<1>4. ASSUME NEW p \in {"not_acked", "not_parsed", "parse_completed"},
             NEW rest \in BOOLEAN, ws' = Continue(ws, p, rest)
      PROVE  IInv'
  <2>1. SessionInv(ws') /\ Located(ws') = Located(ws) /\ ws'.accepted = ws.accepted
    BY <1>1, <1>2, <1>4, ContinueProperties
  <2>2. QED
    BY <1>1, <2>1, NextIInv
<1>5. ASSUME NEW last \in BOOLEAN, ws.state # "stopping", ws' = CallParser(ws, last)
      PROVE  IInv'
  <2>1. ws.state = "active"
    BY <1>2, <1>5 DEF Running
  <2>2. SessionInv(ws') /\ Located(ws') = Located(ws) /\ ws'.accepted = ws.accepted
    BY <1>1, <1>5, <2>1, CallParserProperties
  <2>3. QED
    BY <1>1, <2>2, NextIInv
<1>6. CASE ws.state = "stopping"
  <2>1. ws' \in wst_transaction_completed(ws, "aborted", FALSE)
    BY <1>6 DEF on_data_received
  <2>2. QED
    BY <1>3, <2>1
<1>7. CASE ws.state # "stopping" /\ read = "error"
  <2>1. ws' \in wst_transaction_completed(ws, "failed", FALSE)
    BY <1>7 DEF on_data_received
  <2>2. QED
    BY <1>3, <2>1
<1>8. CASE ws.state # "stopping" /\ read = "nothing"
  <2>1. ws' \in ReceivedNothing(ws)
    BY <1>8 DEF on_data_received
  <2>2. \/ ws' \in wst_transaction_completed(ws, "succeeded", FALSE)
        \/ ws' \in wst_transaction_completed(ws, "failed", FALSE)
        \/ ws' = CallParser(ws, TRUE)
    BY <2>1, <1>1 DEF ReceivedNothing, Session
  <2>3. QED
    BY <1>3, <1>5, <1>8, <2>2
<1>9. CASE ws.state # "stopping" /\ read = "bytes"
  <2>1. ws' \in Received(ws)
    BY <1>9 DEF on_data_received
  <2>2. ws.parser \in {"not_acked", "not_parsed", "parse_completed"}
    BY <1>1 DEF Session
  <2>3. \/ ws' \in wst_transaction_completed(ws, "failed", FALSE)
        \/ ws' = CallParser(ws, FALSE)
        \/ \E p \in {"not_acked", "not_parsed", "parse_completed"}, rest \in BOOLEAN :
             ws' = Continue(ws, p, rest)
    BY <2>1, <2>2 DEF Received
  <2>4. QED
    BY <1>3, <1>4, <1>5, <1>9, <2>3
<1>10. QED
  BY <1>6, <1>7, <1>8, <1>9

(* The last frame is gone, and nothing else.                               *)
LEMMA PoppedProperties ==
  ASSUME NEW w, SessionInv(w), w.stack # <<>>, NEW v, v = Popped(w)
  PROVE  /\ SessionInv(v) /\ SameSession(v, w)
         /\ Located(v) = Located(w)
         /\ NoParser(w) => NoParser(v)
<1> DEFINE z == SubSeq(w.stack, 1, Len(w.stack) - 1)
<1>1. /\ w \in Session /\ w.stack \in Seq(ParserFrame \cup CallbackFrame)
      /\ Len(w.stack) \in Nat \ {0}
  BY LenProperties, EmptySeq DEF SessionInv, Typed, Session
<1>2. /\ z \in Seq(ParserFrame \cup CallbackFrame) /\ Len(z) = Len(w.stack) - 1
      /\ \A i \in 1 .. Len(z) : z[i] = w.stack[i] /\ i \in 1 .. Len(w.stack)
  <2>1. \A i \in 1 .. Len(w.stack) - 1 : w.stack[i] \in ParserFrame \cup CallbackFrame
    BY <1>1, ElementOfSeq
  <2>2. Len(w.stack) - 1 \in Nat
    BY <1>1
  <2>3. /\ z \in Seq(ParserFrame \cup CallbackFrame) /\ Len(z) = Len(w.stack) - 1
        /\ \A i \in 1 .. Len(w.stack) - 1 : z[i] = w.stack[i]
    BY <1>1, <2>1, <2>2, SubSeqProperties
  <2> HIDE DEF z
  <2>4. QED
    BY <1>1, <2>3
<1> HIDE DEF z
<1>3. v = [w EXCEPT !.stack = z]
  BY <1>1 DEF Popped, z, Session
<1>4. /\ v \in Session /\ v.stack = z /\ SameSession(v, w)
      /\ v.calls = w.calls /\ v.silenced = w.silenced
  BY <1>1, <1>2, <1>3 DEF Session, SameSession
<1>5. Current(v) = Current(w) /\ Called(v) = Called(w) /\ (Running(v) <=> Running(w))
  BY <1>4 DEF Current, Called, Running, SameSession
<1>6. Typed(v) /\ Unique(v) /\ Located(v) = Located(w)
  BY <1>4, <1>5 DEF SessionInv, Typed, Unique, Located, SameSession
<1>7. HasWork(v)
  BY <1>4, <1>5 DEF SessionInv, HasWork, SameSession
<1>8. Framed(v)
  BY <1>2, <1>4, <1>5 DEF SessionInv, Framed, Canceled, NoParser, SameSession
<1>9. NoParser(w) => NoParser(v)
  BY <1>2, <1>4 DEF NoParser
<1>10. QED
  BY <1>4, <1>6, <1>7, <1>8, <1>9 DEF SessionInv

LEMMA CallbackReturnsStep ==
  ASSUME IInv, callback_returns
  PROVE  IInv'
<1>1. SessionInv(ws) /\ Located(ws) = ws.accepted /\ ws.stack # <<>> /\ ws' = Popped(ws)
  BY DEF IInv, callback_returns
<1>2. SessionInv(ws') /\ Located(ws') = Located(ws) /\ ws'.accepted = ws.accepted
  BY <1>1, PoppedProperties DEF SameSession
<1>3. QED
  BY <1>1, <1>2, NextIInv

LEMMA ParserReturnsStep ==
  ASSUME IInv, parser_returns
  PROVE  IInv'
<1> DEFINE w == Popped(ws)
<1>1. /\ SessionInv(ws) /\ Located(ws) = ws.accepted /\ ws \in Session
      /\ ws.stack # <<>> /\ ws.stack[Len(ws.stack)].call = "parser"
  BY DEF IInv, SessionInv, Typed, parser_returns, Top
<1>2. \/ ws' = w
      \/ /\ ~Canceled(w)
         /\ \/ ws' \in wst_transaction_completed(w, "failed", FALSE)
            \/ ws' \in wst_transaction_completed(w, "succeeded", FALSE)
            \/ \E rest \in BOOLEAN : ws' = Continue(w, "parse_completed", rest)
  BY DEF parser_returns
<1>3. SessionInv(w) /\ SameSession(w, ws) /\ Located(w) = Located(ws)
  BY <1>1, PoppedProperties
<1>4. ws.deleting = FALSE
  <2>1. Len(ws.stack) \in 1 .. Len(ws.stack)
    BY <1>1, LenProperties, EmptySeq DEF Session
  <2>2. QED
    BY <1>1, <2>1 DEF SessionInv, Framed, NoParser, Session
<1>5. ws.parser = w.parser /\ ws.item = w.item /\ w.deleting = FALSE
      /\ w.accepted = ws.accepted
  BY <1>3, <1>4 DEF SameSession
<1>6. CASE ws' = w
  BY <1>1, <1>3, <1>5, <1>6, NextIInv
<1>7. CASE ~Canceled(w) /\ ws' # w
  <2>1. w.parser = "parse_completed" /\ ~Canceled(ws)
    BY <1>5, <1>7 DEF Canceled
  <2>2. Current(ws) = {ws.stack[Len(ws.stack)].id}
    <3>1. Len(ws.stack) \in 1 .. Len(ws.stack)
      BY <1>1, LenProperties, EmptySeq DEF Session
    <3>2. QED
      BY <1>1, <2>1, <3>1 DEF SessionInv, Framed
  <2> HIDE DEF w
  <2>3. w.item # NoItem
    BY <1>5, <2>2 DEF Current
  <2>4. Typed(w) /\ Unique(w) /\ Running(w) /\ w.item \in Item
    BY <1>3, <2>3 DEF SessionInv, HasWork, Typed, Session
  <2>5. ASSUME NEW res, ws' \in wst_transaction_completed(w, res, FALSE)
        PROVE  IInv'
    <3>1. FALSE \in BOOLEAN
      OBVIOUS
    <3>2. ASSUME NEW v \in wst_transaction_completed(w, res, FALSE)
          PROVE  SessionInv(v) /\ Located(v) = Located(w) /\ v.accepted = w.accepted
      BY <1>5, <2>4, <3>1, CompletedProperties
    <3>3. SessionInv(ws') /\ Located(ws') = Located(w) /\ ws'.accepted = w.accepted
      BY <2>5, <3>2
    <3>4. QED
      BY <1>1, <1>3, <1>5, <3>3, NextIInv
  <2>6. ASSUME NEW rest \in BOOLEAN, ws' = Continue(w, "parse_completed", rest)
        PROVE  IInv'
    <3>1. SessionInv(ws') /\ Located(ws') = Located(w) /\ ws'.accepted = w.accepted
      BY <1>3, <2>1, <2>4, <2>6, ContinueProperties
    <3>2. QED
      BY <1>1, <1>3, <1>5, <3>1, NextIInv
  <2>7. QED
    BY <1>2, <1>7, <2>5, <2>6
<1>8. QED
  BY <1>2, <1>6, <1>7

LEMMA InitIInv == Init => IInv
<1> SUFFICES ASSUME Init PROVE IInv
  OBVIOUS
<1>1. /\ ws \in Session /\ ws.queue = <<>> /\ ws.item = NoItem /\ ws.state = "idle"
      /\ ws.connecting = FALSE /\ ws.socket = FALSE /\ ws.receiving = FALSE
      /\ ws.stack = <<>> /\ ws.deleting = FALSE /\ ws.accepted = {} /\ ws.silenced = {}
      /\ ws.calls = [i \in Ids |-> 0]
  <2>1. /\ <<>> \in Seq(Item) /\ <<>> \in Seq(ParserFrame \cup CallbackFrame)
        /\ 0 \in 0 .. MaxRetries /\ [i \in Ids |-> 0] \in [Ids -> Nat]
        /\ {} \in SUBSET Ids
    BY EmptySeq, WebSvcTransAssumption
  <2>2. QED
    BY <2>1 DEF Init, Session
<1>2. Current(ws) = {} /\ IdsOf(ws.queue) = {} /\ Called(ws) = {} /\ ~Running(ws)
  BY <1>1 DEF Current, IdsOf, Called, Running
<1>3. Typed(ws)
  BY <1>1, WebSvcTransAssumption DEF Typed
<1>4. Unique(ws)
  BY <1>1, <1>2 DEF Unique, IdsDistinct, TypesDistinct
<1>5. HasWork(ws)
  BY <1>1, <1>2 DEF HasWork
<1>6. Framed(ws)
  BY <1>1 DEF Framed
<1>7. Located(ws) = ws.accepted
  BY <1>1, <1>2 DEF Located
<1>8. QED
  BY <1>3, <1>4, <1>5, <1>6, <1>7 DEF IInv, SessionInv

LEMMA StepIInv == IInv /\ [Next]_ws => IInv'
<1> SUFFICES ASSUME IInv, [Next]_ws PROVE IInv'
  OBVIOUS
<1>1. ASSUME NEW r \in Item, wst_start_trans(r) PROVE IInv'
  BY <1>1, StartTransStep
<1>2. ASSUME NEW now \in BOOLEAN, wst_stop_trans(now) PROVE IInv'
  BY <1>2, StopTransStep
<1>3. CASE wst_process_queue_item
  BY <1>3, ProcessQueueItemStep
<1>4. CASE wst_queue_clear
  BY <1>4, QueueClearStep
<1>5. CASE wst_term
  BY <1>5, TermStep
<1>6. ASSUME NEW outcome \in {"no_socket", "not_sent", "sent"},
             on_socket_connected(outcome)
      PROVE  IInv'
  BY <1>6, SocketConnectedStep
<1>7. ASSUME NEW read \in {"error", "nothing", "bytes"}, on_data_received(read)
      PROVE  IInv'
  BY <1>7, DataReceivedStep
<1>8. ASSUME NEW late \in BOOLEAN, wst_watchdog(late) PROVE IInv'
  BY <1>8, WatchdogStep
<1>9. CASE parser_returns
  BY <1>9, ParserReturnsStep
<1>10. CASE callback_returns
  BY <1>10, CallbackReturnsStep
<1>11. CASE UNCHANGED ws
  <2>1. SessionInv(ws') /\ Located(ws') = ws'.accepted
    BY <1>11 DEF IInv
  <2>2. QED
    BY <2>1, NextIInv
<1>12. QED
  BY <1>1, <1>2, <1>3, <1>4, <1>5, <1>6, <1>7, <1>8, <1>9, <1>10, <1>11
     DEF Next, ApplicationNext, EventNext, ReturnNext

LEMMA Invariance == Spec => []IInv
BY InitIInv, StepIInv, PTL DEF Spec

(***************************************************************************)
(* The theorems.                                                           *)
(***************************************************************************)

(* The context keeps its types and the queue stays inside its array,       *)
(* whatever the application and the network do.                            *)
THEOREM TypeCorrect == Spec => []TypeOK
<1>1. IInv => TypeOK
  BY DEF IInv, SessionInv, Typed, TypeOK
<1>2. QED
  BY Invariance, <1>1, PTL

(* A busy session waits for exactly one connect or socket, and an idle or  *)
(* freed one has left nothing behind that would call into it.              *)
THEOREM SessionAlwaysHasWork == Spec => []SessionHasWork
<1>1. IInv => SessionHasWork
  BY DEF IInv, SessionInv, HasWork, SessionHasWork
<1>2. QED
  BY Invariance, <1>1, PTL

(* A completion callback is called at most once, for an accepted request   *)
(* that was not given up.                                                  *)
THEOREM CallbackOnlyOnce == Spec => []CallbackDiscipline
<1>1. IInv => CallbackDiscipline
  <2> SUFFICES ASSUME IInv, NEW i \in Ids, ws.calls[i] > 0
               PROVE  ws.calls[i] = 1 /\ i \in ws.accepted \ ws.silenced
    BY DEF CallbackDiscipline
  <2>1. ws \in Session /\ Unique(ws) /\ Located(ws) = ws.accepted
    BY DEF IInv, SessionInv, Typed
  <2>2. ws.calls[i] \in Nat /\ ws.calls[i] <= 1
    BY <2>1 DEF Session, Unique
  <2>3. i \in Called(ws)
    BY DEF Called
  <2>4. QED
    BY <2>1, <2>2, <2>3 DEF Unique, Located
<1>2. QED
  BY Invariance, <1>1, PTL

(* An accepted request is always in exactly one place: active, queued,     *)
(* reported or given up.                                                   *)
THEOREM NoRequestLost == Spec => []RequestsAccounted
<1>1. IInv => RequestsAccounted
  <2> SUFFICES ASSUME IInv PROVE RequestsAccounted
    OBVIOUS
  <2>1. ws \in Session /\ Unique(ws) /\ Located(ws) = ws.accepted
    BY DEF IInv, SessionInv, Typed
  <2>2. \A i \in Ids : ws.calls[i] > 0 <=> i \in Called(ws)
    BY DEF Called
  <2>3. \A i \in IdsOf(ws.queue) \cup Current(ws) : ws.calls[i] = 0
    <3>1. \A i \in IdsOf(ws.queue) \cup Current(ws) : i \in Ids
      <4>1. \A i \in 1 .. Len(ws.queue) : ws.queue[i] \in Item
        BY <2>1, ElementOfSeq DEF Session
      <4>2. ws.item # NoItem => ws.item \in Item
        BY <2>1 DEF Session
      <4>3. QED
        BY <4>1, <4>2 DEF IdsOf, Current, Item
    <3>2. \A i \in IdsOf(ws.queue) \cup Current(ws) : i \notin Called(ws)
      BY <2>1 DEF Unique
    <3>3. \A i \in Ids : i \notin Called(ws) => ws.calls[i] = 0
      <4>1. \A i \in Ids : ws.calls[i] \in Nat
        BY <2>1 DEF Session
      <4>2. \A n \in Nat : ~(n > 0) => n = 0
        OBVIOUS
      <4>3. QED
        BY <4>1, <4>2 DEF Called
    <3>4. QED
      BY <3>1, <3>2, <3>3
  <2>4. \A i \in Ids : i \in ws.accepted <=>
          i \in IdsOf(ws.queue) \cup Current(ws) \cup ws.silenced \/ ws.calls[i] > 0
    BY <2>1, <2>2 DEF Located
  <2>5. QED
    BY <2>1, <2>3, <2>4 DEF Unique, IdsDistinct, RequestsAccounted
<1>2. QED
  BY Invariance, <1>1, PTL

(* At most one request of a type waits, which is what lets                 *)
(* wstq_remove_type skip an item.                                          *)
THEOREM QueuedTypesDistinct == Spec => []QueueTypesDistinct
<1>1. IInv => QueueTypesDistinct
  BY DEF IInv, SessionInv, Unique, TypesDistinct, QueueTypesDistinct
<1>2. QED
  BY Invariance, <1>1, PTL

(* A parser that comes back to a live transaction works for that one.      *)
THEOREM ParserSeesOwnRequest == Spec => []NoCrossTalk
<1>1. IInv => NoCrossTalk
  BY DEF IInv, SessionInv, Framed, NoCrossTalk
<1>2. QED
  BY Invariance, <1>1, PTL

(***************************************************************************)
(* The contract with the users of a session (TransSession).                *)
(***************************************************************************)

(* The session as TransSession sees it.                                    *)
Outside(w) == [active |-> w.item, queue |-> w.queue]

HeldIds(w) == IdsOf(w.queue) \cup Current(w)

(* A transaction that is under way will be told its end: the callback is   *)
(* withdrawn only by the call that ends it.                                *)
Wanted(w) == Running(w) => w.notify

(* How a session may go on when nobody asks it for anything.               *)
Unseen(w, v) ==
  /\ v.item = w.item /\ v.queue = w.queue /\ v.calls = w.calls
  /\ v.silenced = w.silenced /\ (v.state = "freed" <=> w.state = "freed")

Told(w, v) ==
  /\ w.item # NoItem /\ v.item = NoItem /\ v.queue = w.queue
  /\ v.calls = [w.calls EXCEPT ![w.item.id] = @ + 1]
  /\ v.silenced = w.silenced /\ (v.state = "freed" <=> w.state = "freed")

GivenBack(w, v) ==
  /\ w.state # "freed" /\ v.state = "freed"
  /\ v.item = NoItem /\ v.queue = <<>> /\ v.calls = w.calls
  /\ v.silenced = w.silenced \cup HeldIds(w)

Outcome(w, v) == Unseen(w, v) \/ Told(w, v) \/ GivenBack(w, v)

LEMMA HeldOutside ==
  ASSUME NEW w PROVE Contract!Held(Outside(w)) = HeldIds(w)
BY DEF Contract!Held, Contract!Busy, Outside, HeldIds, IdsOf, Current

LEMMA OutcomeRefines ==
  ASSUME Outcome(ws, ws'), Unique(ws)
  PROVE  [Contract!Next]_(Contract!vars)
<1>1. CASE Unseen(ws, ws')
  BY <1>1 DEF Unseen, Contract!vars
<1>2. CASE Told(ws, ws')
  <2>1. Contract!End
    BY <1>2 DEF Told, Contract!End, Contract!Busy, Contract!Ended
  <2>2. QED
    BY <2>1 DEF Contract!Next
<1>3. CASE GivenBack(ws, ws')
  <2>1. HeldIds(ws') = {}
    BY <1>3 DEF GivenBack, HeldIds, IdsOf, Current
  <2>2. Contract!Drop
    BY <1>3, <2>1, HeldOutside DEF GivenBack, Contract!Drop, Outside
  <2>3. Contract!Close
    BY <1>3, <2>2 DEF GivenBack, Contract!Close, Contract!Idle
  <2>4. QED
    BY <2>3 DEF Contract!Next
<1>4. QED
  BY <1>1, <1>2, <1>3 DEF Outcome

(* However a transaction that is under way ends.                           *)
LEMMA CompletedOutcome ==
  ASSUME NEW w, w \in Session, Running(w), w.item \in Item, w.notify,
         NEW res, NEW late \in BOOLEAN,
         NEW v \in wst_transaction_completed(w, res, late)
  PROVE  Outcome(w, v) /\ Wanted(v)
<1> DEFINE b == wst_context_reset(Closed(w), FALSE)
           done(ok) == Report(b, w.item.id, w.notify, ok, w.parser = "parse_completed")
<1>1. w.item.id \in Ids /\ w.item # NoItem
  BY WebSvcTransAssumption DEF Item
<1>2. CASE w.deleting /\ v = wst_context_free(w)
  <2>1. /\ v.state = "freed" /\ v.item = NoItem /\ v.queue = <<>> /\ v.calls = w.calls
        /\ v.silenced = w.silenced \cup IdsOf(w.queue) \cup Current(w)
    BY <1>2 DEF wst_context_free, Session
  <2>2. QED
    BY <2>1 DEF Outcome, GivenBack, HeldIds, Wanted, Running
<1>3. CASE v = Retried(Closed(w))
  BY <1>3 DEF Retried, Closed, Session, Outcome, Unseen, Wanted, Running
<1>4. ASSUME NEW ok, v = done(ok)
      PROVE  Outcome(w, v) /\ Wanted(v)
  <2>1. /\ v.state = "idle" /\ v.item = NoItem /\ v.queue = w.queue
        /\ v.calls = [w.calls EXCEPT ![w.item.id] = @ + 1] /\ v.silenced = w.silenced
    BY <1>4 DEF Report, wst_context_reset, Closed, Session
  <2>2. QED
    BY <1>1, <2>1 DEF Outcome, Told, Wanted, Running
<1>5. QED
  BY <1>2, <1>3, <1>4 DEF wst_transaction_completed

LEMMA StopOutcome ==
  ASSUME NEW w, SessionInv(w), Wanted(w), NEW now \in BOOLEAN,
         NEW v \in wst_stop_trans__int(w, now, TRUE)
  PROVE  Outcome(w, v) /\ Wanted(v)
<1>1. w \in Session
  BY DEF SessionInv, Typed
<1>2. CASE v = w
  BY <1>2 DEF Outcome, Unseen
<1>3. CASE Running(w) /\ now
  <2>1. [w EXCEPT !.notify = @ /\ TRUE] = w
    BY <1>1 DEF Session
  <2>2. v \in wst_transaction_completed(w, "aborted", FALSE)
    BY <1>3, <2>1 DEF wst_stop_trans__int
  <2>3. w.item \in Item
    BY <1>1, <1>3 DEF SessionInv, HasWork, Session
  <2>4. QED
    BY <1>1, <1>3, <2>2, <2>3, CompletedOutcome DEF Wanted
<1>4. CASE Running(w) /\ v = [w EXCEPT !.state = "stopping"]
  BY <1>1, <1>4 DEF Session, Outcome, Unseen, Wanted, Running
<1>5. QED
  BY <1>2, <1>3, <1>4 DEF wst_stop_trans__int

(* Requests that leave a session without being told.                       *)
Dropped(w, v) ==
  /\ v.calls = w.calls
  /\ v.silenced = w.silenced \cup (HeldIds(w) \ HeldIds(v))
  /\ v.state # "freed"
  /\ Wanted(v)

(* A request puts those of its type aside.                                 *)
LEMMA RemoveTypeReplaces ==
  ASSUME NEW w, SessionInv(w), Wanted(w), Running(w), ~w.deleting,
         NEW r \in Item, r.type # NoType,
         NEW v \in wstq_RemoveType(w, r.type)
  PROVE  /\ Outside(v) = Contract!Replaced(Outside(w), r)
         /\ Dropped(w, v)
<1> DEFINE t    == r.type
           z    == WithoutType(w.queue, t)
           gone == w.silenced \cup (IdsOf(w.queue) \ IdsOf(z))
           u    == [w EXCEPT !.queue = z, !.silenced = gone]
<1>1. /\ w \in Session /\ w.queue \in Seq(Item) /\ Unique(w) /\ w.item # NoItem
      /\ w.item \in Item /\ w.notify = TRUE /\ w.deleting = FALSE /\ t \in Types
  BY DEF SessionInv, Typed, Session, HasWork, Wanted, Item
<1>2. Contract!Others(w.queue, t) = z
  BY DEF Contract!Others, WithoutType
<1>3. IdsOf(z) \subseteq IdsOf(w.queue)
  BY <1>1, WithoutTypeProperties DEF Unique
<1>4. v \in (IF Running(u) /\ u.item.type = t
             THEN wst_stop_trans__int(u, TRUE, FALSE) ELSE {u})
  <2>1. u.state = w.state /\ u.item = w.item
    BY <1>1 DEF Session
  <2>2. u = [w EXCEPT !.queue = WithoutType(@, t),
                      !.silenced = @ \cup (IdsOf(w.queue) \ IdsOf(WithoutType(w.queue, t)))]
    BY <1>1 DEF Session
  <2>3. QED
    BY <2>1, <2>2 DEF wstq_RemoveType, Running
<1> HIDE DEF z, gone
<1>5. /\ u.queue = z /\ u.silenced = gone /\ u.state = w.state /\ u.item = w.item
      /\ u.deleting = FALSE /\ u.calls = w.calls /\ u.notify = TRUE /\ Running(u)
      /\ u.parser = w.parser
  BY <1>1 DEF Session, Running
<1>6. CASE w.item.type # t
  <2>1. v = u
    BY <1>4, <1>5, <1>6
  <2> HIDE DEF u
  <2>2. Outside(v) = Contract!Replaced(Outside(w), r)
    BY <1>1, <1>2, <1>5, <1>6, <2>1 DEF Outside, Contract!Replaced, Contract!Busy
  <2>3. HeldIds(w) \ HeldIds(v) = IdsOf(w.queue) \ IdsOf(z)
    BY <1>1, <1>3, <1>5, <2>1 DEF HeldIds, Current, Unique
  <2>4. QED
    BY <1>5, <2>1, <2>2, <2>3 DEF Dropped, Running, Wanted, gone
<1>7. CASE w.item.type = t
  <2> DEFINE b == [u EXCEPT !.notify = u.notify /\ FALSE]
             c == wst_context_reset(Closed(b), FALSE)
  <2>1. v \in wst_transaction_completed(b, "aborted", FALSE)
    BY <1>4, <1>5, <1>7 DEF wst_stop_trans__int
  <2>2. /\ b.queue = z /\ b.silenced = gone /\ b.item = w.item
        /\ b.deleting = FALSE /\ b.calls = w.calls /\ b.notify = FALSE
    BY <1>1, <1>5 DEF Session
  <2>3. ~MayRetry(b, "aborted", FALSE)
    BY DEF MayRetry
  <2>4. v = Report(c, w.item.id, FALSE, FALSE, b.parser = "parse_completed")
    BY <2>1, <2>2, <2>3 DEF wst_transaction_completed
  <2>5. v = [c EXCEPT !.silenced = @ \cup {w.item.id}]
    BY <2>4 DEF Report
  <2>6. /\ v.queue = z /\ v.item = NoItem /\ v.calls = w.calls /\ v.state = "idle"
        /\ v.silenced = gone \cup {w.item.id}
    BY <1>1, <2>5 DEF wst_context_reset, Closed, Session
  <2>7. Outside(v) = Contract!Replaced(Outside(w), r)
    BY <1>1, <1>2, <1>7, <2>6 DEF Outside, Contract!Replaced, Contract!Busy
  <2>8. HeldIds(w) \ HeldIds(v) = (IdsOf(w.queue) \ IdsOf(z)) \cup {w.item.id}
    BY <1>1, <1>3, <2>6 DEF HeldIds, Current, Unique
  <2>9. QED
    BY <2>6, <2>7, <2>8 DEF Dropped, Wanted, Running, gone
<1>8. QED
  BY <1>6, <1>7

(* What a call leaves behind is what asking the contract's session leaves. *)
LEMMA StartOutcome ==
  ASSUME NEW w, SessionInv(w), Wanted(w), ~w.deleting, w.state # "freed",
         NEW r \in Item, r.id \notin Located(w),
         NEW s \in wst_start_trans__int(w, r)
  PROVE  /\ s.ok \in BOOLEAN
         /\ IF s.ok THEN Outside(s.ws) \in Contract!Accept(Outside(w), r)
                    ELSE Outside(s.ws) \in Contract!Refuse(Outside(w), r)
         /\ s.ok => r.id \in HeldIds(s.ws)
         /\ Dropped(w, s.ws)
<1> DEFINE t == Contract!Replaced(Outside(w), r)
<1>1. PICK v \in IF Running(w) /\ r.type # NoType THEN wstq_RemoveType(w, r.type) ELSE {w} :
        s \in (IF Running(v) THEN wstq_Add(v, r)
               ELSE {Started(wst_context_load(v, r)), NotStarted(wst_context_reset(v, r.v2))})
  BY DEF wst_start_trans__int
<1>2. Running(w) <=> w.item # NoItem
  BY DEF SessionInv, HasWork
<1>3. Outside(v) = t /\ Dropped(w, v)
  <2>1. CASE Running(w) /\ r.type # NoType
    BY <1>1, <2>1, RemoveTypeReplaces
  <2>2. CASE ~(Running(w) /\ r.type # NoType)
    <3>1. v = w
      BY <1>1, <2>2
    <3>2. t = Outside(w)
      BY <1>2, <2>2 DEF Contract!Replaced, Contract!Busy, Outside
    <3>3. QED
      BY <3>1, <3>2 DEF Dropped
  <2>3. QED
    BY <2>1, <2>2
<1>4. SessionInv(v) /\ v.state # "freed" /\ Located(v) = Located(w) /\ ~v.deleting
  <2>1. CASE Running(w) /\ r.type # NoType
    <3>1. r.type \in Types
      BY <2>1 DEF Item
    <3>2. QED
      BY <1>1, <2>1, <3>1, RemoveTypeProperties
  <2>2. CASE ~(Running(w) /\ r.type # NoType)
    BY <1>1, <2>2
  <2>3. QED
    BY <2>1, <2>2
<1>5. /\ v \in Session /\ v.queue \in Seq(Item) /\ (Running(v) <=> v.item # NoItem)
      /\ r.id \notin HeldIds(v) /\ r.id \notin HeldIds(w)
  BY <1>4 DEF SessionInv, HasWork, Typed, Session, Located, HeldIds
<1>6. Contract!Busy(t) <=> Running(v)
  BY <1>3, <1>5 DEF Contract!Busy, Outside
<1>7. t.queue = v.queue /\ t = [active |-> v.item, queue |-> v.queue]
  BY <1>3 DEF Outside
<1> HIDE DEF t
<1>8. CASE Running(v) /\ Len(v.queue) < MaxQueue /\ s = Started([v EXCEPT !.queue = Append(@, r)])
  <2>1. /\ s.ok = TRUE /\ s.ws.queue = Append(v.queue, r) /\ s.ws.item = v.item
        /\ s.ws.calls = v.calls /\ s.ws.silenced = v.silenced /\ s.ws.state = v.state
        /\ s.ws.notify = v.notify
    BY <1>5, <1>8 DEF Started, Session
  <2>2. IdsOf(s.ws.queue) = IdsOf(v.queue) \cup {r.id}
    BY <1>5, <2>1, AppendIds
  <2>3. HeldIds(s.ws) = HeldIds(v) \cup {r.id}
    BY <2>1, <2>2 DEF HeldIds, Current
  <2>4. Outside(s.ws) \in Contract!Accept(Outside(w), r)
    <3>1. Outside(s.ws) = [active |-> v.item, queue |-> Append(v.queue, r)]
      BY <2>1 DEF Outside
    <3>2. [t EXCEPT !.queue = Append(t.queue, r)]
            = [active |-> v.item, queue |-> Append(v.queue, r)]
      BY <1>7
    <3>3. Contract!Busy(t) /\ Len(t.queue) < MaxQueue /\ ~(Len(t.queue) >= MaxQueue)
      BY <1>5, <1>6, <1>7, <1>8, LenProperties, WebSvcTransAssumption
    <3>4. QED
      BY <3>1, <3>2, <3>3 DEF Contract!Accept, t
  <2>5. QED
    BY <1>3, <1>4, <1>5, <2>1, <2>3, <2>4 DEF Dropped, Wanted, Running
<1>9. CASE Running(v) /\ ~(Len(v.queue) < MaxQueue) /\ s = NotStarted(v)
  <2>1. s.ok = FALSE /\ s.ws = v
    BY <1>9 DEF NotStarted
  <2>2. Outside(s.ws) \in Contract!Refuse(Outside(w), r)
    BY <1>3, <1>6, <1>7, <1>9, <2>1 DEF Contract!Refuse, t
  <2>3. QED
    BY <1>3, <2>1, <2>2
<1>10. CASE ~Running(v) /\ s = Started(wst_context_load(v, r))
  <2>1. /\ s.ok = TRUE /\ s.ws.queue = v.queue /\ s.ws.item = r
        /\ s.ws.calls = v.calls /\ s.ws.silenced = v.silenced /\ s.ws.state = "active"
        /\ s.ws.notify = TRUE
    BY <1>5, <1>10 DEF Started, wst_context_load, wst_context_reset, Session
  <2>2. HeldIds(v) = IdsOf(v.queue) /\ HeldIds(s.ws) = HeldIds(v) \cup {r.id}
    BY <1>5, <1>10, <2>1, WebSvcTransAssumption DEF HeldIds, Current
  <2>3. Outside(s.ws) \in Contract!Accept(Outside(w), r)
    <3>1. Outside(s.ws) = [t EXCEPT !.active = r]
      BY <1>7, <2>1 DEF Outside
    <3>2. QED
      BY <1>6, <1>10, <3>1 DEF Contract!Accept, t
  <2>4. QED
    BY <1>3, <1>5, <2>1, <2>2, <2>3 DEF Dropped, Wanted, Running
<1>11. CASE ~Running(v) /\ s = NotStarted(wst_context_reset(v, r.v2))
  <2>1. /\ s.ok = FALSE /\ s.ws.queue = v.queue /\ s.ws.item = NoItem /\ s.ws.item = v.item
        /\ s.ws.calls = v.calls /\ s.ws.silenced = v.silenced /\ s.ws.state = "idle"
    BY <1>5, <1>11 DEF NotStarted, wst_context_reset, Session
  <2>2. HeldIds(s.ws) = HeldIds(v)
    BY <2>1 DEF HeldIds, Current
  <2>3. Outside(s.ws) \in Contract!Refuse(Outside(w), r)
    <3>1. Outside(s.ws) = t
      BY <1>7, <2>1 DEF Outside
    <3>2. QED
      BY <1>6, <1>11, <3>1 DEF Contract!Refuse, t
  <2>4. QED
    BY <1>3, <2>1, <2>2, <2>3 DEF Dropped, Wanted, Running
<1>12. QED
  BY <1>1, <1>8, <1>9, <1>10, <1>11 DEF wstq_Add

(***************************************************************************)
(* The steps of the contract.                                              *)
(***************************************************************************)

Keeps == [Contract!Next]_(Contract!vars) /\ Wanted(ws')

LEMMA OutcomeKeeps ==
  ASSUME IInv, Outcome(ws, ws'), Wanted(ws')
  PROVE  Keeps
BY OutcomeRefines DEF IInv, SessionInv, Keeps

LEMMA StartTransKeeps ==
  ASSUME IInv, Wanted(ws), NEW r \in Item, wst_start_trans(r)
  PROVE  Keeps
<1>1. /\ SessionInv(ws) /\ Located(ws) = ws.accepted /\ r.id \in Ids /\ ws \in Session
      /\ Unique(ws)
  BY DEF IInv, SessionInv, Typed, Item
<1>2. ~ws.deleting /\ ws.state # "freed" /\ r.id \notin Located(ws)
  BY <1>1 DEF wst_start_trans, Usable
<1>3. PICK s \in wst_start_trans__int(ws, r) :
        ws' = IF s.ok THEN [s.ws EXCEPT !.accepted = @ \cup {r.id}] ELSE s.ws
  BY DEF wst_start_trans
<1>4. /\ s.ok \in BOOLEAN
      /\ IF s.ok THEN Outside(s.ws) \in Contract!Accept(Outside(ws), r)
                 ELSE Outside(s.ws) \in Contract!Refuse(Outside(ws), r)
      /\ Dropped(ws, s.ws)
  BY <1>1, <1>2, <1>3, StartOutcome
<1>5. SessionInv(s.ws)
  BY <1>1, <1>2, StartProperties
<1>6. /\ ws'.item = s.ws.item /\ ws'.queue = s.ws.queue /\ ws'.calls = s.ws.calls
      /\ ws'.silenced = s.ws.silenced /\ ws'.state = s.ws.state /\ ws'.notify = s.ws.notify
  BY <1>3, <1>4, <1>5 DEF SessionInv, Typed, Session
<1>7. Outside(ws') = Outside(s.ws) /\ HeldIds(ws') = HeldIds(s.ws)
  BY <1>6 DEF Outside, HeldIds, Current
<1>8. Contract!Drop
  BY <1>4, <1>6, <1>7, HeldOutside DEF Contract!Drop, Dropped, Outside
<1>9. Contract!Fresh(r)
  <2>1. r.id \notin HeldIds(ws) \cup ws.silenced
    BY <1>2 DEF Located, HeldIds
  <2>2. ws.calls[r.id] = 0
    BY <1>1, <1>2 DEF Located, Called, Session
  <2>3. QED
    BY <2>1, <2>2, HeldOutside DEF Contract!Fresh, Outside
<1>10. Contract!Ask(r)
  <2>1. Outside(ws') \in Contract!Accept(Outside(ws), r) \cup Contract!Refuse(Outside(ws), r)
    BY <1>4, <1>7
  <2>2. ws'.state # "freed" /\ ws'.calls = ws.calls
    BY <1>4, <1>6 DEF Dropped
  <2>3. QED
    BY <1>2, <1>8, <1>9, <2>1, <2>2 DEF Contract!Ask, Outside
<1>11. Wanted(ws')
  BY <1>4, <1>6 DEF Dropped, Wanted, Running
<1>12. QED
  BY <1>10, <1>11 DEF Keeps, Contract!Next

LEMMA ProcessQueueItemKeeps ==
  ASSUME IInv, Wanted(ws), wst_process_queue_item
  PROVE  Keeps
<1> DEFINE r == Head(ws.queue)
           z == Tail(ws.queue)
           w == [ws EXCEPT !.queue = z]
<1>1. /\ ws \in Session /\ ws.queue \in Seq(Item) /\ ws.queue # <<>> /\ Unique(ws)
      /\ Located(ws) = ws.accepted /\ SessionInv(ws) /\ Len(ws.queue) <= MaxQueue
      /\ ~ws.deleting /\ ws.state # "freed"
  BY DEF IInv, SessionInv, Typed, Session, wst_process_queue_item, Usable
<1>2. /\ r \in Item /\ z \in Seq(Item)
      /\ Len(z) = Len(ws.queue) - 1 /\ Len(ws.queue) \in Nat \ {0}
      /\ IdsOf(ws.queue) = IdsOf(z) \cup {r.id} /\ r.id \notin IdsOf(z)
      /\ IdsDistinct(z) /\ TypesDistinct(z)
  BY <1>1, TailIds DEF Unique
<1>3. w = [ws EXCEPT !.queue = Tail(@)]
  BY <1>1 DEF Session
<1>4. PICK s \in wst_start_trans__int(w, r) :
        ws' = IF s.ok THEN s.ws ELSE [s.ws EXCEPT !.silenced = @ \cup {r.id}]
  BY <1>3 DEF wst_process_queue_item
<1>5. /\ Contract!First(Outside(ws)) = r
      /\ Contract!Without(Outside(ws)) = [active |-> ws.item, queue |-> z]
  <2> DEFINE o == Outside(ws)
  <2>1. o = [active |-> ws.item, queue |-> ws.queue] /\ o.queue = ws.queue
    BY DEF Outside
  <2>2. Contract!First(o) = r /\ Contract!Without(o) = [o EXCEPT !.queue = z]
    BY <2>1 DEF Contract!First, Contract!Without
  <2> HIDE DEF o, z
  <2>3. [o EXCEPT !.queue = z] = [active |-> ws.item, queue |-> z]
    BY <2>1
  <2>4. QED
    BY <2>2, <2>3 DEF o
<1> HIDE DEF r, z
<1>6. /\ w \in Session /\ w.queue = z /\ w.state = ws.state /\ w.item = ws.item
      /\ w.deleting = ws.deleting /\ w.calls = ws.calls /\ w.silenced = ws.silenced
      /\ w.accepted = ws.accepted /\ w.connecting = ws.connecting /\ w.socket = ws.socket
      /\ w.receiving = ws.receiving /\ w.stack = ws.stack /\ w.parser = ws.parser
      /\ w.notify = ws.notify
  BY <1>1, <1>2 DEF Session
<1> HIDE DEF w
<1>7. SessionInv(w) /\ Wanted(w) /\ r.id \notin Located(w) /\ HeldIds(ws) = HeldIds(w) \cup {r.id}
  <2>1. Current(w) = Current(ws) /\ Called(w) = Called(ws) /\ (Running(w) <=> Running(ws))
    BY <1>6 DEF Current, Called, Running
  <2>2. Typed(w)
    <3>1. Len(z) <= MaxQueue
      BY <1>1, <1>2, WebSvcTransAssumption
    <3>2. QED
      BY <1>6, <3>1 DEF Typed
  <2>3. Unique(w)
    BY <1>1, <1>2, <1>6, <2>1 DEF Unique
  <2>4. HasWork(w)
    BY <1>1, <1>6, <2>1 DEF SessionInv, HasWork
  <2>5. Framed(w)
    BY <1>1, <1>6, <2>1 DEF SessionInv, Framed, Canceled, NoParser
  <2>6. r.id \notin Located(w)
    BY <1>1, <1>2, <1>6, <2>1 DEF Unique, Located
  <2>7. Wanted(w)
    BY <1>6, <2>1 DEF Wanted
  <2>8. HeldIds(ws) = HeldIds(w) \cup {r.id}
    BY <1>2, <1>6, <2>1 DEF HeldIds
  <2>9. QED
    BY <2>2, <2>3, <2>4, <2>5, <2>6, <2>7, <2>8 DEF SessionInv
<1>8. /\ s.ok \in BOOLEAN
      /\ IF s.ok THEN Outside(s.ws) \in Contract!Accept(Outside(w), r)
                 ELSE Outside(s.ws) \in Contract!Refuse(Outside(w), r)
      /\ s.ok => r.id \in HeldIds(s.ws)
      /\ Dropped(w, s.ws)
  BY <1>1, <1>2, <1>4, <1>6, <1>7, StartOutcome
<1>9. SessionInv(s.ws) /\ Located(s.ws) = Located(w) \cup (IF s.ok THEN {r.id} ELSE {})
  BY <1>1, <1>2, <1>6, <1>7, StartProperties
<1>10. /\ ws'.item = s.ws.item /\ ws'.queue = s.ws.queue /\ ws'.calls = s.ws.calls
       /\ ws'.state = s.ws.state /\ ws'.notify = s.ws.notify
       /\ ws'.silenced = s.ws.silenced \cup (IF s.ok THEN {} ELSE {r.id})
  BY <1>4, <1>8, <1>9 DEF SessionInv, Typed, Session
<1>11. Outside(ws') = Outside(s.ws) /\ HeldIds(ws') = HeldIds(s.ws)
  BY <1>10 DEF Outside, HeldIds, Current
<1>12. HeldIds(ws) \ HeldIds(ws') = (HeldIds(w) \ HeldIds(s.ws)) \cup (IF s.ok THEN {} ELSE {r.id})
  <2>1. CASE s.ok = TRUE
    BY <1>7, <1>8, <1>11, <2>1
  <2>2. CASE s.ok = FALSE
    BY <1>7, <1>9, <1>11, <2>2 DEF Located, HeldIds
  <2>3. QED
    BY <1>8, <2>1, <2>2
<1>13. Contract!Drop
  BY <1>6, <1>8, <1>10, <1>12, HeldOutside DEF Contract!Drop, Dropped, Outside
<1>14. Contract!ProcessQueue
  <2>1. Contract!Without(Outside(ws)) = Outside(w) /\ Contract!First(Outside(ws)) = r
    BY <1>5, <1>6 DEF Outside
  <2>2. Outside(ws') \in Contract!Accept(Outside(w), r) \cup Contract!Refuse(Outside(w), r)
    BY <1>8, <1>11
  <2>3. ws'.state # "freed" /\ ws'.calls = ws.calls
    BY <1>6, <1>8, <1>10 DEF Dropped
  <2>4. QED
    BY <1>1, <1>13, <2>1, <2>2, <2>3 DEF Contract!ProcessQueue, Outside
<1>15. Wanted(ws')
  BY <1>8, <1>10 DEF Dropped, Wanted, Running
<1>16. QED
  BY <1>14, <1>15 DEF Keeps, Contract!Next

LEMMA QueueClearKeeps ==
  ASSUME IInv, Wanted(ws), wst_queue_clear
  PROVE  Keeps
<1>1. /\ ws \in Session /\ Unique(ws) /\ ws.state # "freed"
      /\ ws' = [ws EXCEPT !.queue = <<>>, !.silenced = @ \cup IdsOf(ws.queue)]
  BY DEF IInv, SessionInv, Typed, wst_queue_clear, Usable
<1>2. /\ ws'.queue = <<>> /\ ws'.silenced = ws.silenced \cup IdsOf(ws.queue)
      /\ ws'.item = ws.item /\ ws'.calls = ws.calls /\ ws'.state = ws.state
      /\ ws'.notify = ws.notify
  BY <1>1 DEF Session
<1>3. HeldIds(ws) \ HeldIds(ws') = IdsOf(ws.queue)
  <2>1. IdsOf(ws'.queue) = {} /\ Current(ws') = Current(ws)
    BY <1>2 DEF IdsOf, Current
  <2>2. QED
    BY <1>1, <2>1 DEF HeldIds, Unique
<1>4. Contract!Drop
  BY <1>2, <1>3, HeldOutside DEF Contract!Drop, Outside
<1>5. Contract!Clear
  BY <1>1, <1>2, <1>4 DEF Contract!Clear, Contract!Cleared
<1>6. Wanted(ws')
  BY <1>2 DEF Wanted, Running
<1>7. QED
  BY <1>5, <1>6 DEF Keeps, Contract!Next

LEMMA TermKeeps ==
  ASSUME IInv, Wanted(ws), wst_term
  PROVE  Keeps
<1>1. ws \in Session /\ ws.state # "freed"
  BY DEF IInv, SessionInv, Typed, wst_term, Usable
<1>2. CASE Running(ws)
  <2>1. ws' = [ws EXCEPT !.deleting = TRUE, !.state = "stopping"]
    BY <1>2 DEF wst_term
  <2>2. /\ ws'.item = ws.item /\ ws'.queue = ws.queue /\ ws'.calls = ws.calls
        /\ ws'.silenced = ws.silenced /\ ws'.state = "stopping" /\ ws'.notify = ws.notify
    BY <1>1, <2>1 DEF Session
  <2>3. QED
    BY <1>1, <1>2, <2>2, OutcomeKeeps DEF Outcome, Unseen, Wanted
<1>3. CASE ~Running(ws)
  <2>1. ws' = wst_context_free(ws)
    BY <1>3 DEF wst_term
  <2>2. /\ ws'.state = "freed" /\ ws'.item = NoItem /\ ws'.queue = <<>>
        /\ ws'.calls = ws.calls
        /\ ws'.silenced = ws.silenced \cup IdsOf(ws.queue) \cup Current(ws)
    BY <1>1, <2>1 DEF wst_context_free, Session
  <2>3. QED
    BY <1>1, <2>2, OutcomeKeeps DEF Outcome, GivenBack, HeldIds, Wanted, Running
<1>4. QED
  BY <1>2, <1>3

(* Fields of the session that the connection does not touch.               *)
LEMMA CompletedKeeps ==
  ASSUME IInv, Wanted(ws), Running(ws),
         NEW w, w \in Session, w.item = ws.item, w.queue = ws.queue, w.state = ws.state,
         w.calls = ws.calls, w.silenced = ws.silenced, w.notify = ws.notify,
         NEW res, NEW late \in BOOLEAN,
         ws' \in wst_transaction_completed(w, res, late)
  PROVE  Keeps
<1>1. w.item \in Item /\ Running(w) /\ w.notify
  BY DEF IInv, SessionInv, Typed, HasWork, Session, Wanted, Running
<1>2. ASSUME NEW v \in wst_transaction_completed(w, res, late)
      PROVE  Outcome(w, v) /\ Wanted(v)
  BY <1>1, CompletedOutcome
<1>3. Outcome(w, ws') /\ Wanted(ws')
  BY <1>2
<1>4. Outcome(ws, ws')
  BY <1>3 DEF Outcome, Unseen, Told, GivenBack, HeldIds, Current
<1>5. QED
  BY <1>3, <1>4, OutcomeKeeps

LEMMA UnseenKeeps ==
  ASSUME IInv, Wanted(ws), Unseen(ws, ws'), ws'.state = ws.state, ws'.notify = ws.notify
  PROVE  Keeps
BY OutcomeKeeps DEF Outcome, Wanted, Running

LEMMA SocketConnectedKeeps ==
  ASSUME IInv, Wanted(ws), NEW outcome \in {"no_socket", "not_sent", "sent"},
         on_socket_connected(outcome)
  PROVE  Keeps
<1> DEFINE closed == [ws EXCEPT !.connecting = FALSE]
           open   == [ws EXCEPT !.connecting = FALSE, !.socket = TRUE]
<1>1. ws \in Session /\ Running(ws) /\ FALSE \in BOOLEAN
  BY DEF IInv, SessionInv, Typed, HasWork, on_socket_connected
<1>2. /\ closed \in Session /\ closed.item = ws.item /\ closed.queue = ws.queue
      /\ closed.state = ws.state /\ closed.calls = ws.calls
      /\ closed.silenced = ws.silenced /\ closed.notify = ws.notify
  BY <1>1 DEF Session
<1>3. /\ open \in Session /\ open.item = ws.item /\ open.queue = ws.queue
      /\ open.state = ws.state /\ open.calls = ws.calls
      /\ open.silenced = ws.silenced /\ open.notify = ws.notify
  BY <1>1 DEF Session
<1>4. \/ ws' \in wst_transaction_completed(closed, "failed", FALSE)
      \/ ws' \in wst_transaction_completed(open, "aborted", FALSE)
      \/ ws' \in wst_transaction_completed(open, "failed", FALSE)
      \/ ws' = [open EXCEPT !.receiving = TRUE]
  BY DEF on_socket_connected
<1>5. CASE ws' = [open EXCEPT !.receiving = TRUE]
  BY <1>1, <1>5, UnseenKeeps DEF Session, Unseen
<1> HIDE DEF closed, open
<1>6. QED
  BY <1>1, <1>2, <1>3, <1>4, <1>5, CompletedKeeps

(* A parser of the header or of the application goes on.                   *)
LEMMA ContinueUnseen ==
  ASSUME NEW w, w \in Session,
         NEW v, \/ \E p, rest : v = Continue(w, p, rest)
                \/ \E last : v = CallParser(w, last)
  PROVE  Unseen(w, v) /\ v.state = w.state /\ v.notify = w.notify
BY DEF Continue, CallParser, Session, Unseen

LEMMA DataReceivedKeeps ==
  ASSUME IInv, Wanted(ws), NEW read \in {"error", "nothing", "bytes"}, on_data_received(read)
  PROVE  Keeps
<1>1. ws \in Session /\ Running(ws) /\ FALSE \in BOOLEAN
  BY DEF IInv, SessionInv, Typed, HasWork, on_data_received
<1>2. \/ \E res : ws' \in wst_transaction_completed(ws, res, FALSE)
      \/ \E p, rest : ws' = Continue(ws, p, rest)
      \/ \E last : ws' = CallParser(ws, last)
  BY DEF on_data_received, Received, ReceivedNothing
<1>3. CASE \E res : ws' \in wst_transaction_completed(ws, res, FALSE)
  BY <1>1, <1>3, CompletedKeeps
<1>4. CASE \/ \E p, rest : ws' = Continue(ws, p, rest)
           \/ \E last : ws' = CallParser(ws, last)
  BY <1>1, <1>4, ContinueUnseen, UnseenKeeps
<1>5. QED
  BY <1>2, <1>3, <1>4

LEMMA ReturnKeeps ==
  ASSUME IInv, Wanted(ws), ReturnNext
  PROVE  Keeps
<1> DEFINE w == Popped(ws)
<1>1. ws \in Session /\ ws.stack # <<>>
  BY DEF IInv, SessionInv, Typed, ReturnNext, parser_returns, callback_returns
<1>2. /\ w \in Session /\ w.item = ws.item /\ w.queue = ws.queue
      /\ w.state = ws.state /\ w.calls = ws.calls /\ w.parser = ws.parser
      /\ w.silenced = ws.silenced /\ w.notify = ws.notify
  <2>1. Unseen(ws, w) /\ w.state = ws.state /\ w.notify = ws.notify /\ w.parser = ws.parser
    BY <1>1 DEF Popped, Session, Unseen
  <2>2. w \in Session
    BY <1>1, PoppedProperties DEF IInv, SessionInv, Typed
  <2>3. QED
    BY <2>1, <2>2 DEF Unseen
<1>3. CASE ws' = w
  BY <1>2, <1>3, UnseenKeeps DEF Unseen
<1>4. CASE parser_returns /\ ws' # w
  <2>1. Top.call = "parser" /\ ~Canceled(w)
    BY <1>4 DEF parser_returns
  <2>2. \/ \E res : ws' \in wst_transaction_completed(w, res, FALSE)
        \/ \E rest : ws' = Continue(w, "parse_completed", rest)
    BY <1>4 DEF parser_returns
  <2>3. Running(ws)
    <3>1. Len(ws.stack) \in 1 .. Len(ws.stack)
      BY <1>1, LenProperties, EmptySeq DEF Session
    <3>2. Current(ws) = {ws.stack[Len(ws.stack)].id}
      BY <1>2, <2>1, <3>1 DEF IInv, SessionInv, Framed, Canceled, Top
    <3>3. QED
      BY <3>2 DEF Current, IInv, SessionInv, HasWork
  <2> HIDE DEF w
  <2>4. CASE \E res : ws' \in wst_transaction_completed(w, res, FALSE)
    BY <1>2, <2>3, <2>4, CompletedKeeps
  <2>5. CASE \E rest : ws' = Continue(w, "parse_completed", rest)
    <3>1. Unseen(w, ws') /\ ws'.state = w.state /\ ws'.notify = w.notify
      BY <1>2, <2>5, ContinueUnseen
    <3>2. QED
      BY <1>2, <3>1, UnseenKeeps DEF Unseen
  <2>6. QED
    BY <2>2, <2>4, <2>5
<1>5. QED
  BY <1>3, <1>4 DEF ReturnNext, callback_returns

LEMMA StepKeeps == IInv /\ Wanted(ws) /\ [Next]_ws => Keeps
<1> SUFFICES ASSUME IInv, Wanted(ws), [Next]_ws PROVE Keeps
  OBVIOUS
<1>1. ASSUME NEW r \in Item, wst_start_trans(r) PROVE Keeps
  BY <1>1, StartTransKeeps
<1>2. ASSUME NEW now \in BOOLEAN, wst_stop_trans(now) PROVE Keeps
  BY <1>2, StopOutcome, OutcomeKeeps DEF IInv, wst_stop_trans
<1>3. CASE wst_process_queue_item
  BY <1>3, ProcessQueueItemKeeps
<1>4. CASE wst_queue_clear
  BY <1>4, QueueClearKeeps
<1>5. CASE wst_term
  BY <1>5, TermKeeps
<1>6. ASSUME NEW outcome \in {"no_socket", "not_sent", "sent"},
             on_socket_connected(outcome)
      PROVE  Keeps
  BY <1>6, SocketConnectedKeeps
<1>7. ASSUME NEW read \in {"error", "nothing", "bytes"}, on_data_received(read)
      PROVE  Keeps
  BY <1>7, DataReceivedKeeps
<1>8. ASSUME NEW late \in BOOLEAN, wst_watchdog(late) PROVE Keeps
  BY <1>8, CompletedKeeps DEF wst_watchdog, IInv, SessionInv, Typed
<1>9. CASE ReturnNext
  BY <1>9, ReturnKeeps
<1>10. CASE UNCHANGED ws
  BY <1>10, UnseenKeeps DEF Unseen
<1>11. QED
  BY <1>1, <1>2, <1>3, <1>4, <1>5, <1>6, <1>7, <1>8, <1>9, <1>10
     DEF Next, ApplicationNext, EventNext

LEMMA InitKeeps == Init => Contract!Init /\ Wanted(ws)
<1> SUFFICES ASSUME Init PROVE Contract!Init /\ Wanted(ws)
  OBVIOUS
<1>1. /\ ws.state = "idle" /\ ws.item = NoItem /\ ws.queue = <<>> /\ ws.silenced = {}
      /\ ws.calls = [i \in Ids |-> 0]
  BY DEF Init
<1>2. Contract!RequestIds = Ids
  <2>1. \A i \in Ids : [id |-> i, type |-> NoType, v2 |-> TRUE] \in Item
    BY DEF Item
  <2>2. Ids \subseteq Contract!RequestIds
    <3>1. SUFFICES ASSUME NEW i \in Ids PROVE i \in Contract!RequestIds
      OBVIOUS
    <3>2. [id |-> i, type |-> NoType, v2 |-> TRUE].id = i
      OBVIOUS
    <3>3. QED
      BY <2>1, <3>2 DEF Contract!RequestIds
  <2>3. Contract!RequestIds \subseteq Ids
    BY DEF Contract!RequestIds, Item
  <2>4. QED
    BY <2>2, <2>3
<1>3. QED
  BY <1>1, <1>2 DEF Contract!Init, Contract!Idle, Wanted, Running

(* The session keeps its contract: whatever connections, parsers, retries, *)
(* the watchdog and re-entrant calls do, users see one request worked for, *)
(* the others started in their order, an older request put aside only by   *)
(* one of its type, and each end told once.                                *)
THEOREM ImplementsContract == Spec => ImplementsTransSession
<1>1. Spec => [](IInv /\ Wanted(ws))
  <2>1. IInv /\ Wanted(ws) /\ [Next]_ws => Wanted(ws)'
    <3>1. Keeps => Wanted(ws)'
      BY DEF Keeps, Wanted, Running
    <3>2. QED
      BY <3>1, StepKeeps
  <2>2. Init => Wanted(ws)
    BY InitKeeps
  <2>3. QED
    BY <2>1, <2>2, InitIInv, StepIInv, PTL DEF Spec
<1>2. IInv /\ Wanted(ws) /\ [Next]_ws => [Contract!Next]_(Contract!vars)
  BY StepKeeps DEF Keeps
<1>3. Init => Contract!Init
  BY InitKeeps
<1>4. QED
  BY <1>1, <1>2, <1>3, PTL DEF Spec, ImplementsTransSession, Contract!Spec
=============================================================================
