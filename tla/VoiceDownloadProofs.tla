------------------------ MODULE VoiceDownloadProofs ------------------------
(***************************************************************************)
(* Proofs about VoiceDownload, for any number of languages, prompts and    *)
(* slots of the queue, and any number of downloads and runs.  The calls    *)
(* in progress are a sequence; the invariant says what they may still do,  *)
(* and accounts for every file of the set that is counted.                 *)
(***************************************************************************)
EXTENDS VoiceDownload, FiniteSetTheorems, SequenceTheorems, TLAPS

Session ==
  [queue : Seq(Requests), downloading : BOOLEAN, current : Requests \cup {Idle},
   files : SUBSET (Texts \X Files), blank : SUBSET (Texts \X Files), url : BOOLEAN,
   updates : Nat, name : Texts, queued : Texts,
   count : 0 .. NumPrompts + 1, watched : BOOLEAN, login : BOOLEAN,
   saved : [name : Texts, queued : Texts], calls : Seq(Frames),
   others : Nat, downloads : Nat, restarts : Nat,
   mixed : BOOLEAN, declared : [Langs -> {"no", "pure", "mixed"}]]

Positions(c) == 1 .. Len(c)

(* The files that are there, or whose owner was told so for want of a URL. *)
Known(s) == s.files \cup s.blank

(* Some call that is still to be executed does this.                       *)
Pending(s, do) == \E k \in Positions(s.calls) : s.calls[k].do = do

(* What is counted for the present set when its transfer succeeds, and the *)
(* calls that are still to ask for a file of it.                           *)
Fresh(r) == r.kind = "sound" /\ r.fresh
Asks(f)  == f.do = "ask" /\ f.what.kind = "sound"
NoAsks(s) == \A k \in Positions(s.calls) : ~ Asks(s.calls[k])

(* No set waits behind none, or behind itself.                             *)
Waits(c) == c.queued # None => c.name # None /\ c.name # c.queued

(* The flag is up for a transfer or for the one call that will take it     *)
(* down.                                                                   *)
Single(s) ==
  \A j, k \in Positions(s.calls) :
    s.calls[j].do = "finish" /\ s.calls[k].do = "finish" => j = k

Flagged(s) ==
  /\ Single(s)
  /\ s.downloading <=> s.current # Idle \/ Pending(s, "finish")
  /\ ~ (s.current # Idle /\ Pending(s, "finish"))

(* A request that nothing precedes is about to be started.                 *)
Started(s) == s.queue # <<>> /\ ~ s.downloading => Pending(s, "start")

(* The calls that ask for the files of a set follow one another, apart     *)
(* from what the one before has started, and no other set starts before    *)
(* they are executed.                                                      *)
Shape(s) ==
  /\ \A k \in Positions(s.calls) : s.calls[k].do = "resume" => k = Len(s.calls)
  /\ \A k \in Positions(s.calls) : Asks(s.calls[k]) => Fresh(s.calls[k].what) /\ ~ s.mixed
  /\ \A j, k \in Positions(s.calls) :
       j < k /\ s.calls[j].do = "ask" /\ Asks(s.calls[k]) =>
         \A i \in j .. k : Asks(s.calls[i])
  /\ \A j, k \in Positions(s.calls) :
       j < k /\ s.calls[j].do \in {"start", "finish"} /\ Asks(s.calls[k]) =>
         Len(s.queue) <= 1 /\ \A i \in Positions(s.queue) : Fresh(s.queue[i])

(* No request for the file waits, and it is not transferred.               *)
Unasked(s, i) ==
  /\ \A k \in Positions(s.calls) : Asks(s.calls[k]) => s.calls[k].what.file # i
  /\ \A k \in Positions(s.queue) : Fresh(s.queue[k]) => s.queue[k].file # i
  /\ Fresh(s.current) => s.current.file # i

(* Of the set lang the files D are counted; what is still to come for it   *)
(* are other files, each asked for once.                                   *)
Accounts(s, lang, D) ==
  /\ s.name # None => lang = s.name
  /\ s.count = Cardinality(D)
  /\ \A i \in D : <<lang, i>> \in Known(s) /\ Unasked(s, i)
  /\ \A k \in Positions(s.calls) : Asks(s.calls[k]) => s.calls[k].what.lang = lang
  /\ \A k \in Positions(s.queue) : Fresh(s.queue[k]) => s.queue[k].lang = lang
  /\ Fresh(s.current) => s.current.lang = lang
  /\ \A j, k \in Positions(s.calls) :
       Asks(s.calls[j]) /\ Asks(s.calls[k]) /\ j # k =>
         s.calls[j].what.file # s.calls[k].what.file
  /\ \A j, k \in Positions(s.queue) :
       Fresh(s.queue[j]) /\ Fresh(s.queue[k]) /\ j # k => s.queue[j].file # s.queue[k].file
  /\ \A j \in Positions(s.calls), k \in Positions(s.queue) :
       Asks(s.calls[j]) /\ Fresh(s.queue[k]) => s.calls[j].what.file # s.queue[k].file
  /\ Fresh(s.current) =>
       /\ \A j \in Positions(s.calls) : Asks(s.calls[j]) => s.calls[j].what.file # s.current.file
       /\ \A k \in Positions(s.queue) : Fresh(s.queue[k]) => s.queue[k].file # s.current.file

Accounted(s) == ~ s.mixed => \E lang \in Texts, D \in SUBSET Files : Accounts(s, lang, D)

(* The same, of a session and a request that was taken from it.            *)
Keeps(s, r) ==
  ~ s.mixed => \E lang \in Texts, D \in SUBSET Files :
                 /\ Accounts(s, lang, D)
                 /\ Fresh(r) => r.lang = lang /\ r.file \notin D /\ Unasked(s, r.file)

Pure(s) == \A l \in Langs : s.declared[l] = "pure" => \A i \in Files : <<l, i>> \in Known(s)

Regular(s) ==
  /\ s \in Session /\ Len(s.queue) <= MaxQueue /\ Waits(s.saved)
  /\ Shape(s) /\ Accounted(s) /\ Pure(s)

Valid(s) == Regular(s) /\ Flagged(s) /\ Started(s) /\ Waits(s)

IInv == Valid(dl)

(***************************************************************************)
(* Sequences.                                                              *)
(***************************************************************************)

LEMMA Sizes ==
  /\ NumPrompts \in Nat /\ NumPrompts >= 1 /\ MaxQueue \in Nat /\ MaxQueue >= 1
  /\ IsFiniteSet(Files) /\ Cardinality(Files) = NumPrompts
  /\ None \in Texts /\ Langs \subseteq Texts /\ \A l \in Langs : l # None
<1>1. NumPrompts \in Nat /\ NumPrompts >= 1 /\ MaxQueue \in Nat /\ MaxQueue >= 1
  BY VoiceDownloadAssumption
<1>2. IsFiniteSet(Files) /\ Cardinality(Files) = NumPrompts
  BY <1>1, FS_Interval DEF Files
<1>3. None \in Texts /\ Langs \subseteq Texts /\ \A l \in Langs : l # None
  BY VoiceDownloadAssumption DEF Texts
<1>4. QED
  BY <1>1, <1>2, <1>3

(* A call comes before others, and the first of them is executed.          *)
LEMMA PushCall ==
  ASSUME NEW c \in Seq(Frames), NEW f \in Frames
  PROVE  /\ <<f>> \o c \in Seq(Frames) /\ Len(<<f>> \o c) = Len(c) + 1
         /\ (<<f>> \o c)[1] = f /\ 1 \in Positions(<<f>> \o c)
         /\ \A k \in Positions(c) : k + 1 \in Positions(<<f>> \o c) /\ (<<f>> \o c)[k + 1] = c[k]
         /\ \A k \in Positions(<<f>> \o c) :
              k = 1 \/ (k > 1 /\ k - 1 \in Positions(c) /\ (<<f>> \o c)[k] = c[k - 1])
<1> DEFINE p == <<f>> \o c
           n == Len(c)
<1>1. n \in Nat /\ p \in Seq(Frames) /\ Len(p) = n + 1 /\ p[1] = f
      /\ \A k \in 1 .. n + 1 : k # 1 => p[k] = c[k - 1]
  <2>1. /\ <<f>> \in Seq(Frames) /\ Len(<<f>>) = 1 /\ <<f>>[1] = f /\ n \in Nat
    OBVIOUS
  <2>2. /\ p \in Seq(Frames) /\ Len(p) = Len(<<f>>) + n
        /\ \A k \in 1 .. Len(<<f>>) + n :
             p[k] = IF k <= Len(<<f>>) THEN <<f>>[k] ELSE c[k - Len(<<f>>)]
    BY <2>1, ConcatProperties
  <2> HIDE DEF p, n
  <2>3. Len(p) = n + 1 /\ 1 \in 1 .. n + 1 /\ p[1] = f
    BY <2>1, <2>2
  <2>4. \A k \in 1 .. n + 1 : k # 1 => ~ (k <= 1)
    BY <2>1
  <2>5. \A k \in 1 .. n + 1 : k # 1 => p[k] = c[k - 1]
    BY <2>1, <2>2, <2>4
  <2>6. QED
    BY <2>1, <2>2, <2>3, <2>5
<1> HIDE DEF p
<1>2. Positions(p) = 1 .. n + 1 /\ Positions(c) = 1 .. n
  BY <1>1 DEF Positions
<1> HIDE DEF n
<1>3. \A k \in 1 .. n : k + 1 \in 1 .. n + 1 /\ k + 1 # 1 /\ (k + 1) - 1 = k
  BY <1>1
<1>4. \A k \in 1 .. n + 1 : k = 1 \/ (k > 1 /\ k # 1 /\ k - 1 \in 1 .. n)
  BY <1>1
<1>5. 1 \in 1 .. n + 1
  BY <1>1
<1>6. \A k \in Positions(c) : k + 1 \in Positions(p) /\ p[k + 1] = c[k]
  BY <1>1, <1>2, <1>3
<1>7. \A k \in Positions(p) : k = 1 \/ (k > 1 /\ k - 1 \in Positions(c) /\ p[k] = c[k - 1])
  BY <1>1, <1>2, <1>4
<1>8. QED
  BY <1>1, <1>2, <1>5, <1>6, <1>7 DEF p, n

LEMMA PopCall ==
  ASSUME NEW S, NEW c \in Seq(S), c # <<>>
  PROVE  /\ Tail(c) \in Seq(S) /\ Len(c) = Len(Tail(c)) + 1 /\ Len(Tail(c)) \in Nat
         /\ Head(c) \in S /\ c[1] = Head(c) /\ 1 \in Positions(c)
         /\ \A k \in Positions(Tail(c)) : k + 1 \in Positions(c) /\ Tail(c)[k] = c[k + 1]
         /\ \A k \in Positions(c) :
              k = 1 \/ (k > 1 /\ k - 1 \in Positions(Tail(c)) /\ c[k] = Tail(c)[k - 1])
<1> DEFINE t == Tail(c)
           n == Len(t)
<1>1. /\ t \in Seq(S) /\ Len(c) = n + 1 /\ n \in Nat /\ Head(c) \in S /\ c[1] = Head(c)
      /\ \A k \in 1 .. n : t[k] = c[k + 1]
  OBVIOUS
<1> HIDE DEF t
<1>2. Positions(c) = 1 .. n + 1 /\ Positions(t) = 1 .. n
  BY <1>1 DEF Positions
<1> HIDE DEF n
<1>3. \A k \in 1 .. n : k + 1 \in 1 .. n + 1
  BY <1>1
<1>4. \A k \in 1 .. n + 1 : k = 1 \/ (k > 1 /\ k - 1 \in 1 .. n /\ (k - 1) + 1 = k)
  BY <1>1
<1>5. 1 \in 1 .. n + 1
  BY <1>1
<1>6. \A k \in Positions(c) : k = 1 \/ (k > 1 /\ k - 1 \in Positions(t) /\ c[k] = t[k - 1])
  BY <1>1, <1>2, <1>4
<1>7. \A k \in Positions(t) : k + 1 \in Positions(c) /\ t[k] = c[k + 1]
  BY <1>1, <1>2, <1>3
<1>8. QED
  BY <1>1, <1>2, <1>5, <1>6, <1>7 DEF t, n

LEMMA PushBatch ==
  ASSUME NEW c \in Seq(Frames), NEW lang \in Texts
  PROVE  LET p == Batch(lang) \o c
             file(i) == [kind |-> "sound", lang |-> lang, file |-> i, fresh |-> TRUE]
         IN  /\ p \in Seq(Frames) /\ Len(p) = NumPrompts + Len(c)
             /\ \A i \in Files : i \in Positions(p) /\ p[i] = AskFor(file(i))
             /\ \A k \in Positions(c) :
                  k + NumPrompts \in Positions(p) /\ p[k + NumPrompts] = c[k]
             /\ \A k \in Positions(p) :
                  k \in Files \/ (k > NumPrompts /\ k - NumPrompts \in Positions(c)
                                  /\ p[k] = c[k - NumPrompts])
<1> DEFINE b == Batch(lang)
           m == NumPrompts
           n == Len(c)
           p == b \o c
           file(i) == [kind |-> "sound", lang |-> lang, file |-> i, fresh |-> TRUE]
<1>1. m \in Nat /\ n \in Nat
  BY Sizes
<1>2. \A i \in Files : AskFor(file(i)) \in Frames
  BY DEF AskFor, Frames, Requests
<1>3. b \in [1 .. m -> Frames] /\ \A i \in 1 .. m : b[i] = AskFor(file(i))
  BY <1>2 DEF Batch, Files
<1> HIDE DEF b, m
<1>4. b \in Seq(Frames) /\ Len(b) = m
  <2>1. b \in Seq(Frames)
    BY <1>1, <1>3, SeqDef
  <2>2. QED
    BY <1>1, <1>3, <2>1
<1>5. /\ p \in Seq(Frames) /\ Len(p) = m + n
      /\ \A k \in 1 .. m + n : p[k] = IF k <= m THEN b[k] ELSE c[k - m]
  <2>1. /\ p \in Seq(Frames) /\ Len(p) = Len(b) + Len(c)
        /\ \A k \in 1 .. Len(b) + Len(c) : p[k] = IF k <= Len(b) THEN b[k] ELSE c[k - Len(b)]
    BY <1>4, ConcatProperties
  <2> HIDE DEF p
  <2>2. QED
    BY <1>4, <2>1
<1> HIDE DEF p
<1>6. Positions(p) = 1 .. m + n /\ Positions(c) = 1 .. n /\ Files = 1 .. m
  BY <1>5 DEF Positions, Files, m
<1> HIDE DEF n, file
<1>7. \A i \in 1 .. m : i \in 1 .. m + n /\ i <= m
  BY <1>1
<1>8. \A k \in 1 .. n : k + m \in 1 .. m + n /\ ~ (k + m <= m) /\ (k + m) - m = k
  BY <1>1
<1>9. \A k \in 1 .. m + n : k \in 1 .. m \/ (k > m /\ ~ (k <= m) /\ k - m \in 1 .. n)
  BY <1>1
<1>10. \A i \in Files : i \in Positions(p) /\ p[i] = AskFor(file(i))
  BY <1>3, <1>5, <1>6, <1>7
<1>11. \A k \in Positions(c) : k + m \in Positions(p) /\ p[k + m] = c[k]
  BY <1>5, <1>6, <1>8
<1>12. \A k \in Positions(p) :
         k \in Files \/ (k > m /\ k - m \in Positions(c) /\ p[k] = c[k - m])
  BY <1>5, <1>6, <1>9
<1>13. QED
  BY <1>5, <1>10, <1>11, <1>12 DEF p, b, m, n, file

(* The queue takes a request, and may lose its oldest one.                 *)
LEMMA PushProperties ==
  ASSUME NEW q \in Seq(Requests), Len(q) <= MaxQueue, NEW r \in Requests
  PROVE  LET p == ResDataQueue_Push(q, r)
         IN  /\ p \in Seq(Requests) /\ Len(p) <= MaxQueue /\ p # <<>>
             /\ q = <<>> => Len(p) = 1
             /\ \E d \in {0, 1} :
                  \A k \in Positions(p) :
                    (k = Len(p) /\ p[k] = r)
                      \/ (k + d \in Positions(q) /\ k < Len(p) /\ p[k] = q[k + d])
<1> DEFINE p == ResDataQueue_Push(q, r)
<1>1. Len(q) \in Nat /\ (q = <<>> <=> Len(q) = 0)
  BY EmptySeq
<1>2. CASE Len(q) # MaxQueue
  <2>1. p = Append(q, r)
    BY <1>2 DEF ResDataQueue_Push
  <2>2. /\ p \in Seq(Requests) /\ Len(p) = Len(q) + 1 /\ p[Len(q) + 1] = r
        /\ \A k \in 1 .. Len(q) : p[k] = q[k]
    BY <2>1
  <2> HIDE DEF p
  <2> DEFINE n == Len(q)
  <2>3. n \in Nat /\ Len(p) = n + 1 /\ p[n + 1] = r /\ \A k \in 1 .. n : p[k] = q[k]
    BY <1>1, <2>2
  <2>4. Positions(p) = 1 .. n + 1 /\ Positions(q) = 1 .. n
    BY <2>3 DEF Positions
  <2>5. n + 1 <= MaxQueue
    BY <1>1, <1>2, Sizes
  <2> HIDE DEF n
  <2>6. \A k \in 1 .. n + 1 : k = n + 1 \/ (k + 0 \in 1 .. n /\ k + 0 = k /\ k < n + 1)
    BY <2>3
  <2>7. \A k \in Positions(p) :
          (k = Len(p) /\ p[k] = r) \/ (k + 0 \in Positions(q) /\ k < Len(p) /\ p[k] = q[k + 0])
    BY <2>3, <2>4, <2>6
  <2>8. p # <<>>
    BY <2>3
  <2>9. q = <<>> => Len(p) = 1
    BY <1>1, <2>3 DEF n
  <2>10. QED
    BY <2>2, <2>3, <2>5, <2>7, <2>8, <2>9 DEF p
<1>3. CASE Len(q) = MaxQueue
  <2>1. q # <<>>
    BY <1>1, <1>3, Sizes
  <2> DEFINE t == Tail(q)
             n == Len(t)
  <2>2. /\ t \in Seq(Requests) /\ Len(q) = n + 1 /\ n \in Nat
        /\ \A k \in 1 .. n : t[k] = q[k + 1]
    BY <2>1
  <2>3. p = Append(t, r)
    BY <1>3 DEF ResDataQueue_Push
  <2> HIDE DEF t
  <2>4. /\ p \in Seq(Requests) /\ Len(p) = n + 1 /\ p[n + 1] = r
        /\ \A k \in 1 .. n : p[k] = t[k]
    BY <2>2, <2>3
  <2> HIDE DEF p
  <2>5. Positions(p) = 1 .. n + 1 /\ Positions(q) = 1 .. n + 1
    BY <2>2, <2>4 DEF Positions
  <2>6. n + 1 <= MaxQueue
    BY <1>3, <2>2
  <2> HIDE DEF n
  <2>7. \A k \in 1 .. n + 1 :
          k = n + 1 \/ (k \in 1 .. n /\ k + 1 \in 1 .. n + 1 /\ k < n + 1)
    BY <2>2
  <2>8. \A k \in Positions(p) :
          (k = Len(p) /\ p[k] = r) \/ (k + 1 \in Positions(q) /\ k < Len(p) /\ p[k] = q[k + 1])
    BY <2>2, <2>4, <2>5, <2>7
  <2>9. p # <<>>
    BY <2>2, <2>4
  <2>10. QED
    BY <2>1, <2>4, <2>6, <2>8, <2>9 DEF p
<1>4. QED
  BY <1>2, <1>3

(***************************************************************************)
(* The fields that a step changes.                                         *)
(***************************************************************************)

SameSet(s, t) ==
  /\ t.files = s.files /\ t.blank = s.blank /\ t.name = s.name /\ t.queued = s.queued
  /\ t.count = s.count /\ t.saved = s.saved /\ t.mixed = s.mixed /\ t.declared = s.declared

SameFlow(s, t) ==
  t.queue = s.queue /\ t.downloading = s.downloading /\ t.current = s.current

SameWatch(s, t) == t.watched = s.watched /\ t.login = s.login

LEMMA FieldsTyped ==
  ASSUME NEW s \in Session
  PROVE  /\ s.queue \in Seq(Requests) /\ s.downloading \in BOOLEAN
         /\ s.current \in Requests \cup {Idle} /\ s.files \subseteq Texts \X Files
         /\ s.blank \subseteq Texts \X Files /\ s.url \in BOOLEAN /\ s.updates \in Nat
         /\ s.name \in Texts /\ s.queued \in Texts /\ s.count \in 0 .. NumPrompts + 1
         /\ s.watched \in BOOLEAN /\ s.login \in BOOLEAN
         /\ s.saved \in [name : Texts, queued : Texts] /\ s.calls \in Seq(Frames)
         /\ s.others \in Nat /\ s.downloads \in Nat /\ s.restarts \in Nat
         /\ s.mixed \in BOOLEAN /\ s.declared \in [Langs -> {"no", "pure", "mixed"}]
BY DEF Session

LEMMA CallsFields ==
  ASSUME NEW s \in Session, NEW c \in Seq(Frames)
  PROVE  LET t == [s EXCEPT !.calls = c]
         IN  t \in Session /\ t.calls = c /\ SameSet(s, t) /\ SameFlow(s, t) /\ SameWatch(s, t)
<1>1. [s EXCEPT !.calls = c] \in Session
  BY DEF Session
<1>2. QED
  BY <1>1 DEF Session, SameSet, SameFlow, SameWatch

LEMMA QueueFields ==
  ASSUME NEW s \in Session, NEW q \in Seq(Requests)
  PROVE  LET t == [s EXCEPT !.queue = q]
         IN  /\ t \in Session /\ t.queue = q /\ t.calls = s.calls
             /\ t.downloading = s.downloading /\ t.current = s.current
             /\ SameSet(s, t) /\ SameWatch(s, t)
<1>1. [s EXCEPT !.queue = q] \in Session
  BY DEF Session
<1>2. QED
  BY <1>1 DEF Session, SameSet, SameWatch

LEMMA TakeFields ==
  ASSUME NEW s \in Session, NEW q \in Seq(Requests)
  PROVE  LET t == [s EXCEPT !.queue = q, !.downloading = TRUE]
         IN  /\ t \in Session /\ t.queue = q /\ t.calls = s.calls
             /\ t.downloading = TRUE /\ t.current = s.current
             /\ SameSet(s, t) /\ SameWatch(s, t)
<1>1. [s EXCEPT !.queue = q, !.downloading = TRUE] \in Session
  BY DEF Session
<1>2. QED
  BY <1>1 DEF Session, SameSet, SameWatch

LEMMA CurrentFields ==
  ASSUME NEW s \in Session, NEW r \in Requests \cup {Idle}
  PROVE  LET t == [s EXCEPT !.current = r]
         IN  /\ t \in Session /\ t.current = r /\ t.calls = s.calls
             /\ t.queue = s.queue /\ t.downloading = s.downloading
             /\ SameSet(s, t) /\ SameWatch(s, t)
<1>1. [s EXCEPT !.current = r] \in Session
  BY DEF Session
<1>2. QED
  BY <1>1 DEF Session, SameSet, SameWatch

LEMMA DownFields ==
  ASSUME NEW s \in Session
  PROVE  LET t == [s EXCEPT !.downloading = FALSE]
         IN  /\ t \in Session /\ t.downloading = FALSE /\ t.calls = s.calls
             /\ t.queue = s.queue /\ t.current = s.current
             /\ SameSet(s, t) /\ SameWatch(s, t)
<1>1. [s EXCEPT !.downloading = FALSE] \in Session
  BY DEF Session
<1>2. QED
  BY <1>1 DEF Session, SameSet, SameWatch

LEMMA FilesFields ==
  ASSUME NEW s \in Session, NEW F \in SUBSET (Texts \X Files)
  PROVE  LET t == [s EXCEPT !.files = F]
         IN  /\ t \in Session /\ t.files = F /\ t.blank = s.blank /\ t.calls = s.calls
             /\ t.name = s.name /\ t.queued = s.queued /\ t.count = s.count
             /\ t.saved = s.saved /\ t.mixed = s.mixed /\ t.declared = s.declared
             /\ SameFlow(s, t) /\ SameWatch(s, t)
<1>1. [s EXCEPT !.files = F] \in Session
  BY DEF Session
<1>2. QED
  BY <1>1 DEF Session, SameFlow, SameWatch

LEMMA BlankFields ==
  ASSUME NEW s \in Session, NEW F \in SUBSET (Texts \X Files)
  PROVE  LET t == [s EXCEPT !.blank = F]
         IN  /\ t \in Session /\ t.blank = F /\ t.files = s.files /\ t.calls = s.calls
             /\ t.name = s.name /\ t.queued = s.queued /\ t.count = s.count
             /\ t.saved = s.saved /\ t.mixed = s.mixed /\ t.declared = s.declared
             /\ SameFlow(s, t) /\ SameWatch(s, t)
<1>1. [s EXCEPT !.blank = F] \in Session
  BY DEF Session
<1>2. QED
  BY <1>1 DEF Session, SameFlow, SameWatch

LEMMA NameFields ==
  ASSUME NEW s \in Session, NEW n \in Texts
  PROVE  LET t == [s EXCEPT !.name = n]
         IN  /\ t \in Session /\ t.name = n /\ t.calls = s.calls
             /\ t.files = s.files /\ t.blank = s.blank /\ t.queued = s.queued /\ t.count = s.count
             /\ t.saved = s.saved /\ t.mixed = s.mixed /\ t.declared = s.declared
             /\ SameFlow(s, t) /\ SameWatch(s, t)
<1>1. [s EXCEPT !.name = n] \in Session
  BY DEF Session
<1>2. QED
  BY <1>1 DEF Session, SameFlow, SameWatch

LEMMA QueuedFields ==
  ASSUME NEW s \in Session, NEW n \in Texts
  PROVE  LET t == [s EXCEPT !.queued = n]
         IN  /\ t \in Session /\ t.queued = n /\ t.calls = s.calls
             /\ t.files = s.files /\ t.blank = s.blank /\ t.name = s.name /\ t.count = s.count
             /\ t.saved = s.saved /\ t.mixed = s.mixed /\ t.declared = s.declared
             /\ SameFlow(s, t) /\ SameWatch(s, t)
<1>1. [s EXCEPT !.queued = n] \in Session
  BY DEF Session
<1>2. QED
  BY <1>1 DEF Session, SameFlow, SameWatch

LEMMA WatchFields ==
  ASSUME NEW s \in Session
  PROVE  LET t == [s EXCEPT !.watched = FALSE]
         IN  /\ t \in Session /\ t.watched = FALSE /\ t.calls = s.calls
             /\ SameSet(s, t) /\ SameFlow(s, t)
<1>1. [s EXCEPT !.watched = FALSE] \in Session
  BY DEF Session
<1>2. QED
  BY <1>1 DEF Session, SameFlow, SameSet

LEMMA DoneFields ==
  ASSUME NEW s \in Session, NEW d \in [Langs -> {"no", "pure", "mixed"}]
  PROVE  LET t == [s EXCEPT !.watched = FALSE, !.declared = d, !.name = None]
         IN  /\ t \in Session /\ t.declared = d /\ t.name = None /\ t.calls = s.calls
             /\ t.files = s.files /\ t.blank = s.blank /\ t.count = s.count /\ t.queued = s.queued
             /\ t.saved = s.saved /\ t.mixed = s.mixed /\ SameFlow(s, t)
<1>1. [s EXCEPT !.watched = FALSE, !.declared = d, !.name = None] \in Session
  BY Sizes DEF Session
<1>2. QED
  BY <1>1 DEF Session, SameFlow

(***************************************************************************)
(* What is accounted for.                                                  *)
(***************************************************************************)

CallsFrom(s, t, d) ==
  \A k \in Positions(t.calls) : Asks(t.calls[k]) =>
    k + d \in Positions(s.calls) /\ s.calls[k + d] = t.calls[k]

QueueFrom(s, t, e) ==
  \A k \in Positions(t.queue) : Fresh(t.queue[k]) =>
    k + e \in Positions(s.queue) /\ s.queue[k + e] = t.queue[k]

(* Nothing is to come for the set in t that was not to come in s.          *)
Less(s, t) ==
  /\ \E d \in Int : CallsFrom(s, t, d)
  /\ \E e \in Int : QueueFrom(s, t, e)
  /\ Fresh(t.current) => t.current = s.current
  /\ Known(s) \subseteq Known(t) /\ t.count = s.count /\ t.mixed = s.mixed
  /\ t.name \in {s.name, None}

LEMMA UnaskedLess ==
  ASSUME NEW s \in Session, NEW t \in Session, Less(s, t), NEW i, Unasked(s, i)
  PROVE  Unasked(t, i)
<1>1. PICK d \in Int : CallsFrom(s, t, d)
  BY DEF Less
<1>2. PICK e \in Int : QueueFrom(s, t, e)
  BY DEF Less
<1>3. \A k \in Positions(t.calls) : Asks(t.calls[k]) => t.calls[k].what.file # i
  BY <1>1 DEF CallsFrom, Unasked
<1>4. \A k \in Positions(t.queue) : Fresh(t.queue[k]) => t.queue[k].file # i
  BY <1>2 DEF QueueFrom, Unasked
<1>5. Fresh(t.current) => t.current.file # i
  BY DEF Less, Unasked
<1>6. QED
  BY <1>3, <1>4, <1>5 DEF Unasked

LEMMA AccountsLess ==
  ASSUME NEW s \in Session, NEW t \in Session, Less(s, t),
         NEW lang, NEW D, Accounts(s, lang, D)
  PROVE  Accounts(t, lang, D)
<1>1. PICK d \in Int : CallsFrom(s, t, d)
  BY DEF Less
<1>2. PICK e \in Int : QueueFrom(s, t, e)
  BY DEF Less
<1>3. (t.name # None => lang = t.name) /\ t.count = Cardinality(D)
  BY DEF Less, Accounts
<1>4. \A i \in D : <<lang, i>> \in Known(t) /\ Unasked(t, i)
  <2> TAKE i \in D
  <2>1. <<lang, i>> \in Known(s) /\ Unasked(s, i)
    BY DEF Accounts
  <2>2. Known(s) \subseteq Known(t)
    BY DEF Less
  <2>3. QED
    BY <2>1, <2>2, UnaskedLess
<1>5. \A k \in Positions(t.calls) : Asks(t.calls[k]) => t.calls[k].what.lang = lang
  BY <1>1 DEF CallsFrom, Accounts
<1>6. \A k \in Positions(t.queue) : Fresh(t.queue[k]) => t.queue[k].lang = lang
  BY <1>2 DEF QueueFrom, Accounts
<1>7. Fresh(t.current) => t.current.lang = lang
  BY DEF Less, Accounts
<1>8. \A j, k \in Positions(t.calls) :
        Asks(t.calls[j]) /\ Asks(t.calls[k]) /\ j # k =>
          t.calls[j].what.file # t.calls[k].what.file
  <2> SUFFICES ASSUME NEW j \in Positions(t.calls), NEW k \in Positions(t.calls),
                      Asks(t.calls[j]), Asks(t.calls[k]), j # k
               PROVE  t.calls[j].what.file # t.calls[k].what.file
    OBVIOUS
  <2>1. /\ j + d \in Positions(s.calls) /\ s.calls[j + d] = t.calls[j]
        /\ k + d \in Positions(s.calls) /\ s.calls[k + d] = t.calls[k]
    BY <1>1 DEF CallsFrom
  <2>2. j + d # k + d
    BY <1>1 DEF Positions
  <2>3. QED
    BY <2>1, <2>2 DEF Accounts
<1>9. \A j, k \in Positions(t.queue) :
        Fresh(t.queue[j]) /\ Fresh(t.queue[k]) /\ j # k => t.queue[j].file # t.queue[k].file
  <2> SUFFICES ASSUME NEW j \in Positions(t.queue), NEW k \in Positions(t.queue),
                      Fresh(t.queue[j]), Fresh(t.queue[k]), j # k
               PROVE  t.queue[j].file # t.queue[k].file
    OBVIOUS
  <2>1. /\ j + e \in Positions(s.queue) /\ s.queue[j + e] = t.queue[j]
        /\ k + e \in Positions(s.queue) /\ s.queue[k + e] = t.queue[k]
    BY <1>2 DEF QueueFrom
  <2>2. j + e # k + e
    BY <1>2 DEF Positions
  <2>3. QED
    BY <2>1, <2>2 DEF Accounts
<1>10. \A j \in Positions(t.calls), k \in Positions(t.queue) :
         Asks(t.calls[j]) /\ Fresh(t.queue[k]) => t.calls[j].what.file # t.queue[k].file
  <2> SUFFICES ASSUME NEW j \in Positions(t.calls), NEW k \in Positions(t.queue),
                      Asks(t.calls[j]), Fresh(t.queue[k])
               PROVE  t.calls[j].what.file # t.queue[k].file
    OBVIOUS
  <2>1. /\ j + d \in Positions(s.calls) /\ s.calls[j + d] = t.calls[j]
        /\ k + e \in Positions(s.queue) /\ s.queue[k + e] = t.queue[k]
    BY <1>1, <1>2 DEF QueueFrom, CallsFrom
  <2>2. QED
    BY <2>1 DEF Accounts
<1>11. Fresh(t.current) =>
         /\ \A j \in Positions(t.calls) : Asks(t.calls[j]) => t.calls[j].what.file # t.current.file
         /\ \A k \in Positions(t.queue) : Fresh(t.queue[k]) => t.queue[k].file # t.current.file
  <2> SUFFICES ASSUME Fresh(t.current)
               PROVE  /\ \A j \in Positions(t.calls) :
                           Asks(t.calls[j]) => t.calls[j].what.file # t.current.file
                      /\ \A k \in Positions(t.queue) :
                           Fresh(t.queue[k]) => t.queue[k].file # t.current.file
    OBVIOUS
  <2>1. t.current = s.current /\ Fresh(s.current)
    BY DEF Less
  <2>2. ASSUME NEW j \in Positions(t.calls), Asks(t.calls[j])
        PROVE  t.calls[j].what.file # t.current.file
    <3>1. j + d \in Positions(s.calls) /\ s.calls[j + d] = t.calls[j]
      BY <1>1, <2>2 DEF CallsFrom
    <3>2. QED
      BY <2>1, <2>2, <3>1 DEF Accounts
  <2>3. ASSUME NEW k \in Positions(t.queue), Fresh(t.queue[k])
        PROVE  t.queue[k].file # t.current.file
    <3>1. k + e \in Positions(s.queue) /\ s.queue[k + e] = t.queue[k]
      BY <1>2, <2>3 DEF QueueFrom
    <3>2. QED
      BY <2>1, <2>3, <3>1 DEF Accounts
  <2>4. QED
    BY <2>2, <2>3
<1>12. QED
  BY <1>3, <1>4, <1>5, <1>6, <1>7, <1>8, <1>9, <1>10, <1>11 DEF Accounts

LEMMA KeepsLess ==
  ASSUME NEW s \in Session, NEW t \in Session, Less(s, t), NEW r, Keeps(s, r)
  PROVE  Keeps(t, r)
<1> SUFFICES ASSUME ~ t.mixed
             PROVE  \E lang \in Texts, D \in SUBSET Files :
                      /\ Accounts(t, lang, D)
                      /\ Fresh(r) => r.lang = lang /\ r.file \notin D /\ Unasked(t, r.file)
  BY DEF Keeps
<1>1. ~ s.mixed
  BY DEF Less
<1>2. PICK lang \in Texts, D \in SUBSET Files :
        /\ Accounts(s, lang, D)
        /\ Fresh(r) => r.lang = lang /\ r.file \notin D /\ Unasked(s, r.file)
  BY <1>1 DEF Keeps
<1>3. Accounts(t, lang, D)
  BY <1>2, AccountsLess
<1>4. Fresh(r) => Unasked(t, r.file)
  BY <1>2, UnaskedLess
<1>5. QED
  BY <1>2, <1>3, <1>4

(* A request that is not for the set is no matter.                         *)
LEMMA KeepsStale ==
  ASSUME NEW s, NEW r, ~ Fresh(r)
  PROVE  Keeps(s, r) <=> Accounted(s)
BY DEF Keeps, Accounted

LEMMA AccountedKept ==
  ASSUME NEW s, NEW r, Keeps(s, r)
  PROVE  Accounted(s)
BY DEF Keeps, Accounted

LEMMA IdleStale == ~ Fresh(Idle) /\ ~ Fresh(Other) /\ Idle.file = 0
BY DEF Fresh, Idle, Other

LEMMA AccountedLess ==
  ASSUME NEW s \in Session, NEW t \in Session, Less(s, t), Accounted(s)
  PROVE  Accounted(t)
<1>1. Keeps(s, Idle)
  BY KeepsStale, IdleStale
<1>2. Keeps(t, Idle)
  BY <1>1, KeepsLess
<1>3. QED
  BY <1>2, AccountedKept

(* A request that leaves the queue, the transfer or the calls is for no    *)
(* file that is counted or still to come.                                  *)
LEMMA TakeHead ==
  ASSUME NEW s \in Session, NEW t \in Session, s.queue # <<>>, Accounted(s),
         t.queue = Tail(s.queue), t.calls = s.calls, t.current = s.current, SameSet(s, t)
  PROVE  Less(s, t) /\ Keeps(t, Head(s.queue))
<1> DEFINE r == Head(s.queue)
<1>1. /\ r = s.queue[1] /\ 1 \in Positions(s.queue)
      /\ \A k \in Positions(t.queue) : k + 1 \in Positions(s.queue) /\ t.queue[k] = s.queue[k + 1]
  <2> DEFINE q == s.queue
             S == Requests
  <2>1. q \in Seq(S) /\ q # <<>> /\ t.queue = Tail(q)
    BY FieldsTyped
  <2> HIDE DEF q, S
  <2>2. /\ Tail(q) \in Seq(S) /\ Head(q) \in S /\ q[1] = Head(q) /\ 1 \in Positions(q)
        /\ \A k \in Positions(Tail(q)) : k + 1 \in Positions(q) /\ Tail(q)[k] = q[k + 1]
    BY <2>1, PopCall
  <2>3. QED
    BY <2>1, <2>2 DEF q, S
<1> HIDE DEF r
<1>2. Less(s, t)
  <2>1. QueueFrom(s, t, 1)
    BY <1>1 DEF QueueFrom
  <2>2. CallsFrom(s, t, 0)
    BY DEF CallsFrom, Positions
  <2>3. QED
    BY <2>1, <2>2 DEF Less, SameSet, Known
<1>3. Keeps(t, r)
  <2> SUFFICES ASSUME ~ t.mixed
               PROVE  \E lang \in Texts, D \in SUBSET Files :
                        /\ Accounts(t, lang, D)
                        /\ Fresh(r) => r.lang = lang /\ r.file \notin D /\ Unasked(t, r.file)
    BY DEF Keeps
  <2>1. PICK lang \in Texts, D \in SUBSET Files : Accounts(s, lang, D)
    BY DEF Accounted, SameSet
  <2>2. Accounts(t, lang, D)
    BY <1>2, <2>1, AccountsLess
  <2>3. ASSUME Fresh(r)
        PROVE  r.lang = lang /\ r.file \notin D /\ Unasked(t, r.file)
    <3>1. r.lang = lang
      BY <1>1, <2>1, <2>3 DEF Accounts
    <3>2. r.file \notin D
      BY <1>1, <2>1, <2>3 DEF Accounts, Unasked
    <3>3. \A k \in Positions(t.calls) : Asks(t.calls[k]) => t.calls[k].what.file # r.file
      BY <1>1, <2>1, <2>3 DEF Accounts
    <3>4. \A k \in Positions(t.queue) : Fresh(t.queue[k]) => t.queue[k].file # r.file
      <4> SUFFICES ASSUME NEW k \in Positions(t.queue), Fresh(t.queue[k])
                   PROVE  t.queue[k].file # r.file
        OBVIOUS
      <4>1. k + 1 \in Positions(s.queue) /\ t.queue[k] = s.queue[k + 1] /\ k + 1 # 1
        BY <1>1 DEF Positions
      <4>2. QED
        BY <1>1, <2>1, <2>3, <4>1 DEF Accounts
    <3>5. Fresh(t.current) => t.current.file # r.file
      BY <1>1, <2>1, <2>3 DEF Accounts
    <3>6. QED
      BY <3>1, <3>2, <3>3, <3>4, <3>5 DEF Unasked
  <2>4. QED
    BY <2>2, <2>3
<1>4. QED
  BY <1>2, <1>3 DEF r

LEMMA TakeCurrent ==
  ASSUME NEW s \in Session, NEW t \in Session, Accounted(s),
         t.current = Idle, t.calls = s.calls, t.queue = s.queue, SameSet(s, t)
  PROVE  Less(s, t) /\ Keeps(t, s.current)
<1>1. Less(s, t)
  <2>1. QueueFrom(s, t, 0)
    BY DEF QueueFrom, Positions
  <2>2. CallsFrom(s, t, 0)
    BY DEF CallsFrom, Positions
  <2>3. QED
    BY <2>1, <2>2, IdleStale DEF Less, SameSet, Known
<1>2. Keeps(t, s.current)
  <2> SUFFICES ASSUME ~ t.mixed
               PROVE  \E lang \in Texts, D \in SUBSET Files :
                        /\ Accounts(t, lang, D)
                        /\ Fresh(s.current) => /\ s.current.lang = lang /\ s.current.file \notin D
                                               /\ Unasked(t, s.current.file)
    BY DEF Keeps
  <2>1. PICK lang \in Texts, D \in SUBSET Files : Accounts(s, lang, D)
    BY DEF Accounted, SameSet
  <2>2. Accounts(t, lang, D)
    BY <1>1, <2>1, AccountsLess
  <2>3. ASSUME Fresh(s.current)
        PROVE  s.current.lang = lang /\ s.current.file \notin D /\ Unasked(t, s.current.file)
    <3>1. s.current.lang = lang
      BY <2>1, <2>3 DEF Accounts
    <3>2. s.current.file \notin D
      BY <2>1, <2>3 DEF Accounts, Unasked
    <3>3. Unasked(t, s.current.file)
      BY <2>1, <2>3, IdleStale DEF Accounts, Unasked
    <3>4. QED
      BY <3>1, <3>2, <3>3
  <2>4. QED
    BY <2>2, <2>3
<1>3. QED
  BY <1>1, <1>2

LEMMA TakeCall ==
  ASSUME NEW s \in Session, NEW t \in Session, s.calls # <<>>, Accounted(s),
         t.calls = Tail(s.calls), SameFlow(s, t), SameSet(s, t)
  PROVE  /\ Less(s, t)
         /\ Head(s.calls).do = "ask" => Keeps(t, Head(s.calls).what)
<1> DEFINE f == Head(s.calls)
           r == f.what
<1>1. /\ f = s.calls[1] /\ 1 \in Positions(s.calls) /\ f \in Frames
      /\ \A k \in Positions(t.calls) : k + 1 \in Positions(s.calls) /\ t.calls[k] = s.calls[k + 1]
      /\ t.calls \in Seq(Frames)
  <2> DEFINE c == s.calls
             S == Frames
  <2>1. c \in Seq(S) /\ c # <<>> /\ t.calls = Tail(c)
    BY FieldsTyped
  <2> HIDE DEF c, S
  <2>2. /\ Tail(c) \in Seq(S) /\ Head(c) \in S /\ c[1] = Head(c) /\ 1 \in Positions(c)
        /\ \A k \in Positions(Tail(c)) : k + 1 \in Positions(c) /\ Tail(c)[k] = c[k + 1]
    BY <2>1, PopCall
  <2>3. QED
    BY <2>1, <2>2 DEF c, S
<1> HIDE DEF f
<1>2. Less(s, t)
  <2>1. QueueFrom(s, t, 0)
    BY DEF QueueFrom, Positions, SameFlow
  <2>2. CallsFrom(s, t, 1)
    BY <1>1 DEF CallsFrom
  <2>3. QED
    BY <2>1, <2>2 DEF Less, SameSet, SameFlow, Known
<1>3. ASSUME f.do = "ask"
      PROVE  Keeps(t, r)
  <2>1. CASE ~ Fresh(r)
    BY <1>2, <2>1, KeepsStale, AccountedLess
  <2>2. CASE Fresh(r)
    <3>1. Asks(f)
      BY <1>3, <2>2 DEF Asks, Fresh
    <3> SUFFICES ASSUME ~ t.mixed
                 PROVE  \E lang \in Texts, D \in SUBSET Files :
                          /\ Accounts(t, lang, D)
                          /\ Fresh(r) => r.lang = lang /\ r.file \notin D /\ Unasked(t, r.file)
      BY DEF Keeps
    <3>2. PICK lang \in Texts, D \in SUBSET Files : Accounts(s, lang, D)
      BY DEF Accounted, SameSet
    <3>3. Accounts(t, lang, D)
      BY <1>2, <3>2, AccountsLess
    <3>4. r.lang = lang
      BY <1>1, <3>1, <3>2 DEF Accounts
    <3>5. r.file \notin D
      BY <1>1, <3>1, <3>2 DEF Accounts, Unasked
    <3>6. \A k \in Positions(t.calls) : Asks(t.calls[k]) => t.calls[k].what.file # r.file
      <4> SUFFICES ASSUME NEW k \in Positions(t.calls), Asks(t.calls[k])
                   PROVE  t.calls[k].what.file # r.file
        OBVIOUS
      <4>1. k + 1 \in Positions(s.calls) /\ t.calls[k] = s.calls[k + 1] /\ k + 1 # 1
        BY <1>1 DEF Positions
      <4>2. QED
        BY <1>1, <3>1, <3>2, <4>1 DEF Accounts
    <3>7. \A k \in Positions(t.queue) : Fresh(t.queue[k]) => t.queue[k].file # r.file
      <4> SUFFICES ASSUME NEW k \in Positions(t.queue), Fresh(t.queue[k])
                   PROVE  t.queue[k].file # r.file
        OBVIOUS
      <4>1. k \in Positions(s.queue) /\ t.queue[k] = s.queue[k]
        BY DEF SameFlow
      <4>2. QED
        BY <1>1, <3>1, <3>2, <4>1 DEF Accounts
    <3>8. Fresh(t.current) => t.current.file # r.file
      BY <1>1, <3>1, <3>2 DEF Accounts, SameFlow
    <3>9. QED
      BY <3>3, <3>4, <3>5, <3>6, <3>7, <3>8 DEF Unasked
  <2>3. QED
    BY <2>1, <2>2
<1>4. QED
  BY <1>2, <1>3 DEF f

(* What was taken is put in the queue, or is transferred, or is counted.   *)
LEMMA PutQueue ==
  ASSUME NEW s \in Session, NEW t \in Session, Len(s.queue) <= MaxQueue,
         NEW r \in Requests, Keeps(s, r),
         t.queue = ResDataQueue_Push(s.queue, r),
         t.calls = s.calls, t.current = s.current, SameSet(s, t)
  PROVE  Accounted(t)
<1> SUFFICES ASSUME ~ t.mixed
             PROVE  \E lang \in Texts, D \in SUBSET Files : Accounts(t, lang, D)
  BY DEF Accounted
<1>1. PICK lang \in Texts, D \in SUBSET Files :
        /\ Accounts(s, lang, D)
        /\ Fresh(r) => r.lang = lang /\ r.file \notin D /\ Unasked(s, r.file)
  BY DEF Keeps, SameSet
<1>2. PICK d \in {0, 1} :
        \A k \in Positions(t.queue) :
          (k = Len(t.queue) /\ t.queue[k] = r)
            \/ (k + d \in Positions(s.queue) /\ k < Len(t.queue) /\ t.queue[k] = s.queue[k + d])
  <2> DEFINE q == s.queue
             p == ResDataQueue_Push(q, r)
  <2>1. q \in Seq(Requests) /\ Len(q) <= MaxQueue /\ t.queue = p
    BY FieldsTyped
  <2> HIDE DEF q
  <2>2. \E d \in {0, 1} :
          \A k \in Positions(p) :
            (k = Len(p) /\ p[k] = r)
              \/ (k + d \in Positions(q) /\ k < Len(p) /\ p[k] = q[k + d])
    BY <2>1, PushProperties
  <2> HIDE DEF p
  <2>3. QED
    BY <2>1, <2>2 DEF q
<1>3. \A k \in Positions(s.queue) :
        Fresh(r) /\ Fresh(s.queue[k]) => s.queue[k].file # r.file
  BY <1>1 DEF Unasked
<1>4. \A k \in Positions(s.calls) : Fresh(r) /\ Asks(s.calls[k]) => s.calls[k].what.file # r.file
  BY <1>1 DEF Unasked
<1>5. \A i \in D : <<lang, i>> \in Known(t) /\ Unasked(t, i)
  <2> SUFFICES ASSUME NEW i \in D
               PROVE  <<lang, i>> \in Known(t) /\ Unasked(t, i)
    OBVIOUS
  <2>1. <<lang, i>> \in Known(t) /\ Unasked(s, i)
    BY <1>1 DEF Accounts, SameSet, Known
  <2>2. \A k \in Positions(t.queue) : Fresh(t.queue[k]) => t.queue[k].file # i
    BY <1>1, <1>2, <2>1 DEF Unasked
  <2>3. QED
    BY <2>1, <2>2 DEF Unasked
<1>6. \A k \in Positions(t.queue) : Fresh(t.queue[k]) => t.queue[k].lang = lang
  BY <1>1, <1>2 DEF Accounts
<1>7. \A j, k \in Positions(t.queue) :
        Fresh(t.queue[j]) /\ Fresh(t.queue[k]) /\ j # k => t.queue[j].file # t.queue[k].file
  <2> SUFFICES ASSUME NEW j \in Positions(t.queue), NEW k \in Positions(t.queue),
                      Fresh(t.queue[j]), Fresh(t.queue[k]), j # k
               PROVE  t.queue[j].file # t.queue[k].file
    OBVIOUS
  <2>1. CASE j = Len(t.queue)
    <3>1. t.queue[j] = r \/ j < j
      BY <1>2, <2>1
    <3>2. t.queue[j] = r
      BY <3>1 DEF Positions
    <3>3. k + d \in Positions(s.queue) /\ t.queue[k] = s.queue[k + d]
      BY <1>2, <2>1
    <3>4. QED
      BY <1>3, <3>2, <3>3
  <2>2. CASE k = Len(t.queue)
    <3>1. t.queue[k] = r \/ k < k
      BY <1>2, <2>2
    <3>2. t.queue[k] = r
      BY <3>1 DEF Positions
    <3>3. j + d \in Positions(s.queue) /\ t.queue[j] = s.queue[j + d]
      BY <1>2, <2>2
    <3>4. QED
      BY <1>3, <3>2, <3>3
  <2>3. CASE j # Len(t.queue) /\ k # Len(t.queue)
    <3>1. /\ j + d \in Positions(s.queue) /\ t.queue[j] = s.queue[j + d]
          /\ k + d \in Positions(s.queue) /\ t.queue[k] = s.queue[k + d]
      BY <1>2, <2>3
    <3>2. j + d # k + d
      BY DEF Positions
    <3>3. QED
      BY <1>1, <3>1, <3>2 DEF Accounts
  <2>4. QED
    BY <2>1, <2>2, <2>3
<1>8. \A j \in Positions(t.calls), k \in Positions(t.queue) :
        Asks(t.calls[j]) /\ Fresh(t.queue[k]) => t.calls[j].what.file # t.queue[k].file
  <2> SUFFICES ASSUME NEW j \in Positions(s.calls), NEW k \in Positions(t.queue),
                      Asks(s.calls[j]), Fresh(t.queue[k])
               PROVE  s.calls[j].what.file # t.queue[k].file
    OBVIOUS
  <2>1. CASE t.queue[k] = r
    BY <1>4, <2>1
  <2>2. CASE k + d \in Positions(s.queue) /\ t.queue[k] = s.queue[k + d]
    BY <1>1, <2>2 DEF Accounts
  <2>3. QED
    BY <1>2, <2>1, <2>2
<1>9. Fresh(t.current) =>
        /\ \A j \in Positions(t.calls) : Asks(t.calls[j]) => t.calls[j].what.file # t.current.file
        /\ \A k \in Positions(t.queue) : Fresh(t.queue[k]) => t.queue[k].file # t.current.file
  <2> SUFFICES ASSUME Fresh(s.current)
               PROVE  /\ \A j \in Positions(s.calls) :
                           Asks(s.calls[j]) => s.calls[j].what.file # s.current.file
                      /\ \A k \in Positions(t.queue) :
                           Fresh(t.queue[k]) => t.queue[k].file # s.current.file
    OBVIOUS
  <2>1. \A j \in Positions(s.calls) : Asks(s.calls[j]) => s.calls[j].what.file # s.current.file
    BY <1>1 DEF Accounts
  <2>2. \A k \in Positions(s.queue) : Fresh(s.queue[k]) => s.queue[k].file # s.current.file
    BY <1>1 DEF Accounts
  <2>3. Fresh(r) => r.file # s.current.file
    BY <1>1 DEF Unasked
  <2>4. QED
    BY <1>2, <2>1, <2>2, <2>3
<1>10. Accounts(t, lang, D)
  <2>1. /\ t.name # None => lang = t.name
        /\ t.count = Cardinality(D)
        /\ \A k \in Positions(t.calls) : Asks(t.calls[k]) => t.calls[k].what.lang = lang
        /\ Fresh(t.current) => t.current.lang = lang
        /\ \A j, k \in Positions(t.calls) :
             Asks(t.calls[j]) /\ Asks(t.calls[k]) /\ j # k =>
               t.calls[j].what.file # t.calls[k].what.file
    BY <1>1 DEF Accounts, SameSet
  <2>2. QED
    BY <2>1, <1>5, <1>6, <1>7, <1>8, <1>9 DEF Accounts
<1>11. QED
  BY <1>10

LEMMA PutCurrent ==
  ASSUME NEW s \in Session, NEW t \in Session, NEW r, Keeps(s, r),
         t.current = r, t.calls = s.calls, t.queue = s.queue, SameSet(s, t)
  PROVE  Accounted(t)
<1> SUFFICES ASSUME ~ t.mixed
             PROVE  \E lang \in Texts, D \in SUBSET Files : Accounts(t, lang, D)
  BY DEF Accounted
<1>1. PICK lang \in Texts, D \in SUBSET Files :
        /\ Accounts(s, lang, D)
        /\ Fresh(r) => r.lang = lang /\ r.file \notin D /\ Unasked(s, r.file)
  BY DEF Keeps, SameSet
<1>2. \A i \in D : <<lang, i>> \in Known(t) /\ Unasked(t, i)
  BY <1>1 DEF Accounts, SameSet, Unasked, Known
<1>3. Fresh(t.current) =>
        /\ t.current.lang = lang
        /\ \A j \in Positions(t.calls) : Asks(t.calls[j]) => t.calls[j].what.file # t.current.file
        /\ \A k \in Positions(t.queue) : Fresh(t.queue[k]) => t.queue[k].file # t.current.file
  BY <1>1 DEF Unasked
<1>4. /\ t.name # None => lang = t.name
      /\ t.count = Cardinality(D)
      /\ \A k \in Positions(t.calls) : Asks(t.calls[k]) => t.calls[k].what.lang = lang
      /\ \A k \in Positions(t.queue) : Fresh(t.queue[k]) => t.queue[k].lang = lang
      /\ \A j, k \in Positions(t.calls) :
           Asks(t.calls[j]) /\ Asks(t.calls[k]) /\ j # k =>
             t.calls[j].what.file # t.calls[k].what.file
      /\ \A j, k \in Positions(t.queue) :
           Fresh(t.queue[j]) /\ Fresh(t.queue[k]) /\ j # k => t.queue[j].file # t.queue[k].file
      /\ \A j \in Positions(t.calls), k \in Positions(t.queue) :
           Asks(t.calls[j]) /\ Fresh(t.queue[k]) => t.calls[j].what.file # t.queue[k].file
  BY <1>1 DEF Accounts, SameSet
<1>5. Accounts(t, lang, D)
  BY <1>2, <1>3, <1>4 DEF Accounts
<1>6. QED
  BY <1>5

(* The count says how many files of the set are there; when it is full,    *)
(* no call is left that asks for a file.                                   *)
LEMMA CountOne ==
  ASSUME NEW s \in Session, NEW t \in Session, NEW r \in Requests, Keeps(s, r), Fresh(r), ~ s.mixed,
         <<r.lang, r.file>> \in Known(s),
         t.count = (IF s.count > NumPrompts THEN s.count ELSE s.count + 1), ~ t.mixed,
         t.calls = s.calls, SameFlow(s, t), t.files = s.files, t.blank = s.blank, t.name = s.name
  PROVE  /\ Accounted(t)
         /\ t.count = NumPrompts =>
              /\ NoAsks(t)
              /\ \E lang \in Texts : /\ t.name # None => lang = t.name
                                     /\ \A i \in Files : <<lang, i>> \in Known(t)
<1>1. PICK lang \in Texts, D \in SUBSET Files :
        /\ Accounts(s, lang, D)
        /\ Fresh(r) => r.lang = lang /\ r.file \notin D /\ Unasked(s, r.file)
  BY DEF Keeps
<1> DEFINE E == D \cup {r.file}
<1>2. r.file \in Files
  BY DEF Fresh, Requests
<1>3. IsFiniteSet(D) /\ Cardinality(D) \in Nat /\ Cardinality(D) <= NumPrompts
  <2>1. IsFiniteSet(Files) /\ Cardinality(Files) = NumPrompts /\ D \subseteq Files
    BY Sizes
  <2>2. QED
    BY <2>1, FS_Subset, FS_CardinalityType
<1>4. E \in SUBSET Files
  BY <1>2
<1>5. t.count = Cardinality(E)
  <2>1. Cardinality(E) = Cardinality(D) + 1
    BY <1>1, <1>3, FS_AddElement
  <2>2. s.count = Cardinality(D)
    BY <1>1 DEF Accounts
  <2> HIDE DEF E
  <2> DEFINE c == Cardinality(D)
  <2>3. c \in Nat /\ c <= NumPrompts /\ s.count = c /\ Cardinality(E) = c + 1
    BY <1>3, <2>1, <2>2
  <2> HIDE DEF c
  <2>4. ~ (c > NumPrompts)
    BY <2>3, Sizes
  <2>5. QED
    BY <2>3, <2>4
<1>6. Accounts(t, lang, E)
  <2>1. \A i \in E : <<lang, i>> \in Known(t) /\ Unasked(t, i)
    BY <1>1 DEF Accounts, Unasked, SameFlow, Known
  <2> HIDE DEF E
  <2>2. QED
    BY <1>1, <1>5, <2>1 DEF Accounts, SameFlow
<1>7. ASSUME t.count = NumPrompts
      PROVE  E = Files
  <2>1. IsFiniteSet(Files) /\ Cardinality(Files) = NumPrompts
    BY Sizes
  <2>2. IsFiniteSet(E)
    BY <1>4, <2>1, FS_Subset
  <2>3. Cardinality(E) = Cardinality(Files)
    BY <1>5, <1>7, <2>1
  <2> HIDE DEF E
  <2>4. QED
    BY <1>4, <2>1, <2>2, <2>3, FS_Subset
<1> HIDE DEF E
<1>8. ASSUME t.count = NumPrompts
      PROVE  NoAsks(t)
  <2> SUFFICES ASSUME NEW k \in Positions(t.calls), Asks(t.calls[k])
               PROVE  FALSE
    BY DEF NoAsks
  <2>1. t.calls[k] \in Frames
    BY FieldsTyped DEF Positions
  <2>2. t.calls[k].what.file \in Files
    BY <2>1 DEF Asks, Frames, Requests, Idle
  <2>3. t.calls[k].what.file \in E
    BY <1>7, <1>8, <2>2
  <2>4. QED
    BY <1>6, <2>3 DEF Accounts, Unasked
<1>9. ASSUME t.count = NumPrompts
      PROVE  \A i \in Files : <<lang, i>> \in Known(t)
  BY <1>6, <1>7, <1>9 DEF Accounts
<1>10. t.name # None => lang = t.name
  BY <1>6 DEF Accounts
<1>11. Accounted(t)
  BY <1>4, <1>6 DEF Accounted
<1>12. QED
  BY <1>8, <1>9, <1>10, <1>11

(* A set that starts has every file asked for once, and none counted.      *)
LEMMA BatchAccounted ==
  ASSUME NEW s \in Session, NEW t \in Session, NEW lang \in Texts, NoAsks(s),
         t.calls = Batch(lang) \o s.calls, t.count = 0, t.name = lang, ~ Fresh(t.current),
         \A k \in Positions(t.queue) : ~ Fresh(t.queue[k])
  PROVE  Accounted(t)
<1> DEFINE c == s.calls
           b == Batch(lang)
           p == b \o c
           R(i) == [kind |-> "sound", lang |-> lang, file |-> i, fresh |-> TRUE]
<1>1. c \in Seq(Frames) /\ t.calls = p /\ \A k \in Positions(c) : ~ Asks(c[k])
  BY FieldsTyped DEF NoAsks
<1> HIDE DEF c
<1>2. /\ \A i \in Files : i \in Positions(p) /\ p[i] = AskFor(R(i))
      /\ \A k \in Positions(p) :
           k \in Files \/ (k > NumPrompts /\ k - NumPrompts \in Positions(c)
                           /\ p[k] = c[k - NumPrompts])
  BY <1>1, PushBatch
<1> HIDE DEF b, p
<1>3. \A i \in Files : p[i].what.lang = lang /\ p[i].what.file = i
  <2> SUFFICES ASSUME NEW i \in Files
               PROVE  p[i].what.lang = lang /\ p[i].what.file = i
    OBVIOUS
  <2>1. p[i] = AskFor(R(i))
    BY <1>2
  <2>2. p[i].what = R(i)
    BY <2>1 DEF AskFor
  <2>3. QED
    BY <2>2
<1>4. \A k \in Positions(p) : Asks(p[k]) => p[k].what.lang = lang /\ p[k].what.file = k
  BY <1>1, <1>2, <1>3
<1>5. \A k \in Positions(t.calls) :
        Asks(t.calls[k]) => t.calls[k].what.lang = lang /\ t.calls[k].what.file = k
  BY <1>1, <1>4
<1>6. t.count = Cardinality({})
  BY FS_EmptySet
<1>7. Accounts(t, lang, {})
  <2>1. \A j, k \in Positions(t.calls) :
          Asks(t.calls[j]) /\ Asks(t.calls[k]) /\ j # k =>
            t.calls[j].what.file # t.calls[k].what.file
    BY <1>5
  <2>2. \A k \in Positions(t.calls) : Asks(t.calls[k]) => t.calls[k].what.lang = lang
    BY <1>5
  <2>3. QED
    BY <2>1, <2>2, <1>6 DEF Accounts
<1>8. QED
  BY <1>7 DEF Accounted

(***************************************************************************)
(* The calls in progress.                                                  *)
(***************************************************************************)

(* A start or a finish may be called now.                                  *)
Few(s) ==
  ~ NoAsks(s) => Len(s.queue) <= 1 /\ \A i \in Positions(s.queue) : Fresh(s.queue[i])

(* Nothing else is executed before the calls that ask for files.           *)
Clean(s) ==
  \A j, k \in Positions(s.calls) :
    j < k /\ s.calls[j].do \in {"start", "finish"} => ~ Asks(s.calls[k])

LEMMA PopPending ==
  ASSUME NEW s \in Session, NEW t \in Session, s.calls # <<>>, t.calls = Tail(s.calls)
  PROVE  /\ \A do : Pending(s, do) <=> Head(s.calls).do = do \/ Pending(t, do)
         /\ Single(s) => Single(t) /\ ~ (Head(s.calls).do = "finish" /\ Pending(t, "finish"))
<1> DEFINE c == s.calls
           d == Tail(c)
           f == Head(c)
<1>1. c \in Seq(Frames) /\ c # <<>> /\ t.calls = d
  BY FieldsTyped
<1> HIDE DEF c
<1>2. /\ c[1] = f /\ 1 \in Positions(c) /\ Len(d) \in Nat
      /\ \A k \in Positions(d) : k + 1 \in Positions(c) /\ d[k] = c[k + 1]
      /\ \A k \in Positions(c) :
           k = 1 \/ (k > 1 /\ k - 1 \in Positions(d) /\ c[k] = d[k - 1])
  BY <1>1, PopCall
<1> HIDE DEF d, f
<1>3. \A do : (\E k \in Positions(c) : c[k].do = do)
              <=> f.do = do \/ \E k \in Positions(d) : d[k].do = do
  BY <1>2
<1>4. \A do : Pending(s, do) <=> f.do = do \/ Pending(t, do)
  BY <1>1, <1>3 DEF Pending, c
<1>5. ASSUME Single(s)
      PROVE  Single(t) /\ ~ (f.do = "finish" /\ Pending(t, "finish"))
  <2>1. \A j, k \in Positions(c) : c[j].do = "finish" /\ c[k].do = "finish" => j = k
    BY <1>5 DEF Single, c
  <2>2. ASSUME NEW j \in Positions(d), NEW k \in Positions(d),
               d[j].do = "finish", d[k].do = "finish"
        PROVE  j = k
    <3>1. j + 1 = k + 1
      BY <1>2, <2>1, <2>2
    <3>2. QED
      BY <3>1 DEF Positions
  <2>3. ASSUME NEW k \in Positions(d), d[k].do = "finish", f.do = "finish"
        PROVE  FALSE
    <3>1. k + 1 = 1
      BY <1>2, <2>1, <2>3
    <3>2. QED
      BY <3>1 DEF Positions
  <2>4. QED
    BY <1>1, <2>2, <2>3 DEF Single, Pending
<1>6. QED
  BY <1>4, <1>5 DEF f, c

LEMMA PushPending ==
  ASSUME NEW s \in Session, NEW t \in Session, NEW f \in Frames, t.calls = <<f>> \o s.calls
  PROVE  /\ \A do : Pending(t, do) <=> f.do = do \/ Pending(s, do)
         /\ Single(s) /\ ~ (f.do = "finish" /\ Pending(s, "finish")) => Single(t)
         /\ ~ Asks(f) => (NoAsks(t) <=> NoAsks(s))
<1> DEFINE c == s.calls
           d == <<f>> \o c
<1>1. c \in Seq(Frames) /\ t.calls = d
  BY FieldsTyped
<1> HIDE DEF c
<1>2. /\ d[1] = f /\ 1 \in Positions(d) /\ Len(d) = Len(c) + 1
      /\ \A k \in Positions(c) : k + 1 \in Positions(d) /\ d[k + 1] = c[k]
      /\ \A k \in Positions(d) :
           k = 1 \/ (k > 1 /\ k - 1 \in Positions(c) /\ d[k] = c[k - 1])
  BY <1>1, PushCall
<1> HIDE DEF d
<1>3. \A do : (\E k \in Positions(d) : d[k].do = do)
              <=> f.do = do \/ \E k \in Positions(c) : c[k].do = do
  BY <1>2
<1>4. \A do : Pending(t, do) <=> f.do = do \/ Pending(s, do)
  BY <1>1, <1>3 DEF Pending, c
<1>5. ASSUME Single(s), ~ (f.do = "finish" /\ Pending(s, "finish"))
      PROVE  Single(t)
  <2>1. \A j, k \in Positions(c) : c[j].do = "finish" /\ c[k].do = "finish" => j = k
    BY <1>5 DEF Single, c
  <2>2. \A k \in Positions(c) : ~ (f.do = "finish" /\ c[k].do = "finish")
    BY <1>5 DEF Pending, c
  <2>3. ASSUME NEW j \in Positions(d), NEW k \in Positions(d),
               d[j].do = "finish", d[k].do = "finish"
        PROVE  j = k
    <3>1. CASE f.do = "finish"
      BY <1>2, <2>2, <2>3, <3>1
    <3>2. CASE f.do # "finish"
      <4>1. /\ j - 1 \in Positions(c) /\ d[j] = c[j - 1]
            /\ k - 1 \in Positions(c) /\ d[k] = c[k - 1]
        BY <1>2, <2>3, <3>2
      <4>2. j - 1 = k - 1
        BY <2>1, <2>3, <4>1
      <4>3. QED
        BY <4>2 DEF Positions
    <3>3. QED
      BY <3>1, <3>2
  <2>4. QED
    BY <1>1, <2>3 DEF Single
<1>6. ASSUME ~ Asks(f)
      PROVE  NoAsks(t) <=> NoAsks(s)
  <2>1. (\A k \in Positions(d) : ~ Asks(d[k])) <=> (\A k \in Positions(c) : ~ Asks(c[k]))
    BY <1>2, <1>6
  <2>2. QED
    BY <1>1, <2>1 DEF NoAsks, c
<1>7. QED
  BY <1>4, <1>5, <1>6

LEMMA BatchPending ==
  ASSUME NEW s \in Session, NEW t \in Session, NEW lang \in Texts,
         t.calls = Batch(lang) \o s.calls
  PROVE  /\ \A do : do # "ask" => (Pending(t, do) <=> Pending(s, do))
         /\ Single(s) => Single(t)
<1> DEFINE c == s.calls
           b == Batch(lang)
           p == b \o c
           R(i) == [kind |-> "sound", lang |-> lang, file |-> i, fresh |-> TRUE]
<1>1. c \in Seq(Frames) /\ t.calls = p
  BY FieldsTyped
<1> HIDE DEF c
<1>2. /\ \A i \in Files : i \in Positions(p) /\ p[i] = AskFor(R(i))
      /\ \A k \in Positions(c) : k + NumPrompts \in Positions(p) /\ p[k + NumPrompts] = c[k]
      /\ \A k \in Positions(p) :
           k \in Files \/ (k > NumPrompts /\ k - NumPrompts \in Positions(c)
                           /\ p[k] = c[k - NumPrompts])
  BY <1>1, PushBatch
<1> HIDE DEF b, p
<1>3. \A i \in Files : p[i].do = "ask"
  <2> SUFFICES ASSUME NEW i \in Files
               PROVE  p[i].do = "ask"
    OBVIOUS
  <2>1. p[i] = AskFor(R(i))
    BY <1>2
  <2> HIDE DEF R
  <2>2. QED
    BY <2>1 DEF AskFor
<1> HIDE DEF R
<1>4. \A do : do # "ask" => ((\E k \in Positions(p) : p[k].do = do)
                             <=> \E k \in Positions(c) : c[k].do = do)
  BY <1>2, <1>3
<1>5. ASSUME Single(s)
      PROVE  Single(t)
  <2>1. \A j, k \in Positions(c) : c[j].do = "finish" /\ c[k].do = "finish" => j = k
    BY <1>5 DEF Single, c
  <2>2. ASSUME NEW j \in Positions(p), NEW k \in Positions(p),
               p[j].do = "finish", p[k].do = "finish"
        PROVE  j = k
    <3>1. /\ j - NumPrompts \in Positions(c) /\ p[j] = c[j - NumPrompts]
          /\ k - NumPrompts \in Positions(c) /\ p[k] = c[k - NumPrompts]
      BY <1>2, <1>3, <2>2
    <3>2. j - NumPrompts = k - NumPrompts
      BY <2>1, <2>2, <3>1
    <3>3. QED
      BY <3>2, Sizes DEF Positions
  <2>3. QED
    BY <1>1, <2>2 DEF Single
<1>6. QED
  BY <1>1, <1>4, <1>5 DEF Pending, c

LEMMA ShapePop ==
  ASSUME NEW s \in Session, NEW t \in Session, s.calls # <<>>, Shape(s),
         t.calls = Tail(s.calls), t.queue = s.queue, t.mixed = s.mixed
  PROVE  /\ Shape(t)
         /\ Head(s.calls).do = "ask" => Clean(t) /\ (~ NoAsks(t) => Fresh(Head(s.calls).what))
         /\ Head(s.calls).do \in {"start", "finish"} => Few(t)
         /\ Head(s.calls).do = "resume" => NoAsks(t)
<1> DEFINE c == s.calls
           d == Tail(c)
           f == Head(c)
           n == Len(d)
<1>1. c \in Seq(Frames) /\ c # <<>> /\ t.calls = d
  BY FieldsTyped
<1> HIDE DEF c
<1>2. /\ c[1] = f /\ 1 \in Positions(c) /\ n \in Nat /\ Len(c) = n + 1
      /\ \A k \in Positions(d) : k + 1 \in Positions(c) /\ d[k] = c[k + 1]
  BY <1>1, PopCall
<1> HIDE DEF d, f
<1>3. Positions(d) = 1 .. n
  BY DEF Positions
<1> HIDE DEF n
<1>4. /\ \A k \in Positions(c) : c[k].do = "resume" => k = n + 1
      /\ \A k \in Positions(c) : Asks(c[k]) => Fresh(c[k].what) /\ ~ s.mixed
      /\ \A j, k \in Positions(c) :
           j < k /\ c[j].do = "ask" /\ Asks(c[k]) => \A i \in j .. k : Asks(c[i])
      /\ \A j, k \in Positions(c) :
           j < k /\ c[j].do \in {"start", "finish"} /\ Asks(c[k]) =>
             Len(s.queue) <= 1 /\ \A i \in Positions(s.queue) : Fresh(s.queue[i])
  BY <1>2 DEF Shape, c
<1>5. \A k \in 1 .. n : 1 < k + 1 /\ (k + 1 = n + 1 => k = n)
  BY <1>2
<1>6. \A k \in 1 .. n : d[k].do = "resume" => k = n
  BY <1>2, <1>3, <1>4, <1>5
<1>7. \A k \in 1 .. n : Asks(d[k]) => Fresh(d[k].what) /\ ~ t.mixed
  BY <1>2, <1>3, <1>4
<1>8. ASSUME NEW j \in 1 .. n, NEW k \in 1 .. n, j < k, d[j].do = "ask", Asks(d[k]), NEW i \in j .. k
      PROVE  Asks(d[i])
  <2>1. j + 1 \in Positions(c) /\ k + 1 \in Positions(c) /\ d[j] = c[j + 1] /\ d[k] = c[k + 1]
    BY <1>2, <1>3
  <2>2. j + 1 < k + 1 /\ i + 1 \in j + 1 .. k + 1 /\ i \in 1 .. n
    BY <1>2, <1>8
  <2>3. Asks(c[i + 1])
    BY <1>4, <1>8, <2>1, <2>2
  <2>4. QED
    BY <1>2, <1>3, <2>2, <2>3
<1>9. ASSUME NEW j \in 1 .. n, NEW k \in 1 .. n, j < k, d[j].do \in {"start", "finish"}, Asks(d[k])
      PROVE  Len(t.queue) <= 1 /\ \A i \in Positions(t.queue) : Fresh(t.queue[i])
  <2>1. j + 1 \in Positions(c) /\ k + 1 \in Positions(c) /\ d[j] = c[j + 1] /\ d[k] = c[k + 1]
    BY <1>2, <1>3
  <2>2. j + 1 < k + 1
    BY <1>9
  <2>3. QED
    BY <1>4, <1>9, <2>1, <2>2
<1>10. Len(d) = n /\ d = t.calls
  BY <1>1 DEF n
<1>11. Shape(t)
  BY <1>3, <1>6, <1>7, <1>8, <1>9, <1>10 DEF Shape
<1>12. ASSUME f.do = "ask"
       PROVE  Clean(t) /\ (~ NoAsks(t) => Fresh(f.what))
  <2>1. ASSUME NEW k \in 1 .. n, Asks(d[k]), NEW i \in 1 .. k + 1
        PROVE  Asks(c[i])
    <3>1. 1 \in Positions(c) /\ k + 1 \in Positions(c) /\ c[1] = f /\ d[k] = c[k + 1] /\ 1 < k + 1
      BY <1>2, <1>3, <1>5
    <3>2. QED
      BY <1>4, <1>12, <2>1, <3>1
  <2>2. ASSUME NEW j \in 1 .. n, NEW k \in 1 .. n, j < k, d[j].do \in {"start", "finish"}, Asks(d[k])
        PROVE  FALSE
    <3>1. j + 1 \in 1 .. k + 1
      BY <2>2
    <3>2. Asks(d[j])
      BY <1>2, <1>3, <2>1, <2>2, <3>1
    <3>3. QED
      BY <2>2, <3>2 DEF Asks
  <2>3. ASSUME NEW k \in 1 .. n, Asks(d[k])
        PROVE  Fresh(f.what)
    <3>1. 1 \in 1 .. k + 1
      BY <1>2
    <3>2. Asks(c[1])
      BY <2>1, <2>3, <3>1
    <3>3. QED
      BY <1>2, <1>4, <3>2
  <2>4. QED
    BY <1>3, <1>10, <2>2, <2>3 DEF Clean, NoAsks
<1>13. ASSUME f.do \in {"start", "finish"}
       PROVE  Few(t)
  <2> SUFFICES ASSUME NEW k \in 1 .. n, Asks(d[k])
               PROVE  Len(t.queue) <= 1 /\ \A i \in Positions(t.queue) : Fresh(t.queue[i])
    BY <1>3, <1>10 DEF Few, NoAsks
  <2>1. 1 \in Positions(c) /\ k + 1 \in Positions(c) /\ c[1] = f /\ d[k] = c[k + 1] /\ 1 < k + 1
    BY <1>2, <1>3, <1>5
  <2>2. QED
    BY <1>4, <1>13, <2>1
<1>14. ASSUME f.do = "resume"
       PROVE  NoAsks(t)
  <2>1. 1 = n + 1
    BY <1>2, <1>4, <1>14
  <2>2. n = 0
    BY <1>2, <2>1
  <2>3. QED
    BY <1>3, <1>10, <2>2 DEF NoAsks
<1>15. QED
  BY <1>11, <1>12, <1>13, <1>14 DEF f, c

LEMMA ShapePush ==
  ASSUME NEW s \in Session, NEW t \in Session, NEW f \in Frames, Shape(s),
         f.do \in {"start", "finish", "unwatch"}, f.do # "unwatch" => Few(s),
         t.calls = <<f>> \o s.calls, t.queue = s.queue, t.mixed = s.mixed
  PROVE  Shape(t)
<1> DEFINE c == s.calls
           d == <<f>> \o c
           n == Len(c)
<1>1. c \in Seq(Frames) /\ t.calls = d /\ n \in Nat
  BY FieldsTyped
<1> HIDE DEF c
<1>2. /\ d[1] = f /\ Len(d) = n + 1 /\ n \in Nat
      /\ \A k \in Positions(d) :
           k = 1 \/ (k > 1 /\ k - 1 \in Positions(c) /\ d[k] = c[k - 1])
  <2>1. /\ d[1] = f /\ Len(d) = Len(c) + 1
        /\ \A k \in Positions(d) :
             k = 1 \/ (k > 1 /\ k - 1 \in Positions(c) /\ d[k] = c[k - 1])
    BY <1>1, PushCall
  <2>2. QED
    BY <1>1, <2>1
<1> HIDE DEF d
<1>3. Positions(d) = 1 .. n + 1 /\ Positions(c) = 1 .. n
  BY <1>2 DEF Positions
<1>4. /\ \A k \in Positions(c) : c[k].do = "resume" => k = n
      /\ \A k \in Positions(c) : Asks(c[k]) => Fresh(c[k].what) /\ ~ s.mixed
      /\ \A j, k \in Positions(c) :
           j < k /\ c[j].do = "ask" /\ Asks(c[k]) => \A i \in j .. k : Asks(c[i])
      /\ \A j, k \in Positions(c) :
           j < k /\ c[j].do \in {"start", "finish"} /\ Asks(c[k]) =>
             Len(s.queue) <= 1 /\ \A i \in Positions(s.queue) : Fresh(s.queue[i])
      /\ f.do # "unwatch" => \A k \in Positions(c) : Asks(c[k]) =>
             Len(s.queue) <= 1 /\ \A i \in Positions(s.queue) : Fresh(s.queue[i])
  BY DEF Shape, c, n, Few, NoAsks
<1> HIDE DEF n
<1>5. ~ Asks(f)
  BY DEF Asks
<1>6. ASSUME NEW k \in Positions(d), d[k].do = "resume"
      PROVE  k = n + 1
  <2>1. k - 1 \in Positions(c) /\ d[k] = c[k - 1]
    BY <1>2, <1>6
  <2>2. k - 1 = n
    BY <1>4, <1>6, <2>1
  <2>3. QED
    BY <1>2, <1>3, <2>2
<1>7. \A k \in Positions(d) : Asks(d[k]) => Fresh(d[k].what) /\ ~ t.mixed
  BY <1>2, <1>4, <1>5
<1>8. ASSUME NEW j \in Positions(d), NEW k \in Positions(d), j < k, d[j].do = "ask", Asks(d[k]),
             NEW i \in j .. k
      PROVE  Asks(d[i])
  <2>1. j > 1
    BY <1>2, <1>8
  <2>2. /\ j - 1 \in Positions(c) /\ d[j] = c[j - 1]
        /\ k - 1 \in Positions(c) /\ d[k] = c[k - 1]
    BY <1>2, <1>5, <1>8
  <2>3. j - 1 < k - 1 /\ i - 1 \in j - 1 .. k - 1 /\ i \in Positions(d) /\ i # 1
    BY <1>2, <1>3, <1>8, <2>1
  <2>4. Asks(c[i - 1])
    BY <1>4, <1>8, <2>2, <2>3
  <2>5. QED
    BY <1>2, <2>3, <2>4
<1>9. ASSUME NEW j \in Positions(d), NEW k \in Positions(d), j < k,
             d[j].do \in {"start", "finish"}, Asks(d[k])
      PROVE  Len(t.queue) <= 1 /\ \A i \in Positions(t.queue) : Fresh(t.queue[i])
  <2>1. k - 1 \in Positions(c) /\ d[k] = c[k - 1]
    BY <1>2, <1>5, <1>9
  <2>2. CASE j = 1
    <3>1. f.do # "unwatch"
      BY <1>2, <1>9, <2>2
    <3>2. QED
      BY <1>4, <1>9, <2>1, <3>1
  <2>3. CASE j # 1
    <3>1. j - 1 \in Positions(c) /\ d[j] = c[j - 1]
      BY <1>2, <2>3
    <3>2. j - 1 < k - 1
      BY <1>3, <1>2, <1>9
    <3>3. QED
      BY <1>4, <1>9, <2>1, <3>1, <3>2
  <2>4. QED
    BY <2>2, <2>3
<1>10. Len(d) = n + 1 /\ d = t.calls
  BY <1>1, <1>2
<1>11. QED
  BY <1>6, <1>7, <1>8, <1>9, <1>10 DEF Shape

LEMMA ShapeBatch ==
  ASSUME NEW s \in Session, NEW t \in Session, NEW lang \in Texts, Shape(s), NoAsks(s),
         t.calls = Batch(lang) \o s.calls, ~ t.mixed
  PROVE  Shape(t)
<1> DEFINE c == s.calls
           b == Batch(lang)
           p == b \o c
           N == NumPrompts
           R(i) == [kind |-> "sound", lang |-> lang, file |-> i, fresh |-> TRUE]
<1>1. c \in Seq(Frames) /\ t.calls = p /\ Len(c) \in Nat /\ N \in Nat
  BY FieldsTyped, Sizes
<1> HIDE DEF c
<1>2. /\ Len(p) = N + Len(c)
      /\ \A i \in Files : i \in Positions(p) /\ p[i] = AskFor(R(i))
      /\ \A k \in Positions(p) :
           k \in Files \/ (k > N /\ k - N \in Positions(c) /\ p[k] = c[k - N])
  BY <1>1, PushBatch
<1> HIDE DEF b, p
<1>3. \A i \in Files : p[i].do = "ask" /\ Asks(p[i]) /\ Fresh(p[i].what)
  <2> SUFFICES ASSUME NEW i \in Files
               PROVE  p[i].do = "ask" /\ Asks(p[i]) /\ Fresh(p[i].what)
    OBVIOUS
  <2>1. p[i] = AskFor(R(i))
    BY <1>2
  <2>2. p[i].do = "ask" /\ p[i].what = R(i)
    BY <2>1 DEF AskFor
  <2>3. QED
    BY <2>2 DEF Asks, Fresh
<1>4. /\ \A k \in Positions(c) : c[k].do = "resume" => k = Len(c)
      /\ \A k \in Positions(c) : ~ Asks(c[k])
  BY DEF Shape, NoAsks, c
<1>5. Files = 1 .. N /\ Positions(p) = 1 .. Len(p)
  BY DEF Files, Positions
<1> HIDE DEF N
<1>6. \A k \in Positions(p) : Asks(p[k]) => k \in Files
  BY <1>2, <1>4
<1>7. ASSUME NEW k \in Positions(p), p[k].do = "resume"
      PROVE  k = Len(p)
  <2>1. k - N \in Positions(c) /\ p[k] = c[k - N]
    BY <1>2, <1>3, <1>7
  <2>2. k - N = Len(c)
    BY <1>4, <1>7, <2>1
  <2>3. k \in Int
    BY <1>5
  <2> DEFINE n == Len(c)
  <2>4. k - N = n /\ n \in Nat /\ Len(p) = N + n
    BY <1>1, <1>2, <2>2
  <2> HIDE DEF n
  <2>5. QED
    BY <1>1, <2>3, <2>4
<1>8. ASSUME NEW j \in Positions(p), NEW k \in Positions(p), Asks(p[k]), NEW i \in j .. k
      PROVE  i \in Files
  <2>1. k \in 1 .. N
    BY <1>5, <1>6, <1>8
  <2>2. j >= 1 /\ j \in Int
    BY <1>5
  <2>3. i \in 1 .. N
    BY <1>1, <2>1, <2>2
  <2>4. QED
    BY <1>5, <2>3
<1>9. \A j, k \in Positions(p) : j < k /\ Asks(p[k]) => j \in Files
  <2> SUFFICES ASSUME NEW j \in Positions(p), NEW k \in Positions(p), j < k, Asks(p[k])
               PROVE  j \in Files
    OBVIOUS
  <2>1. j \in j .. k
    BY <1>5
  <2>2. QED
    BY <1>8, <2>1
<1>10. \A k \in Positions(p) : Asks(p[k]) => Fresh(p[k].what) /\ ~ t.mixed
  BY <1>3, <1>6
<1>11. \A j, k \in Positions(p) :
         j < k /\ p[j].do = "ask" /\ Asks(p[k]) => \A i \in j .. k : Asks(p[i])
  BY <1>3, <1>8
<1>12. \A j, k \in Positions(p) : ~ (j < k /\ p[j].do \in {"start", "finish"} /\ Asks(p[k]))
  BY <1>3, <1>9
<1>13. QED
  BY <1>1, <1>7, <1>10, <1>11, <1>12 DEF Shape

LEMMA ShapeQueue ==
  ASSUME NEW s \in Session, NEW t \in Session, Shape(s), t.calls = s.calls, t.mixed = s.mixed,
         \/ Clean(s)
         \/ /\ Len(t.queue) <= Len(s.queue)
            /\ \A k \in Positions(t.queue) : \E i \in Positions(s.queue) : t.queue[k] = s.queue[i]
  PROVE  Shape(t)
<1>1. ASSUME NEW j \in Positions(t.calls), NEW k \in Positions(t.calls), j < k,
             t.calls[j].do \in {"start", "finish"}, Asks(t.calls[k])
      PROVE  Len(t.queue) <= 1 /\ \A i \in Positions(t.queue) : Fresh(t.queue[i])
  <2>1. Len(s.queue) <= 1 /\ \A i \in Positions(s.queue) : Fresh(s.queue[i])
    BY <1>1 DEF Shape
  <2>2. ~ Clean(s)
    BY <1>1 DEF Clean
  <2>3. Len(t.queue) \in Nat /\ Len(s.queue) \in Nat /\ Len(t.queue) <= Len(s.queue)
    BY <2>2, FieldsTyped
  <2>4. Len(t.queue) <= 1
    BY <2>1, <2>3
  <2>5. QED
    BY <2>1, <2>2, <2>4
<1>2. /\ \A k \in Positions(t.calls) : t.calls[k].do = "resume" => k = Len(t.calls)
      /\ \A k \in Positions(t.calls) : Asks(t.calls[k]) => Fresh(t.calls[k].what) /\ ~ t.mixed
      /\ \A j, k \in Positions(t.calls) :
           j < k /\ t.calls[j].do = "ask" /\ Asks(t.calls[k]) =>
             \A i \in j .. k : Asks(t.calls[i])
  BY DEF Shape
<1>3. QED
  BY <1>1, <1>2 DEF Shape

(***************************************************************************)
(* The parts of a step.                                                    *)
(***************************************************************************)

(* The set is watched, or the login of this run will resume it.            *)
Alive(s) == s.name # None => s.watched \/ s.login \/ Pending(s, "resume")

LEMMA StaleQueue ==
  ASSUME NEW q \in Seq(Requests)
  PROVE  LET p == [i \in DOMAIN q |-> Stale(q[i])]
         IN  /\ p \in Seq(Requests) /\ Len(p) = Len(q) /\ (p = <<>> <=> q = <<>>)
             /\ \A k \in Positions(p) : ~ Fresh(p[k])
<1> DEFINE p == [i \in DOMAIN q |-> Stale(q[i])]
           n == Len(q)
<1>1. n \in Nat /\ DOMAIN q = 1 .. n /\ \A i \in 1 .. n : q[i] \in Requests
  OBVIOUS
<1>2. \A r \in Requests : Stale(r) \in Requests /\ ~ Fresh(Stale(r))
  BY DEF Stale, Requests, Fresh
<1>3. p \in [1 .. n -> Requests] /\ \A i \in 1 .. n : ~ Fresh(p[i])
  BY <1>1, <1>2
<1> HIDE DEF p, n
<1>4. p \in Seq(Requests) /\ Len(p) = n
  <2>1. p \in Seq(Requests)
    BY <1>1, <1>3, SeqDef
  <2>2. QED
    BY <1>1, <1>3, <2>1
<1>5. p = <<>> <=> q = <<>>
  BY <1>4, EmptySeq DEF n
<1>6. QED
  BY <1>3, <1>4, <1>5 DEF Positions, p, n

LEMMA StaleCurrent ==
  ASSUME NEW r \in Requests \cup {Idle}
  PROVE  Stale(r) \in Requests \cup {Idle} /\ ~ Fresh(Stale(r)) /\ (Stale(r) = Idle <=> r = Idle)
<1> DEFINE I == [kind : {"none"}, lang : {None}, file : {0}, fresh : {FALSE}]
<1>1. CASE r = Idle
  <2>1. Idle \in I /\ Stale(Idle) \in I
    BY DEF Stale, Idle
  <2>2. \A x, y \in I : x = y
    <3> SUFFICES ASSUME NEW x \in I, NEW y \in I
                 PROVE  x = y
      OBVIOUS
    <3>1. x = [kind |-> "none", lang |-> None, file |-> 0, fresh |-> FALSE]
      OBVIOUS
    <3>2. y = [kind |-> "none", lang |-> None, file |-> 0, fresh |-> FALSE]
      OBVIOUS
    <3>3. QED
      BY <3>1, <3>2
  <2> HIDE DEF I
  <2>3. QED
    BY <1>1, <2>1, <2>2, IdleStale
<1>2. CASE r \in Requests
  <2>1. Stale(r) \in Requests /\ ~ Fresh(Stale(r))
    BY <1>2 DEF Stale, Requests, Fresh
  <2>2. \A x \in Requests : x # Idle
    <3>1. \A x \in Requests : x.kind # "none"
      BY DEF Requests
    <3>2. Idle.kind = "none"
      BY DEF Idle
    <3>3. QED
      BY <3>1, <3>2
  <2>3. QED
    BY <1>2, <2>1, <2>2
<1>3. QED
  BY <1>1, <1>2

(* A set starts when no call is left that asks for a file of another.      *)
LEMMA StartsStep ==
  ASSUME NEW s \in Session, Regular(s), NoAsks(s), NEW lang \in Texts,
         s.queued # None => lang # None /\ lang # s.queued
  PROVE  LET t == Starts(s, lang)
         IN  /\ Regular(t) /\ Waits(t) /\ Alive(t)
             /\ Flagged(s) => Flagged(t)
             /\ Started(s) => Started(t)
<1> DEFINE q == [i \in DOMAIN s.queue |-> Stale(s.queue[i])]
           r == Stale(s.current)
           u == [s EXCEPT !.count = 0, !.watched = TRUE, !.name = lang, !.mixed = FALSE,
                          !.queue = q, !.current = r]
           c == Batch(lang) \o s.calls
           t == Starts(s, lang)
<1>1. /\ q \in Seq(Requests) /\ Len(q) = Len(s.queue) /\ (q = <<>> <=> s.queue = <<>>)
      /\ \A k \in Positions(q) : ~ Fresh(q[k])
  BY FieldsTyped, StaleQueue
<1>2. r \in Requests \cup {Idle} /\ ~ Fresh(r) /\ (r = Idle <=> s.current = Idle)
  BY FieldsTyped, StaleCurrent
<1>3. c \in Seq(Frames)
  BY FieldsTyped, PushBatch
<1>4. t = [u EXCEPT !.calls = Batch(lang) \o @]
  BY DEF Starts, Calls
<1> HIDE DEF q, r, t
<1>5. /\ u \in Session /\ u.count = 0 /\ u.watched = TRUE /\ u.name = lang
      /\ u.mixed = FALSE /\ u.queue = q /\ u.current = r /\ u.calls = s.calls
      /\ u.files = s.files /\ u.blank = s.blank /\ u.queued = s.queued /\ u.saved = s.saved
      /\ u.declared = s.declared /\ u.downloading = s.downloading
  <2> DEFINE N == 0 .. NumPrompts + 1
  <2>1. 0 \in N
    BY Sizes
  <2>2. q \in Seq(Requests) /\ r \in Requests \cup {Idle}
    BY <1>1, <1>2
  <2> HIDE DEF N
  <2>3. u \in Session
    BY <2>1, <2>2 DEF Session, N
  <2>4. QED
    BY <2>3 DEF Session
<1> HIDE DEF u
<1>6. t = [u EXCEPT !.calls = c]
  BY <1>4, <1>5
<1> HIDE DEF c
<1>7. t \in Session /\ t.calls = c /\ SameSet(u, t) /\ SameFlow(u, t) /\ SameWatch(u, t)
  BY <1>3, <1>5, <1>6, CallsFields
<1>8. /\ t.count = 0 /\ t.watched = TRUE /\ t.name = lang /\ t.mixed = FALSE
      /\ t.queue = q /\ t.current = r /\ t.calls = Batch(lang) \o s.calls
      /\ t.files = s.files /\ t.blank = s.blank /\ t.queued = s.queued /\ t.saved = s.saved
      /\ t.declared = s.declared /\ t.downloading = s.downloading
  BY <1>5, <1>7 DEF SameSet, SameFlow, SameWatch, c
<1>9. Accounted(t)
  BY <1>1, <1>2, <1>7, <1>8, BatchAccounted
<1>10. Shape(t)
  BY <1>7, <1>8, ShapeBatch DEF Regular
<1>11. Regular(t)
  BY <1>1, <1>7, <1>8, <1>9, <1>10 DEF Regular, Pure, Known
<1>12. Waits(t)
  BY <1>8 DEF Waits
<1>13. Alive(t)
  BY <1>8 DEF Alive
<1>14. /\ Pending(t, "finish") <=> Pending(s, "finish")
       /\ Pending(t, "start") <=> Pending(s, "start")
       /\ Single(s) => Single(t)
  BY <1>7, <1>8, BatchPending
<1>15. Flagged(s) => Flagged(t)
  BY <1>2, <1>8, <1>14 DEF Flagged
<1>16. Started(s) => Started(t)
  BY <1>1, <1>8, <1>14 DEF Started
<1>17. QED
  BY <1>11, <1>12, <1>13, <1>15, <1>16 DEF t

(* Fields that the queue and the account do not depend on.                 *)
LEMMA SameStep ==
  ASSUME NEW s \in Session, NEW t \in Session, Regular(s), t.calls = s.calls, SameFlow(s, t),
         t.files = s.files, t.blank = s.blank, t.count = s.count, t.mixed = s.mixed,
         t.declared = s.declared, Waits(t.saved), t.name \in {s.name, None}
  PROVE  /\ Regular(t)
         /\ Flagged(s) => Flagged(t)
         /\ Started(s) => Started(t)
         /\ NoAsks(s) => NoAsks(t)
<1>1. Less(s, t)
  <2>1. QueueFrom(s, t, 0)
    BY DEF QueueFrom, Positions, SameFlow
  <2>2. CallsFrom(s, t, 0)
    BY DEF CallsFrom, Positions
  <2>3. QED
    BY <2>1, <2>2 DEF Less, SameFlow, Known
<1>2. Accounted(t)
  BY <1>1, AccountedLess DEF Regular
<1>3. Shape(t)
  BY DEF Shape, Regular, SameFlow
<1>4. Regular(t)
  BY <1>2, <1>3 DEF Regular, SameFlow, Pure, Known
<1>5. \A do : Pending(t, do) <=> Pending(s, do)
  BY DEF Pending
<1>6. /\ Flagged(s) => Flagged(t)
      /\ Started(s) => Started(t)
      /\ NoAsks(s) => NoAsks(t)
  BY <1>5 DEF Flagged, Single, Started, NoAsks, SameFlow
<1>7. QED
  BY <1>4, <1>6

(* A file more is known.                                                   *)
LEMMA MoreKnown ==
  ASSUME NEW s \in Session, Regular(s), Waits(s), NEW t \in Session, NEW r, Keeps(s, r),
         Known(s) \subseteq Known(t), t.calls = s.calls,
         t.name = s.name, t.queued = s.queued, t.count = s.count,
         t.saved = s.saved, t.mixed = s.mixed, t.declared = s.declared,
         SameFlow(s, t), SameWatch(s, t)
  PROVE  /\ Keeps(t, r) /\ Regular(t) /\ Waits(t)
         /\ \A do : Pending(t, do) <=> Pending(s, do)
         /\ Single(t) <=> Single(s)
         /\ NoAsks(t) <=> NoAsks(s)
         /\ Alive(s) => Alive(t)
<1>1. Less(s, t)
  <2>1. QueueFrom(s, t, 0)
    BY DEF QueueFrom, Positions, SameFlow
  <2>2. CallsFrom(s, t, 0)
    BY DEF CallsFrom, Positions
  <2>3. QED
    BY <2>1, <2>2 DEF Less, SameFlow, Known
<1>2. Keeps(t, r)
  BY <1>1, KeepsLess
<1>3. Regular(t) /\ Waits(t)
  <2>1. Shape(t)
    BY DEF Shape, Regular, SameFlow
  <2>2. Pure(t)
    BY DEF Pure, Regular, Known
  <2>3. Accounted(t)
    BY <1>2, AccountedKept
  <2>4. QED
    BY <2>1, <2>2, <2>3 DEF Regular, SameFlow, Waits
<1>4. /\ \A do : Pending(t, do) <=> Pending(s, do)
      /\ Single(t) <=> Single(s)
      /\ NoAsks(t) <=> NoAsks(s)
  BY DEF Pending, Single, NoAsks
<1>5. Alive(s) => Alive(t)
  BY <1>4 DEF Alive, SameWatch
<1>6. QED
  BY <1>2, <1>3, <1>4, <1>5

(* Every state that a part of a step leads to.                             *)
After(s, t) ==
  /\ Regular(t) /\ Waits(t)
  /\ Flagged(s) => Flagged(t)
  /\ Started(s) => Started(t)
  /\ Alive(s) => Alive(t)

LEMMA DownloadStep ==
  ASSUME NEW s \in Session, Regular(s), Waits(s), s.name = None => NoAsks(s), NEW lang \in Texts
  PROVE  After(s, roadmap_prompts_download(s, lang))
<1> DEFINE t == roadmap_prompts_download(s, lang)
<1>1. CASE s.name = None
  <2>1. t = Starts(s, lang)
    BY <1>1 DEF roadmap_prompts_download
  <2>2. s.queued = None /\ NoAsks(s)
    BY <1>1 DEF Waits
  <2>3. QED
    BY <2>1, <2>2, StartsStep DEF After
<1>2. CASE s.name # None /\ s.name # lang /\ s.queued = None
  <2>1. t = [s EXCEPT !.queued = lang]
    BY <1>2 DEF roadmap_prompts_download
  <2> HIDE DEF t
  <2>2. /\ t \in Session /\ t.queued = lang /\ t.calls = s.calls
        /\ t.files = s.files /\ t.blank = s.blank /\ t.name = s.name /\ t.count = s.count
        /\ t.saved = s.saved /\ t.mixed = s.mixed /\ t.declared = s.declared
        /\ SameFlow(s, t) /\ SameWatch(s, t)
    BY <2>1, QueuedFields
  <2>3. Waits(t.saved) /\ t.name \in {s.name, None}
    BY <2>2 DEF Regular
  <2>4. /\ Regular(t)
        /\ Flagged(s) => Flagged(t)
        /\ Started(s) => Started(t)
    BY <2>2, <2>3, SameStep
  <2>5. Waits(t)
    BY <1>2, <2>2 DEF Waits
  <2>6. Alive(s) => Alive(t)
    BY <2>2 DEF Alive, Pending, SameWatch
  <2>7. QED
    BY <2>4, <2>5, <2>6 DEF After, t
<1>3. CASE s.name # None /\ ~ (s.name # lang /\ s.queued = None)
  <2>1. t = s
    BY <1>3 DEF roadmap_prompts_download
  <2>2. QED
    BY <2>1 DEF After
<1>4. QED
  BY <1>1, <1>2, <1>3

LEMMA DequeueStep ==
  ASSUME NEW s \in Session, Regular(s), s.name = None, NoAsks(s), NEW t \in Dequeue(s)
  PROVE  After(s, t)
<1>1. CASE s.queued = None
  <2>1. t = s
    BY <1>1 DEF Dequeue
  <2>2. QED
    BY <1>1, <2>1 DEF After, Waits
<1>2. CASE s.queued # None
  <2> DEFINE u == [s EXCEPT !.queued = None]
  <2>1. PICK lang \in {s.queued, None} : t = roadmap_prompts_download(u, lang)
    BY <1>2 DEF Dequeue
  <2>2. None \in Texts /\ lang \in Texts
    BY Sizes, FieldsTyped
  <2>3. /\ u \in Session /\ u.queued = None /\ u.calls = s.calls
        /\ u.files = s.files /\ u.blank = s.blank /\ u.name = s.name /\ u.count = s.count
        /\ u.saved = s.saved /\ u.mixed = s.mixed /\ u.declared = s.declared
        /\ SameFlow(s, u) /\ SameWatch(s, u)
    BY <2>2, QueuedFields
  <2> HIDE DEF u
  <2>4. Waits(u.saved) /\ u.name \in {s.name, None} /\ Waits(u)
    BY <2>3 DEF Regular, Waits
  <2>5. /\ Regular(u)
        /\ Flagged(s) => Flagged(u)
        /\ Started(s) => Started(u)
        /\ NoAsks(u)
    BY <2>3, <2>4, SameStep
  <2>6. Alive(s) => Alive(u)
    BY <2>3 DEF Alive, Pending, SameWatch
  <2>7. After(u, t)
    BY <2>1, <2>2, <2>3, <2>4, <2>5, DownloadStep
  <2>8. QED
    BY <2>5, <2>6, <2>7 DEF After
<1>3. QED
  BY <1>1, <1>2

LEMMA PushStep ==
  ASSUME NEW s \in Session, Regular(s), NEW do \in {"start", "finish", "unwatch"},
         do # "unwatch" => Few(s)
  PROVE  LET t == Calls(s, <<Frame(do)>>)
         IN  /\ t \in Session /\ Regular(t) /\ Less(s, t)
             /\ SameSet(s, t) /\ SameFlow(s, t) /\ SameWatch(s, t)
             /\ \A x : Pending(t, x) <=> x = do \/ Pending(s, x)
             /\ Single(s) /\ ~ (do = "finish" /\ Pending(s, "finish")) => Single(t)
             /\ NoAsks(t) <=> NoAsks(s)
             /\ Waits(s) => Waits(t)
             /\ Alive(s) => Alive(t)
<1> DEFINE f == Frame(do)
           c == s.calls
           p == <<f>> \o c
           t == Calls(s, <<f>>)
<1>1. f \in Frames /\ f.do = do /\ ~ Asks(f)
  BY DEF Frame, Frames, Asks
<1>2. c \in Seq(Frames)
  BY FieldsTyped
<1>3. t = [s EXCEPT !.calls = p]
  BY DEF Calls
<1> HIDE DEF f, c, t
<1>4. /\ p \in Seq(Frames) /\ p[1] = f
      /\ \A k \in Positions(p) : k = 1 \/ (k > 1 /\ k - 1 \in Positions(c) /\ p[k] = c[k - 1])
  BY <1>1, <1>2, PushCall
<1> HIDE DEF p
<1>5. /\ t \in Session /\ t.calls = p /\ SameSet(s, t) /\ SameFlow(s, t) /\ SameWatch(s, t)
  BY <1>3, <1>4, CallsFields
<1>6. t.calls = <<f>> \o s.calls
  BY <1>5 DEF p, c
<1>7. /\ \A x : Pending(t, x) <=> f.do = x \/ Pending(s, x)
      /\ Single(s) /\ ~ (f.do = "finish" /\ Pending(s, "finish")) => Single(t)
      /\ ~ Asks(f) => (NoAsks(t) <=> NoAsks(s))
  BY <1>1, <1>5, <1>6, PushPending
<1>8. Less(s, t)
  <2>1. QueueFrom(s, t, 0)
    BY <1>5 DEF QueueFrom, Positions, SameFlow
  <2>2. \A k \in Positions(p) : Asks(p[k]) => k + (-1) \in Positions(c) /\ c[k + (-1)] = p[k]
    <3> SUFFICES ASSUME NEW k \in Positions(p), Asks(p[k])
                 PROVE  k + (-1) \in Positions(c) /\ c[k + (-1)] = p[k]
      OBVIOUS
    <3>1. k - 1 \in Positions(c) /\ p[k] = c[k - 1]
      BY <1>1, <1>4
    <3>2. k + (-1) = k - 1
      BY DEF Positions
    <3>3. QED
      BY <3>1, <3>2
  <2>3. CallsFrom(s, t, -1)
    BY <1>5, <2>2 DEF CallsFrom, c
  <2>4. QED
    BY <1>5, <2>1, <2>3 DEF Less, SameSet, SameFlow, Known
<1>9. Accounted(t)
  BY <1>5, <1>8, AccountedLess DEF Regular
<1>10. Shape(t)
  <2>1. t.queue = s.queue /\ t.mixed = s.mixed
    BY <1>5 DEF SameSet, SameFlow
  <2>2. Shape(s) /\ f.do \in {"start", "finish", "unwatch"} /\ (f.do # "unwatch" => Few(s))
    BY <1>1 DEF Regular
  <2>3. QED
    BY <1>1, <1>5, <1>6, <2>1, <2>2, ShapePush
<1>11. Regular(t)
  BY <1>5, <1>9, <1>10 DEF Regular, SameSet, SameFlow, Pure, Known
<1>12. Waits(s) => Waits(t)
  BY <1>5 DEF Waits, SameSet
<1>13. Alive(s) => Alive(t)
  BY <1>5, <1>7 DEF Alive, SameSet, SameWatch
<1>14. QED
  BY <1>1, <1>5, <1>7, <1>8, <1>11, <1>12, <1>13 DEF t, f

LEMMA CountedStep ==
  ASSUME NEW s \in Session, Regular(s), Waits(s), NEW r \in Requests, Keeps(s, r),
         r.kind = "sound", <<r.lang, r.file>> \in Known(s), ~ NoAsks(s) => Fresh(r),
         NEW t \in Counted(s, r)
  PROVE  After(s, t)
<1> DEFINE n == IF s.count > NumPrompts THEN s.count ELSE s.count + 1
           x == s.mixed \/ ~ r.fresh
           c == [s EXCEPT !.count = n, !.mixed = x]
<1>1. n \in 0 .. NumPrompts + 1
  <2>1. s.count \in 0 .. NumPrompts + 1
    BY FieldsTyped
  <2>2. QED
    BY <2>1, Sizes
<1>2. x \in BOOLEAN /\ (x <=> s.mixed \/ ~ Fresh(r))
  <2>1. x \in BOOLEAN
    OBVIOUS
  <2>2. x <=> s.mixed \/ ~ Fresh(r)
    BY DEF Fresh
  <2>3. QED
    BY <2>1, <2>2
<1>3. t \in IF c.count = NumPrompts THEN SetDone(c) ELSE {c}
  BY DEF Counted
<1> HIDE DEF x, n
<1>4. /\ c \in Session /\ c.count = n /\ c.mixed = x /\ c.calls = s.calls
      /\ c.files = s.files /\ c.blank = s.blank /\ c.name = s.name /\ c.queued = s.queued
      /\ c.saved = s.saved /\ c.declared = s.declared
      /\ SameFlow(s, c) /\ SameWatch(s, c)
  <2> DEFINE N == 0 .. NumPrompts + 1
  <2>1. n \in N
    BY <1>1
  <2> HIDE DEF N
  <2>2. c \in Session
    BY <1>2, <2>1 DEF Session, N
  <2>3. QED
    BY <2>2 DEF Session, SameFlow, SameWatch
<1> HIDE DEF c
<1>5. ~ NoAsks(s) => ~ x
  <2>1. ~ NoAsks(s) => ~ s.mixed
    BY DEF Regular, Shape, NoAsks
  <2>2. QED
    BY <1>2, <2>1
<1>6. ASSUME ~ x
      PROVE  /\ Accounted(c)
             /\ c.count = NumPrompts =>
                  /\ NoAsks(c)
                  /\ \E lang \in Texts : /\ c.name # None => lang = c.name
                                         /\ \A i \in Files : <<lang, i>> \in Known(c)
  <2>1. Fresh(r) /\ ~ s.mixed /\ ~ c.mixed
    BY <1>2, <1>4, <1>6
  <2>2. c.count = (IF s.count > NumPrompts THEN s.count ELSE s.count + 1)
    BY <1>4 DEF n
  <2>3. QED
    BY <1>4, <2>1, <2>2, CountOne
<1>7. Accounted(c)
  BY <1>4, <1>6 DEF Accounted
<1>8. Shape(c)
  <2>1. \A k \in Positions(s.calls) : Asks(s.calls[k]) => ~ c.mixed
    BY <1>4, <1>5 DEF NoAsks
  <2>2. QED
    BY <1>4, <2>1 DEF Shape, Regular, SameFlow
<1>9. Regular(c) /\ Waits(c)
  BY <1>4, <1>7, <1>8 DEF Regular, SameFlow, Pure, Waits, Known
<1>10. /\ \A do : Pending(c, do) <=> Pending(s, do)
       /\ NoAsks(c) <=> NoAsks(s)
       /\ Single(c) <=> Single(s)
  BY <1>4 DEF Pending, NoAsks, Single
<1>11. /\ Flagged(s) => Flagged(c)
       /\ Started(s) => Started(c)
       /\ Alive(s) => Alive(c)
  BY <1>4, <1>10 DEF Flagged, Started, Alive, SameFlow, SameWatch
<1>12. CASE c.count # NumPrompts
  BY <1>3, <1>9, <1>11, <1>12 DEF After
<1>13. CASE c.count = NumPrompts
  <2> DEFINE dec == Declared(c)
             d == [c EXCEPT !.watched = FALSE, !.declared = dec, !.name = None]
  <2>1. t \in Dequeue(d)
    BY <1>3, <1>13 DEF SetDone
  <2>2. NoAsks(c)
    BY <1>5, <1>6, <1>10, <1>13
  <2>3. dec \in [Langs -> {"no", "pure", "mixed"}]
    <3>1. c.declared \in [Langs -> {"no", "pure", "mixed"}]
      BY <1>4, FieldsTyped
    <3>2. QED
      BY <3>1 DEF Declared
  <2>4. ASSUME NEW l \in Langs, dec[l] = "pure"
        PROVE  \A i \in Files : <<l, i>> \in Known(c)
    <3>1. c.declared \in [Langs -> {"no", "pure", "mixed"}]
      BY <1>4, FieldsTyped
    <3>2. CASE c.declared[l] = "pure"
      BY <1>9, <3>2 DEF Regular, Pure, Known
    <3>3. CASE c.declared[l] # "pure"
      <4>1. c.name # None /\ l = c.name /\ ~ c.mixed
        BY <2>4, <3>1, <3>3 DEF Declared
      <4>2. ~ x
        BY <1>4, <4>1
      <4>3. QED
        BY <1>6, <1>13, <4>1, <4>2
    <3>4. QED
      BY <3>2, <3>3
  <2> HIDE DEF dec
  <2>5. /\ d \in Session /\ d.declared = dec /\ d.name = None /\ d.calls = c.calls
        /\ d.files = c.files /\ d.blank = c.blank /\ d.count = c.count /\ d.queued = c.queued
        /\ d.saved = c.saved /\ d.mixed = c.mixed /\ SameFlow(c, d)
    BY <1>4, <2>3, DoneFields
  <2> HIDE DEF d
  <2>6. Less(c, d)
    <3>1. QueueFrom(c, d, 0)
      BY <2>5 DEF QueueFrom, Positions, SameFlow
    <3>2. CallsFrom(c, d, 0)
      BY <2>5 DEF CallsFrom, Positions
    <3>3. QED
      BY <2>5, <3>1, <3>2 DEF Less, SameFlow, Known
  <2>7. Accounted(d)
    BY <1>4, <1>7, <2>5, <2>6, AccountedLess
  <2>8. Shape(d)
    BY <1>8, <2>5 DEF Shape, SameFlow
  <2>9. Pure(d)
    BY <2>4, <2>5 DEF Pure, Known
  <2>10. Regular(d)
    BY <1>9, <2>5, <2>7, <2>8, <2>9 DEF Regular, SameFlow
  <2>11. /\ \A do : Pending(d, do) <=> Pending(c, do)
         /\ NoAsks(d) <=> NoAsks(c)
         /\ Single(d) <=> Single(c)
    BY <2>5 DEF Pending, NoAsks, Single
  <2>12. /\ Flagged(c) => Flagged(d)
         /\ Started(c) => Started(d)
         /\ Alive(d)
    BY <2>5, <2>11 DEF Flagged, Started, Alive, SameFlow
  <2>13. After(d, t)
    BY <2>1, <2>2, <2>5, <2>10, <2>11, DequeueStep
  <2>14. QED
    BY <1>11, <2>12, <2>13 DEF After
<1>14. QED
  BY <1>12, <1>13

(* The transfer is over, and the flag is still to be taken down.           *)
LEMMA ToldStep ==
  ASSUME NEW s \in Session, Regular(s), Waits(s), NEW r \in Requests, Keeps(s, r),
         s.downloading, s.current = Idle, ~ Pending(s, "finish"), Single(s),
         ~ NoAsks(s) => Fresh(r) /\ s.queue = <<>>,
         NEW success \in BOOLEAN,
         success /\ r.kind = "sound" => <<r.lang, r.file>> \in Known(s),
         NEW t \in Told(s, r, success)
  PROVE  Valid(t) /\ (Alive(s) => Alive(t))
<1> DEFINE u == Calls(s, <<Frame("finish")>>)
<1>1. t \in on_loaded_prompt_file(u, r, success)
  BY DEF Told
<1>2. Few(s)
  BY EmptySeq DEF Few, Positions
<1>3. /\ u \in Session /\ Regular(u) /\ Less(s, u)
      /\ SameSet(s, u) /\ SameFlow(s, u) /\ SameWatch(s, u)
      /\ \A x : Pending(u, x) <=> x = "finish" \/ Pending(s, x)
      /\ Single(s) /\ ~ ("finish" = "finish" /\ Pending(s, "finish")) => Single(u)
      /\ NoAsks(u) <=> NoAsks(s)
      /\ Waits(s) => Waits(u)
      /\ Alive(s) => Alive(u)
  BY <1>2, PushStep
<1> HIDE DEF u
<1>4. Flagged(u) /\ Started(u)
  BY <1>3 DEF Flagged, Started, SameFlow
<1>5. Keeps(u, r)
  BY <1>3, KeepsLess
<1>6. After(u, t)
  <2>1. CASE r.kind = "sound" /\ success
    <3>1. t \in Counted(u, r)
      BY <1>1, <2>1 DEF on_loaded_prompt_file
    <3>2. <<r.lang, r.file>> \in Known(u)
      BY <1>3, <2>1 DEF SameSet, Known
    <3>3. ~ NoAsks(u) => Fresh(r)
      BY <1>3
    <3>4. QED
      BY <1>3, <1>5, <2>1, <3>1, <3>2, <3>3, CountedStep
  <2>2. CASE ~ (r.kind = "sound" /\ success)
    <3>1. t = u
      BY <1>1, <2>2 DEF on_loaded_prompt_file
    <3>2. QED
      BY <1>3, <3>1 DEF After
  <2>3. QED
    BY <2>1, <2>2
<1>7. QED
  BY <1>3, <1>4, <1>6 DEF After, Valid

LEMMA FinishStep ==
  ASSUME NEW s \in Session, Regular(s), Waits(s), Few(s),
         s.current = Idle, ~ Pending(s, "finish"), Single(s)
  PROVE  LET t == Finish(s) IN Valid(t) /\ (Alive(s) => Alive(t))
<1> DEFINE u == [s EXCEPT !.downloading = FALSE]
           t == Finish(s)
<1>1. t = Calls(u, <<Frame("start")>>)
  BY DEF Finish
<1>2. /\ u \in Session /\ u.downloading = FALSE /\ u.calls = s.calls
      /\ u.queue = s.queue /\ u.current = s.current
      /\ SameSet(s, u) /\ SameWatch(s, u)
  BY DownFields
<1> HIDE DEF u, t
<1>3. Accounted(u)
  <2>1. QueueFrom(s, u, 0)
    BY <1>2 DEF QueueFrom, Positions
  <2>2. CallsFrom(s, u, 0)
    BY <1>2 DEF CallsFrom, Positions
  <2>3. Less(s, u)
    BY <1>2, <2>1, <2>2 DEF Less, SameSet, Known
  <2>4. QED
    BY <1>2, <2>3, AccountedLess DEF Regular
<1>4. Shape(u)
  BY <1>2 DEF Shape, Regular, SameSet
<1>5. Regular(u) /\ Waits(u) /\ Few(u) /\ Single(u) /\ ~ Pending(u, "finish")
  BY <1>2, <1>3, <1>4 DEF Regular, SameSet, Pure, Waits, Few, NoAsks, Single, Pending, Known
<1>6. Alive(s) => Alive(u)
  BY <1>2 DEF Alive, Pending, SameWatch, SameSet
<1>7. /\ t \in Session /\ Regular(t)
      /\ SameFlow(u, t)
      /\ \A x : Pending(t, x) <=> x = "start" \/ Pending(u, x)
      /\ Single(u) /\ ~ ("start" = "finish" /\ Pending(u, "finish")) => Single(t)
      /\ Waits(u) => Waits(t)
      /\ Alive(u) => Alive(t)
  BY <1>1, <1>2, <1>5, PushStep
<1>8. Pending(t, "start") /\ ~ Pending(t, "finish") /\ Single(t)
  BY <1>5, <1>7
<1>9. t.downloading = FALSE /\ t.current = Idle
  BY <1>2, <1>7 DEF SameFlow
<1>10. Flagged(t) /\ Started(t)
  BY <1>8, <1>9 DEF Flagged, Started
<1>11. QED
  BY <1>5, <1>6, <1>7, <1>10 DEF Valid, t

(* roadmap_res_download: what was taken is put into the queue.             *)
LEMMA DownloadResStep ==
  ASSUME NEW s \in Session, Regular(s), Flagged(s), Started(s), Waits(s), Clean(s),
         NEW r \in Requests, Keeps(s, r), ~ NoAsks(s) => Fresh(r)
  PROVE  LET t == roadmap_res_download(s, r) IN Valid(t) /\ (Alive(s) => Alive(t))
<1> DEFINE q == ResDataQueue_Push(s.queue, r)
           u == [s EXCEPT !.queue = q]
           t == roadmap_res_download(s, r)
<1>1. t = IF s.queue = <<>> THEN Calls(u, <<Frame("start")>>) ELSE u
  BY DEF roadmap_res_download
<1>2. /\ q \in Seq(Requests) /\ Len(q) <= MaxQueue /\ q # <<>>
      /\ s.queue = <<>> => Len(q) = 1 /\ \A k \in Positions(q) : q[k] = r
  <2> DEFINE old == s.queue
  <2>1. old \in Seq(Requests) /\ Len(old) <= MaxQueue
    BY FieldsTyped DEF Regular
  <2>2. q = ResDataQueue_Push(old, r)
    OBVIOUS
  <2> HIDE DEF q, old
  <2>3. /\ q \in Seq(Requests) /\ Len(q) <= MaxQueue /\ q # <<>>
        /\ old = <<>> => Len(q) = 1
        /\ \E d \in {0, 1} :
             \A k \in Positions(q) :
               (k = Len(q) /\ q[k] = r)
                 \/ (k + d \in Positions(old) /\ k < Len(q) /\ q[k] = old[k + d])
    BY <2>1, <2>2, PushProperties
  <2>4. old = <<>> => \A k \in Positions(q) : q[k] = r
    BY <2>3, EmptySeq DEF Positions
  <2>5. QED
    BY <2>3, <2>4 DEF old
<1> HIDE DEF t
<1>3. /\ u \in Session /\ u.queue = q /\ u.calls = s.calls
      /\ u.downloading = s.downloading /\ u.current = s.current
      /\ SameSet(s, u) /\ SameWatch(s, u)
  <2> HIDE DEF q
  <2>1. q \in Seq(Requests)
    BY <1>2
  <2>2. QED
    BY <2>1, QueueFields
<1> HIDE DEF u
<1>4. Accounted(u)
  <2>1. u.queue = ResDataQueue_Push(s.queue, r) /\ Len(s.queue) <= MaxQueue
    BY <1>3 DEF Regular
  <2> HIDE DEF q
  <2>2. QED
    BY <1>3, <2>1, PutQueue
<1> HIDE DEF q
<1>5. Shape(u)
  <2>1. u.mixed = s.mixed /\ Shape(s)
    BY <1>3 DEF SameSet, Regular
  <2>2. QED
    BY <1>3, <2>1, ShapeQueue
<1>6. Regular(u) /\ Waits(u)
  BY <1>2, <1>3, <1>4, <1>5 DEF Regular, SameSet, Pure, Waits, Known
<1>7. /\ \A x : Pending(u, x) <=> Pending(s, x)
      /\ Single(u) <=> Single(s)
      /\ NoAsks(u) <=> NoAsks(s)
  BY <1>3 DEF Pending, Single, NoAsks
<1>8. Flagged(u) /\ (Alive(s) => Alive(u))
  BY <1>3, <1>7 DEF Flagged, Alive, SameSet, SameWatch
<1>9. CASE s.queue # <<>>
  <2>1. Started(u)
    BY <1>3, <1>7, <1>9 DEF Started
  <2>2. QED
    BY <1>1, <1>6, <1>8, <1>9, <2>1 DEF Valid, t
<1>10. CASE s.queue = <<>>
  <2>1. Few(u)
    <3>1. Len(q) <= 1 /\ \A k \in Positions(q) : q[k] = r
      <4>1. Len(q) = 1 /\ \A k \in Positions(q) : q[k] = r
        BY <1>2, <1>10, Zenon
      <4>2. Len(q) <= 1
        BY <4>1
      <4>3. QED
        BY <4>1, <4>2
    <3>2. ~ NoAsks(u) => Fresh(r)
      BY <1>7
    <3>3. QED
      BY <1>3, <3>1, <3>2 DEF Few
  <2>2. t = Calls(u, <<Frame("start")>>)
    BY <1>1, <1>10
  <2>3. /\ t \in Session /\ Regular(t)
        /\ SameFlow(u, t)
        /\ \A x : Pending(t, x) <=> x = "start" \/ Pending(u, x)
        /\ Single(u) /\ ~ ("start" = "finish" /\ Pending(u, "finish")) => Single(t)
        /\ Waits(u) => Waits(t)
        /\ Alive(u) => Alive(t)
    BY <1>3, <1>6, <2>1, <2>2, PushStep
  <2>4. Pending(t, "start") /\ (Pending(t, "finish") <=> Pending(u, "finish"))
    BY <2>3
  <2>5. Flagged(t) /\ Started(t)
    BY <1>8, <2>3, <2>4 DEF Flagged, Started, SameFlow
  <2>6. QED
    BY <1>6, <1>8, <2>3, <2>5 DEF Valid, t
<1>11. QED
  BY <1>9, <1>10

LEMMA StartStep ==
  ASSUME NEW s \in Session, Regular(s), Flagged(s), Waits(s), Few(s),
         NEW t \in roadmap_download_start(s)
  PROVE  Valid(t) /\ (Alive(s) => Alive(t))
<1>1. CASE s.downloading \/ s.queue = <<>>
  <2>1. t = s
    BY <1>1 DEF roadmap_download_start
  <2>2. QED
    BY <1>1, <2>1 DEF Valid, Started
<1>2. CASE ~ s.downloading /\ s.queue # <<>>
  <2> DEFINE r == Head(s.queue)
             q == Tail(s.queue)
             u == [s EXCEPT !.queue = q, !.downloading = TRUE]
  <2>1. \/ t \in Told(u, r, TRUE) /\ r.kind = "sound" /\ <<r.lang, r.file>> \in Known(s)
        \/ t \in ToldWithoutUrl(u, r) /\ r.kind = "sound"
        \/ t = [u EXCEPT !.current = r]
        \/ t \in Told(u, r, FALSE)
    <3> DEFINE sound == r.kind = "sound"
               there == <<r.lang, r.file>> \in s.files
    <3>1. t \in CASE sound /\ there            -> Told(u, r, TRUE)
                  [] sound /\ ~ there /\ ~ s.url -> ToldWithoutUrl(u, r)
                  [] ~ sound \/ (~ there /\ s.url) ->
                       {[u EXCEPT !.current = r]} \cup Told(u, r, FALSE)
      BY <1>2 DEF roadmap_download_start
    <3>2. there => <<r.lang, r.file>> \in Known(s)
      BY DEF Known
    <3> HIDE DEF u, r, there
    <3>3. CASE sound /\ there
      BY <3>1, <3>2, <3>3
    <3>4. CASE sound /\ ~ there /\ ~ s.url
      BY <3>1, <3>4
    <3>5. CASE ~ sound \/ (~ there /\ s.url)
      BY <3>1, <3>5
    <3>6. QED
      BY <3>3, <3>4, <3>5
  <2>2. s.queue \in Seq(Requests) /\ Len(s.queue) <= MaxQueue
    BY FieldsTyped DEF Regular
  <2>3. /\ q \in Seq(Requests) /\ Len(s.queue) = Len(q) + 1 /\ Len(q) \in Nat
        /\ r \in Requests /\ s.queue[1] = r /\ 1 \in Positions(s.queue)
        /\ \A k \in Positions(q) : k + 1 \in Positions(s.queue) /\ q[k] = s.queue[k + 1]
    <3> DEFINE old == s.queue
               S == Requests
    <3>1. old \in Seq(S) /\ old # <<>>
      BY <1>2, <2>2
    <3> HIDE DEF old, S
    <3>2. /\ Tail(old) \in Seq(S) /\ Len(old) = Len(Tail(old)) + 1 /\ Len(Tail(old)) \in Nat
          /\ Head(old) \in S /\ old[1] = Head(old) /\ 1 \in Positions(old)
          /\ \A k \in Positions(Tail(old)) : k + 1 \in Positions(old) /\ Tail(old)[k] = old[k + 1]
      BY <3>1, PopCall
    <3>3. QED
      BY <3>2 DEF old, S
  <2> HIDE DEF r
  <2>4. /\ u \in Session /\ u.queue = q /\ u.calls = s.calls
        /\ u.downloading = TRUE /\ u.current = s.current
        /\ SameSet(s, u) /\ SameWatch(s, u)
    <3>1. q \in Seq(Requests)
      BY <2>3
    <3> HIDE DEF q
    <3>2. QED
      BY <3>1, TakeFields
  <2> HIDE DEF u
  <2>5. Less(s, u) /\ Keeps(u, r)
    <3>1. Accounted(s) /\ u.queue = Tail(s.queue)
      BY <2>4 DEF Regular
    <3> HIDE DEF q
    <3>2. Less(s, u) /\ Keeps(u, Head(s.queue))
      BY <1>2, <2>4, <3>1, TakeHead
    <3>3. QED
      BY <3>2 DEF r
  <2> HIDE DEF q
  <2>6. Shape(u)
    <3>1. Len(u.queue) <= Len(s.queue)
      <4> DEFINE m == Len(q)
                 n == Len(s.queue)
      <4>1. m \in Nat /\ n = m + 1 /\ Len(u.queue) = m
        BY <2>3, <2>4
      <4> HIDE DEF m, n
      <4>2. m <= n
        BY <4>1
      <4>3. QED
        BY <4>1, <4>2 DEF n
    <3>2. \A k \in Positions(u.queue) : \E i \in Positions(s.queue) : u.queue[k] = s.queue[i]
      BY <2>3, <2>4
    <3>3. u.mixed = s.mixed /\ Shape(s)
      BY <2>4 DEF SameSet, Regular
    <3>4. QED
      BY <2>4, <3>1, <3>2, <3>3, ShapeQueue
  <2>7. Len(q) <= MaxQueue
    <3> DEFINE m == Len(q)
               n == Len(s.queue)
    <3>1. m \in Nat /\ n = m + 1 /\ n <= MaxQueue /\ MaxQueue \in Nat
      BY <2>2, <2>3, Sizes
    <3> HIDE DEF m, n
    <3>2. m <= MaxQueue
      BY <3>1
    <3>3. QED
      BY <3>2 DEF m
  <2>8. Regular(u) /\ Waits(u)
    <3>1. Accounted(u)
      BY <2>5, AccountedKept
    <3>2. QED
      BY <2>4, <2>6, <2>7, <3>1 DEF Regular, SameSet, Pure, Waits, Known
  <2>9. /\ \A x : Pending(u, x) <=> Pending(s, x)
        /\ Single(u) <=> Single(s)
        /\ NoAsks(u) <=> NoAsks(s)
    BY <2>4 DEF Pending, Single, NoAsks
  <2>10. Alive(s) => Alive(u)
    BY <2>4, <2>9 DEF Alive, SameSet, SameWatch
  <2>11. u.current = Idle /\ ~ Pending(u, "finish") /\ Single(u)
    BY <1>2, <2>4, <2>9 DEF Flagged
  <2>12. ~ NoAsks(u) => Fresh(r) /\ u.queue = <<>>
    <3> SUFFICES ASSUME ~ NoAsks(u)
                 PROVE  Fresh(r) /\ u.queue = <<>>
      OBVIOUS
    <3>1. Len(s.queue) <= 1 /\ Fresh(r)
      BY <2>3, <2>9 DEF Few
    <3>2. Len(q) = 0
      <4> DEFINE m == Len(q)
                 n == Len(s.queue)
      <4>1. m \in Nat /\ n = m + 1 /\ n <= 1
        BY <2>3, <3>1
      <4> HIDE DEF m, n
      <4>2. m = 0
        BY <4>1
      <4>3. QED
        BY <4>2 DEF m
    <3>3. QED
      BY <2>3, <2>4, <3>1, <3>2, EmptySeq
  <2>13. ASSUME t = [u EXCEPT !.current = r]
         PROVE  Valid(t) /\ (Alive(u) => Alive(t))
    <3>1. /\ t \in Session /\ t.current = r /\ t.calls = u.calls
          /\ t.queue = u.queue /\ t.downloading = u.downloading
          /\ SameSet(u, t) /\ SameWatch(u, t)
      BY <2>3, <2>4, <2>13, CurrentFields
    <3>2. Accounted(t)
      BY <2>4, <2>5, <3>1, PutCurrent
    <3>3. Shape(t)
      BY <2>6, <3>1 DEF Shape, SameSet
    <3>4. Regular(t) /\ Waits(t)
      BY <2>8, <3>1, <3>2, <3>3 DEF Regular, SameSet, Pure, Waits, Known
    <3>5. /\ \A x : Pending(t, x) <=> Pending(u, x)
          /\ Single(t) <=> Single(u)
      BY <3>1 DEF Pending, Single
    <3>6. r # Idle
      <4>1. r.kind \in {"sound", "other"} /\ Idle.kind = "none"
        BY <2>3 DEF Requests, Idle
      <4>2. QED
        BY <4>1
    <3>7. Flagged(t) /\ Started(t)
      BY <2>4, <2>11, <3>1, <3>5, <3>6 DEF Flagged, Started
    <3>8. Alive(u) => Alive(t)
      BY <3>1, <3>5 DEF Alive, SameSet, SameWatch
    <3>9. QED
      BY <3>4, <3>7, <3>8 DEF Valid
  <2>14. ASSUME NEW success \in BOOLEAN, t \in Told(u, r, success),
                success => <<r.lang, r.file>> \in Known(s)
         PROVE  Valid(t) /\ (Alive(u) => Alive(t))
    <3>1. success /\ r.kind = "sound" => <<r.lang, r.file>> \in Known(u)
      BY <2>4, <2>14 DEF SameSet, Known
    <3>2. QED
      BY <2>3, <2>4, <2>5, <2>8, <2>11, <2>12, <2>14, <3>1, ToldStep
  <2>15. TRUE \in BOOLEAN /\ FALSE \in BOOLEAN
    OBVIOUS
  <2>16. CASE t \in Told(u, r, TRUE) /\ <<r.lang, r.file>> \in Known(s)
    <3>1. Valid(t) /\ (Alive(u) => Alive(t))
      BY <2>14, <2>15, <2>16, Zenon
    <3>2. QED
      BY <2>10, <3>1
  <2>17. CASE t \in Told(u, r, FALSE)
    <3>1. Valid(t) /\ (Alive(u) => Alive(t))
      BY <2>14, <2>15, <2>17, Zenon
    <3>2. QED
      BY <2>10, <3>1
  <2>18. CASE t = [u EXCEPT !.current = r]
    BY <2>10, <2>13, <2>18
  <2>19. CASE t \in ToldWithoutUrl(u, r) /\ r.kind = "sound"
    <3> DEFINE B == u.blank \cup {<<r.lang, r.file>>}
               v == [u EXCEPT !.blank = B]
    <3>1. B \in SUBSET (Texts \X Files) /\ u.blank \subseteq B /\ <<r.lang, r.file>> \in B
      <4>1. <<r.lang, r.file>> \in Texts \X Files
        BY <2>3, <2>19 DEF Requests
      <4>2. u.blank \subseteq Texts \X Files
        BY <2>4, FieldsTyped
      <4>3. QED
        BY <4>1, <4>2
    <3>2. t \in Told(v, r, TRUE)
      BY <2>19 DEF ToldWithoutUrl
    <3> HIDE DEF B
    <3>3. /\ v \in Session /\ v.blank = B /\ v.files = u.files /\ v.calls = u.calls
          /\ v.name = u.name /\ v.queued = u.queued /\ v.count = u.count
          /\ v.saved = u.saved /\ v.mixed = u.mixed /\ v.declared = u.declared
          /\ SameFlow(u, v) /\ SameWatch(u, v)
      BY <2>4, <3>1, BlankFields
    <3> HIDE DEF v
    <3>4. Known(u) \subseteq Known(v) /\ <<r.lang, r.file>> \in Known(v)
      BY <3>1, <3>3 DEF Known
    <3>5. /\ Keeps(v, r) /\ Regular(v) /\ Waits(v)
          /\ Pending(v, "finish") <=> Pending(u, "finish")
          /\ Single(v) <=> Single(u)
          /\ NoAsks(v) <=> NoAsks(u)
          /\ Alive(u) => Alive(v)
      BY <2>4, <2>5, <2>8, <3>3, <3>4, MoreKnown
    <3>6. /\ v.downloading /\ v.current = Idle /\ ~ Pending(v, "finish") /\ Single(v)
          /\ ~ NoAsks(v) => Fresh(r) /\ v.queue = <<>>
      BY <2>4, <2>11, <2>12, <3>3, <3>5 DEF SameFlow
    <3> DEFINE yes == TRUE
    <3>7. yes \in BOOLEAN /\ t \in Told(v, r, yes)
      BY <3>2
    <3> HIDE DEF yes
    <3>8. Valid(t) /\ (Alive(v) => Alive(t))
      BY <2>3, <3>3, <3>4, <3>5, <3>6, <3>7, ToldStep
    <3>9. QED
      BY <2>10, <3>5, <3>8
  <2>20. QED
    BY <2>1, <2>16, <2>17, <2>18, <2>19
<1>3. QED
  BY <1>1, <1>2

(***************************************************************************)
(* The actions.                                                            *)
(***************************************************************************)

LEMMA ProceedStep ==
  ASSUME NEW s \in Session, Valid(s), s.calls # <<>>,
         NEW x \in Execute([s EXCEPT !.calls = Tail(@)], Head(s.calls))
  PROVE  Valid(x) /\ (Head(s.calls).do # "unwatch" /\ Alive(s) => Alive(x))
<1> DEFINE t == [s EXCEPT !.calls = Tail(@)]
           f == Head(s.calls)
<1>1. Tail(s.calls) \in Seq(Frames) /\ f \in Frames
  BY FieldsTyped
<1>2. t = [s EXCEPT !.calls = Tail(s.calls)]
  OBVIOUS
<1>3. x \in Execute(t, f)
  OBVIOUS
<1> HIDE DEF t, f
<1>4. t \in Session /\ t.calls = Tail(s.calls) /\ SameSet(s, t) /\ SameFlow(s, t) /\ SameWatch(s, t)
  BY <1>1, <1>2, CallsFields
<1>5. Less(s, t) /\ (f.do = "ask" => Keeps(t, f.what))
  BY <1>4, TakeCall DEF Valid, Regular, f
<1>6. /\ Shape(t)
      /\ f.do = "ask" => Clean(t) /\ (~ NoAsks(t) => Fresh(f.what))
      /\ f.do \in {"start", "finish"} => Few(t)
      /\ f.do = "resume" => NoAsks(t)
  <2>1. t.queue = s.queue /\ t.mixed = s.mixed /\ Shape(s)
    BY <1>4 DEF SameSet, SameFlow, Valid, Regular
  <2>2. QED
    BY <1>4, <2>1, ShapePop DEF f
<1>7. Regular(t) /\ Waits(t)
  <2>1. Accounted(t)
    BY <1>4, <1>5, AccountedLess DEF Valid, Regular
  <2>2. QED
    BY <1>4, <1>6, <2>1 DEF Valid, Regular, SameSet, SameFlow, Pure, Waits, Known
<1>8. /\ \A do : Pending(s, do) <=> f.do = do \/ Pending(t, do)
      /\ Single(t) /\ ~ (f.do = "finish" /\ Pending(t, "finish"))
  BY <1>4, PopPending DEF Valid, Flagged, f
<1>9. f.do # "resume" /\ Alive(s) => Alive(t)
  BY <1>4, <1>8 DEF Alive, SameSet, SameWatch
<1>10. f.do # "finish" => Flagged(t)
  <2>1. f.do # "finish" => (Pending(s, "finish") <=> Pending(t, "finish"))
    BY <1>8
  <2>2. QED
    BY <1>4, <1>8, <2>1 DEF Valid, Flagged, SameFlow
<1>11. f.do # "start" => Started(t)
  <2>1. f.do # "start" => (Pending(s, "start") <=> Pending(t, "start"))
    BY <1>8
  <2>2. QED
    BY <1>4, <2>1 DEF Valid, Started, SameFlow
<1>12. f.do \in {"ask", "start", "finish", "unwatch", "resume"} /\ (f.do = "ask" => f.what \in Requests)
  BY <1>1 DEF Frames
<1>13. CASE f.do = "ask"
  <2>1. x = roadmap_res_download(t, f.what)
    BY <1>3, <1>13 DEF Execute
  <2>2. QED
    BY <1>4, <1>5, <1>6, <1>7, <1>9, <1>10, <1>11, <1>12, <1>13, <2>1, DownloadResStep DEF f
<1>14. CASE f.do = "start"
  <2>1. x \in roadmap_download_start(t)
    BY <1>3, <1>14 DEF Execute
  <2>2. QED
    BY <1>4, <1>6, <1>7, <1>9, <1>10, <1>14, <2>1, StartStep DEF f
<1>15. CASE f.do = "finish"
  <2>1. x = Finish(t)
    BY <1>3, <1>15 DEF Execute
  <2>2. t.current = Idle /\ ~ Pending(t, "finish")
    BY <1>4, <1>8, <1>15 DEF Valid, Flagged, SameFlow
  <2>3. QED
    BY <1>4, <1>6, <1>7, <1>8, <1>9, <1>15, <2>1, <2>2, FinishStep DEF f
<1>16. CASE f.do = "unwatch"
  <2>1. x = [t EXCEPT !.watched = FALSE]
    BY <1>3, <1>16 DEF Execute
  <2>2. x \in Session /\ x.calls = t.calls /\ SameSet(t, x) /\ SameFlow(t, x)
    BY <1>4, <2>1, WatchFields
  <2>3. /\ x.files = t.files /\ x.blank = t.blank /\ x.count = t.count /\ x.mixed = t.mixed
        /\ x.declared = t.declared /\ Waits(x.saved) /\ x.name \in {t.name, None} /\ Waits(x)
    BY <1>7, <2>2 DEF SameSet, Regular, Waits
  <2>4. /\ Regular(x)
        /\ Flagged(t) => Flagged(x)
        /\ Started(t) => Started(x)
    BY <1>4, <1>7, <2>2, <2>3, SameStep
  <2>5. QED
    BY <1>10, <1>11, <1>16, <2>3, <2>4 DEF Valid, f
<1>17. CASE f.do = "resume"
  <2>1. x = Resume(t)
    BY <1>3, <1>17 DEF Execute
  <2>2. CASE t.name = None
    BY <1>7, <1>10, <1>11, <1>17, <2>1, <2>2 DEF Resume, Valid, Alive
  <2>3. CASE t.name # None
    <3> DEFINE u == [t EXCEPT !.name = None]
    <3>1. x = roadmap_prompts_download(u, t.name)
      BY <2>1, <2>3 DEF Resume
    <3>2. /\ u \in Session /\ u.name = None /\ u.calls = t.calls
          /\ u.files = t.files /\ u.blank = t.blank /\ u.queued = t.queued /\ u.count = t.count
          /\ u.saved = t.saved /\ u.mixed = t.mixed /\ u.declared = t.declared
          /\ SameFlow(t, u) /\ SameWatch(t, u)
      BY <1>4, Sizes, NameFields
    <3> HIDE DEF u
    <3>3. Waits(u.saved) /\ u.name \in {t.name, None}
      BY <1>7, <3>2 DEF Regular
    <3>4. /\ Regular(u)
          /\ Flagged(t) => Flagged(u)
          /\ Started(t) => Started(u)
          /\ NoAsks(t) => NoAsks(u)
      BY <1>4, <1>7, <3>2, <3>3, SameStep
    <3>5. x = Starts(u, t.name)
      BY <3>1, <3>2 DEF roadmap_prompts_download
    <3>6. t.name \in Texts /\ (u.queued # None => t.name # None /\ t.name # u.queued)
      BY <1>4, <1>7, <3>2, FieldsTyped DEF Waits
    <3>7. NoAsks(u)
      BY <1>6, <1>17, <3>4
    <3>8. /\ Regular(x) /\ Waits(x) /\ Alive(x)
          /\ Flagged(u) => Flagged(x)
          /\ Started(u) => Started(x)
      BY <3>2, <3>4, <3>5, <3>6, <3>7, StartsStep
    <3>9. QED
      BY <1>10, <1>11, <1>17, <3>4, <3>8 DEF Valid
  <2>4. QED
    BY <2>2, <2>3
<1>18. QED
  BY <1>12, <1>13, <1>14, <1>15, <1>16, <1>17

LEMMA EndsStep ==
  ASSUME NEW s \in Session, Valid(s), s.calls = <<>>, s.current # Idle,
         NEW t \in download_done_callback(s) \cup download_error_callback(s)
  PROVE  Valid(t) /\ (Alive(s) => Alive(t))
<1> DEFINE r == s.current
           e == Ended(s)
           F == IF r.kind = "sound" THEN s.files \cup {<<r.lang, r.file>>} ELSE s.files
           u == [e EXCEPT !.files = F]
<1>1. r \in Requests
  BY FieldsTyped
<1>2. NoAsks(s) /\ \A do : ~ Pending(s, do)
  BY EmptySeq DEF NoAsks, Pending, Positions
<1>3. e = [s EXCEPT !.current = Idle]
  BY DEF Ended
<1>4. \/ t \in Told(u, r, TRUE)
      \/ t = Finish(e)
      \/ t \in Told(e, r, FALSE)
  <2>1. Ended(s).files = s.files
    BY <1>3 DEF Session
  <2>2. [e EXCEPT !.files = IF r.kind = "sound" THEN @ \cup {<<r.lang, r.file>>} ELSE @] = u
    BY <2>1
  <2>3. QED
    BY <2>2 DEF download_done_callback, download_error_callback
<1> HIDE DEF e, u
<1>5. /\ e \in Session /\ e.current = Idle /\ e.calls = s.calls
      /\ e.queue = s.queue /\ e.downloading = s.downloading
      /\ SameSet(s, e) /\ SameWatch(s, e)
  <2>1. Idle \in Requests \cup {Idle}
    OBVIOUS
  <2>2. QED
    BY <1>3, <2>1, CurrentFields
<1>6. Keeps(e, r) /\ Accounted(e)
  <2>1. Accounted(s)
    BY DEF Valid, Regular
  <2>2. Keeps(e, s.current)
    BY <1>5, <2>1, TakeCurrent
  <2>3. QED
    BY <2>2, AccountedKept
<1>7. Regular(e) /\ Waits(e)
  <2>1. Shape(e)
    BY <1>5 DEF Shape, Valid, Regular, SameSet
  <2>2. QED
    BY <1>5, <1>6, <2>1 DEF Valid, Regular, SameSet, Pure, Waits, Known
<1>8. NoAsks(e) /\ Single(e) /\ ~ Pending(e, "finish") /\ (Alive(s) => Alive(e))
  BY <1>2, <1>5 DEF NoAsks, Single, Pending, Alive, SameSet, SameWatch
<1>9. e.downloading = TRUE
  <2>1. e.downloading
    BY <1>5 DEF Valid, Flagged
  <2>2. e.downloading \in BOOLEAN
    BY <1>5, FieldsTyped
  <2>3. QED
    BY <2>1, <2>2, Zenon
<1>10. ASSUME t = Finish(e)
       PROVE  Valid(t) /\ (Alive(s) => Alive(t))
  <2>1. Few(e)
    BY <1>8 DEF Few
  <2>2. QED
    BY <1>5, <1>7, <1>8, <1>10, <2>1, FinishStep
<1>11. ASSUME t \in Told(e, r, FALSE)
       PROVE  Valid(t) /\ (Alive(s) => Alive(t))
  <2> DEFINE no == FALSE
  <2>1. no \in BOOLEAN /\ (no /\ r.kind = "sound" => <<r.lang, r.file>> \in Known(e))
        /\ t \in Told(e, r, no)
    BY <1>11
  <2> HIDE DEF no, r
  <2>2. Valid(t) /\ (Alive(e) => Alive(t))
    BY <1>1, <1>5, <1>6, <1>7, <1>8, <1>9, <2>1, ToldStep
  <2>3. QED
    BY <1>8, <2>2
<1>12. ASSUME t \in Told(u, r, TRUE)
       PROVE  Valid(t) /\ (Alive(s) => Alive(t))
  <2>1. /\ F \in SUBSET (Texts \X Files) /\ s.files \subseteq F
        /\ r.kind = "sound" => <<r.lang, r.file>> \in F
    <3>1. r.kind = "sound" => <<r.lang, r.file>> \in Texts \X Files
      BY <1>1 DEF Requests
    <3>2. s.files \subseteq Texts \X Files
      BY FieldsTyped
    <3>3. QED
      BY <3>1, <3>2
  <2> HIDE DEF F
  <2>2. /\ u \in Session /\ u.files = F /\ u.blank = e.blank /\ u.calls = e.calls
        /\ u.name = e.name /\ u.queued = e.queued /\ u.count = e.count
        /\ u.saved = e.saved /\ u.mixed = e.mixed /\ u.declared = e.declared
        /\ SameFlow(e, u) /\ SameWatch(e, u)
    BY <1>5, <2>1, FilesFields DEF u
  <2>3. Known(e) \subseteq Known(u)
    BY <1>5, <2>1, <2>2 DEF SameSet, Known
  <2>4. /\ Keeps(u, r) /\ Regular(u) /\ Waits(u)
        /\ Pending(u, "finish") <=> Pending(e, "finish")
        /\ Single(u) <=> Single(e)
        /\ NoAsks(u) <=> NoAsks(e)
        /\ Alive(e) => Alive(u)
    BY <1>5, <1>6, <1>7, <2>2, <2>3, MoreKnown
  <2>7. u.downloading = TRUE /\ u.current = Idle
    BY <1>5, <1>9, <2>2 DEF SameFlow
  <2> DEFINE yes == TRUE
  <2>8. yes \in BOOLEAN /\ (yes /\ r.kind = "sound" => <<r.lang, r.file>> \in Known(u))
        /\ t \in Told(u, r, yes)
    BY <1>12, <2>1, <2>2 DEF Known
  <2> HIDE DEF yes, r
  <2>9. Valid(t) /\ (Alive(u) => Alive(t))
    BY <1>1, <1>8, <2>2, <2>4, <2>7, <2>8, ToldStep
  <2>10. QED
    BY <1>8, <2>4, <2>9
<1>13. QED
  BY <1>4, <1>10, <1>11, <1>12

LEMMA UserDownloadsStep ==
  ASSUME IInv, NEW lang \in Langs, UserDownloads(lang)
  PROVE  IInv' /\ (Alive(dl) => Alive(dl'))
<1> DEFINE u == [dl EXCEPT !.downloads = @ + 1]
<1>1. dl' = roadmap_prompts_download(u, lang)
  BY DEF UserDownloads, Becomes
<1>2. dl \in Session /\ Valid(dl) /\ Regular(dl) /\ dl.calls = <<>>
  BY DEF IInv, Valid, Regular, UserDownloads, Free
<1>3. u \in Session
  <2>1. dl.downloads + 1 \in Nat
    BY <1>2, FieldsTyped
  <2>2. QED
    BY <1>2, <2>1 DEF Session
<1>4. u.calls = dl.calls /\ SameSet(dl, u) /\ SameFlow(dl, u) /\ SameWatch(dl, u)
  BY <1>2, <1>3 DEF Session, SameSet, SameFlow, SameWatch
<1> HIDE DEF u
<1>5. Waits(u.saved) /\ u.name \in {dl.name, None} /\ Waits(u)
  BY <1>2, <1>4 DEF Valid, Regular, SameSet, Waits
<1>6. NoAsks(dl)
  BY <1>2, EmptySeq DEF NoAsks, Positions
<1>7. /\ Regular(u)
      /\ Flagged(dl) => Flagged(u)
      /\ Started(dl) => Started(u)
      /\ NoAsks(u)
  <2>1. /\ u.files = dl.files /\ u.blank = dl.blank /\ u.count = dl.count /\ u.mixed = dl.mixed
        /\ u.declared = dl.declared
    BY <1>4 DEF SameSet
  <2>2. QED
    BY <1>2, <1>3, <1>4, <1>5, <1>6, <2>1, SameStep
<1>8. lang \in Texts
  BY Sizes
<1>9. After(u, dl')
  BY <1>1, <1>3, <1>5, <1>7, <1>8, DownloadStep
<1>10. Alive(dl) => Alive(u)
  BY <1>4 DEF Alive, Pending, SameSet, SameWatch
<1>11. QED
  BY <1>2, <1>7, <1>9, <1>10 DEF After, Valid, IInv

LEMMA OthersDownloadStep ==
  ASSUME IInv, OthersDownload
  PROVE  IInv' /\ (Alive(dl) => Alive(dl'))
<1> DEFINE u == [dl EXCEPT !.others = @ + 1]
<1>1. dl' = roadmap_res_download(u, Other)
  BY DEF OthersDownload, Becomes
<1>2. dl \in Session /\ Valid(dl) /\ Regular(dl) /\ dl.calls = <<>>
  BY DEF IInv, Valid, Regular, OthersDownload, Free
<1>3. u \in Session
  <2>1. dl.others + 1 \in Nat
    BY <1>2, FieldsTyped
  <2>2. QED
    BY <1>2, <2>1 DEF Session
<1>4. u.calls = dl.calls /\ SameSet(dl, u) /\ SameFlow(dl, u) /\ SameWatch(dl, u)
  BY <1>2, <1>3 DEF Session, SameSet, SameFlow, SameWatch
<1> HIDE DEF u
<1>5. Waits(u.saved) /\ u.name \in {dl.name, None} /\ Waits(u)
  BY <1>2, <1>4 DEF Valid, Regular, SameSet, Waits
<1>6. NoAsks(dl) /\ Clean(u)
  BY <1>2, <1>4, EmptySeq DEF NoAsks, Clean, Positions
<1>7. /\ Regular(u)
      /\ Flagged(dl) => Flagged(u)
      /\ Started(dl) => Started(u)
      /\ NoAsks(u)
  <2>1. /\ u.files = dl.files /\ u.blank = dl.blank /\ u.count = dl.count /\ u.mixed = dl.mixed
        /\ u.declared = dl.declared
    BY <1>4 DEF SameSet
  <2>2. QED
    BY <1>2, <1>3, <1>4, <1>5, <1>6, <2>1, SameStep
<1>8. Other \in Requests
  BY DEF Other, Requests
<1>9. Keeps(u, Other)
  BY <1>7, KeepsStale, IdleStale DEF Regular
<1>10. Flagged(u) /\ Started(u)
  BY <1>2, <1>7 DEF Valid
<1>11. Valid(dl') /\ (Alive(u) => Alive(dl'))
  BY <1>1, <1>3, <1>5, <1>6, <1>7, <1>8, <1>9, <1>10, DownloadResStep
<1>12. Alive(dl) => Alive(u)
  BY <1>4 DEF Alive, Pending, SameSet, SameWatch
<1>13. QED
  BY <1>11, <1>12 DEF IInv

LEMMA WatchdogFiresStep ==
  ASSUME IInv, WatchdogFires
  PROVE  IInv' /\ (Alive(dl) => Alive(dl'))
<1> DEFINE u == [dl EXCEPT !.name = None]
           v == Calls(u, <<Frame("unwatch")>>)
<1>1. dl' \in Dequeue(v)
  BY DEF WatchdogFires, Becomes, roadmap_prompts_download_watchdog_timer
<1>2. dl \in Session /\ Valid(dl) /\ Regular(dl) /\ dl.calls = <<>>
  BY DEF IInv, Valid, Regular, WatchdogFires, Free
<1> HIDE DEF v
<1>3. /\ u \in Session /\ u.name = None /\ u.calls = dl.calls
      /\ u.files = dl.files /\ u.blank = dl.blank /\ u.queued = dl.queued /\ u.count = dl.count
      /\ u.saved = dl.saved /\ u.mixed = dl.mixed /\ u.declared = dl.declared
      /\ SameFlow(dl, u) /\ SameWatch(dl, u)
  BY <1>2, Sizes, NameFields
<1> HIDE DEF u
<1>4. Waits(u.saved) /\ u.name \in {dl.name, None}
  BY <1>2, <1>3 DEF Regular
<1>5. NoAsks(dl)
  BY <1>2, EmptySeq DEF NoAsks, Positions
<1>6. Regular(u) /\ Flagged(u) /\ Started(u) /\ NoAsks(u)
  BY <1>2, <1>3, <1>4, <1>5, SameStep DEF Valid
<1>7. /\ v \in Session /\ Regular(v) /\ SameSet(u, v) /\ SameFlow(u, v)
      /\ \A x : Pending(v, x) <=> x = "unwatch" \/ Pending(u, x)
      /\ Single(u) => Single(v)
      /\ NoAsks(v)
  <2> DEFINE do == "unwatch"
  <2>1. do \in {"start", "finish", "unwatch"} /\ do = "unwatch" /\ do # "finish"
        /\ v = Calls(u, <<Frame(do)>>)
    BY DEF v
  <2> HIDE DEF do
  <2>2. /\ v \in Session /\ Regular(v) /\ SameSet(u, v) /\ SameFlow(u, v)
        /\ \A x : Pending(v, x) <=> x = do \/ Pending(u, x)
        /\ Single(u) /\ ~ (do = "finish" /\ Pending(u, "finish")) => Single(v)
        /\ NoAsks(v) <=> NoAsks(u)
    BY <1>3, <1>6, <2>1, PushStep
  <2>3. QED
    BY <1>6, <2>1, <2>2
<1>8. /\ Pending(v, "finish") <=> Pending(u, "finish")
      /\ Pending(v, "start") <=> Pending(u, "start")
  BY <1>7
<1>9. Flagged(v) /\ Started(v)
  BY <1>6, <1>7, <1>8 DEF Flagged, Started, SameFlow
<1>10. v.name = None
  BY <1>3, <1>7 DEF SameSet
<1>11. After(v, dl')
  BY <1>1, <1>7, <1>10, DequeueStep
<1>12. Alive(v)
  BY <1>10 DEF Alive
<1>13. QED
  BY <1>9, <1>11, <1>12 DEF After, Valid, IInv

LEMMA LoginStep ==
  ASSUME IInv, Login
  PROVE  IInv' /\ Alive(dl')
<1> DEFINE f == AskFor(Other)
           g == Frame("resume")
           t == dl'
           c == <<f, g>>
<1>1. dl \in Session /\ Valid(dl) /\ Regular(dl) /\ dl.calls = <<>>
  BY DEF IInv, Valid, Regular, Login, Free
<1>2. t = [dl EXCEPT !.login = FALSE, !.calls = <<f, g>> \o dl.calls]
  <2>1. t = Calls([dl EXCEPT !.login = FALSE], <<f, g>>)
    BY DEF Login, Becomes
  <2>2. [dl EXCEPT !.login = FALSE].calls = dl.calls
    BY <1>1 DEF Session
  <2>3. QED
    BY <2>1, <2>2 DEF Calls
<1>3. f \in Frames /\ g \in Frames /\ f.do = "ask" /\ g.do = "resume" /\ ~ Asks(f) /\ ~ Asks(g)
  BY DEF AskFor, Frame, Frames, Other, Requests, Asks
<1> HIDE DEF f, g
<1>4. c \in Seq(Frames) /\ Len(c) = 2 /\ c[1] = f /\ c[2] = g /\ Positions(c) = {1, 2}
  BY <1>3 DEF Positions
<1>5. <<f, g>> \o dl.calls = c
  BY <1>1, <1>3
<1> HIDE DEF c, t
<1>6. t = [dl EXCEPT !.login = FALSE, !.calls = c]
  BY <1>2, <1>5
<1>7. t \in Session
  BY <1>1, <1>4, <1>6 DEF Session
<1>8. t.calls = c /\ SameSet(dl, t) /\ SameFlow(dl, t)
  BY <1>1, <1>6 DEF Session, SameSet, SameFlow
<1>9. NoAsks(t)
  BY <1>3, <1>4, <1>8 DEF NoAsks
<1>10. Accounted(t)
  <2>1. QueueFrom(dl, t, 0)
    BY <1>8 DEF QueueFrom, Positions, SameFlow
  <2>2. CallsFrom(dl, t, 0)
    BY <1>9 DEF CallsFrom, NoAsks
  <2>3. Less(dl, t)
    BY <1>8, <2>1, <2>2 DEF Less, SameFlow, SameSet, Known
  <2>4. QED
    BY <1>1, <1>7, <2>3, AccountedLess DEF Regular
<1>11. Shape(t)
  BY <1>3, <1>4, <1>8, <1>9 DEF Shape, NoAsks
<1>12. Regular(t) /\ Waits(t)
  BY <1>1, <1>7, <1>8, <1>10, <1>11 DEF Valid, Regular, SameSet, SameFlow, Pure, Waits, Known
<1>13. /\ \A do : ~ Pending(dl, do)
       /\ ~ Pending(t, "finish") /\ Single(t) /\ Pending(t, "resume")
  <2>1. \A do : ~ Pending(dl, do)
    BY <1>1, EmptySeq DEF Pending, Positions
  <2>2. ~ Pending(t, "finish") /\ Single(t) /\ Pending(t, "resume")
    BY <1>3, <1>4, <1>8 DEF Pending, Single
  <2>3. QED
    BY <2>1, <2>2
<1>14. Flagged(t) /\ Started(t)
  BY <1>1, <1>8, <1>13 DEF Valid, Flagged, Started, SameFlow
<1>15. QED
  BY <1>12, <1>13, <1>14 DEF Valid, IInv, Alive, t

LEMMA SaveConfigStep ==
  ASSUME IInv, SaveConfig
  PROVE  IInv' /\ (Alive(dl) => Alive(dl'))
<1> DEFINE c == [name |-> dl.name, queued |-> dl.queued]
           t == dl'
<1>1. dl \in Session /\ Valid(dl) /\ Regular(dl)
  BY DEF IInv, Valid, Regular
<1>2. c \in [name : Texts, queued : Texts] /\ Waits(c)
  BY <1>1, FieldsTyped DEF Valid, Waits
<1>3. t = [dl EXCEPT !.saved = c]
  BY DEF SaveConfig, Becomes
<1> HIDE DEF c, t
<1>4. t \in Session
  BY <1>1, <1>2, <1>3 DEF Session
<1>5. /\ t.saved = c /\ t.calls = dl.calls /\ SameFlow(dl, t) /\ SameWatch(dl, t)
      /\ t.name = dl.name /\ t.queued = dl.queued
      /\ t.files = dl.files /\ t.blank = dl.blank /\ t.count = dl.count /\ t.mixed = dl.mixed
      /\ t.declared = dl.declared
  BY <1>1, <1>3 DEF Session, SameFlow, SameWatch
<1>6. Waits(t.saved) /\ t.name \in {dl.name, None} /\ Waits(t)
  BY <1>1, <1>2, <1>5 DEF Valid, Waits
<1>7. /\ Regular(t)
      /\ Flagged(dl) => Flagged(t)
      /\ Started(dl) => Started(t)
  BY <1>1, <1>4, <1>5, <1>6, SameStep
<1>8. Alive(dl) => Alive(t)
  BY <1>5 DEF Alive, Pending, SameWatch
<1>9. QED
  BY <1>1, <1>6, <1>7, <1>8 DEF Valid, IInv, t

LEMMA UpdateConfigStep ==
  ASSUME IInv, on_update_config
  PROVE  IInv' /\ (Alive(dl) => Alive(dl'))
<1> DEFINE c == [name |-> dl.name, queued |-> dl.queued]
           u == dl.updates + 1
           b == ~ dl.url
           t == dl'
<1>1. dl \in Session /\ Valid(dl) /\ Regular(dl)
  BY DEF IInv, Valid, Regular
<1>2. c \in [name : Texts, queued : Texts] /\ Waits(c)
  BY <1>1, FieldsTyped DEF Valid, Waits
<1>3. u \in Nat /\ b \in BOOLEAN
  BY <1>1, FieldsTyped
<1>4. t = [dl EXCEPT !.url = b, !.updates = u, !.saved = c]
  BY DEF on_update_config, Becomes
<1> HIDE DEF c, t, u, b
<1>5. t \in Session
  BY <1>1, <1>2, <1>3, <1>4 DEF Session
<1>6. /\ t.saved = c /\ t.calls = dl.calls /\ SameFlow(dl, t) /\ SameWatch(dl, t)
      /\ t.name = dl.name /\ t.queued = dl.queued
      /\ t.files = dl.files /\ t.blank = dl.blank /\ t.count = dl.count /\ t.mixed = dl.mixed
      /\ t.declared = dl.declared
  BY <1>1, <1>4 DEF Session, SameFlow, SameWatch
<1>7. Waits(t.saved) /\ t.name \in {dl.name, None} /\ Waits(t)
  BY <1>1, <1>2, <1>6 DEF Valid, Waits
<1>8. /\ Regular(t)
      /\ Flagged(dl) => Flagged(t)
      /\ Started(dl) => Started(t)
  BY <1>1, <1>5, <1>6, <1>7, SameStep
<1>9. Alive(dl) => Alive(t)
  BY <1>6 DEF Alive, Pending, SameWatch
<1>10. QED
  BY <1>1, <1>7, <1>8, <1>9 DEF Valid, IInv, t

(* A session without calls, requests and a transfer has nothing to come.   *)
LEMMA QuietValid ==
  ASSUME NEW t \in Session, t.queue = <<>>, ~ t.downloading, t.current = Idle, t.count = 0,
         t.calls = <<>>, Waits(t.saved), Waits(t), Pure(t)
  PROVE  Valid(t)
<1>1. Positions(t.calls) = {} /\ Positions(t.queue) = {} /\ Len(t.queue) = 0
  BY EmptySeq DEF Positions
<1>2. t.count = Cardinality({})
  BY FS_EmptySet
<1>3. Accounts(t, t.name, {})
  BY <1>1, <1>2, IdleStale DEF Accounts
<1>4. Accounted(t)
  BY <1>3, FieldsTyped DEF Accounted
<1>5. Shape(t)
  BY <1>1 DEF Shape
<1>6. Regular(t)
  BY <1>1, <1>4, <1>5, Sizes DEF Regular
<1>7. Flagged(t) /\ Started(t)
  BY <1>1 DEF Flagged, Single, Pending, Started
<1>8. QED
  BY <1>6, <1>7 DEF Valid

LEMMA RestartStep ==
  ASSUME IInv, Restart
  PROVE  IInv' /\ Alive(dl')
<1> DEFINE n == dl.saved.name
           q == dl.saved.queued
           r == dl.restarts + 1
           t == dl'
           N == 0 .. NumPrompts + 1
<1>1. dl \in Session /\ Valid(dl) /\ Regular(dl)
  BY DEF IInv, Valid, Regular
<1>2. n \in Texts /\ q \in Texts /\ r \in Nat
  BY <1>1, FieldsTyped
<1>3. 0 \in N /\ <<>> \in Seq(Requests) /\ <<>> \in Seq(Frames)
  BY Sizes
<1>4. t = [dl EXCEPT !.queue = <<>>, !.downloading = FALSE, !.current = Idle,
                     !.name = n, !.queued = q, !.count = 0, !.watched = FALSE, !.login = TRUE,
                     !.calls = <<>>, !.mixed = FALSE, !.restarts = r]
  BY DEF Restart, Becomes
<1> HIDE DEF n, q, r, t, N
<1>5. t \in Session
  BY <1>1, <1>2, <1>3, <1>4 DEF Session, N
<1>6. /\ t.queue = <<>> /\ t.downloading = FALSE /\ t.current = Idle /\ t.count = 0
      /\ t.calls = <<>> /\ t.name = n /\ t.queued = q /\ t.login = TRUE
      /\ t.files = dl.files /\ t.blank = dl.blank /\ t.declared = dl.declared /\ t.saved = dl.saved
  BY <1>1, <1>4 DEF Session
<1>7. Waits(t.saved) /\ Waits(t) /\ Pure(t)
  BY <1>1, <1>6 DEF Regular, Waits, Pure, n, q, Known
<1>8. Valid(t)
  BY <1>5, <1>6, <1>7, QuietValid
<1>9. Alive(t)
  BY <1>6 DEF Alive
<1>10. QED
  BY <1>8, <1>9 DEF IInv, t

LEMMA InitIInv == Init => IInv
<1> SUFFICES ASSUME Init
             PROVE  Valid(dl)
  BY DEF IInv
<1> DEFINE w == [name |-> None, queued |-> None]
           d == [l \in Langs |-> "no"]
           N == 0 .. NumPrompts + 1
           t == dl
<1>1. None \in Texts /\ w \in [name : Texts, queued : Texts]
      /\ d \in [Langs -> {"no", "pure", "mixed"}] /\ (\A l \in Langs : d[l] # "pure")
  BY Sizes
<1>2. 0 \in N /\ 0 \in Nat /\ <<>> \in Seq(Requests) /\ <<>> \in Seq(Frames)
  BY Sizes
<1>3. t = [queue |-> <<>>, downloading |-> FALSE, current |-> Idle, files |-> {},
           blank |-> {}, url |-> TRUE, updates |-> 0,
           name |-> None, queued |-> None, count |-> 0, watched |-> FALSE, login |-> TRUE, saved |-> w,
           calls |-> <<>>, others |-> 0, downloads |-> 0, restarts |-> 0,
           mixed |-> FALSE, declared |-> d]
  BY DEF Init
<1>4. Waits(w)
  BY DEF Waits
<1> HIDE DEF w, d, N, t
<1>5. t \in Session
  BY <1>1, <1>2, <1>3 DEF Session, N
<1>6. /\ t.queue = <<>> /\ ~ t.downloading /\ t.current = Idle /\ t.count = 0
      /\ t.calls = <<>> /\ t.saved = w /\ t.queued = None /\ t.declared = d
  BY <1>3
<1>7. Waits(t) /\ Pure(t)
  BY <1>1, <1>6 DEF Waits, Pure, Known
<1>8. Valid(t)
  BY <1>4, <1>5, <1>6, <1>7, QuietValid
<1>9. QED
  BY <1>8 DEF t

LEMMA NextStep ==
  ASSUME IInv, [Next]_dl
  PROVE  /\ IInv'
         /\ Alive(dl) /\ ~ (dl.calls # <<>> /\ Head(dl.calls).do = "unwatch") => Alive(dl')
<1>1. ASSUME Proceed
      PROVE  /\ IInv'
             /\ Alive(dl) /\ ~ (dl.calls # <<>> /\ Head(dl.calls).do = "unwatch") => Alive(dl')
  <2>1. dl.calls # <<>> /\ dl' \in Execute([dl EXCEPT !.calls = Tail(@)], Head(dl.calls))
    BY <1>1 DEF Proceed, Free, Becomes
  <2>2. dl \in Session /\ Valid(dl)
    BY DEF IInv, Valid, Regular
  <2>3. Valid(dl') /\ (Head(dl.calls).do # "unwatch" /\ Alive(dl) => Alive(dl'))
    BY <2>1, <2>2, ProceedStep
  <2>4. QED
    BY <2>1, <2>3 DEF IInv
<1>2. ASSUME TransferEnds
      PROVE  IInv' /\ (Alive(dl) => Alive(dl'))
  <2>1. /\ dl.calls = <<>> /\ dl.current # Idle
        /\ dl' \in download_done_callback(dl) \cup download_error_callback(dl)
    BY <1>2 DEF TransferEnds, Free, Becomes
  <2>2. dl \in Session /\ Valid(dl)
    BY DEF IInv, Valid, Regular
  <2>3. QED
    BY <2>1, <2>2, EndsStep DEF IInv
<1>3. ASSUME UNCHANGED dl
      PROVE  IInv' /\ (Alive(dl) => Alive(dl'))
  BY <1>3 DEF IInv, Alive
<1>4. ASSUME NEW lang \in Langs, UserDownloads(lang)
      PROVE  IInv' /\ (Alive(dl) => Alive(dl'))
  BY <1>4, UserDownloadsStep
<1>5. QED
  BY <1>1, <1>2, <1>3, <1>4, OthersDownloadStep, WatchdogFiresStep, LoginStep, SaveConfigStep,
     UpdateConfigStep, RestartStep DEF Next

(***************************************************************************)
(* The theorems.                                                           *)
(***************************************************************************)

(* In every run of calls the flag is up for a transfer or for the one call *)
(* that takes it down, a request that nothing precedes has its start among *)
(* the calls, no set waits behind none or behind itself, and the count is  *)
(* the number of the set's files that are there, or whose owner was told   *)
(* so for want of a URL, unless a file of an earlier download was counted. *)
THEOREM Invariance == Spec => []IInv
<1>1. IInv /\ [Next]_dl => IInv'
  BY NextStep
<1>2. QED
  BY InitIInv, <1>1, PTL DEF Spec

(* Between two events the queue of resource downloads never stalls, with   *)
(* any nesting of the callbacks (roadmap_res_download,                     *)
(* roadmap_download_start and the callbacks of a transfer).                *)
THEOREM QueueNeverStalls == Spec => []QueueIsServed
<1>1. IInv => QueueIsServed
  <2> SUFFICES ASSUME IInv
               PROVE  QueueIsServed
    OBVIOUS
  <2>1. dl \in Session /\ Valid(dl) /\ Regular(dl)
    BY DEF IInv, Valid, Regular
  <2>2. TypeOK
    <3>1. dl.saved.name \in Texts /\ dl.saved.queued \in Texts
      BY <2>1, FieldsTyped
    <3>2. Len(dl.queue) <= MaxQueue
      BY <2>1 DEF Regular
    <3> DEFINE t == dl
    <3>3. t \in Session /\ dl = t
      BY <2>1
    <3> HIDE DEF t
    <3>4. /\ t.queue \in Seq(Requests) /\ t.downloading \in BOOLEAN
          /\ t.current \in Requests \cup {Idle} /\ t.files \subseteq Texts \X Files
          /\ t.name \in Texts /\ t.queued \in Texts /\ t.count \in 0 .. NumPrompts + 1
          /\ t.watched \in BOOLEAN /\ t.login \in BOOLEAN /\ t.calls \in Seq(Frames)
          /\ t.mixed \in BOOLEAN /\ t.declared \in [Langs -> {"no", "pure", "mixed"}]
          /\ t.blank \subseteq Texts \X Files /\ t.url \in BOOLEAN
      BY <3>3, FieldsTyped
    <3>5. {t.downloading, t.watched, t.login, t.url, t.mixed} \subseteq BOOLEAN
      BY <3>4, Zenon
    <3>6. {t.name, t.queued, t.saved.name, t.saved.queued} \subseteq Texts
      BY <3>1, <3>3, <3>4
    <3>7. QED
      BY <3>2, <3>3, <3>4, <3>5, <3>6 DEF TypeOK
  <2>3. WaitsForAnother
    BY <2>1 DEF Valid, Waits, WaitsForAnother
  <2>4. ASSUME Free
        PROVE  /\ dl.downloading <=> dl.current # Idle
               /\ dl.queue # <<>> => dl.downloading
    <3>1. \A do : ~ Pending(dl, do)
      BY <2>4, EmptySeq DEF Free, Pending, Positions
    <3>2. QED
      BY <2>1, <3>1 DEF Valid, Flagged, Started
  <2>5. QED
    BY <2>2, <2>3, <2>4 DEF QueueIsServed
<1>2. QED
  BY <1>1, Invariance, PTL

(* A set that is told to be complete with no file of an earlier download   *)
(* among those counted has each of its files, or its owner was told of a   *)
(* success for that file because it had no URL (on_loaded_prompt_file,     *)
(* roadmap_download_start).                                                *)
THEOREM PureSetInstalled == Spec => []PureSetIsInstalled
<1>1. IInv => PureSetIsInstalled
  BY DEF IInv, Valid, Regular, Pure, PureSetIsInstalled, Known
<1>2. QED
  BY <1>1, Invariance, PTL

(* A set that is downloaded keeps its watchdog, or the login that will     *)
(* resume it, except in the one step in which the watchdog that gave up    *)
(* its predecessor removes itself                                          *)
(* (roadmap_prompts_download_watchdog_timer).                              *)
THEOREM WatchdogAloneAbandons == Spec => OnlyWatchdogAbandons
<1>1. \A s \in Session : Frame("resume") \in {s.calls[i] : i \in DOMAIN s.calls}
                           <=> Pending(s, "resume")
  <2> SUFFICES ASSUME NEW s \in Session
               PROVE  Frame("resume") \in {s.calls[i] : i \in DOMAIN s.calls}
                        <=> Pending(s, "resume")
    OBVIOUS
  <2>1. s.calls \in Seq(Frames)
    BY FieldsTyped
  <2>2. DOMAIN s.calls = Positions(s.calls) /\ \A i \in Positions(s.calls) : s.calls[i] \in Frames
    BY <2>1 DEF Positions
  <2>3. \A f \in Frames : f.do = "resume" <=> f = Frame("resume")
    BY DEF Frames, Frame
  <2>4. QED
    BY <2>2, <2>3 DEF Pending
<1>2. IInv /\ [Next]_dl
        => [dl.name # None /\ Watched /\ dl'.name # None /\ ~ Watched'
              => dl.calls # <<>> /\ Head(dl.calls).do = "unwatch"]_dl
  <2> SUFFICES ASSUME IInv, [Next]_dl, dl.name # None, Watched, dl'.name # None, ~ Watched'
               PROVE  dl.calls # <<>> /\ Head(dl.calls).do = "unwatch"
    OBVIOUS
  <2>1. dl \in Session /\ dl' \in Session
    BY NextStep DEF IInv, Valid, Regular
  <2>2. Alive(dl)
    BY <1>1, <2>1 DEF Watched, Alive
  <2>3. ~ Alive(dl')
    BY <1>1, <2>1 DEF Watched, Alive
  <2>4. QED
    BY <2>2, <2>3, NextStep
<1>3. QED
  BY <1>2, Invariance, PTL DEF Spec, OnlyWatchdogAbandons
=============================================================================
