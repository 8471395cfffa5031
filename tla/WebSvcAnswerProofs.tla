------------------------ MODULE WebSvcAnswerProofs ------------------------
(***************************************************************************)
(* Proofs about WebSvcAnswer, for any size of the buffer, any number of    *)
(* retries and answers of any length.  The tokens still to be processed,   *)
(* those in the buffer and those not yet read, are one sequence, and no    *)
(* cut into reads changes it: the invariant says what that sequence is.    *)
(***************************************************************************)
EXTENDS WebSvcAnswer, SequenceTheorems, WellFoundedInduction, TLAPS

Session ==
  [phase : {"idle", "receiving", "parsing"}, v2 : BOOLEAN,
   http_parser_state : {"not_acked", "not_parsed", "completed"},
   result : {"succeeded", "in_progress", "failed"}, rc : {"succeeded", "failed"},
   retries : 0 .. MaxRetries, size : -1 .. BufferSize, buffer : Seq(Tokens),
   read_processed : Nat, data_size : -1 .. INT_MAX, data_processed : Nat]

World ==
  [answer : Answer, rest : Seq(Tokens), parsed : Seq(1 .. MaxLines), left : BOOLEAN]

(* The counters of the buffer lie within it.                               *)
Fits(a) == Len(a.buffer) <= BufferSize /\ a.read_processed <= Len(a.buffer)

(* What is still to be processed, read or not.                             *)
Awaited(a, w) == Unprocessed(a) \o w.rest

(* The first empty line of s ends at e, and the body follows it.           *)
HeaderAt(s, e, body) ==
  /\ e \in 2 .. Len(s) /\ Len(s) = e + Len(body)
  /\ s[e - 1] = Eol /\ s[e] = Eol
  /\ \A k \in 2 .. e - 1 : s[k - 1] = Eol => s[k] # Eol
  /\ \A j \in 1 .. Len(body) : s[e + j] = body[j]

(* What a transmission that finds an empty buffer sends.                   *)
Due(a, state) == IF state = "not_acked" THEN Sent(a, TRUE) ELSE Sent(a, FALSE)

(* Before the header is read, what is awaited holds it, perhaps behind     *)
(* what a retry left; an acknowledgement is not its last two tokens.       *)
Looking(a, w) ==
  /\ w.parsed = <<>>
  /\ \E e \in Nat : HeaderAt(Awaited(a, w), e, Body(w.answer))
                      /\ (a.http_parser_state = "not_acked" => e >= 4)
  /\ ~w.left => Awaited(a, w) = Due(w.answer, a.http_parser_state)

Total(a, w) == a.data_processed + Len(a.buffer) + Len(w.rest)

(* Behind the header, the lines that were not parsed yet are awaited, and  *)
(* the counters find their end.                                            *)
Reading(a, w) ==
  /\ Len(Awaited(a, w)) = Len(Body(w.answer)) - 3 * Len(w.parsed)
  /\ \A j \in 1 .. Len(Awaited(a, w)) :
       Awaited(a, w)[j] = Body(w.answer)[3 * Len(w.parsed) + j]
  /\ Total(a, w) <= BufferSize + 3 * MaxLines
  /\ ~w.left => w.answer.ok
       /\ a.data_size = IF w.answer.announced THEN Total(a, w) ELSE INT_MAX

InHeader(a, w) ==
  a.phase # "idle" /\ a.http_parser_state # "completed" =>
    a.phase = "receiving" /\ HeaderEnds(Unprocessed(a)) = {} /\ Looking(a, w)

InBody(a, w) ==
  a.phase # "idle" /\ a.http_parser_state = "completed" => Reading(a, w)

Ordered(w) ==
  Len(w.parsed) <= Len(w.answer.lines) /\ \A i \in 1 .. Len(w.parsed) : w.parsed[i] = i

IInv ==
  /\ ans \in Session /\ Fits(ans) /\ world \in World
  /\ InHeader(ans, world) /\ InBody(ans, world) /\ Ordered(world)
  /\ SuccessIsComplete /\ LastByteEnds

(***************************************************************************)
(* Answers.                                                                *)
(***************************************************************************)

LEMMA BodyProperties ==
  ASSUME NEW a \in Answer, NEW b, b = Body(a)
  PROVE  /\ Len(a.lines) \in 1 .. MaxLines
         /\ b \in Seq(Tokens) /\ Len(b) = 3 * Len(a.lines)
         /\ \A i \in 1 .. Len(a.lines) :
              /\ a.lines[i] \in {"tagged", "status"}
              /\ b[3 * i - 2] = <<a.lines[i], i>>
              /\ b[3 * i - 1] = <<"args", i>>
              /\ b[3 * i] = Eol
              /\ b[3 * i - 2] # Eol /\ b[3 * i - 1] # Eol
         /\ a.lines[Len(a.lines)] = "tagged"
         /\ \A m \in 1 .. Len(b) :
              \E i \in 1 .. Len(a.lines) : m \in {3 * i - 2, 3 * i - 1, 3 * i}
<1> DEFINE n == Len(a.lines)
           f(m) == LET i == (m + 2) \div 3
                   IN  CASE m % 3 = 1 -> <<a.lines[i], i>>
                         [] m % 3 = 2 -> <<"args", i>>
                         [] m % 3 = 0 -> Eol
<1>1. /\ n \in 1 .. MaxLines /\ a.lines \in [1 .. n -> {"tagged", "status"}]
      /\ a.lines[n] = "tagged"
  <2>1. a.lines \in UNION {[1 .. m -> {"tagged", "status"}] : m \in 1 .. MaxLines}
        /\ a.lines[n] = "tagged"
    BY DEF Answer
  <2>2. PICK m \in 1 .. MaxLines : a.lines \in [1 .. m -> {"tagged", "status"}]
    BY <2>1
  <2>3. m \in Nat
    OBVIOUS
  <2>4. n = m
    BY <2>2, <2>3
  <2>5. QED
    BY <2>1, <2>2, <2>4
<1>2. b = [m \in 1 .. 3 * n |-> f(m)]
  BY DEF Body
<1> HIDE DEF n
<1>3. n \in Nat /\ n >= 1
  BY <1>1
<1>4. ASSUME NEW i \in 1 .. n
      PROVE  /\ f(3 * i - 2) = <<a.lines[i], i>>
             /\ f(3 * i - 1) = <<"args", i>>
             /\ f(3 * i) = Eol
  <2>1. i \in Nat /\ i >= 1
    BY <1>3
  <2>2. (3 * i - 2) % 3 = 1 /\ ((3 * i - 2) + 2) \div 3 = i
    BY <2>1
  <2>3. (3 * i - 1) % 3 = 2 /\ ((3 * i - 1) + 2) \div 3 = i
    BY <2>1
  <2>4. (3 * i) % 3 = 0
    BY <2>1
  <2>5. f(3 * i - 2) = <<a.lines[i], i>>
    BY <2>2
  <2>6. f(3 * i - 1) = <<"args", i>>
    BY <2>3
  <2>7. f(3 * i) = Eol
    BY <2>4
  <2>8. QED
    BY <2>5, <2>6, <2>7
<1> HIDE DEF f
<1>5. ASSUME NEW i \in 1 .. n
      PROVE  /\ b[3 * i - 2] = <<a.lines[i], i>>
             /\ b[3 * i - 1] = <<"args", i>>
             /\ b[3 * i] = Eol
  <2>1. 3 * i - 2 \in 1 .. 3 * n /\ 3 * i - 1 \in 1 .. 3 * n /\ 3 * i \in 1 .. 3 * n
    BY <1>3
  <2>2. QED
    BY <1>2, <1>4, <2>1
<1>6. \A m \in 1 .. 3 * n : \E i \in 1 .. n : m \in {3 * i - 2, 3 * i - 1, 3 * i}
  <2>1. TAKE m \in 1 .. 3 * n
  <2> DEFINE i == (m + 2) \div 3
  <2>2. i \in 1 .. n /\ m \in {3 * i - 2, 3 * i - 1, 3 * i}
    BY <1>3
  <2>3. QED
    BY <2>2
<1>7. \A i \in 1 .. n : /\ i \in 1 .. MaxLines
                        /\ <<a.lines[i], i>> \in Tokens /\ <<"args", i>> \in Tokens
                        /\ Eol \in Tokens
  <2>1. TAKE i \in 1 .. n
  <2>2. i \in 1 .. MaxLines
    BY <1>1, <1>3, WebSvcAnswerAssumption
  <2>3. a.lines[i] \in {"tagged", "status"}
    BY <1>1
  <2>4. QED
    BY <2>2, <2>3 DEF Tokens
<1>8. \A m \in 1 .. 3 * n : b[m] \in Tokens
  BY <1>5, <1>6, <1>7
<1>9. b \in Seq(Tokens) /\ Len(b) = 3 * n
  <2>1. 3 * n \in Nat
    BY <1>3
  <2>2. b \in [1 .. 3 * n -> Tokens]
    BY <1>2, <1>8
  <2>3. QED
    BY <2>1, <2>2
<1>10. \A i \in 1 .. n : /\ a.lines[i] \in {"tagged", "status"}
                         /\ b[3 * i - 2] # Eol /\ b[3 * i - 1] # Eol
  <2>1. TAKE i \in 1 .. n
  <2>2. a.lines[i] \in {"tagged", "status"}
    BY <1>1
  <2>3. b[3 * i - 2][1] # "eol" /\ b[3 * i - 1][1] # "eol"
    BY <1>5, <2>2
  <2>4. Eol[1] = "eol"
    BY DEF Eol
  <2>5. QED
    BY <2>2, <2>3, <2>4
<1>11. QED
  BY <1>1, <1>5, <1>6, <1>9, <1>10 DEF n

(* What the server sends, token by token.                                  *)
AckTokens(v2) == IF v2 THEN 2 ELSE 0

HeaderTokens(a, v2) == AckTokens(v2) + 3 + (IF a.announced THEN 2 ELSE 0)

LEMMA SentProperties ==
  ASSUME NEW a \in Answer, NEW v2 \in BOOLEAN
  PROVE  LET s == Sent(a, v2)
             p == AckTokens(v2)
             e == HeaderTokens(a, v2)
         IN  /\ s \in Seq(Tokens) /\ Len(s) = e + Len(Body(a)) /\ p \in Nat /\ e \in Nat
             /\ e = p + 3 + (IF a.announced THEN 2 ELSE 0)
             /\ v2 => s[1] = Ack /\ s[2] = Eol
             /\ s[p + 1] = IF a.ok THEN Ok ELSE Refused
             /\ s[p + 2] = Eol /\ s[e] = Eol
             /\ s[p + 3] = IF a.announced THEN Length(Len(Body(a))) ELSE Eol
             /\ s[e - 1] = Eol
             /\ \A j \in 1 .. Len(Body(a)) : s[e + j] = Body(a)[j]
<1> DEFINE s  == Sent(a, v2)
           p  == AckTokens(v2)
           e  == HeaderTokens(a, v2)
           B  == Body(a)
           s1 == IF v2 THEN <<Ack, Eol>> ELSE <<>>
           s2 == <<IF a.ok THEN Ok ELSE Refused, Eol>>
           s3 == IF a.announced THEN <<Length(Len(B)), Eol>> ELSE <<>>
           s4 == <<Eol>>
<1>1. B \in Seq(Tokens) /\ Len(B) \in Nat /\ Len(B) <= 3 * MaxLines
      /\ a.ok \in BOOLEAN /\ a.announced \in BOOLEAN
  <2>1. B \in Seq(Tokens) /\ Len(B) = 3 * Len(a.lines) /\ Len(a.lines) \in 1 .. MaxLines
    BY BodyProperties
  <2>2. QED
    BY <2>1, WebSvcAnswerAssumption DEF Answer
<1>2. s = s1 \o s2 \o s3 \o s4 \o B
  BY DEF Sent
<1>8. p \in Nat /\ e \in Nat /\ e - p - 3 \in Nat /\ (v2 => p = 2) /\ (~v2 => p = 0)
      /\ e - p - 3 = (IF a.announced THEN 2 ELSE 0)
      /\ e = p + 3 + (IF a.announced THEN 2 ELSE 0)
  BY DEF AckTokens, HeaderTokens
<1> HIDE DEF B, s, p, e
<1>3. /\ Ack \in Tokens /\ Ok \in Tokens /\ Refused \in Tokens /\ Eol \in Tokens
      /\ Length(Len(B)) \in Tokens
  <2>1. Len(B) \in 0 .. 3 * MaxLines
    BY <1>1, WebSvcAnswerAssumption
  <2>2. QED
    BY <2>1 DEF Tokens
<1>4. /\ s1 \in Seq(Tokens) /\ Len(s1) = p
      /\ v2 => s1[1] = Ack /\ s1[2] = Eol
  BY <1>3, <1>8
<1>5. /\ s2 \in Seq(Tokens) /\ Len(s2) = 2
      /\ s2[1] = (IF a.ok THEN Ok ELSE Refused) /\ s2[2] = Eol
  BY <1>1, <1>3
<1>6. /\ s3 \in Seq(Tokens) /\ Len(s3) = e - p - 3
      /\ a.announced => s3[1] = Length(Len(B)) /\ s3[2] = Eol
  BY <1>3, <1>8
<1>7. s4 \in Seq(Tokens) /\ Len(s4) = 1 /\ s4[1] = Eol
  BY <1>3
<1> HIDE DEF s1, s2, s3, s4
<1>9. /\ s1 \o s2 \in Seq(Tokens) /\ Len(s1 \o s2) = p + 2
      /\ \A i \in 1 .. p + 2 : (s1 \o s2)[i] = IF i <= p THEN s1[i] ELSE s2[i - p]
  <2>1. s1 \in Seq(Tokens) /\ s2 \in Seq(Tokens) /\ Len(s1) = p /\ Len(s2) = 2
    BY <1>4, <1>5
  <2>2. /\ s1 \o s2 \in Seq(Tokens) /\ Len(s1 \o s2) = Len(s1) + Len(s2)
        /\ \A i \in 1 .. Len(s1) + Len(s2) :
             (s1 \o s2)[i] = IF i <= Len(s1) THEN s1[i] ELSE s2[i - Len(s1)]
    BY <2>1, ConcatProperties
  <2>3. QED
    BY <2>1, <2>2
<1> DEFINE u == s1 \o s2
<1> HIDE DEF u
<1>10. /\ u \o s3 \in Seq(Tokens) /\ Len(u \o s3) = e - 1
       /\ \A i \in 1 .. e - 1 : (u \o s3)[i] = IF i <= p + 2 THEN u[i] ELSE s3[i - (p + 2)]
  <2>1. (p + 2) + (e - p - 3) = e - 1
    BY <1>8
  <2>2. /\ u \in Seq(Tokens) /\ s3 \in Seq(Tokens)
        /\ Len(u) = p + 2 /\ Len(s3) = e - p - 3
    BY <1>6, <1>9 DEF u
  <2>3. /\ u \o s3 \in Seq(Tokens) /\ Len(u \o s3) = Len(u) + Len(s3)
        /\ \A i \in 1 .. Len(u) + Len(s3) :
             (u \o s3)[i] = IF i <= Len(u) THEN u[i] ELSE s3[i - Len(u)]
    BY <2>2, ConcatProperties
  <2>4. QED
    BY <2>1, <2>2, <2>3
<1> DEFINE v == u \o s3
<1> HIDE DEF v
<1>11. /\ v \o s4 \in Seq(Tokens) /\ Len(v \o s4) = e
       /\ \A i \in 1 .. e : (v \o s4)[i] = IF i <= e - 1 THEN v[i] ELSE s4[i - (e - 1)]
  <2>1. (e - 1) + 1 = e /\ e - 1 \in Nat
    BY <1>8
  <2>2. v \in Seq(Tokens) /\ Len(v) = e - 1
    BY <1>10 DEF v
  <2>3. /\ v \o s4 \in Seq(Tokens) /\ Len(v \o s4) = Len(v) + Len(s4)
        /\ \A i \in 1 .. Len(v) + Len(s4) :
             (v \o s4)[i] = IF i <= Len(v) THEN v[i] ELSE s4[i - Len(v)]
    BY <1>7, <2>2, ConcatProperties
  <2>4. QED
    BY <1>7, <2>1, <2>2, <2>3
<1> DEFINE w == v \o s4
<1> HIDE DEF w
<1>12. /\ w \o B \in Seq(Tokens) /\ Len(w \o B) = e + Len(B)
       /\ \A i \in 1 .. e + Len(B) : (w \o B)[i] = IF i <= e THEN w[i] ELSE B[i - e]
  BY <1>1, <1>11, ConcatProperties DEF w
<1>13. s = w \o B
  BY <1>2 DEF u, v, w
<1>14. \A i \in 1 .. p + 2 : s[i] = IF i <= p THEN s1[i] ELSE s2[i - p]
  BY <1>1, <1>8, <1>9, <1>10, <1>11, <1>12, <1>13 DEF u, v, w
<1>15. \A i \in p + 3 .. e - 1 : s[i] = s3[i - (p + 2)]
  BY <1>1, <1>8, <1>10, <1>11, <1>12, <1>13 DEF v, w
<1>16. s[e] = Eol
  <2>1. e \in 1 .. e /\ e \in 1 .. e + Len(B) /\ ~(e <= e - 1) /\ e - (e - 1) = 1
    BY <1>1, <1>8
  <2>2. w[e] = s4[1]
    BY <1>11, <2>1 DEF w
  <2>3. QED
    BY <1>7, <1>12, <1>13, <2>1, <2>2
<1>17. \A j \in 1 .. Len(B) : s[e + j] = B[j]
  BY <1>1, <1>8, <1>12, <1>13
<1>18. s[p + 1] = (IF a.ok THEN Ok ELSE Refused) /\ s[p + 2] = Eol
  <2>1. p + 1 \in 1 .. p + 2 /\ p + 2 \in 1 .. p + 2 /\ (p + 1) - p = 1 /\ (p + 2) - p = 2
        /\ ~(p + 1 <= p) /\ ~(p + 2 <= p)
    BY <1>8
  <2>2. s[p + 1] = s2[1] /\ s[p + 2] = s2[2]
    BY <1>14, <2>1
  <2>3. QED
    BY <1>5, <2>2
<1>19. v2 => s[1] = Ack /\ s[2] = Eol
  <2>1. ASSUME v2 PROVE s[1] = s1[1] /\ s[2] = s1[2]
    <3>1. p = 2
      BY <1>8, <2>1
    <3>2. 1 \in 1 .. p + 2 /\ 2 \in 1 .. p + 2 /\ 1 <= p /\ 2 <= p
      BY <3>1
    <3>3. QED
      BY <1>14, <3>2
  <2>2. QED
    BY <1>4, <2>1
<1>20. CASE a.announced
  <2>1. e = p + 5
    BY <1>8, <1>20
  <2>2. /\ p + 3 \in p + 3 .. e - 1 /\ p + 4 \in p + 3 .. e - 1
        /\ (p + 3) - (p + 2) = 1 /\ (p + 4) - (p + 2) = 2 /\ e - 1 = p + 4
    BY <1>8, <2>1
  <2>3. s[p + 3] = s3[1] /\ s[p + 4] = s3[2]
    BY <1>15, <2>2
  <2>4. s[p + 3] = Length(Len(B)) /\ s[e - 1] = Eol
    BY <1>6, <1>20, <2>2, <2>3
  <2>5. QED
    BY <1>8, <1>12, <1>13, <1>16, <1>17, <1>18, <1>19, <1>20, <2>4 DEF B, s, p, e
<1>21. CASE ~a.announced
  <2>1. e = p + 3
    BY <1>8, <1>21
  <2>2. s[p + 3] = Eol /\ s[e - 1] = Eol
    <3>1. e - 1 = p + 2
      BY <1>8, <2>1
    <3>2. QED
      BY <1>16, <1>18, <2>1, <3>1
  <2>3. QED
    BY <1>8, <1>12, <1>13, <1>16, <1>17, <1>18, <1>19, <1>21, <2>2 DEF B, s, p, e
<1>22. QED
  BY <1>20, <1>21

(* An answer without acknowledgement.                                      *)
LEMMA SentPlain ==
  ASSUME NEW a \in Answer
  PROVE  LET B == Body(a)
             t == Sent(a, FALSE)
             e == HeaderTokens(a, FALSE)
         IN  /\ t \in Seq(Tokens) /\ Len(B) \in Nat
             /\ Len(t) = e + Len(B) /\ e \in {3, 5} /\ (e = 5 <=> a.announced)
             /\ t[1] = IF a.ok THEN Ok ELSE Refused
             /\ t[2] = Eol /\ t[e] = Eol
             /\ t[3] = IF a.announced THEN Length(Len(B)) ELSE Eol
             /\ t[e - 1] = Eol
             /\ \A j \in 1 .. Len(B) : t[e + j] = B[j]
             /\ \A i \in 1 .. Len(t) :
                  i \in {1, 2, 3, e - 1, e} \/ \E j \in 1 .. Len(B) : i = e + j
<1> DEFINE B == Body(a)
           t == Sent(a, FALSE)
           e == HeaderTokens(a, FALSE)
<1>1. /\ t \in Seq(Tokens) /\ Len(t) = e + Len(B) /\ e \in Nat
      /\ t[1] = IF a.ok THEN Ok ELSE Refused
      /\ t[2] = Eol /\ t[e] = Eol
      /\ t[3] = IF a.announced THEN Length(Len(B)) ELSE Eol
      /\ t[e - 1] = Eol
      /\ \A j \in 1 .. Len(B) : t[e + j] = B[j]
  <2> DEFINE q == AckTokens(FALSE)
  <2>1. /\ t \in Seq(Tokens) /\ Len(t) = e + Len(B) /\ e \in Nat
        /\ t[q + 1] = IF a.ok THEN Ok ELSE Refused
        /\ t[q + 2] = Eol /\ t[e] = Eol
        /\ t[q + 3] = IF a.announced THEN Length(Len(B)) ELSE Eol
        /\ t[e - 1] = Eol
        /\ \A j \in 1 .. Len(B) : t[e + j] = B[j]
    BY SentProperties, Zenon
  <2>2. q = 0
    BY DEF AckTokens
  <2> HIDE DEF q, B, t, e
  <2>3. QED
    BY <2>1, <2>2
<1>3. Len(B) \in Nat /\ e \in {3, 5} /\ (e = 5 <=> a.announced)
  <2>1. B \in Seq(Tokens)
    BY BodyProperties
  <2>2. QED
    BY <2>1 DEF Answer, AckTokens, HeaderTokens
<1> HIDE DEF B, t, e
<1>4. \A i \in 1 .. Len(t) : i \in {1, 2, 3, e - 1, e} \/ \E j \in 1 .. Len(B) : i = e + j
  <2>1. TAKE i \in 1 .. Len(t)
  <2>2. CASE i <= e
    BY <1>1, <1>3, <2>2
  <2>3. CASE i > e
    <3>1. i - e \in 1 .. Len(B) /\ i = e + (i - e)
      BY <1>1, <1>3, <2>3
    <3>2. QED
      BY <3>1
  <2>4. QED
    BY <1>1, <2>2, <2>3
<1>5. QED
  BY <1>1, <1>3, <1>4 DEF B, t, e

(* An answer behind its acknowledgement.                                   *)
LEMMA SentAck ==
  ASSUME NEW a \in Answer
  PROVE  /\ Len(Sent(a, TRUE)) = Len(Sent(a, FALSE)) + 2
         /\ \A i \in 1 .. Len(Sent(a, FALSE)) : Sent(a, TRUE)[i + 2] = Sent(a, FALSE)[i]
<1> DEFINE B == Body(a)
           s == Sent(a, TRUE)
           t == Sent(a, FALSE)
           e == HeaderTokens(a, FALSE)
<1>1. /\ Len(t) = e + Len(B)
      /\ t[1] = IF a.ok THEN Ok ELSE Refused
      /\ t[2] = Eol /\ t[e] = Eol
      /\ t[3] = IF a.announced THEN Length(Len(B)) ELSE Eol
      /\ t[e - 1] = Eol
      /\ \A j \in 1 .. Len(B) : t[e + j] = B[j]
  BY SentPlain
<1>2. /\ Len(s) = (e + 2) + Len(B)
      /\ s[3] = IF a.ok THEN Ok ELSE Refused
      /\ s[4] = Eol /\ s[e + 2] = Eol
      /\ s[5] = IF a.announced THEN Length(Len(B)) ELSE Eol
      /\ s[e + 1] = Eol
      /\ \A j \in 1 .. Len(B) : s[(e + 2) + j] = B[j]
  <2> DEFINE q == AckTokens(TRUE)
             f == HeaderTokens(a, TRUE)
  <2>1. /\ Len(s) = f + Len(B)
        /\ s[q + 1] = IF a.ok THEN Ok ELSE Refused
        /\ s[q + 2] = Eol /\ s[f] = Eol
        /\ s[q + 3] = IF a.announced THEN Length(Len(B)) ELSE Eol
        /\ s[f - 1] = Eol
        /\ \A j \in 1 .. Len(B) : s[f + j] = B[j]
    BY SentProperties, Zenon
  <2>2. q = 2 /\ f = e + 2 /\ f - 1 = e + 1
    BY DEF AckTokens, HeaderTokens
  <2> HIDE DEF q, f, B, s, t, e
  <2>3. QED
    BY <2>1, <2>2
<1>3. Len(B) \in Nat /\ e \in {3, 5} /\ (e = 5 <=> a.announced)
  BY SentPlain
<1>4. \A i \in 1 .. Len(t) : i \in {1, 2, 3, e - 1, e} \/ \E j \in 1 .. Len(B) : i = e + j
  BY SentPlain
<1> HIDE DEF B, s, t, e
<1>5. ASSUME NEW i \in 1 .. Len(t) PROVE s[i + 2] = t[i]
  <2>1. CASE i \in {1, 2, 3}
    BY <1>1, <1>2, <2>1
  <2>2. CASE i \in {e - 1, e}
    <3>1. (e - 1) + 2 = e + 1
      BY <1>3
    <3>2. QED
      BY <1>1, <1>2, <2>2, <3>1
  <2>3. ASSUME NEW j \in 1 .. Len(B), i = e + j PROVE s[i + 2] = t[i]
    <3>1. i + 2 = (e + 2) + j
      BY <1>3, <2>3
    <3>2. QED
      BY <1>1, <1>2, <2>3, <3>1
  <2>4. QED
    BY <1>4, <2>1, <2>2, <2>3
<1>6. Len(s) = Len(t) + 2
  BY <1>1, <1>2, <1>3
<1>7. QED
  BY <1>5, <1>6 DEF s, t

(***************************************************************************)
(* The buffer and what is awaited.                                         *)
(***************************************************************************)

LEMMA LeastIs ==
  ASSUME NEW S \in SUBSET Int, NEW k \in S, \A j \in S : k <= j
  PROVE  Least(S) = k
<1>1. Least(S) \in S /\ \A j \in S : Least(S) <= j
  BY DEF Least
<1>2. k \in Int /\ Least(S) \in Int /\ Least(S) <= k /\ k <= Least(S)
  BY <1>1
<1>3. QED
  BY <1>2

LEMMA LeastProperties ==
  ASSUME NEW S \in SUBSET Nat, S # {}
  PROVE  Least(S) \in S /\ \A j \in S : Least(S) <= j
<1>1. PICK x \in S : \A y \in S : ~ (<<y, x>> \in OpToRel(<, Nat))
  BY WFMin, NatLessThanWellFounded
<1>2. \A y \in S : x <= y
  <2>1. TAKE y \in S
  <2>2. x \in Nat /\ y \in Nat
    OBVIOUS
  <2>3. y < x => <<y, x>> \in OpToRel(<, Nat)
    BY <2>2, Zenon DEF OpToRel
  <2>4. ~(y < x)
    BY <1>1, <2>3, Zenon
  <2>5. QED
    BY <2>2, <2>4
<1>3. QED
  BY <1>2 DEF Least

LEMMA UnprocessedProperties ==
  ASSUME NEW a, a.buffer \in Seq(Tokens), a.read_processed \in Nat,
         a.read_processed <= Len(a.buffer)
  PROVE  /\ Unprocessed(a) \in Seq(Tokens)
         /\ Len(Unprocessed(a)) = Len(a.buffer) - a.read_processed
         /\ \A i \in 1 .. Len(Unprocessed(a)) :
              Unprocessed(a)[i] = a.buffer[a.read_processed + i]
<1> DEFINE s == a.buffer
           m == a.read_processed + 1
           n == Len(s)
<1>1. m \in Int /\ n \in Int /\ m >= 1 /\ m <= n + 1 /\ n - m + 1 = n - a.read_processed
  OBVIOUS
<1>2. \A i \in m .. n : s[i] \in Tokens
  BY <1>1
<1>3. Unprocessed(a) = SubSeq(s, m, n)
  BY DEF Unprocessed
<1> HIDE DEF s, m, n
<1>4. /\ SubSeq(s, m, n) \in Seq(Tokens)
      /\ Len(SubSeq(s, m, n)) = IF m <= n THEN n - m + 1 ELSE 0
      /\ \A i \in 1 .. n - m + 1 : SubSeq(s, m, n)[i] = s[m + i - 1]
  BY <1>1, <1>2, SubSeqProperties
<1>5. Len(Unprocessed(a)) = n - a.read_processed
  BY <1>1, <1>3, <1>4
<1>6. \A i \in 1 .. n - a.read_processed : s[m + i - 1] = s[a.read_processed + i]
  BY <1>1 DEF m
<1>7. QED
  BY <1>1, <1>3, <1>4, <1>5, <1>6 DEF s, n

LEMMA AwaitedProperties ==
  ASSUME NEW a, Unprocessed(a) \in Seq(Tokens), NEW w, w.rest \in Seq(Tokens)
  PROVE  /\ Awaited(a, w) \in Seq(Tokens)
         /\ Len(Awaited(a, w)) = Len(Unprocessed(a)) + Len(w.rest)
         /\ \A i \in 1 .. Len(Unprocessed(a)) : Awaited(a, w)[i] = Unprocessed(a)[i]
         /\ \A i \in 1 .. Len(w.rest) : Awaited(a, w)[Len(Unprocessed(a)) + i] = w.rest[i]
<1> DEFINE u == Unprocessed(a)
           r == w.rest
<1>1. /\ u \o r \in Seq(Tokens) /\ Len(u \o r) = Len(u) + Len(r)
      /\ \A i \in 1 .. Len(u) + Len(r) : (u \o r)[i] = IF i <= Len(u) THEN u[i] ELSE r[i - Len(u)]
  BY ConcatProperties
<1>2. Len(u) \in Nat /\ Len(r) \in Nat
  OBVIOUS
<1>3. Awaited(a, w) = u \o r
  BY DEF Awaited
<1> HIDE DEF u, r
<1>4. QED
  BY <1>1, <1>2, <1>3 DEF u, r

(* Processing n tokens takes them off the front.                           *)
LEMMA ProcessedProperties ==
  ASSUME NEW a, a.buffer \in Seq(Tokens), a.read_processed \in Nat,
         NEW n \in Nat, n <= Len(Unprocessed(a)), a.read_processed <= Len(a.buffer),
         NEW b, b.buffer = a.buffer, b.read_processed = a.read_processed + n,
         NEW w, w.rest \in Seq(Tokens)
  PROVE  /\ Unprocessed(b) \in Seq(Tokens)
         /\ Len(Unprocessed(b)) = Len(Unprocessed(a)) - n
         /\ b.read_processed <= Len(b.buffer)
         /\ \A i \in 1 .. Len(Unprocessed(b)) : Unprocessed(b)[i] = Unprocessed(a)[n + i]
         /\ Awaited(b, w) \in Seq(Tokens)
         /\ Len(Awaited(b, w)) = Len(Awaited(a, w)) - n
         /\ \A i \in 1 .. Len(Awaited(b, w)) : Awaited(b, w)[i] = Awaited(a, w)[n + i]
<1> DEFINE u == Unprocessed(a)
           v == Unprocessed(b)
           P == Awaited(a, w)
           Q == Awaited(b, w)
<1>1. /\ u \in Seq(Tokens) /\ Len(u) = Len(a.buffer) - a.read_processed
      /\ \A i \in 1 .. Len(u) : u[i] = a.buffer[a.read_processed + i]
  BY UnprocessedProperties
<1>2. Len(a.buffer) \in Nat /\ Len(w.rest) \in Nat /\ b.read_processed \in Nat
      /\ b.read_processed <= Len(b.buffer)
  BY <1>1
<1>3. /\ v \in Seq(Tokens) /\ Len(v) = Len(b.buffer) - b.read_processed
      /\ \A i \in 1 .. Len(v) : v[i] = b.buffer[b.read_processed + i]
  BY <1>2, UnprocessedProperties
<1>4. Len(v) = Len(u) - n /\ \A i \in 1 .. Len(v) : v[i] = u[n + i]
  <2>1. Len(v) = Len(u) - n
    BY <1>1, <1>2, <1>3
  <2>2. \A i \in 1 .. Len(v) : /\ n + i \in 1 .. Len(u)
                               /\ a.read_processed + (n + i) = b.read_processed + i
    BY <1>1, <1>2, <2>1
  <2>3. QED
    BY <1>1, <1>3, <2>1, <2>2
<1>5. /\ P \in Seq(Tokens) /\ Len(P) = Len(u) + Len(w.rest)
      /\ \A i \in 1 .. Len(u) : P[i] = u[i]
      /\ \A i \in 1 .. Len(w.rest) : P[Len(u) + i] = w.rest[i]
  <2>1. Unprocessed(a) \in Seq(Tokens)
    BY <1>1
  <2>2. QED
    BY <2>1, AwaitedProperties
<1>6. /\ Q \in Seq(Tokens) /\ Len(Q) = Len(v) + Len(w.rest)
      /\ \A i \in 1 .. Len(v) : Q[i] = v[i]
      /\ \A i \in 1 .. Len(w.rest) : Q[Len(v) + i] = w.rest[i]
  <2>1. Unprocessed(b) \in Seq(Tokens)
    BY <1>3
  <2>2. QED
    BY <2>1, AwaitedProperties
<1> HIDE DEF u, v, P, Q
<1>7. Len(u) \in Nat /\ Len(v) \in Nat
  BY <1>1, <1>3
<1>8. ASSUME NEW i \in 1 .. Len(Q) PROVE Q[i] = P[n + i]
  <2>1. CASE i <= Len(v)
    <3>1. i \in 1 .. Len(v) /\ n + i \in 1 .. Len(u)
      BY <1>4, <1>7, <2>1
    <3>2. QED
      BY <1>4, <1>5, <1>6, <3>1
  <2>2. CASE ~(i <= Len(v))
    <3> DEFINE j == i - Len(v)
    <3>1. j \in 1 .. Len(w.rest) /\ i = Len(v) + j /\ n + i = Len(u) + j
      BY <1>2, <1>4, <1>6, <1>7, <2>2
    <3> HIDE DEF j
    <3>2. QED
      BY <1>5, <1>6, <3>1
  <2>3. QED
    BY <2>1, <2>2
<1>9. QED
  BY <1>2, <1>3, <1>4, <1>5, <1>6, <1>7, <1>8 DEF u, v, P, Q

(* What a read leaves before the searches.                                 *)
ReadBy(a, data) ==
  [a EXCEPT !.buffer = a.buffer \o data, !.size = Len(data), !.result = "succeeded",
            !.data_size = IF a.data_size = -1 THEN Len(data) ELSE a.data_size]

(* Reading moves tokens from the rest to the buffer.                       *)
LEMMA ReadProperties ==
  ASSUME NEW a \in Session, Fits(a), NEW data \in Seq(Tokens),
         NEW w \in World, NEW v \in World, w.rest = data \o v.rest
  PROVE  Awaited(ReadBy(a, data), v) = Awaited(a, w)
<1> DEFINE b == ReadBy(a, data)
           u == Unprocessed(a)
           x == Unprocessed(b)
<1>0. /\ a.buffer \in Seq(Tokens) /\ a.read_processed \in Nat
      /\ a.read_processed <= Len(a.buffer) /\ w.rest \in Seq(Tokens)
      /\ v.rest \in Seq(Tokens)
      /\ b.buffer = a.buffer \o data /\ b.read_processed = a.read_processed
  BY DEF Session, World, Fits, ReadBy
<1> HIDE DEF b
<1>1. /\ u \in Seq(Tokens) /\ Len(u) = Len(a.buffer) - a.read_processed
      /\ \A i \in 1 .. Len(u) : u[i] = a.buffer[a.read_processed + i]
  BY <1>0, UnprocessedProperties
<1>2. /\ b.buffer \in Seq(Tokens) /\ Len(b.buffer) = Len(a.buffer) + Len(data)
      /\ \A i \in 1 .. Len(a.buffer) + Len(data) :
           b.buffer[i] = IF i <= Len(a.buffer) THEN a.buffer[i] ELSE data[i - Len(a.buffer)]
  BY <1>0, ConcatProperties
<1>3. Len(a.buffer) \in Nat /\ Len(data) \in Nat
  BY <1>0
<1>4. /\ x \in Seq(Tokens) /\ Len(x) = Len(b.buffer) - b.read_processed
      /\ \A i \in 1 .. Len(x) : x[i] = b.buffer[b.read_processed + i]
  <2>1. b.read_processed \in Nat /\ b.read_processed <= Len(b.buffer)
    BY <1>0, <1>2, <1>3
  <2>2. QED
    BY <1>2, <2>1, UnprocessedProperties
<1>5. /\ u \o data \in Seq(Tokens) /\ Len(u \o data) = Len(u) + Len(data)
      /\ \A i \in 1 .. Len(u) + Len(data) :
           (u \o data)[i] = IF i <= Len(u) THEN u[i] ELSE data[i - Len(u)]
  BY <1>0, <1>1, ConcatProperties
<1> HIDE DEF u, x
<1>6. Len(x) = Len(u) + Len(data) /\ Len(u) \in Nat
  BY <1>0, <1>1, <1>2, <1>3, <1>4
<1>7. ASSUME NEW i \in 1 .. Len(x) PROVE x[i] = (u \o data)[i]
  <2>1. x[i] = b.buffer[a.read_processed + i]
    BY <1>0, <1>4
  <2>2. CASE i <= Len(u)
    <3>1. i \in 1 .. Len(u) /\ a.read_processed + i \in 1 .. Len(a.buffer) + Len(data)
          /\ a.read_processed + i <= Len(a.buffer) /\ i \in 1 .. Len(u) + Len(data)
      BY <1>0, <1>1, <1>3, <1>6, <2>2
    <3>2. QED
      BY <1>1, <1>2, <1>5, <2>1, <2>2, <3>1
  <2>3. CASE ~(i <= Len(u))
    <3>1. /\ a.read_processed + i \in 1 .. Len(a.buffer) + Len(data)
          /\ ~(a.read_processed + i <= Len(a.buffer)) /\ i \in 1 .. Len(u) + Len(data)
          /\ (a.read_processed + i) - Len(a.buffer) = i - Len(u)
      <4> DEFINE k == Len(u)
                 l == Len(a.buffer)
                 m == Len(data)
                 n == Len(x)
      <4>1. /\ k \in Nat /\ l \in Nat /\ m \in Nat /\ k = l - a.read_processed /\ n = k + m
            /\ i \in 1 .. n /\ ~(i <= k) /\ a.read_processed \in Nat
        BY <1>0, <1>1, <1>3, <1>6, <2>3
      <4> HIDE DEF k, l, m, n
      <4>2. /\ a.read_processed + i \in 1 .. l + m /\ ~(a.read_processed + i <= l)
            /\ i \in 1 .. k + m /\ (a.read_processed + i) - l = i - k
        BY <4>1
      <4>3. QED
        BY <4>2 DEF k, l, m
    <3>2. QED
      BY <1>2, <1>5, <2>1, <2>3, <3>1
  <2>4. QED
    BY <2>2, <2>3
<1>8. x = u \o data
  <2> DEFINE y == u \o data
  <2>1. x \in Seq(Tokens) /\ y \in Seq(Tokens) /\ Len(x) = Len(y)
    BY <1>4, <1>5, <1>6
  <2>2. \A i \in 1 .. Len(x) : x[i] = y[i]
    BY <1>7
  <2> HIDE DEF y
  <2>3. QED
    <3>1. x = y
      BY <2>1, <2>2, SeqEqual
    <3>2. QED
      BY <3>1 DEF y
<1>9. (u \o data) \o v.rest = u \o (data \o v.rest)
  <2> DEFINE r == v.rest
  <2>1. u \in Seq(Tokens)
    BY <1>1
  <2>2. r \in Seq(Tokens)
    BY <1>0
  <2> HIDE DEF r
  <2>3. (u \o data) \o r = u \o (data \o r)
    BY <2>1, <2>2, ConcatAssociative
  <2>4. QED
    BY <2>3 DEF r
<1>10. QED
  BY <1>8, <1>9 DEF Awaited, b, u, x

(* Dropping what is processed leaves what is not.                          *)
LEMMA RecycledProperties ==
  ASSUME NEW a, a.buffer \in Seq(Tokens), a.read_processed \in Nat,
         a.read_processed <= Len(a.buffer),
         NEW b, b.buffer = Unprocessed(a), b.read_processed = 0
  PROVE  Unprocessed(b) = Unprocessed(a)
<1>1. Unprocessed(a) \in Seq(Tokens)
  BY UnprocessedProperties
<1>2. Unprocessed(b) = SubSeq(b.buffer, 1, Len(b.buffer))
  BY DEF Unprocessed
<1>3. QED
  BY <1>1, <1>2, SubSeqFull

(***************************************************************************)
(* The searches.                                                           *)
(***************************************************************************)

LEMMA TokensDiffer ==
  /\ Ack # Eol /\ Ok # Eol /\ Refused # Eol /\ Ok # Refused /\ Ok # Ack
  /\ \A n : Length(n) # Eol /\ Length(n) # Ok /\ Length(n)[1] = "content-length"
  /\ \A t \in {Ack, Ok, Refused, Eol} : t[1] # "content-length"
<1>1. /\ Ack[1] = "ack" /\ Ok[1] = "200 ok" /\ Refused[1] = "refused" /\ Eol[1] = "eol"
      /\ \A n : Length(n)[1] = "content-length"
  BY DEF Ack, Ok, Refused, Eol, Length
<1>2. QED
  BY <1>1

(* The status is the first token of an answer, and its length the third.   *)
LEMMA SentTokens ==
  ASSUME NEW a \in Answer, NEW k \in 1 .. Len(Sent(a, FALSE))
  PROVE  /\ Sent(a, FALSE)[k] = Ok => a.ok
         /\ Sent(a, FALSE)[k][1] = "content-length" <=> a.announced /\ k = 3
<1> DEFINE B == Body(a)
           t == Sent(a, FALSE)
           e == HeaderTokens(a, FALSE)
<1>1. /\ Len(t) = e + Len(B) /\ Len(B) \in Nat /\ e \in {3, 5} /\ (e = 5 <=> a.announced)
      /\ t[1] = IF a.ok THEN Ok ELSE Refused
      /\ t[2] = Eol /\ t[e] = Eol
      /\ t[3] = IF a.announced THEN Length(Len(B)) ELSE Eol
      /\ t[e - 1] = Eol
      /\ \A j \in 1 .. Len(B) : t[e + j] = B[j]
      /\ k \in {1, 2, 3, e - 1, e} \/ \E j \in 1 .. Len(B) : k = e + j
  BY SentPlain
<1>2. \A j \in 1 .. Len(B) : B[j] # Ok /\ B[j][1] # "content-length"
  <2>1. TAKE j \in 1 .. Len(B)
  <2>2. PICK i \in 1 .. Len(a.lines) : j \in {3 * i - 2, 3 * i - 1, 3 * i}
    BY BodyProperties
  <2>3. /\ a.lines[i] \in {"tagged", "status"}
        /\ B[3 * i - 2] = <<a.lines[i], i>>
        /\ B[3 * i - 1] = <<"args", i>>
        /\ B[3 * i] = Eol
    BY BodyProperties
  <2> HIDE DEF B
  <2>4. B[j][1] \in {"tagged", "status", "args", "eol"}
    BY <2>2, <2>3 DEF Eol
  <2>5. Ok[1] = "200 ok"
    BY DEF Ok
  <2>6. QED
    BY <2>4, <2>5
<1> HIDE DEF B, t, e
<1> DEFINE Says == /\ t[k] = Ok => a.ok
                   /\ t[k][1] = "content-length" <=> a.announced /\ k = 3
<1>3. ASSUME k = 1 PROVE Says
  <2>1. t[k] = IF a.ok THEN Ok ELSE Refused
    BY <1>1, <1>3
  <2>2. t[k] \in {Ok, Refused} /\ (t[k] = Ok => a.ok)
    BY <2>1, TokensDiffer
  <2>3. t[k][1] # "content-length"
    BY <2>2, TokensDiffer
  <2>4. QED
    BY <1>3, <2>2, <2>3
<1>4. ASSUME k # 1, k # 3, t[k] = Eol PROVE Says
  BY <1>4, TokensDiffer
<1>5. ASSUME k = 3 PROVE Says
  <2>1. CASE a.announced
    <3>1. t[k] = Length(Len(B))
      BY <1>1, <1>5, <2>1
    <3>2. t[k] # Ok /\ t[k][1] = "content-length"
      BY <3>1, TokensDiffer
    <3>3. QED
      BY <1>5, <2>1, <3>2
  <2>2. CASE ~a.announced
    <3>1. t[k] = Eol
      BY <1>1, <1>5, <2>2
    <3>2. t[k] # Ok /\ t[k][1] # "content-length"
      BY <3>1, TokensDiffer
    <3>3. QED
      BY <2>2, <3>2
  <2>3. QED
    BY <2>1, <2>2
<1>6. ASSUME NEW j \in 1 .. Len(B), k = e + j PROVE Says
  <2>1. t[k] = B[j] /\ k # 3
    BY <1>1, <1>6
  <2>2. B[j] # Ok /\ B[j][1] # "content-length"
    BY <1>2
  <2>3. QED
    BY <2>1, <2>2
<1>7. Says
  <2>1. k \in {2, e - 1, e} /\ k # 3 => t[k] = Eol /\ k # 1
    BY <1>1
  <2>2. QED
    BY <1>1, <1>3, <1>4, <1>5, <1>6, <2>1
<1>8. QED
  BY <1>7 DEF t

LEMMA HoldsProperties ==
  ASSUME NEW s \in Seq(Tokens)
  PROVE  /\ \A t : Holds(s, t) <=> \E k \in 1 .. Len(s) : s[k] = t
         /\ HeaderEnds(s) = {k \in 2 .. Len(s) : s[k] = Eol /\ s[k - 1] = Eol}
<1>1. DOMAIN s = 1 .. Len(s) /\ Len(s) \in Nat
  BY LenProperties
<1>2. \A t : Holds(s, t) <=> \E k \in 1 .. Len(s) : s[k] = t
  BY <1>1 DEF Holds, Positions
<1>3. HeaderEnds(s) = {k \in 2 .. Len(s) : s[k] = Eol /\ s[k - 1] = Eol}
  BY <1>1 DEF HeaderEnds, Positions
<1>4. QED
  BY <1>2, <1>3

(* What the buffer holds of what is awaited.                               *)
LEMMA InBuffer ==
  ASSUME NEW a \in Session, Fits(a), NEW w \in World
  PROVE  LET u == Unprocessed(a)
             s == Awaited(a, w)
         IN  /\ u \in Seq(Tokens) /\ s \in Seq(Tokens) /\ Len(u) \in Nat
             /\ Len(u) = Len(a.buffer) - a.read_processed
             /\ Len(s) = Len(u) + Len(w.rest) /\ Len(w.rest) \in Nat
             /\ Len(a.buffer) \in Nat
             /\ \A i \in 1 .. Len(u) : s[i] = u[i]
<1>1. /\ a.buffer \in Seq(Tokens) /\ a.read_processed \in Nat
      /\ a.read_processed <= Len(a.buffer) /\ w.rest \in Seq(Tokens)
  BY DEF Session, World, Fits
<1>2. Unprocessed(a) \in Seq(Tokens) /\ Len(Unprocessed(a)) = Len(a.buffer) - a.read_processed
  BY <1>1, UnprocessedProperties
<1>3. QED
  BY <1>1, <1>2, AwaitedProperties

(* The header is found as soon as the buffer holds its end.                *)
LEMMA HeaderFound ==
  ASSUME NEW u \in Seq(Tokens), NEW s \in Seq(Tokens), Len(u) <= Len(s),
         \A i \in 1 .. Len(u) : s[i] = u[i],
         NEW e \in Nat, NEW body, HeaderAt(s, e, body)
  PROVE  /\ HeaderEnds(u) # {} => e \in 2 .. Len(u) /\ Least(HeaderEnds(u)) = e
         /\ e <= Len(u) => HeaderEnds(u) # {}
<1>1. HeaderEnds(u) = {k \in 2 .. Len(u) : u[k] = Eol /\ u[k - 1] = Eol}
  BY HoldsProperties
<1>2. Len(u) \in Nat /\ Len(s) \in Nat
  OBVIOUS
<1>3. \A k \in HeaderEnds(u) : k >= e
  <2>1. TAKE k \in HeaderEnds(u)
  <2>2. k \in 2 .. Len(u) /\ s[k] = Eol /\ s[k - 1] = Eol
    BY <1>1, <1>2
  <2>3. k \notin 2 .. e - 1
    BY <2>2 DEF HeaderAt
  <2>4. QED
    BY <1>2, <2>2, <2>3
<1>4. e <= Len(u) => e \in HeaderEnds(u)
  <2>1. SUFFICES ASSUME e <= Len(u) PROVE e \in HeaderEnds(u)
    OBVIOUS
  <2>2. e \in 2 .. Len(u) /\ e \in 1 .. Len(u) /\ e - 1 \in 1 .. Len(u)
        /\ s[e] = Eol /\ s[e - 1] = Eol
    BY <1>2, <2>1 DEF HeaderAt
  <2>3. QED
    BY <1>1, <2>2
<1>5. ASSUME HeaderEnds(u) # {} PROVE e \in 2 .. Len(u) /\ Least(HeaderEnds(u)) = e
  <2>1. PICK k \in HeaderEnds(u) : TRUE
    BY <1>5
  <2>2. k \in 2 .. Len(u) /\ k >= e
    BY <1>1, <1>3
  <2>3. e <= Len(u) /\ e \in 2 .. Len(u)
    BY <1>2, <2>2 DEF HeaderAt
  <2>4. HeaderEnds(u) \in SUBSET Int
    BY <1>1, <1>2
  <2>5. \A j \in HeaderEnds(u) : e <= j
    BY <1>1, <1>2, <1>3
  <2>6. QED
    BY <1>4, <2>3, <2>4, <2>5, LeastIs
<1>6. QED
  BY <1>4, <1>5

(* What is sent is a header and a body, and its first token ends nothing.  *)
LEMMA SentHeader ==
  ASSUME NEW a \in Answer, NEW v2 \in BOOLEAN
  PROVE  /\ HeaderAt(Sent(a, v2), HeaderTokens(a, v2), Body(a))
         /\ v2 => HeaderTokens(a, v2) >= 4
         /\ Sent(a, v2)[1] # Eol /\ Sent(a, v2) \in Seq(Tokens)
         /\ HeaderTokens(a, v2) \in Nat
<1> DEFINE B == Body(a)
           s == Sent(a, v2)
           p == AckTokens(v2)
           e == HeaderTokens(a, v2)
<1>1. /\ s \in Seq(Tokens) /\ Len(s) = e + Len(B) /\ p \in Nat /\ e \in Nat
      /\ e = p + 3 + (IF a.announced THEN 2 ELSE 0)
      /\ v2 => s[1] = Ack /\ s[2] = Eol
      /\ s[p + 1] = IF a.ok THEN Ok ELSE Refused
      /\ s[p + 2] = Eol /\ s[e] = Eol
      /\ s[p + 3] = IF a.announced THEN Length(Len(B)) ELSE Eol
      /\ s[e - 1] = Eol
      /\ \A j \in 1 .. Len(B) : s[e + j] = B[j]
  BY SentProperties
<1>2. p = IF v2 THEN 2 ELSE 0
  BY DEF AckTokens
<1>3. B \in Seq(Tokens)
  BY BodyProperties
<1> HIDE DEF B, s, p, e
<1>4. Len(B) \in Nat
  BY <1>3
<1>5. s[p + 1] # Eol /\ (v2 => s[1] # Eol) /\ (a.announced => s[p + 3] # Eol)
  BY <1>1, TokensDiffer
<1>6. ASSUME NEW k \in 2 .. e - 1, s[k - 1] = Eol PROVE s[k] # Eol
  <2>1. CASE k <= p
    <3>1. v2 /\ k = 2
      BY <1>2, <2>1
    <3>2. QED
      BY <1>5, <1>6, <3>1
  <2>2. CASE k = p + 1
    BY <1>5, <2>2
  <2>3. CASE k = p + 2
    BY <1>1, <1>5, <1>6, <2>3
  <2>4. CASE k > p + 2
    <3>1. a.announced /\ k \in {p + 3, p + 4}
      BY <1>1, <2>4
    <3>2. (p + 4) - 1 = p + 3
      BY <1>1
    <3>3. QED
      BY <1>5, <1>6, <3>1, <3>2
  <2>5. QED
    BY <1>1, <2>1, <2>2, <2>3, <2>4
<1>7. e \in 2 .. Len(s) /\ (v2 => e >= 4)
  BY <1>1, <1>2, <1>4
<1>8. s[1] # Eol
  BY <1>1, <1>2, <1>5
<1>9. HeaderAt(s, e, B)
  BY <1>1, <1>6, <1>7 DEF HeaderAt
<1>10. QED
  BY <1>1, <1>7, <1>8, <1>9 DEF s, e, B

LEMMA DueProperties ==
  ASSUME NEW a \in Answer, NEW v2 \in BOOLEAN
  PROVE  /\ Due(a, FirstState(v2)) = Sent(a, v2)
         /\ FirstState(v2) = "not_acked" <=> v2
         /\ FirstState(v2) \in {"not_acked", "not_parsed"}
<1>1. CASE v2 = TRUE
  BY <1>1 DEF Due, FirstState
<1>2. CASE v2 = FALSE
  BY <1>2 DEF Due, FirstState
<1>3. QED
  BY <1>1, <1>2

(* Behind n of the tokens the empty line is n nearer.                      *)
LEMMA HeaderNearer ==
  ASSUME NEW s \in Seq(Tokens), NEW e \in Nat, NEW body, Len(body) \in Nat,
         HeaderAt(s, e, body),
         NEW n \in Nat, n + 2 <= e, NEW t \in Seq(Tokens), Len(t) = Len(s) - n,
         \A i \in 1 .. Len(t) : t[i] = s[n + i]
  PROVE  HeaderAt(t, e - n, body)
<1> DEFINE d == e - n
<1>1. d \in 2 .. Len(t) /\ Len(t) = d + Len(body) /\ Len(t) \in Nat /\ d \in Nat
  BY DEF HeaderAt
<1>2. t[d] = Eol /\ t[d - 1] = Eol
  <2>1. d \in 1 .. Len(t) /\ d - 1 \in 1 .. Len(t) /\ n + d = e /\ n + (d - 1) = e - 1
    BY <1>1
  <2>2. t[d] = s[e] /\ t[d - 1] = s[e - 1]
    BY <2>1
  <2>3. QED
    BY <2>2 DEF HeaderAt
<1>3. ASSUME NEW k \in 2 .. d - 1, t[k - 1] = Eol PROVE t[k] # Eol
  <2>1. k \in 1 .. Len(t) /\ k - 1 \in 1 .. Len(t) /\ n + (k - 1) = (n + k) - 1
        /\ n + k \in 2 .. e - 1
    BY <1>1
  <2>2. t[k] = s[n + k] /\ t[k - 1] = s[(n + k) - 1]
    BY <2>1
  <2>3. QED
    BY <1>3, <2>1, <2>2 DEF HeaderAt
<1>4. ASSUME NEW j \in 1 .. Len(body) PROVE t[d + j] = body[j]
  <2>1. d + j \in 1 .. Len(t) /\ n + (d + j) = e + j
    BY <1>1
  <2>2. t[d + j] = s[e + j]
    BY <2>1
  <2>3. QED
    BY <2>2 DEF HeaderAt
<1>5. QED
  BY <1>1, <1>2, <1>3, <1>4 DEF HeaderAt

(* An acknowledgement is processed, or more is read, or a retry found the  *)
(* buffer in use.                                                          *)
LEMMA AckProperties ==
  ASSUME NEW a \in Session, Fits(a), NEW w \in World,
         a.http_parser_state # "completed", a.result = "succeeded", Looking(a, w),
         NEW b, b = OnHTTPAck(a)
  PROVE  /\ b \in Session /\ Fits(b) /\ Looking(b, w)
         /\ b.buffer = a.buffer /\ b.phase = a.phase /\ b.size = a.size
         /\ \/ b.http_parser_state = "not_parsed" /\ b.result = "succeeded"
            \/ /\ b.http_parser_state = "not_acked" /\ b.result = "in_progress"
               /\ HeaderEnds(Unprocessed(b)) = {}
            \/ b.http_parser_state = "not_acked" /\ b.result = "failed" /\ w.left
<1> DEFINE u == Unprocessed(a)
           s == Awaited(a, w)
<1>1. /\ u \in Seq(Tokens) /\ s \in Seq(Tokens) /\ Len(u) \in Nat
      /\ Len(u) = Len(a.buffer) - a.read_processed /\ Len(s) = Len(u) + Len(w.rest)
      /\ Len(w.rest) \in Nat /\ Len(a.buffer) \in Nat
      /\ \A i \in 1 .. Len(u) : s[i] = u[i]
  BY InBuffer
<1>2. /\ \A t : Holds(u, t) <=> \E k \in 1 .. Len(u) : u[k] = t
      /\ HeaderEnds(u) = {k \in 2 .. Len(u) : u[k] = Eol /\ u[k - 1] = Eol}
  BY <1>1, HoldsProperties
<1>3. CASE a.http_parser_state = "not_parsed"
  BY <1>3 DEF OnHTTPAck
<1>4. CASE a.http_parser_state = "not_acked" /\ ~Holds(u, Eol)
  <2>1. b = Becomes(a, "in_progress")
    BY <1>4 DEF OnHTTPAck
  <2>2. HeaderEnds(u) = {}
    <3>1. \A k \in 2 .. Len(u) : k \in 1 .. Len(u)
      OBVIOUS
    <3>2. QED
      BY <1>2, <1>4, <3>1
  <2>3. QED
    BY <1>4, <2>1, <2>2 DEF Becomes, Session, Fits, Looking, Awaited, Unprocessed
<1>5. CASE a.http_parser_state = "not_acked" /\ Holds(u, Eol) /\ ~Holds(u, Ack)
  <2>1. b = Becomes(a, "failed")
    BY <1>5 DEF OnHTTPAck
  <2>2. ASSUME ~w.left PROVE FALSE
    <3>1. s = Sent(w.answer, TRUE)
      BY <1>5, <2>2 DEF Looking, Due
    <3>2. s[1] = Ack
      BY <3>1, SentProperties, Zenon DEF World
    <3>3. PICK k \in 1 .. Len(u) : u[k] = Eol
      BY <1>2, <1>5
    <3>4. 1 \in 1 .. Len(u)
      BY <1>1
    <3>5. u[1] = Ack
      BY <1>1, <3>2, <3>4
    <3>6. QED
      BY <1>2, <1>5, <3>4, <3>5
  <2>3. w.left
    BY <2>2
  <2>4. QED
    BY <1>5, <2>1, <2>3 DEF Becomes, Session, Fits, Looking, Awaited, Unprocessed
<1>6. CASE a.http_parser_state = "not_acked" /\ Holds(u, Eol) /\ Holds(u, Ack)
  <2>1. b = [a EXCEPT !.http_parser_state = "not_parsed", !.read_processed = @ + 2]
    BY <1>6 DEF OnHTTPAck
  <2>2. Len(u) >= 2
    <3>1. PICK j \in 1 .. Len(u), k \in 1 .. Len(u) : u[j] = Eol /\ u[k] = Ack
      BY <1>2, <1>6
    <3>2. j # k
      BY <3>1, TokensDiffer
    <3>3. QED
      BY <1>1, <3>2
  <2>3. /\ b.buffer = a.buffer /\ b.read_processed = a.read_processed + 2
        /\ b.http_parser_state = "not_parsed" /\ b.result = "succeeded"
        /\ b.phase = a.phase /\ b.size = a.size /\ b \in Session /\ Fits(b)
    <3>1. a.read_processed + 2 \in Nat /\ a.read_processed + 2 <= Len(a.buffer)
      BY <1>1, <2>2 DEF Session
    <3>2. b \in Session
      BY <2>1, <3>1 DEF Session
    <3>3. /\ b.buffer = a.buffer /\ b.read_processed = a.read_processed + 2
          /\ b.http_parser_state = "not_parsed" /\ b.result = "succeeded"
          /\ b.phase = a.phase /\ b.size = a.size
      BY <2>1 DEF Session
    <3>4. QED
      BY <3>1, <3>2, <3>3 DEF Fits
  <2> DEFINE t == Awaited(b, w)
  <2>4. /\ t \in Seq(Tokens) /\ Len(t) = Len(s) - 2
        /\ \A i \in 1 .. Len(t) : t[i] = s[2 + i]
    <3>1. /\ a.buffer \in Seq(Tokens) /\ a.read_processed \in Nat
          /\ a.read_processed <= Len(a.buffer) /\ w.rest \in Seq(Tokens)
      BY DEF Session, Fits, World
    <3>2. QED
      BY <2>2, <2>3, <3>1, ProcessedProperties
  <2> HIDE DEF s, t
  <2>5. PICK e \in Nat : HeaderAt(s, e, Body(w.answer)) /\ e >= 4
    BY <1>6 DEF Looking, s
  <2>6. Len(Body(w.answer)) \in Nat
    <3>1. Body(w.answer) \in Seq(Tokens)
      BY BodyProperties DEF World
    <3>2. QED
      BY <3>1
  <2>7. HeaderAt(t, e - 2, Body(w.answer)) /\ e - 2 \in Nat
    <3>1. 2 \in Nat /\ 2 + 2 <= e /\ e - 2 \in Nat
      BY <2>5
    <3>2. s \in Seq(Tokens)
      BY <1>1
    <3>3. HeaderAt(t, e - 2, Body(w.answer))
      BY <2>4, <2>5, <2>6, <3>1, <3>2, HeaderNearer, Zenon
    <3>4. QED
      BY <3>1, <3>3
  <2>8. ASSUME ~w.left PROVE t = Due(w.answer, "not_parsed")
    <3> DEFINE d == Sent(w.answer, FALSE)
               f == Sent(w.answer, TRUE)
    <3>1. s = f
      BY <1>6, <2>8 DEF Looking, Due, s
    <3>2. /\ Len(f) = Len(d) + 2
          /\ \A i \in 1 .. Len(d) : f[i + 2] = d[i]
      BY SentAck DEF World
    <3>3. d \in Seq(Tokens)
      BY SentPlain DEF World
    <3>4. Due(w.answer, "not_parsed") = d
      BY DEF Due
    <3> HIDE DEF d, f
    <3>5. Len(t) = Len(d) /\ \A i \in 1 .. Len(t) : t[i] = d[i]
      <4>1. Len(t) = Len(d)
        BY <2>4, <3>1, <3>2, <3>3
      <4>2. \A i \in 1 .. Len(d) : 2 + i = i + 2
        OBVIOUS
      <4>3. QED
        BY <2>4, <3>1, <3>2, <4>1, <4>2
    <3>6. t = d
      BY <2>4, <3>3, <3>5, SeqEqual
    <3>7. QED
      BY <3>4, <3>6
  <2>9. Looking(b, w)
    <3>1. w.parsed = <<>>
      BY DEF Looking
    <3>2. QED
      BY <2>3, <2>7, <2>8, <3>1 DEF Looking, t
  <2>10. QED
    BY <2>3, <2>9
<1>7. QED
  BY <1>3, <1>4, <1>5, <1>6 DEF Session

LEMMA IntMax == INT_MAX \in Nat /\ INT_MAX > 0
BY DEF INT_MAX

LEMMA LengthProperties ==
  ASSUME NEW t \in Tokens, t[1] = "content-length"
  PROVE  t[2] \in 0 .. 3 * MaxLines
<1>1. t \notin {Ack, Ok, Refused, Eol}
  BY TokensDiffer
<1>2. t \notin {"tagged", "status", "args"} \X (1 .. MaxLines)
  <2>1. ASSUME t \in {"tagged", "status", "args"} \X (1 .. MaxLines) PROVE FALSE
    <3>1. t[1] \in {"tagged", "status", "args"}
      BY <2>1
    <3>2. QED
      BY <3>1
  <2>2. QED
    BY <2>1
<1>3. PICK n \in 0 .. 3 * MaxLines : t = Length(n)
  BY <1>1, <1>2 DEF Tokens
<1>4. t[2] = n
  BY <1>3 DEF Length
<1>5. QED
  BY <1>4

(* The length that was announced is the one found.                         *)
LEMMA LengthsOfSent ==
  ASSUME NEW a \in Answer, NEW u \in Seq(Tokens), Len(u) <= Len(Sent(a, FALSE)),
         Len(u) >= HeaderTokens(a, FALSE),
         \A i \in 1 .. Len(u) : Sent(a, FALSE)[i] = u[i]
  PROVE  /\ ~a.announced => Lengths(u) = {}
         /\ a.announced => /\ Lengths(u) # {}
                           /\ u[Least(Lengths(u))] = Length(Len(Body(a)))
<1> DEFINE t == Sent(a, FALSE)
           e == HeaderTokens(a, FALSE)
<1>1. DOMAIN u = 1 .. Len(u) /\ Len(u) \in Nat
  BY LenProperties
<1>2. /\ t \in Seq(Tokens) /\ e \in {3, 5}
      /\ a.announced => t[3] = Length(Len(Body(a)))
  BY SentPlain
<1>3. \A k \in 1 .. Len(t) : t[k][1] = "content-length" <=> a.announced /\ k = 3
  BY SentTokens
<1>4. Len(u) <= Len(t) /\ Len(u) >= e /\ \A i \in 1 .. Len(u) : t[i] = u[i]
  OBVIOUS
<1> HIDE DEF t, e
<1>5. \A k \in 1 .. Len(u) : u[k][1] = "content-length" <=> a.announced /\ k = 3
  <2>1. Len(t) \in Nat
    BY <1>2
  <2>2. \A k \in 1 .. Len(u) : k \in 1 .. Len(t)
    BY <1>1, <1>4, <2>1
  <2>3. QED
    BY <1>3, <1>4, <2>2
<1>6. ~a.announced => Lengths(u) = {}
  BY <1>1, <1>5 DEF Lengths
<1>7. ASSUME a.announced
      PROVE  Lengths(u) # {} /\ u[Least(Lengths(u))] = Length(Len(Body(a)))
  <2>1. 3 \in 1 .. Len(u)
    BY <1>1, <1>2, <1>4
  <2>2. Lengths(u) = {3}
    BY <1>1, <1>5, <1>7, <2>1 DEF Lengths
  <2>3. Least({3}) = 3
    BY LeastIs
  <2>4. u[3] = t[3]
    BY <1>4, <2>1
  <2>5. QED
    BY <1>2, <1>7, <2>2, <2>3, <2>4
<1>8. QED
  BY <1>6, <1>7

(* Reading the header leaves the lines, and counters that find their end.  *)
LEMMA HeaderReadProperties ==
  ASSUME NEW a \in Session, Fits(a), NEW w \in World,
         a.http_parser_state = "not_parsed", Looking(a, w),
         Holds(Unprocessed(a), Ok), HeaderEnds(Unprocessed(a)) # {}
  PROVE  HeaderRead(a) \in Session /\ Fits(HeaderRead(a)) /\ Reading(HeaderRead(a), w)
<1> DEFINE u == Unprocessed(a)
           s == Awaited(a, w)
           B == Body(w.answer)
           e == Least(HeaderEnds(u))
           b == HeaderRead(a)
           n == IF Lengths(u) = {} THEN INT_MAX
                ELSE a.read_processed + e + u[Least(Lengths(u))][2]
<1>1. /\ u \in Seq(Tokens) /\ s \in Seq(Tokens) /\ Len(u) \in Nat
      /\ Len(u) = Len(a.buffer) - a.read_processed /\ Len(s) = Len(u) + Len(w.rest)
      /\ Len(w.rest) \in Nat /\ Len(a.buffer) \in Nat
      /\ \A i \in 1 .. Len(u) : s[i] = u[i]
  BY InBuffer
<1>2. a.read_processed \in Nat /\ Len(a.buffer) <= BufferSize /\ a.buffer \in Seq(Tokens)
      /\ a.read_processed <= Len(a.buffer) /\ w.rest \in Seq(Tokens) /\ w.answer \in Answer
      /\ w.parsed = <<>> /\ w.answer.announced \in BOOLEAN
  BY DEF Session, Fits, World, Looking, Answer
<1>3. B \in Seq(Tokens) /\ Len(B) \in Nat /\ Len(B) <= 3 * MaxLines
  <2>1. B \in Seq(Tokens) /\ Len(B) = 3 * Len(w.answer.lines) /\ Len(w.answer.lines) \in 1 .. MaxLines
    BY <1>2, BodyProperties
  <2>2. QED
    BY <2>1, WebSvcAnswerAssumption
<1>4. HeaderAt(s, e, B) /\ e \in 2 .. Len(u)
  <2>1. PICK d \in Nat : HeaderAt(s, d, B)
    BY DEF Looking
  <2>2. d \in 2 .. Len(u) /\ e = d
    <3>1. Len(u) <= Len(s)
      BY <1>1
    <3>2. QED
      BY <1>1, <2>1, <3>1, HeaderFound
  <2>3. QED
    BY <2>1, <2>2
<1>5. /\ b = [a EXCEPT !.http_parser_state = "completed",
                       !.read_processed = a.read_processed + e,
                       !.data_processed = 0, !.data_size = n]
  BY SMT DEF HeaderRead
<1>6. n \in -1 .. INT_MAX
  <2>1. CASE Lengths(u) = {}
    <3>1. n = INT_MAX
      BY <2>1
    <3>2. QED
      BY <3>1, IntMax
  <2>2. CASE Lengths(u) # {}
    <3>1. Lengths(u) \in SUBSET Nat /\ \A k \in Lengths(u) : u[k] \in Tokens /\ u[k][1] = "content-length"
      BY <1>1 DEF Lengths
    <3>2. Least(Lengths(u)) \in Lengths(u)
      BY <2>2, <3>1, LeastProperties
    <3>3. u[Least(Lengths(u))][2] \in 0 .. 3 * MaxLines
      BY <3>1, <3>2, LengthProperties
    <3> DEFINE m == u[Least(Lengths(u))][2]
    <3>4. n = a.read_processed + e + m
      BY <2>2
    <3> HIDE DEF m, n, e, u
    <3>5. m \in 0 .. 3 * MaxLines
      BY <3>3 DEF m, u
    <3>6. QED
      BY <1>1, <1>2, <1>4, <3>4, <3>5, WebSvcAnswerAssumption, IntMax
  <2>3. QED
    BY <2>1, <2>2
<1> HIDE DEF n, e, b
<1>7. b \in Session
  <2>1. a.read_processed + e \in Nat
    BY <1>1, <1>2, <1>4
  <2>2. QED
    BY <1>5, <1>6, <2>1 DEF Session
<1>8. /\ b.buffer = a.buffer /\ b.read_processed = a.read_processed + e
      /\ b.data_processed = 0 /\ b.data_size = n
  BY <1>5 DEF Session
<1> DEFINE x == Len(u)
           y == Len(w.rest)
           z == Len(B)
<1>17. /\ x \in Nat /\ y \in Nat /\ z \in Nat /\ e \in Nat /\ e <= x
       /\ z = x + y - e /\ y <= z /\ z <= 3 * MaxLines
       /\ Len(a.buffer) = a.read_processed + x
  <2>1. Len(s) = e + z
    BY <1>4 DEF HeaderAt
  <2>2. Len(s) = x + y
    BY <1>1
  <2>3. x \in Nat /\ y \in Nat /\ z \in Nat /\ e \in 2 .. x /\ z <= 3 * MaxLines
    BY <1>1, <1>3, <1>4
  <2>4. Len(a.buffer) = a.read_processed + x
    BY <1>1, <1>2
  <2> HIDE DEF x, y, z, s
  <2>5. x + y = e + z
    BY <2>1, <2>2
  <2>6. QED
    BY <2>3, <2>4, <2>5
<1> HIDE DEF u, s, B
<1>9. b.read_processed <= Len(b.buffer)
  BY <1>1, <1>2, <1>4, <1>8
<1> DEFINE t == Awaited(b, w)
<1>10. /\ t \in Seq(Tokens) /\ Len(t) = Len(s) - e
       /\ \A i \in 1 .. Len(t) : t[i] = s[e + i]
  <2>1. e \in Nat /\ e <= Len(Unprocessed(a))
    BY <1>1, <1>4 DEF u
  <2>2. /\ Awaited(b, w) \in Seq(Tokens)
        /\ Len(Awaited(b, w)) = Len(Awaited(a, w)) - e
        /\ \A i \in 1 .. Len(Awaited(b, w)) : Awaited(b, w)[i] = Awaited(a, w)[e + i]
    BY <1>2, <1>8, <2>1, ProcessedProperties
  <2>3. QED
    BY <2>2 DEF s
<1> HIDE DEF t
<1>11. Len(t) = Len(B) /\ \A j \in 1 .. Len(t) : t[j] = B[j]
  <2>1. Len(t) = Len(B)
    BY <1>1, <1>3, <1>4, <1>10 DEF HeaderAt
  <2>2. QED
    BY <1>4, <1>10, <2>1 DEF HeaderAt
<1>12. Total(b, w) = Len(a.buffer) + Len(w.rest)
  BY <1>1, <1>8 DEF Total
<1>13. Total(b, w) <= BufferSize + 3 * MaxLines
  <2> HIDE DEF x, y, z
  <2>1. Total(b, w) = Len(a.buffer) + y
    BY <1>12 DEF y
  <2>2. Len(a.buffer) <= BufferSize /\ Len(a.buffer) \in Nat
    BY <1>1, <1>2
  <2>3. QED
    BY <1>17, <2>1, <2>2, WebSvcAnswerAssumption
<1>14. ASSUME ~w.left
       PROVE  /\ w.answer.ok
              /\ n = IF w.answer.announced THEN Total(b, w) ELSE INT_MAX
  <2> DEFINE d == Sent(w.answer, FALSE)
             h == HeaderTokens(w.answer, FALSE)
  <2>1. s = d
    BY <1>14 DEF Looking, Due, s
  <2>2. Len(d) = h + Len(B) /\ h \in {3, 5}
    BY <1>2, SentPlain DEF B
  <2>3. \A k \in 1 .. Len(d) : d[k] = Ok => w.answer.ok
    BY <1>2, SentTokens
  <2>4. Len(u) <= Len(d) /\ Len(u) >= h /\ \A i \in 1 .. Len(u) : d[i] = u[i]
    <3> HIDE DEF d, h
    <3>1. h = e
      BY <1>1, <1>3, <1>4, <2>1, <2>2 DEF HeaderAt
    <3>2. QED
      BY <1>1, <1>4, <2>1, <3>1
  <2>5. w.answer.ok
    <3>1. PICK k \in 1 .. Len(u) : u[k] = Ok
      BY <1>1, HoldsProperties DEF u
    <3> HIDE DEF d, h
    <3>2. k \in 1 .. Len(d)
      BY <1>1, <2>1, <2>4
    <3>3. QED
      BY <2>3, <2>4, <3>1, <3>2
  <2>6. /\ ~w.answer.announced => Lengths(u) = {}
        /\ w.answer.announced => /\ Lengths(u) # {}
                                 /\ u[Least(Lengths(u))] = Length(Len(B))
    <3>1. u \in Seq(Tokens)
      BY <1>1
    <3>2. QED
      BY <1>2, <2>4, <3>1, LengthsOfSent DEF B
  <2> HIDE DEF d, h
  <2>7. CASE w.answer.announced
    <3>1. u[Least(Lengths(u))][2] = Len(B)
      BY <2>6, <2>7 DEF Length
    <3>2. n = a.read_processed + e + Len(B)
      BY <2>6, <2>7, <3>1 DEF n
    <3>3. n = a.read_processed + e + z /\ Total(b, w) = Len(a.buffer) + y
      BY <1>12, <3>2
    <3>4. n = Total(b, w)
      <4> HIDE DEF x, y, z
      <4>1. a.read_processed \in Nat
        BY <1>2
      <4>2. QED
        BY <1>17, <3>3, <4>1
    <3>5. QED
      BY <2>5, <2>7, <3>4
  <2>8. CASE ~w.answer.announced
    BY <2>5, <2>6, <2>8 DEF n
  <2>9. QED
    BY <2>7, <2>8
<1>15. Reading(b, w)
  <2>1. Len(w.parsed) = 0
    BY <1>2
  <2>2. Len(B) = Len(B) - 3 * Len(w.parsed) /\ \A j \in 1 .. Len(B) : 3 * Len(w.parsed) + j = j
    BY <1>3, <2>1
  <2>3. QED
    BY <1>8, <1>11, <1>13, <1>14, <2>2 DEF Reading, t, B
<1>16. QED
  BY <1>2, <1>7, <1>8, <1>9, <1>15 DEF b, Fits

(* The header is read, or more is wanted, or there is none to find.        *)
LEMMA HeaderProperties ==
  ASSUME NEW a \in Session, Fits(a), NEW w \in World,
         a.http_parser_state = "not_parsed", a.result = "succeeded", Looking(a, w),
         NEW b, b = OnHTTPHeader(a)
  PROVE  /\ b \in Session /\ Fits(b)
         /\ b.buffer = a.buffer /\ b.phase = a.phase /\ b.size = a.size
         /\ \/ /\ b.http_parser_state = "completed" /\ b.result = "succeeded"
               /\ Reading(b, w)
            \/ /\ b.http_parser_state = "not_parsed" /\ b.result = "in_progress"
               /\ HeaderEnds(Unprocessed(b)) = {} /\ Looking(b, w)
            \/ /\ b.http_parser_state = "not_parsed" /\ b.result = "failed"
               /\ w.left \/ ~w.answer.ok
<1> DEFINE u == Unprocessed(a)
           s == Awaited(a, w)
<1>1. /\ u \in Seq(Tokens) /\ s \in Seq(Tokens) /\ Len(u) \in Nat
      /\ Len(s) = Len(u) + Len(w.rest) /\ Len(w.rest) \in Nat
      /\ \A i \in 1 .. Len(u) : s[i] = u[i]
  BY InBuffer
<1>2. /\ \A t : Holds(u, t) <=> \E k \in 1 .. Len(u) : u[k] = t
      /\ HeaderEnds(u) = {k \in 2 .. Len(u) : u[k] = Eol /\ u[k - 1] = Eol}
  BY <1>1, HoldsProperties
<1>3. HeaderEnds(u) # {} => Holds(u, Eol)
  <2>1. \A k \in 2 .. Len(u) : k \in 1 .. Len(u)
    OBVIOUS
  <2>2. QED
    BY <1>2, <2>1
<1>4. CASE HeaderEnds(u) = {} /\ (~Holds(u, Eol) \/ Holds(u, Ok))
  <2>1. b = Becomes(a, "in_progress")
    BY <1>4 DEF OnHTTPHeader
  <2>2. QED
    BY <1>4, <2>1 DEF Becomes, Session, Fits, Looking, Awaited, Unprocessed
<1>5. CASE Holds(u, Eol) /\ ~Holds(u, Ok)
  <2>1. b = Becomes(a, "failed")
    BY <1>5 DEF OnHTTPHeader
  <2>2. ASSUME ~w.left, w.answer.ok PROVE FALSE
    <3>1. s = Sent(w.answer, FALSE)
      BY <2>2 DEF Looking, Due
    <3>2. s[1] = Ok
      BY <2>2, <3>1, SentPlain DEF World
    <3>3. PICK k \in 1 .. Len(u) : u[k] = Eol
      BY <1>2, <1>5
    <3>4. 1 \in 1 .. Len(u)
      BY <1>1
    <3>5. u[1] = Ok
      BY <1>1, <3>2, <3>4
    <3>6. QED
      BY <1>2, <1>5, <3>4, <3>5
  <2>3. w.left \/ ~w.answer.ok
    BY <2>2
  <2>4. QED
    BY <2>1, <2>3 DEF Becomes, Session, Fits
<1>6. CASE Holds(u, Ok) /\ HeaderEnds(u) # {}
  <2>1. b = HeaderRead(a)
    BY <1>3, <1>6 DEF OnHTTPHeader
  <2>2. b \in Session /\ Fits(b) /\ Reading(b, w)
    BY <1>6, <2>1, HeaderReadProperties
  <2>3. /\ b.buffer = a.buffer /\ b.phase = a.phase /\ b.size = a.size
        /\ b.http_parser_state = "completed" /\ b.result = "succeeded"
    BY <2>1 DEF HeaderRead, Session
  <2>4. QED
    BY <2>2, <2>3
<1>7. QED
  BY <1>3, <1>4, <1>5, <1>6

(* What is kept for the next read: what was not processed.                 *)
LEMMA ReadOnProperties ==
  ASSUME NEW a \in Session, Fits(a), NEW b, b = ReadOn(a)
  PROVE  /\ b \in Session /\ Fits(b) /\ b.size = a.size /\ b.rc = a.rc
         /\ b.http_parser_state = a.http_parser_state /\ b.data_size = a.data_size
         /\ \/ /\ b.phase = "idle" /\ b.result = "failed"
               /\ Len(b.buffer) = BufferSize
            \/ /\ b.phase = "receiving"
               /\ Unprocessed(b) = Unprocessed(a)
               /\ b.data_processed + Len(b.buffer) = a.data_processed + Len(a.buffer)
<1> DEFINE r == cyclic_buffer_recycle(a)
           u == Unprocessed(a)
<1>1. /\ a.buffer \in Seq(Tokens) /\ a.read_processed \in Nat /\ a.data_processed \in Nat
      /\ a.read_processed <= Len(a.buffer) /\ Len(a.buffer) <= BufferSize
  BY DEF Session, Fits
<1>2. u \in Seq(Tokens) /\ Len(u) = Len(a.buffer) - a.read_processed
  BY <1>1, UnprocessedProperties
<1>3. Len(u) \in Nat /\ Len(a.buffer) \in Nat
  BY <1>1, <1>2
<1>4. Len(u) <= BufferSize
  <2> DEFINE m == Len(u)
             n == Len(a.buffer)
  <2>1. m \in Nat /\ n \in Nat /\ m = n - a.read_processed /\ n <= BufferSize
    BY <1>1, <1>2, <1>3
  <2> HIDE DEF m, n
  <2>2. m <= BufferSize
    BY <1>1, <2>1, WebSvcAnswerAssumption
  <2>3. QED
    BY <2>2 DEF m
<1> HIDE DEF u
<1>5. r = [a EXCEPT !.data_processed = a.data_processed + a.read_processed,
                    !.buffer = u, !.read_processed = 0]
  BY DEF cyclic_buffer_recycle, u
<1> HIDE DEF r
<1>6. /\ r \in Session /\ r.size = a.size /\ r.rc = a.rc /\ r.buffer = u
      /\ r.http_parser_state = a.http_parser_state /\ r.data_size = a.data_size
      /\ r.read_processed = 0
      /\ r.data_processed = a.data_processed + a.read_processed
  <2>1. a.data_processed + a.read_processed \in Nat
    BY <1>1
  <2>2. QED
    BY <1>2, <1>5, <2>1 DEF Session
<1>7. Unprocessed(r) = u
  BY <1>1, <1>6, RecycledProperties DEF u
<1>8. r.data_processed + Len(r.buffer) = a.data_processed + Len(a.buffer)
  <2> DEFINE m == Len(u)
             n == Len(a.buffer)
  <2>1. m \in Nat /\ n \in Nat /\ m = n - a.read_processed
    BY <1>2, <1>3
  <2> HIDE DEF m, n
  <2>2. (a.data_processed + a.read_processed) + m = a.data_processed + n
    BY <1>1, <2>1
  <2>3. QED
    BY <1>6, <2>2 DEF m, n
<1>9. CASE free_size(r) = 0
  <2>1. b = [r EXCEPT !.phase = "idle", !.result = "failed"]
    BY <1>9 DEF ReadOn, Ended, r
  <2>2. Len(u) = BufferSize
    BY <1>3, <1>6, <1>9, WebSvcAnswerAssumption DEF free_size
  <2>3. QED
    <3>1. /\ b \in Session /\ b.size = a.size /\ b.rc = a.rc /\ b.buffer = u
          /\ b.http_parser_state = a.http_parser_state /\ b.data_size = a.data_size
          /\ b.phase = "idle" /\ b.result = "failed" /\ b.read_processed = 0
      BY <1>6, <2>1 DEF Session
    <3>2. Fits(b)
      BY <1>3, <1>4, <3>1 DEF Fits
    <3>3. QED
      BY <2>2, <3>1, <3>2
<1>10. CASE free_size(r) # 0
  <2>1. b = [r EXCEPT !.phase = "receiving"]
    BY <1>10 DEF ReadOn, r
  <2>2. /\ b \in Session /\ b.size = a.size /\ b.rc = a.rc /\ b.buffer = u
        /\ b.http_parser_state = a.http_parser_state /\ b.data_size = a.data_size
        /\ b.phase = "receiving" /\ b.read_processed = 0 /\ r.buffer = b.buffer
        /\ b.data_processed = r.data_processed
    BY <1>6, <2>1 DEF Session
  <2>3. Unprocessed(b) = Unprocessed(r)
    BY <1>6, <2>2 DEF Unprocessed
  <2>4. Fits(b)
    BY <1>3, <1>4, <2>2 DEF Fits
  <2>5. QED
    BY <1>7, <1>8, <2>2, <2>3, <2>4 DEF u
<1>11. QED
  BY <1>9, <1>10

(* How the searches of a read end.                                         *)
LEMMA SearchedProperties ==
  ASSUME NEW a \in Session, Fits(a), NEW w \in World, a.result = "succeeded",
         a.http_parser_state # "completed" => Looking(a, w),
         a.http_parser_state = "completed" => Reading(a, w),
         NEW b, b = OnHTTPHeader(OnHTTPAck(a))
  PROVE  /\ b \in Session /\ Fits(b)
         /\ b.buffer = a.buffer /\ b.phase = a.phase /\ b.size = a.size
         /\ \/ /\ b.http_parser_state = "completed" /\ b.result = "succeeded"
               /\ Reading(b, w)
            \/ /\ b.http_parser_state # "completed" /\ b.result = "in_progress"
               /\ HeaderEnds(Unprocessed(b)) = {} /\ Looking(b, w)
            \/ /\ b.http_parser_state # "completed" /\ b.result = "failed"
               /\ w.left \/ ~w.answer.ok
<1>1. CASE a.http_parser_state = "completed"
  <2>1. b = a
    BY <1>1 DEF OnHTTPHeader, OnHTTPAck
  <2>2. QED
    BY <1>1, <2>1
<1>2. CASE a.http_parser_state # "completed"
  <2> DEFINE f == OnHTTPAck(a)
  <2>1. /\ f \in Session /\ Fits(f) /\ Looking(f, w)
        /\ f.buffer = a.buffer /\ f.phase = a.phase /\ f.size = a.size
        /\ \/ f.http_parser_state = "not_parsed" /\ f.result = "succeeded"
           \/ /\ f.http_parser_state = "not_acked" /\ f.result = "in_progress"
              /\ HeaderEnds(Unprocessed(f)) = {}
           \/ f.http_parser_state = "not_acked" /\ f.result = "failed" /\ w.left
    BY <1>2, AckProperties
  <2> HIDE DEF f
  <2>2. b = OnHTTPHeader(f)
    BY DEF f
  <2>3. CASE f.http_parser_state = "not_parsed" /\ f.result = "succeeded"
    <3>1. /\ b \in Session /\ Fits(b)
          /\ b.buffer = f.buffer /\ b.phase = f.phase /\ b.size = f.size
          /\ \/ /\ b.http_parser_state = "completed" /\ b.result = "succeeded"
                /\ Reading(b, w)
             \/ /\ b.http_parser_state = "not_parsed" /\ b.result = "in_progress"
                /\ HeaderEnds(Unprocessed(b)) = {} /\ Looking(b, w)
             \/ /\ b.http_parser_state = "not_parsed" /\ b.result = "failed"
                /\ w.left \/ ~w.answer.ok
      BY <2>1, <2>2, <2>3, HeaderProperties
    <3>2. QED
      BY <2>1, <3>1
  <2>4. CASE f.http_parser_state = "not_acked"
    <3>1. b = f
      BY <2>2, <2>4 DEF OnHTTPHeader
    <3>2. QED
      BY <2>1, <2>4, <3>1
  <2>5. QED
    BY <2>1, <2>3, <2>4
<1>3. QED
  BY <1>1, <1>2

(* What a read adds is searched together with what was there.              *)
LEMMA ReadIn ==
  ASSUME NEW a \in Session, Fits(a), NEW w \in World,
         NEW data \in Seq(Tokens), Len(a.buffer) + Len(data) <= BufferSize,
         NEW v \in World, v.answer = w.answer, v.parsed = w.parsed, v.left = w.left,
         w.rest = data \o v.rest,
         NEW b, b = ReadBy(a, data)
  PROVE  /\ b \in Session /\ Fits(b) /\ b.size = Len(data) /\ b.result = "succeeded"
         /\ b.http_parser_state = a.http_parser_state
         /\ Looking(a, w) => Looking(b, v)
         /\ Reading(a, w) => Reading(b, v)
<1> DEFINE l == Len(a.buffer)
           m == Len(data)
           n == Len(v.rest)
           size == IF a.data_size = -1 THEN Len(data) ELSE a.data_size
           buffer == a.buffer \o data
<1>1. /\ a.buffer \in Seq(Tokens) /\ a.read_processed \in Nat /\ a.data_processed \in Nat
      /\ a.read_processed <= Len(a.buffer) /\ a.data_size \in -1 .. INT_MAX
      /\ w.rest \in Seq(Tokens) /\ v.rest \in Seq(Tokens)
  BY DEF Session, Fits, World
<1>2. l \in Nat /\ m \in Nat /\ n \in Nat /\ l + m <= BufferSize
  BY <1>1
<1>3. buffer \in Seq(Tokens) /\ Len(buffer) = l + m
  BY <1>1, ConcatProperties
<1>4. Len(w.rest) = m + n
  BY <1>1, ConcatProperties
<1>5. m \in -1 .. BufferSize /\ m \in -1 .. INT_MAX
  <2> HIDE DEF l, m, n
  <2>1. QED
    BY <1>2, WebSvcAnswerAssumption, IntMax
<1>6. size \in -1 .. INT_MAX
  BY <1>1, <1>5
<1> HIDE DEF size, buffer
<1>7. b = [a EXCEPT !.buffer = buffer, !.size = m, !.result = "succeeded", !.data_size = size]
  BY DEF size, buffer, ReadBy
<1> HIDE DEF m
<1>8. /\ b \in Session /\ b.size = m /\ b.result = "succeeded" /\ b.buffer = buffer
      /\ b.http_parser_state = a.http_parser_state /\ b.data_size = size
      /\ b.read_processed = a.read_processed /\ b.data_processed = a.data_processed
  BY <1>3, <1>5, <1>6, <1>7 DEF Session
<1>9. Fits(b)
  <2>1. a.read_processed <= l /\ a.read_processed <= l + m
    BY <1>1, <1>2
  <2>2. QED
    BY <1>2, <1>3, <1>8, <2>1 DEF Fits
<1>10. Awaited(b, v) = Awaited(a, w)
  <2>1. Awaited(ReadBy(a, data), v) = Awaited(a, w)
    BY ReadProperties
  <2>2. QED
    BY <2>1
<1>11. Looking(a, w) => Looking(b, v)
  BY <1>8, <1>10 DEF Looking
<1>12. Total(b, v) = Total(a, w)
  <2>1. Total(b, v) = a.data_processed + (l + m) + n
    BY <1>3, <1>8 DEF Total
  <2>2. Total(a, w) = a.data_processed + l + (m + n)
    BY <1>4 DEF Total
  <2> HIDE DEF l, n
  <2>3. QED
    BY <1>1, <1>2, <2>1, <2>2
<1>13. ASSUME Reading(a, w) PROVE Reading(b, v)
  <2>1. ~w.left => b.data_size = a.data_size
    <3>1. SUFFICES ASSUME ~w.left PROVE a.data_size # -1
      BY <1>8 DEF size
    <3>2. a.data_size = IF w.answer.announced THEN Total(a, w) ELSE INT_MAX
      BY <1>13, <3>1 DEF Reading
    <3>3. Total(a, w) = a.data_processed + l + (m + n)
      BY <1>4 DEF Total
    <3> HIDE DEF l, n
    <3>4. Total(a, w) >= 0
      BY <1>1, <1>2, <3>3
    <3>5. QED
      BY <3>2, <3>4, IntMax
  <2>2. QED
    BY <1>10, <1>12, <1>13, <2>1 DEF Reading
<1>14. QED
  BY <1>8, <1>9, <1>11, <1>13 DEF m

(* A read that is searched is parsed, or read on, or the end.              *)
LEMMA ReceivedProperties ==
  ASSUME NEW a \in Session, Fits(a), NEW w \in World, a.phase = "receiving",
         InHeader(a, w), InBody(a, w),
         NEW data \in Seq(Tokens), Len(a.buffer) + Len(data) <= BufferSize,
         NEW v \in World, v.answer = w.answer, v.parsed = w.parsed, v.left = w.left,
         w.rest = data \o v.rest,
         NEW b, b = Received(a, data)
  PROVE  /\ b \in Session /\ Fits(b) /\ InHeader(b, v) /\ InBody(b, v)
         /\ b.phase = "idle" => b.result = "failed" \/ b.size = 0
         /\ b.phase = "idle" /\ b.size > 0 =>
              ~v.answer.ok \/ Len(b.buffer) = BufferSize \/ v.left
         /\ b.phase = "receiving" => v.rest # <<>>
<1> DEFINE r == ReadBy(a, data)
           g == OnHTTPHeader(OnHTTPAck(r))
<1>1. b = IF g.http_parser_state = "completed" /\ g.result # "failed"
          THEN [g EXCEPT !.phase = "parsing"] ELSE Conclude(g)
  BY DEF Received, ReadBy
<1>2. /\ r \in Session /\ Fits(r) /\ r.size = Len(data) /\ r.result = "succeeded"
      /\ r.http_parser_state = a.http_parser_state
      /\ Looking(a, w) => Looking(r, v)
      /\ Reading(a, w) => Reading(r, v)
  BY ReadIn
<1> HIDE DEF r
<1>3. /\ g \in Session /\ Fits(g) /\ g.size = r.size
      /\ \/ /\ g.http_parser_state = "completed" /\ g.result = "succeeded"
            /\ Reading(g, v)
         \/ /\ g.http_parser_state # "completed" /\ g.result = "in_progress"
            /\ HeaderEnds(Unprocessed(g)) = {} /\ Looking(g, v)
         \/ /\ g.http_parser_state # "completed" /\ g.result = "failed"
            /\ v.left \/ ~v.answer.ok
  <2>1. r.http_parser_state # "completed" => Looking(r, v)
    BY <1>2 DEF InHeader
  <2>2. r.http_parser_state = "completed" => Reading(r, v)
    BY <1>2 DEF InBody
  <2>3. QED
    BY <1>2, <2>1, <2>2, SearchedProperties
<1>4. Len(data) \in Nat
  OBVIOUS
<1> HIDE DEF g
<1>5. CASE g.http_parser_state = "completed" /\ g.result = "succeeded" /\ Reading(g, v)
  <2>1. b = [g EXCEPT !.phase = "parsing"]
    BY <1>1, <1>5
  <2>2. /\ b \in Session /\ b.phase = "parsing" /\ b.http_parser_state = "completed"
        /\ b.buffer = g.buffer /\ b.read_processed = g.read_processed
        /\ b.data_processed = g.data_processed /\ b.data_size = g.data_size
    BY <1>3, <1>5, <2>1 DEF Session
  <2>3. Fits(b)
    BY <1>3, <2>2 DEF Fits
  <2>4. Reading(b, v)
    BY <1>5, <2>2 DEF Reading, Awaited, Unprocessed, Total
  <2>5. QED
    BY <2>2, <2>3, <2>4 DEF InHeader, InBody
<1>6. CASE /\ g.http_parser_state # "completed" /\ g.result = "failed"
           /\ v.left \/ ~v.answer.ok
  <2>1. b = [g EXCEPT !.phase = "idle", !.result = "failed"]
    BY <1>1, <1>6 DEF Conclude, Ended
  <2>2. QED
    BY <1>3, <1>6, <2>1 DEF Session, Fits, InHeader, InBody
<1>7. CASE /\ g.http_parser_state # "completed" /\ g.result = "in_progress"
           /\ HeaderEnds(Unprocessed(g)) = {} /\ Looking(g, v)
  <2>1. b = Conclude(g)
    BY <1>1, <1>7
  <2>2. CASE g.size = 0
    <3>1. PICK res \in {"succeeded", "failed"} : b = [g EXCEPT !.phase = "idle", !.result = res]
      <4>1. g.rc \in {"succeeded", "failed"}
        BY <1>3 DEF Session
      <4>2. b = Ended(g, IF Unprocessed(g) # <<>> THEN "failed" ELSE g.rc)
        BY <1>7, <2>1, <2>2 DEF Conclude, LastRead
      <4>3. QED
        BY <4>1, <4>2 DEF Ended
    <3>2. /\ b \in Session /\ b.phase = "idle" /\ b.size = g.size
          /\ b.buffer = g.buffer /\ b.read_processed = g.read_processed
      BY <1>3, <3>1 DEF Session
    <3>3. Fits(b)
      BY <1>3, <3>2 DEF Fits
    <3>4. QED
      BY <2>2, <3>2, <3>3 DEF InHeader, InBody
  <2>3. CASE g.size # 0
    <3>1. b = ReadOn(g)
      BY <1>7, <2>1, <2>3 DEF Conclude, LastRead
    <3>2. /\ b \in Session /\ Fits(b) /\ b.size = g.size
          /\ b.http_parser_state = g.http_parser_state
          /\ \/ /\ b.phase = "idle" /\ b.result = "failed"
                /\ Len(b.buffer) = BufferSize
             \/ /\ b.phase = "receiving"
                /\ Unprocessed(b) = Unprocessed(g)
      BY <1>3, <3>1, ReadOnProperties
    <3>3. ASSUME b.phase = "receiving" PROVE InHeader(b, v) /\ v.rest # <<>>
      <4>1. Unprocessed(b) = Unprocessed(g)
        BY <3>2, <3>3
      <4>2. Looking(b, v) /\ HeaderEnds(Unprocessed(b)) = {}
        BY <1>7, <3>2, <4>1 DEF Looking, Awaited
      <4>3. v.rest # <<>>
        <5>1. PICK e \in Nat : HeaderAt(Awaited(b, v), e, Body(v.answer))
          BY <4>2 DEF Looking
        <5>2. /\ Unprocessed(b) \in Seq(Tokens) /\ Awaited(b, v) \in Seq(Tokens)
              /\ Len(Unprocessed(b)) \in Nat /\ Len(v.rest) \in Nat
              /\ Len(Awaited(b, v)) = Len(Unprocessed(b)) + Len(v.rest)
              /\ \A i \in 1 .. Len(Unprocessed(b)) : Awaited(b, v)[i] = Unprocessed(b)[i]
          BY <3>2, InBuffer
        <5>3. ~(e <= Len(Unprocessed(b)))
          <6>1. Len(Unprocessed(b)) <= Len(Awaited(b, v))
            BY <5>2
          <6>2. QED
            BY <4>2, <5>1, <5>2, <6>1, HeaderFound
        <5>4. e <= Len(Awaited(b, v))
          BY <5>1, <5>2 DEF HeaderAt
        <5>5. Len(v.rest) # 0
          BY <5>2, <5>3, <5>4
        <5>6. QED
          BY <5>5
      <4>4. QED
        BY <3>3, <4>2, <4>3 DEF InHeader
    <3>4. InBody(b, v)
      BY <1>7, <3>2 DEF InBody
    <3>5. CASE b.phase = "receiving"
      BY <3>2, <3>3, <3>4, <3>5
    <3>6. CASE b.phase = "idle"
      BY <3>2, <3>4, <3>6 DEF InHeader
    <3>7. QED
      BY <3>2, <3>5, <3>6
  <2>4. QED
    BY <2>2, <2>3
<1>8. QED
  BY <1>3, <1>5, <1>6, <1>7

(***************************************************************************)
(* The lines.                                                              *)
(***************************************************************************)

(* The line at the front of what is awaited, and the one behind it.        *)
LEMMA LineFront ==
  ASSUME NEW a \in Session, Fits(a), NEW w \in World, Reading(a, w), Ordered(w),
         Unprocessed(a) # <<>>,
         NEW i, i = Len(w.parsed) + 1, NEW L, L = Len(w.answer.lines)
  PROVE  LET s == Awaited(a, w)
         IN  /\ i \in 1 .. L /\ L \in 1 .. MaxLines
             /\ 3 <= Len(s) /\ s[1] = <<w.answer.lines[i], i>>
             /\ s[1] # Eol /\ s[2] # Eol /\ s[3] = Eol
             /\ w.answer.lines[i] = "status" =>
                  /\ i + 1 \in 1 .. L /\ 6 <= Len(s)
                  /\ s[4] = <<w.answer.lines[i + 1], i + 1>>
                  /\ s[4] # Eol /\ s[5] # Eol /\ s[6] = Eol
<1> DEFINE s == Awaited(a, w)
           B == Body(w.answer)
           p == Len(w.parsed)
           lines == w.answer.lines
<1>1. /\ L \in 1 .. MaxLines
      /\ B \in Seq(Tokens) /\ Len(B) = 3 * L
      /\ \A j \in 1 .. L :
           /\ B[3 * j - 2] = <<lines[j], j>> /\ B[3 * j] = Eol
           /\ B[3 * j - 2] # Eol /\ B[3 * j - 1] # Eol
      /\ lines[L] = "tagged"
  BY BodyProperties DEF World
<1>2. Len(s) = Len(B) - 3 * p /\ \A j \in 1 .. Len(s) : s[j] = B[3 * p + j]
  BY DEF Reading
<1>3. Len(s) \in Nat /\ Len(s) >= 1
  <2>1. /\ Unprocessed(a) \in Seq(Tokens) /\ Len(Unprocessed(a)) \in Nat
        /\ Len(s) = Len(Unprocessed(a)) + Len(w.rest) /\ Len(w.rest) \in Nat
    BY InBuffer
  <2>2. Len(Unprocessed(a)) # 0
    BY <2>1
  <2> HIDE DEF s
  <2>3. QED
    BY <2>1, <2>2
<1>4. p \in Nat /\ i = p + 1
  BY DEF World
<1>5. L \in Nat
  BY <1>1, WebSvcAnswerAssumption
<1> DEFINE n == Len(s)
<1>6. n = 3 * L - 3 * p
  BY <1>1, <1>2
<1> HIDE DEF s, B, p, lines
<1>7. i \in 1 .. L /\ n >= 3 /\ (i # L => n >= 6 /\ i + 1 \in 1 .. L)
  <2>1. n \in Nat /\ n >= 1
    BY <1>3
  <2> HIDE DEF n
  <2>2. L - p >= 1
    BY <1>4, <1>5, <1>6, <2>1
  <2>3. QED
    BY <1>4, <1>5, <1>6, <2>2
<1>8. s[1] = B[3 * i - 2] /\ s[2] = B[3 * i - 1] /\ s[3] = B[3 * i]
  <2>1. 3 * p + 1 = 3 * i - 2 /\ 3 * p + 2 = 3 * i - 1 /\ 3 * p + 3 = 3 * i
    BY <1>4
  <2>2. 1 \in 1 .. Len(s) /\ 2 \in 1 .. Len(s) /\ 3 \in 1 .. Len(s)
    BY <1>3, <1>7
  <2>3. QED
    BY <1>2, <2>1, <2>2
<1>9. ASSUME lines[i] = "status"
      PROVE  /\ i + 1 \in 1 .. L /\ n >= 6
             /\ s[4] = B[3 * (i + 1) - 2] /\ s[5] = B[3 * (i + 1) - 1] /\ s[6] = B[3 * (i + 1)]
  <2>1. i # L
    BY <1>1, <1>9
  <2>2. 3 * p + 4 = 3 * (i + 1) - 2 /\ 3 * p + 5 = 3 * (i + 1) - 1 /\ 3 * p + 6 = 3 * (i + 1)
    BY <1>4
  <2>3. 4 \in 1 .. Len(s) /\ 5 \in 1 .. Len(s) /\ 6 \in 1 .. Len(s)
    BY <1>3, <1>7, <2>1
  <2>4. QED
    BY <1>2, <1>7, <2>1, <2>2, <2>3
<1>10. QED
  BY <1>1, <1>7, <1>8, <1>9 DEF s, lines

(* What the loop finds in the buffer: the line at its front if that is     *)
(* complete, and everything once nothing is left to read.                  *)
LEMMA LineFound ==
  ASSUME NEW a \in Session, Fits(a), NEW w \in World, Reading(a, w), Ordered(w),
         Unprocessed(a) # <<>>,
         NEW i, i = Len(w.parsed) + 1, NEW L, L = Len(w.answer.lines)
  PROVE  LET u == Unprocessed(a)
         IN  /\ i \in 1 .. L /\ L \in 1 .. MaxLines /\ u[1][2] = i
             /\ Holds(u, Eol) => 3 <= Len(u) /\ FirstEnd(u) = 3
             /\ Complete(u) /\ WantsAnother(u) =>
                  6 <= Len(u) /\ SecondEnd(u) = 6 /\ u[4][2] = i + 1 /\ i + 1 \in 1 .. L
             /\ w.rest = <<>> => Complete(u)
<1> DEFINE u == Unprocessed(a)
           s == Awaited(a, w)
           E == Positions(u, Eol)
<1>1. /\ i \in 1 .. L /\ L \in 1 .. MaxLines
      /\ 3 <= Len(s) /\ s[1] = <<w.answer.lines[i], i>>
      /\ s[1] # Eol /\ s[2] # Eol /\ s[3] = Eol
      /\ w.answer.lines[i] = "status" =>
           /\ i + 1 \in 1 .. L /\ 6 <= Len(s)
           /\ s[4] = <<w.answer.lines[i + 1], i + 1>>
           /\ s[4] # Eol /\ s[5] # Eol /\ s[6] = Eol
  BY LineFront
<1>2. /\ u \in Seq(Tokens) /\ Len(u) \in Nat /\ Len(s) = Len(u) + Len(w.rest)
      /\ \A k \in 1 .. Len(u) : s[k] = u[k]
  BY InBuffer
<1>3. Len(u) >= 1 /\ 1 \in 1 .. Len(u)
  <2>1. Len(u) # 0
    BY <1>2
  <2>2. QED
    BY <1>2, <2>1
<1>4. E = {k \in 1 .. Len(u) : u[k] = Eol}
  BY <1>2, LenProperties DEF Positions
<1>5. u[1] = <<w.answer.lines[i], i>>
  BY <1>1, <1>2, <1>3
<1>6. Holds(u, Eol) <=> E # {}
  BY DEF Holds
<1>7. WantsAnother(u) <=> w.answer.lines[i] = "status"
  BY <1>5 DEF WantsAnother
<1>8. FirstEnd(u) = Least(E) /\ SecondEnd(u) = Least(E \ {FirstEnd(u)})
  BY DEF FirstEnd, SecondEnd
<1>9. Complete(u) <=> E # {} /\ (WantsAnother(u) => E # {FirstEnd(u)})
  BY <1>6 DEF Complete
<1> HIDE DEF u, s, E
<1>10. E \in SUBSET Int /\ \A k \in E : k >= 3
  <2>1. \A k \in E : k \in 1 .. Len(u) /\ s[k] = Eol
    BY <1>2, <1>4
  <2>2. \A k \in E : k \in Int /\ k >= 1 /\ k # 1 /\ k # 2
    <3>1. \A k \in 1 .. Len(u) : k \in Int /\ k >= 1
      BY <1>2
    <3>2. QED
      BY <1>1, <2>1, <3>1
  <2>3. QED
    BY <2>2
<1>11. Len(u) >= 3 => 3 \in E /\ FirstEnd(u) = 3
  <2>1. SUFFICES ASSUME Len(u) >= 3 PROVE 3 \in E /\ FirstEnd(u) = 3
    OBVIOUS
  <2>2. 3 \in 1 .. Len(u)
    BY <1>2, <2>1
  <2>3. 3 \in E
    BY <1>1, <1>2, <1>4, <2>2
  <2>4. \A k \in E : 3 <= k
    BY <1>10
  <2>5. Least(E) = 3
    BY <1>10, <2>3, <2>4, LeastIs
  <2>6. QED
    BY <1>8, <2>3, <2>5
<1>12. Holds(u, Eol) => Len(u) >= 3
  <2>1. SUFFICES ASSUME NEW k \in E PROVE Len(u) >= 3
    BY <1>6
  <2>2. k \in 1 .. Len(u) /\ k >= 3
    BY <1>4, <1>10
  <2>3. QED
    BY <1>2, <2>2
<1>13. ASSUME WantsAnother(u), Len(u) >= 3, E # {3}
       PROVE  6 <= Len(u) /\ SecondEnd(u) = 6
  <2>1. PICK k \in E : k # 3
    BY <1>11, <1>13
  <2>2. \A j \in E \ {3} : j >= 6
    <3>1. \A j \in E \ {3} : j \in 1 .. Len(u) /\ s[j] = Eol /\ j >= 3
      BY <1>2, <1>4, <1>10
    <3>2. \A j \in E \ {3} : j # 4 /\ j # 5
      BY <1>1, <1>7, <1>13, <3>1
    <3>3. QED
      BY <3>1, <3>2
  <2>3. k \in 1 .. Len(u) /\ k >= 6
    BY <1>4, <2>1, <2>2
  <2>4. 6 <= Len(u) /\ 6 \in 1 .. Len(u)
    BY <1>2, <2>3
  <2>5. 6 \in E \ {3}
    BY <1>1, <1>2, <1>4, <1>7, <1>13, <2>4
  <2>6. E \ {3} \in SUBSET Int /\ \A j \in E \ {3} : 6 <= j
    BY <1>10, <2>2
  <2>7. Least(E \ {3}) = 6
    BY <2>5, <2>6, LeastIs
  <2>8. QED
    BY <1>8, <1>11, <1>13, <2>4, <2>7
<1>14. ASSUME w.rest = <<>> PROVE Complete(u)
  <2>1. Len(s) = Len(u)
    BY <1>2, <1>14
  <2>2. Len(u) >= 3 /\ E # {} /\ FirstEnd(u) = 3
    BY <1>1, <1>11, <2>1
  <2>3. ASSUME WantsAnother(u) PROVE 6 \in E
    <3>1. 6 \in 1 .. Len(u) /\ s[6] = Eol
      BY <1>1, <1>2, <1>7, <2>1, <2>3
    <3>2. QED
      BY <1>2, <1>4, <3>1
  <2>4. QED
    BY <1>9, <2>2, <2>3
<1>15. ASSUME Complete(u), WantsAnother(u)
       PROVE  6 <= Len(u) /\ SecondEnd(u) = 6 /\ u[4][2] = i + 1 /\ i + 1 \in 1 .. L
  <2>1. 6 <= Len(u) /\ SecondEnd(u) = 6
    BY <1>6, <1>9, <1>11, <1>12, <1>13, <1>15
  <2>2. 4 \in 1 .. Len(u)
    BY <1>2, <2>1
  <2>3. u[4] = <<w.answer.lines[i + 1], i + 1>>
    BY <1>1, <1>2, <1>7, <1>15, <2>2
  <2>4. QED
    BY <1>1, <1>7, <1>15, <2>1, <2>3
<1>16. QED
  BY <1>1, <1>5, <1>11, <1>12, <1>14, <1>15 DEF u

(* Behind m lines the others are awaited.                                  *)
LEMMA LinesTaken ==
  ASSUME NEW a \in Session, Fits(a), NEW w \in World, Reading(a, w),
         NEW m \in Nat, 3 * m <= Len(Unprocessed(a)),
         NEW b, b.buffer = a.buffer, b.read_processed = a.read_processed + 3 * m,
         b.data_processed = a.data_processed, b.data_size = a.data_size,
         NEW v, v.answer = w.answer, v.rest = w.rest, v.left = w.left,
         Len(v.parsed) = Len(w.parsed) + m
  PROVE  Reading(b, v) /\ b.read_processed <= Len(b.buffer)
<1> DEFINE s == Awaited(a, w)
           t == Awaited(b, w)
           B == Body(w.answer)
           p == Len(w.parsed)
           q == Len(v.parsed)
           n == 3 * m
<1>1. /\ a.buffer \in Seq(Tokens) /\ a.read_processed \in Nat
      /\ a.read_processed <= Len(a.buffer) /\ w.rest \in Seq(Tokens) /\ p \in Nat
      /\ B \in Seq(Tokens)
  BY BodyProperties DEF Session, Fits, World
<1>2. n \in Nat
  OBVIOUS
<1>3. q = p + m /\ n <= Len(Unprocessed(a)) /\ b.read_processed = a.read_processed + n
  OBVIOUS
<1> HIDE DEF n
<1>4. /\ b.read_processed <= Len(b.buffer)
      /\ t \in Seq(Tokens) /\ Len(t) = Len(s) - n
      /\ \A j \in 1 .. Len(t) : t[j] = s[n + j]
  BY <1>1, <1>2, <1>3, ProcessedProperties
<1>5. Len(s) = Len(B) - 3 * p /\ \A j \in 1 .. Len(s) : s[j] = B[3 * p + j]
  BY DEF Reading
<1>6. Len(s) \in Nat /\ Len(t) \in Nat
  <2>1. s \in Seq(Tokens)
    BY InBuffer
  <2>2. QED
    BY <1>4, <2>1
<1>7. Awaited(b, v) = t
  BY DEF Awaited
<1> HIDE DEF s, t, B, p, q
<1>8. Len(t) = Len(B) - 3 * q
  <2> DEFINE x == Len(s)
             y == Len(t)
             z == Len(B)
  <2>1. y = x - n /\ x = z - 3 * p /\ z \in Nat /\ n = 3 * m
    BY <1>1, <1>4, <1>5 DEF n
  <2> HIDE DEF x, y, z
  <2>2. y = z - 3 * q
    BY <1>1, <1>3, <2>1
  <2>3. QED
    BY <2>2 DEF y, z
<1>9. ASSUME NEW j \in 1 .. Len(t) PROVE t[j] = B[3 * q + j]
  <2>1. n + j \in 1 .. Len(s)
    BY <1>2, <1>4, <1>6
  <2>2. 3 * p + (n + j) = 3 * q + j
    BY <1>1, <1>2, <1>3, <1>6 DEF n
  <2>3. t[j] = s[n + j] /\ s[n + j] = B[3 * p + (n + j)]
    BY <1>4, <1>5, <2>1
  <2>4. QED
    BY <2>2, <2>3
<1>10. Total(b, v) = Total(a, w)
  BY DEF Total
<1>11. QED
  BY <1>4, <1>7, <1>8, <1>9, <1>10 DEF Reading, t, B, q

(***************************************************************************)
(* A new transmission.                                                     *)
(***************************************************************************)

(* What is sent again comes behind what the buffer holds.                  *)
LEMMA HeaderBehind ==
  ASSUME NEW u \in Seq(Tokens), HeaderEnds(u) = {}, NEW d \in Seq(Tokens), d[1] # Eol,
         NEW e \in Nat, NEW body, Len(body) \in Nat, HeaderAt(d, e, body)
  PROVE  HeaderAt(u \o d, Len(u) + e, body)
<1> DEFINE t == u \o d
           m == Len(u)
           n == Len(d)
           l == Len(body)
<1>1. /\ t \in Seq(Tokens) /\ Len(t) = m + n
      /\ \A i \in 1 .. m + n : t[i] = IF i <= m THEN u[i] ELSE d[i - m]
  BY ConcatProperties
<1>2. m \in Nat /\ n \in Nat /\ l \in Nat /\ n = e + l /\ e >= 2 /\ e <= n
  BY DEF HeaderAt
<1>3. \A k \in 2 .. m : u[k] = Eol => u[k - 1] # Eol
  BY HoldsProperties
<1> HIDE DEF t, m, n
<1>4. \A j \in 1 .. n : t[m + j] = d[j]
  <2>1. TAKE j \in 1 .. n
  <2>2. m + j \in 1 .. m + n /\ ~(m + j <= m) /\ (m + j) - m = j
    BY <1>2
  <2>3. QED
    BY <1>1, <2>2
<1>5. \A i \in 1 .. m : t[i] = u[i]
  <2>1. TAKE i \in 1 .. m
  <2>2. i \in 1 .. m + n /\ i <= m
    BY <1>2
  <2>3. QED
    BY <1>1, <2>2
<1>6. t[m + e] = Eol /\ t[m + e - 1] = Eol
  <2>1. e \in 1 .. n /\ e - 1 \in 1 .. n /\ m + (e - 1) = m + e - 1
    BY <1>2
  <2>2. t[m + e] = d[e] /\ t[m + (e - 1)] = d[e - 1]
    BY <1>4, <2>1
  <2>3. QED
    BY <2>1, <2>2 DEF HeaderAt
<1>7. ASSUME NEW k \in 2 .. m + e - 1, t[k - 1] = Eol PROVE t[k] # Eol
  <2>1. CASE k <= m
    <3>1. k \in 2 .. m /\ k \in 1 .. m /\ k - 1 \in 1 .. m
      BY <1>2, <2>1
    <3>2. QED
      BY <1>3, <1>5, <1>7, <3>1
  <2>2. CASE k = m + 1
    <3>1. 1 \in 1 .. n
      BY <1>2
    <3>2. QED
      BY <1>4, <2>2, <3>1
  <2>3. CASE k > m + 1
    <3> DEFINE j == k - m
    <3>1. /\ j \in 1 .. n /\ j - 1 \in 1 .. n /\ j \in 2 .. e - 1
          /\ m + j = k /\ m + (j - 1) = k - 1
      BY <1>2, <2>3
    <3> HIDE DEF j
    <3>2. t[k] = d[j] /\ t[k - 1] = d[j - 1]
      BY <1>4, <3>1
    <3>3. QED
      BY <1>7, <3>1, <3>2 DEF HeaderAt
  <2>4. QED
    BY <1>2, <2>1, <2>2, <2>3
<1>8. ASSUME NEW j \in 1 .. Len(body) PROVE t[m + e + j] = body[j]
  <2>1. e + j \in 1 .. n /\ m + (e + j) = m + e + j
    BY <1>2
  <2>2. t[m + (e + j)] = d[e + j]
    BY <1>4, <2>1
  <2>3. QED
    BY <2>1, <2>2 DEF HeaderAt
<1>9. m + e \in 2 .. Len(t) /\ Len(t) = m + e + Len(body)
  <2> HIDE DEF l
  <2>1. m + e \in 2 .. m + n /\ m + n = m + e + l
    BY <1>2
  <2>2. QED
    BY <1>1, <2>1 DEF l
<1>10. HeaderAt(t, m + e, body)
  <2> DEFINE f == m + e
  <2>1. t[f] = Eol /\ t[f - 1] = Eol
    BY <1>2, <1>6
  <2>2. \A k \in 2 .. f - 1 : t[k - 1] = Eol => t[k] # Eol
    BY <1>2, <1>7
  <2>3. \A j \in 1 .. Len(body) : t[f + j] = body[j]
    BY <1>8
  <2>4. f \in 2 .. Len(t) /\ Len(t) = f + Len(body)
    BY <1>9
  <2> HIDE DEF f
  <2>5. HeaderAt(t, f, body)
    BY <2>1, <2>2, <2>3, <2>4 DEF HeaderAt
  <2>6. QED
    BY <2>5 DEF f
<1>11. QED
  BY <1>10 DEF t, m

(* The lines hold no empty line.                                           *)
LEMMA NoEmptyLine ==
  ASSUME NEW a \in Session, Fits(a), NEW w \in World, Reading(a, w)
  PROVE  HeaderEnds(Unprocessed(a)) = {}
<1> DEFINE u == Unprocessed(a)
           s == Awaited(a, w)
           B == Body(w.answer)
           p == Len(w.parsed)
<1>1. /\ u \in Seq(Tokens) /\ Len(u) \in Nat /\ Len(s) = Len(u) + Len(w.rest)
      /\ Len(w.rest) \in Nat /\ \A k \in 1 .. Len(u) : s[k] = u[k]
  BY InBuffer
<1>2. /\ Len(B) \in Nat
      /\ \A m \in 1 .. Len(B) : B[m] = Eol => m % 3 = 0
  <2> DEFINE L == Len(w.answer.lines)
  <2>1. /\ L \in 1 .. MaxLines /\ B \in Seq(Tokens)
        /\ \A i \in 1 .. L : B[3 * i - 2] # Eol /\ B[3 * i - 1] # Eol
        /\ \A m \in 1 .. Len(B) : \E i \in 1 .. L : m \in {3 * i - 2, 3 * i - 1, 3 * i}
    BY BodyProperties DEF World
  <2> HIDE DEF L
  <2>2. L \in Nat
    BY <2>1, WebSvcAnswerAssumption
  <2> HIDE DEF B
  <2>3. ASSUME NEW m \in 1 .. Len(B), B[m] = Eol PROVE m % 3 = 0
    <3>1. PICK i \in 1 .. L : m \in {3 * i - 2, 3 * i - 1, 3 * i}
      BY <2>1
    <3>2. m = 3 * i
      BY <2>1, <2>3, <3>1
    <3>3. i \in Nat
      BY <2>2
    <3>4. (3 * i) % 3 = 0
      BY <3>3
    <3>5. QED
      BY <3>2, <3>4
  <2>4. QED
    BY <2>1, <2>3
<1>3. Len(s) = Len(B) - 3 * p /\ (\A j \in 1 .. Len(s) : s[j] = B[3 * p + j]) /\ p \in Nat
  BY DEF Reading, World
<1>4. HeaderEnds(u) = {k \in 2 .. Len(u) : u[k] = Eol /\ u[k - 1] = Eol}
  BY <1>1, HoldsProperties
<1> HIDE DEF u, s, B, p
<1>5. ASSUME NEW k \in 2 .. Len(u), u[k] = Eol, u[k - 1] = Eol PROVE FALSE
  <2>1. k \in 1 .. Len(u) /\ k - 1 \in 1 .. Len(u) /\ k \in 1 .. Len(s) /\ k - 1 \in 1 .. Len(s)
    BY <1>1
  <2>2. B[3 * p + k] = Eol /\ B[3 * p + (k - 1)] = Eol
    BY <1>1, <1>3, <1>5, <2>1
  <2>3. 3 * p + k \in 1 .. Len(B) /\ 3 * p + (k - 1) \in 1 .. Len(B)
    <3> DEFINE x == Len(s)
               y == Len(B)
    <3>0. k \in Int
      BY <1>1
    <3>1. x = y - 3 * p /\ k \in 1 .. x /\ k - 1 \in 1 .. x /\ y \in Nat /\ k \in Int
      BY <1>2, <1>3, <2>1, <3>0, Zenon
    <3> HIDE DEF x, y
    <3>2. 3 * p + k \in 1 .. y /\ 3 * p + (k - 1) \in 1 .. y
      BY <1>3, <3>1
    <3>3. QED
      BY <3>2 DEF y
  <2>4. (3 * p + k) % 3 = 0 /\ (3 * p + (k - 1)) % 3 = 0
    BY <1>2, <2>2, <2>3
  <2>5. k \in Int /\ p \in Int
    BY <1>1, <1>3
  <2>6. QED
    BY <2>4, <2>5
<1>6. QED
  BY <1>4, <1>5 DEF u

(* A new transmission, behind what a session holds in its buffer.          *)
LEMMA TransmissionProperties ==
  ASSUME NEW a \in Session, Fits(a), HeaderEnds(Unprocessed(a)) = {},
         a.http_parser_state = FirstState(a.v2),
         NEW x \in Answer, NEW left \in BOOLEAN, ~left => a.buffer = <<>>,
         NEW w, w = Transmission(x, a.v2, left)
  PROVE  w \in World /\ Ordered(w) /\ Looking(a, w) /\ w.rest # <<>>
<1> DEFINE d == Sent(x, a.v2)
           e == HeaderTokens(x, a.v2)
           B == Body(x)
           u == Unprocessed(a)
<1>1. a.v2 \in BOOLEAN
  BY DEF Session
<1>2. HeaderAt(d, e, B) /\ (a.v2 => e >= 4) /\ d[1] # Eol /\ d \in Seq(Tokens) /\ e \in Nat
  BY <1>1, SentHeader
<1>3. /\ Due(x, FirstState(a.v2)) = d /\ (FirstState(a.v2) = "not_acked" <=> a.v2)
  BY <1>1, DueProperties
<1>4. B \in Seq(Tokens) /\ Len(B) \in Nat
  <2>1. B \in Seq(Tokens)
    BY BodyProperties
  <2>2. QED
    BY <2>1
<1>5. w = [answer |-> x, rest |-> d, parsed |-> <<>>, left |-> left]
  BY DEF Transmission
<1> HIDE DEF d, e, B
<1>6. w \in World /\ Ordered(w)
  <2>1. Len(<<>>) = 0 /\ 1 .. 0 = {} /\ <<>> \in Seq(1 .. MaxLines)
    OBVIOUS
  <2>2. Len(x.lines) \in 1 .. MaxLines
    BY BodyProperties
  <2>3. w.parsed = <<>> /\ w.answer = x
    BY <1>5
  <2>4. Ordered(w)
    BY <2>1, <2>2, <2>3, WebSvcAnswerAssumption DEF Ordered
  <2>5. w \in World
    BY <1>2, <1>5, <2>1 DEF World
  <2>6. QED
    BY <2>4, <2>5
<1>7. u \in Seq(Tokens) /\ Len(u) \in Nat /\ Len(u) = Len(a.buffer) - a.read_processed
  BY <1>6, InBuffer
<1>8. Awaited(a, w) = u \o d
  BY <1>5 DEF Awaited
<1>9. HeaderAt(u \o d, Len(u) + e, B)
  BY <1>2, <1>4, <1>7, HeaderBehind
<1>10. ASSUME ~left PROVE u \o d = d
  <2>1. Len(u) = 0
    <3>1. a.read_processed \in Nat /\ a.read_processed <= Len(a.buffer) /\ Len(a.buffer) = 0
      BY <1>10 DEF Session, Fits
    <3>2. QED
      BY <1>7, <3>1
  <2>2. u = <<>>
    BY <1>7, <2>1, EmptySeq
  <2>3. QED
    BY <1>2, <2>2, ConcatEmptySeq
<1> HIDE DEF u
<1>11. Looking(a, w)
  <2>1. Len(u) + e \in Nat /\ (a.v2 => Len(u) + e >= 4)
    BY <1>2, <1>7
  <2>2. w.parsed = <<>> /\ w.left = left /\ w.answer = x
    BY <1>5
  <2>3. HeaderAt(Awaited(a, w), Len(u) + e, Body(w.answer))
    BY <1>8, <1>9, <2>2 DEF B
  <2>4. ~left => Awaited(a, w) = Due(w.answer, a.http_parser_state)
    BY <1>3, <1>8, <1>10, <2>2
  <2>5. a.http_parser_state = "not_acked" => a.v2
    BY <1>3
  <2>6. QED
    BY <2>1, <2>2, <2>3, <2>4, <2>5 DEF Looking
<1>12. d # <<>>
  <2>1. Len(d) >= 2
    BY <1>2 DEF HeaderAt
  <2>2. QED
    BY <2>1
<1>13. QED
  BY <1>5, <1>6, <1>11, <1>12

(***************************************************************************)
(* The end of the loop over the lines.                                     *)
(***************************************************************************)

(* A loop ends with what its parsers said at the end of the answer, and    *)
(* nowhere else.                                                           *)
LEMMA LoopEndsProperties ==
  ASSUME NEW a \in Session, Fits(a), NEW w \in World, a.phase = "parsing",
         InHeader(a, w), InBody(a, w), Ordered(w),
         Unprocessed(a) = <<>> \/ ~Complete(Unprocessed(a)),
         NEW b, b = Conclude(Becomes(a, IF Unprocessed(a) = <<>> THEN a.rc ELSE "in_progress"))
  PROVE  /\ b \in Session /\ Fits(b) /\ InHeader(b, w) /\ InBody(b, w)
         /\ b.phase = "idle" /\ b.result = "succeeded" /\ b.size # 0 /\ ~w.left =>
              w.answer.ok /\ Len(w.parsed) = Len(w.answer.lines)
         /\ w.rest = <<>> /\ w.answer.announced /\ ~w.left => b.phase # "receiving"
         /\ b.phase = "idle" /\ b.result = "failed" /\ b.size > 0 =>
              b.rc = "failed" \/ Len(b.buffer) = BufferSize
<1> DEFINE u == Unprocessed(a)
           res == IF u = <<>> THEN a.rc ELSE "in_progress"
           c == Becomes(a, res)
<1>1. a.http_parser_state = "completed" /\ Reading(a, w)
  BY DEF InHeader, InBody, Session
<1>2. /\ c \in Session /\ c.phase = "parsing" /\ c.http_parser_state = "completed"
      /\ c.size = a.size /\ c.rc = a.rc /\ c.result = res
      /\ c.buffer = a.buffer /\ c.read_processed = a.read_processed
      /\ c.data_processed = a.data_processed /\ c.data_size = a.data_size
  <2>1. res \in {"succeeded", "in_progress", "failed"} /\ c = [a EXCEPT !.result = res]
    BY DEF Session, Becomes
  <2> HIDE DEF res
  <2>2. QED
    BY <1>1, <2>1 DEF Session
<1>3. Fits(c) /\ Reading(c, w) /\ Unprocessed(c) = u
  <2> HIDE DEF c, res
  <2>1. Fits(c)
    BY <1>2 DEF Fits
  <2>2. Unprocessed(c) = Unprocessed(a)
    BY <1>2 DEF Unprocessed
  <2>3. Reading(c, w)
    BY <1>1, <1>2, <2>2 DEF Reading, Awaited, Total
  <2>4. QED
    BY <2>1, <2>2, <2>3
<1>4. b = Conclude(c)
  OBVIOUS
<1>5. u # <<>> => w.rest # <<>>
  BY <1>1, LineFound
<1>6. /\ u \in Seq(Tokens) /\ Len(u) \in Nat /\ Len(w.rest) \in Nat /\ Len(a.buffer) \in Nat
      /\ Len(Awaited(a, w)) = Len(u) + Len(w.rest)
  BY InBuffer
<1> HIDE DEF c
<1>7. a.rc \in {"succeeded", "failed"} /\ a.data_processed \in Nat /\ a.data_size \in Int
  BY IntMax DEF Session
<1>8. CASE res # "failed" /\ ~LastRead(c)
  <2>1. b = ReadOn(c)
    BY <1>2, <1>4, <1>8 DEF Conclude
  <2>2. /\ b \in Session /\ Fits(b) /\ b.size = c.size /\ b.rc = c.rc
        /\ b.http_parser_state = c.http_parser_state /\ b.data_size = c.data_size
        /\ \/ /\ b.phase = "idle" /\ b.result = "failed"
              /\ Len(b.buffer) = BufferSize
           \/ /\ b.phase = "receiving"
              /\ Unprocessed(b) = Unprocessed(c)
              /\ b.data_processed + Len(b.buffer) = c.data_processed + Len(c.buffer)
    BY <1>2, <1>3, <2>1, ReadOnProperties
  <2>3. CASE b.phase = "idle" /\ b.result = "failed" /\ Len(b.buffer) = BufferSize
    BY <2>2, <2>3 DEF InHeader, InBody
  <2>4. CASE /\ b.phase = "receiving"
             /\ Unprocessed(b) = Unprocessed(c)
             /\ b.data_processed + Len(b.buffer) = c.data_processed + Len(c.buffer)
    <3>1. Reading(b, w)
      <4>1. Awaited(b, w) = Awaited(c, w)
        BY <2>4 DEF Awaited
      <4>2. Total(b, w) = Total(c, w)
        BY <2>4 DEF Total
      <4>3. QED
        BY <1>3, <2>2, <4>1, <4>2 DEF Reading
    <3>2. ASSUME w.rest = <<>>, w.answer.announced, ~w.left PROVE FALSE
      <4>1. u = <<>>
        BY <1>5, <3>2
      <4>2. c.data_size = Total(c, w)
        BY <1>3, <3>2 DEF Reading
      <4>3. Total(c, w) = c.data_processed + Len(c.buffer) + 0
        BY <3>2 DEF Total
      <4>4. c.data_processed + Len(c.buffer) >= c.data_size
        BY <1>2, <1>6, <1>7, <4>2, <4>3
      <4>5. c.result # "in_progress"
        BY <1>2, <1>7, <4>1
      <4>6. QED
        BY <1>8, <4>4, <4>5 DEF LastRead
    <3>3. QED
      BY <1>2, <2>2, <2>4, <3>1, <3>2 DEF InHeader, InBody
  <2>5. QED
    BY <2>2, <2>3, <2>4
<1>9. CASE res = "failed" \/ LastRead(c)
  <2> DEFINE end == IF res = "failed" \/ u # <<>> THEN "failed" ELSE a.rc
  <2>1. b = Ended(c, end)
    <3>1. CASE res = "failed"
      BY <1>2, <1>4, <3>1 DEF Conclude
    <3>2. CASE res # "failed" /\ LastRead(c)
      BY <1>2, <1>3, <1>4, <3>2 DEF Conclude
    <3>3. QED
      BY <1>9, <3>1, <3>2
  <2>2. end \in {"succeeded", "failed"}
    BY <1>7
  <2> HIDE DEF end
  <2>3. /\ b \in Session /\ b.phase = "idle" /\ b.result = end /\ b.size = a.size
        /\ b.rc = a.rc /\ b.buffer = c.buffer /\ b.read_processed = c.read_processed
    BY <1>2, <2>1, <2>2 DEF Ended, Session
  <2>4. Fits(b) /\ InHeader(b, w) /\ InBody(b, w)
    BY <1>3, <2>3 DEF Fits, InHeader, InBody
  <2>5. ASSUME end = "succeeded", a.size # 0, ~w.left
        PROVE  w.answer.ok /\ Len(w.parsed) = Len(w.answer.lines)
    <3>1. u = <<>> /\ res = "succeeded" /\ LastRead(c)
      BY <1>7, <1>9, <2>5 DEF end
    <3>2. a.data_processed + Len(a.buffer) >= a.data_size
      BY <1>2, <2>5, <3>1 DEF LastRead
    <3>3. /\ w.answer.ok
          /\ a.data_size = IF w.answer.announced THEN Total(a, w) ELSE INT_MAX
          /\ Total(a, w) <= BufferSize + 3 * MaxLines
          /\ Len(Awaited(a, w)) = Len(Body(w.answer)) - 3 * Len(w.parsed)
      BY <1>1, <2>5 DEF Reading
    <3> DEFINE x == Len(a.buffer)
               y == Len(w.rest)
               z == Len(Body(w.answer))
               p == Len(w.parsed)
               L == Len(w.answer.lines)
    <3>4. Total(a, w) = a.data_processed + x + y
      BY DEF Total
    <3>5. x \in Nat /\ y \in Nat /\ z = 3 * L /\ p \in Nat /\ L \in Nat
      <4>1. z = 3 * L /\ L \in 1 .. MaxLines
        BY BodyProperties DEF World
      <4>2. x \in Nat /\ y \in Nat /\ p \in Nat
        BY <1>6 DEF World
      <4>3. QED
        BY <4>1, <4>2, WebSvcAnswerAssumption
    <3>6. Len(Awaited(a, w)) = y
      BY <1>6, <3>1
    <3>7. y = z - 3 * p
      BY <3>3, <3>6
    <3>8. a.data_processed + x >= a.data_size
      BY <3>2
    <3> HIDE DEF x, y, z, p, L
    <3>9. w.answer.announced
      <4>1. a.data_processed + x + y < INT_MAX /\ a.data_processed + x < INT_MAX
        BY <1>7, <3>3, <3>4, <3>5, WebSvcAnswerAssumption, IntMax
      <4>2. SUFFICES ASSUME ~w.answer.announced PROVE FALSE
        OBVIOUS
      <4>3. a.data_size = INT_MAX
        BY <3>3, <4>2
      <4>4. QED
        BY <1>7, <3>5, <3>8, <4>1, <4>3, IntMax
    <3>10. a.data_size = a.data_processed + x + y
      BY <3>3, <3>4, <3>9
    <3>11. y = 0
      BY <1>7, <3>5, <3>8, <3>10
    <3>12. p = L
      BY <3>5, <3>7, <3>11
    <3>13. QED
      BY <3>3, <3>12 DEF p, L
  <2>6. ASSUME end = "failed", a.size > 0 PROVE a.rc = "failed"
    <3>1. a.size # 0
      BY <2>6 DEF Session
    <3>2. u = <<>>
      <4>1. ASSUME u # <<>> PROVE FALSE
        <5>1. res = "in_progress"
          BY <4>1
        <5>2. ~LastRead(c)
          BY <1>2, <3>1, <5>1 DEF LastRead
        <5>3. QED
          BY <1>9, <5>1, <5>2
      <4>2. QED
        BY <4>1
    <3>3. QED
      BY <2>6, <3>2 DEF end
  <2>7. QED
    BY <2>3, <2>4, <2>5, <2>6
<1>10. QED
  BY <1>8, <1>9

(***************************************************************************)
(* The invariant.                                                          *)
(***************************************************************************)

(* A session that starts waits for an answer of which nothing came.        *)
LEMMA FreshProperties ==
  ASSUME NEW v2 \in BOOLEAN, NEW a \in Answer,
         NEW s, s = Fresh(v2), NEW w, w = Transmission(a, v2, FALSE)
  PROVE  /\ s \in Session /\ Fits(s) /\ w \in World /\ s.phase = "receiving"
         /\ InHeader(s, w) /\ InBody(s, w) /\ Ordered(w) /\ w.rest # <<>>
<1>1. FirstState(v2) \in {"not_acked", "not_parsed"}
  BY DueProperties
<1>2. s = [phase |-> "receiving", v2 |-> v2, http_parser_state |-> FirstState(v2),
           result |-> "succeeded", rc |-> "succeeded", retries |-> 0, size |-> -1,
           buffer |-> <<>>, read_processed |-> 0, data_size |-> -1, data_processed |-> 0]
  BY DEF Fresh, cyclic_buffer_init
<1>3. s \in Session
  <2>1. -1 \in -1 .. BufferSize /\ -1 \in -1 .. INT_MAX /\ 0 \in 0 .. MaxRetries
    BY WebSvcAnswerAssumption, IntMax
  <2>2. QED
    BY <1>1, <1>2, <2>1 DEF Session
<1>4. /\ s.phase = "receiving" /\ s.http_parser_state = FirstState(v2) /\ s.v2 = v2
      /\ s.buffer = <<>> /\ s.read_processed = 0
  BY <1>2
<1>5. Fits(s)
  BY <1>4, WebSvcAnswerAssumption DEF Fits
<1>6. HeaderEnds(Unprocessed(s)) = {}
  <2>1. Unprocessed(s) \in Seq(Tokens) /\ Len(Unprocessed(s)) = 0
    <3>1. /\ s.buffer \in Seq(Tokens) /\ Len(s.buffer) = 0 /\ s.read_processed = 0
          /\ s.read_processed \in Nat /\ s.read_processed <= Len(s.buffer)
      BY <1>4
    <3>2. Len(s.buffer) - s.read_processed = 0
      BY <3>1
    <3>3. QED
      BY <3>1, <3>2, UnprocessedProperties, Zenon
  <2>2. HeaderEnds(Unprocessed(s)) =
          {k \in 2 .. Len(Unprocessed(s)) : Unprocessed(s)[k] = Eol /\ Unprocessed(s)[k - 1] = Eol}
    BY <2>1, HoldsProperties
  <2>3. QED
    BY <2>1, <2>2
<1>7. w \in World /\ Ordered(w) /\ Looking(s, w) /\ w.rest # <<>>
  <2>1. w = Transmission(a, s.v2, FALSE)
    BY <1>4
  <2>2. s.http_parser_state = FirstState(s.v2)
    BY <1>4
  <2>3. QED
    BY <1>3, <1>4, <1>5, <1>6, <2>1, <2>2, TransmissionProperties
<1>8. QED
  BY <1>1, <1>3, <1>4, <1>5, <1>6, <1>7 DEF InHeader, InBody

(* A parser is given its line, or two, and the loop goes on behind them.   *)
LEMMA LinesParsed ==
  ASSUME NEW a \in Session, Fits(a), NEW w \in World, a.phase = "parsing",
         InHeader(a, w), InBody(a, w), Ordered(w), Unprocessed(a) # <<>>,
         NEW m \in {1, 2}, 3 * m <= Len(Unprocessed(a)),
         Len(w.parsed) + m <= Len(w.answer.lines),
         NEW rc \in {"succeeded", "failed"},
         NEW b, b = [a EXCEPT !.rc = rc, !.read_processed = a.read_processed + 3 * m],
         NEW lines, lines = (IF m = 1 THEN <<Len(w.parsed) + 1>>
                             ELSE <<Len(w.parsed) + 1, Len(w.parsed) + 2>>),
         NEW v, v = [w EXCEPT !.parsed = w.parsed \o lines]
  PROVE  /\ b \in Session /\ Fits(b) /\ v \in World /\ b.phase = "parsing"
         /\ InHeader(b, v) /\ InBody(b, v) /\ Ordered(v)
<1> DEFINE p == Len(w.parsed)
           L == Len(w.answer.lines)
           parsed == w.parsed \o lines
<1>1. a.http_parser_state = "completed" /\ Reading(a, w)
  BY DEF InHeader, InBody, Session
<1>2. p \in Nat /\ p + m <= L /\ L \in 1 .. MaxLines /\ L \in Nat
      /\ \A i \in 1 .. p : w.parsed[i] = i
  <2>1. L \in 1 .. MaxLines
    BY BodyProperties DEF World
  <2>2. QED
    BY <2>1, WebSvcAnswerAssumption DEF World, Ordered
<1>3. /\ lines \in Seq(1 .. MaxLines) /\ Len(lines) = m
      /\ \A j \in 1 .. m : lines[j] = p + j
  <2> HIDE DEF p, L
  <2>1. lines = IF m = 1 THEN <<p + 1>> ELSE <<p + 1, p + 2>>
    BY DEF p
  <2>2. CASE m = 1
    <3>1. p + 1 \in 1 .. MaxLines
      BY <1>2, <2>2, WebSvcAnswerAssumption
    <3>2. QED
      BY <2>1, <2>2, <3>1
  <2>3. CASE m = 2
    <3>1. p + 1 \in 1 .. MaxLines /\ p + 2 \in 1 .. MaxLines
      BY <1>2, <2>3, WebSvcAnswerAssumption
    <3>2. QED
      BY <2>1, <2>3, <3>1
  <2>4. QED
    BY <2>2, <2>3
<1>4. /\ parsed \in Seq(1 .. MaxLines) /\ Len(parsed) = p + m
      /\ \A i \in 1 .. p + m : parsed[i] = IF i <= p THEN w.parsed[i] ELSE lines[i - p]
  <2>1. w.parsed \in Seq(1 .. MaxLines)
    BY DEF World
  <2>2. lines \in Seq(1 .. MaxLines)
    BY <1>3
  <2>3. /\ parsed \in Seq(1 .. MaxLines) /\ Len(parsed) = p + Len(lines)
        /\ \A i \in 1 .. p + Len(lines) :
             parsed[i] = IF i <= p THEN w.parsed[i] ELSE lines[i - p]
    BY <2>1, <2>2, ConcatProperties, Zenon
  <2> HIDE DEF p, parsed
  <2>4. QED
    BY <1>3, <2>3
<1> HIDE DEF p, L, parsed
<1>5. /\ v \in World /\ v.parsed = parsed /\ v.answer = w.answer /\ v.rest = w.rest
      /\ v.left = w.left
  BY <1>4 DEF World, parsed
<1>6. Ordered(v)
  <2>1. \A i \in 1 .. p + m : parsed[i] = i
    <3>1. TAKE i \in 1 .. p + m
    <3>2. CASE i <= p
      <4>1. i \in 1 .. p
        BY <1>2, <3>2
      <4>2. QED
        BY <1>2, <1>4, <3>2, <4>1
    <3>3. CASE ~(i <= p)
      <4>1. i - p \in 1 .. m /\ p + (i - p) = i
        BY <1>2, <3>3
      <4>2. QED
        BY <1>3, <1>4, <3>3, <4>1
    <3>4. QED
      BY <3>2, <3>3
  <2>2. QED
    BY <1>2, <1>4, <1>5, <2>1 DEF Ordered, L
<1>7. /\ b \in Session /\ b.phase = "parsing" /\ b.http_parser_state = "completed"
      /\ b.buffer = a.buffer /\ b.read_processed = a.read_processed + 3 * m
      /\ b.data_processed = a.data_processed /\ b.data_size = a.data_size
  <2>1. a.read_processed + 3 * m \in Nat
    BY DEF Session
  <2>2. QED
    BY <1>1, <2>1 DEF Session
<1>8. Reading(b, v) /\ b.read_processed <= Len(b.buffer)
  <2>1. m \in Nat
    OBVIOUS
  <2>2. Len(v.parsed) = Len(w.parsed) + m
    BY <1>4, <1>5 DEF p
  <2>3. QED
    BY <1>1, <1>5, <1>7, <2>1, <2>2, LinesTaken
<1>9. QED
  BY <1>5, <1>6, <1>7, <1>8 DEF Fits, InHeader, InBody

(* What CutsDoNotFail says of a step.                                      *)
NoCutFails ==
  ans.phase # "idle" /\ ans'.phase = "idle" /\ ans'.result = "failed" /\ ans'.size > 0
    => \/ ~world.answer.ok
       \/ ans'.rc = "failed"
       \/ Len(ans'.buffer) = BufferSize
       \/ world.left

LEMMA InitIInv == Init => IInv
<1>1. SUFFICES ASSUME NEW v2 \in BOOLEAN, NEW a \in Answer,
                      ans = Fresh(v2), world = Transmission(a, v2, FALSE)
               PROVE  IInv
  BY DEF Init
<1>2. /\ ans \in Session /\ Fits(ans) /\ world \in World /\ ans.phase = "receiving"
      /\ InHeader(ans, world) /\ InBody(ans, world) /\ Ordered(world) /\ world.rest # <<>>
  BY <1>1, FreshProperties
<1>3. QED
  BY <1>2 DEF IInv, SuccessIsComplete, Succeeded, LastByteEnds

LEMMA StartStep ==
  ASSUME NEW v2 \in BOOLEAN, NEW a \in Answer, Start(v2, a)
  PROVE  IInv' /\ NoCutFails
<1>1. ans' = Fresh(v2) /\ world' = Transmission(a, v2, FALSE) /\ ans.phase = "idle"
  BY DEF Start
<1>2. /\ ans' \in Session /\ Fits(ans') /\ world' \in World /\ ans'.phase = "receiving"
      /\ InHeader(ans', world') /\ InBody(ans', world') /\ Ordered(world')
      /\ world'.rest # <<>>
  BY <1>1, FreshProperties
<1>3. QED
  BY <1>1, <1>2 DEF IInv, NoCutFails, SuccessIsComplete, Succeeded, LastByteEnds

(* A read of any number of bytes.                                          *)
LEMMA ReceivedStep ==
  ASSUME IInv, ans.phase = "receiving",
         NEW data \in Seq(Tokens), Len(ans.buffer) + Len(data) <= BufferSize,
         ans' = Received(ans, data),
         world' \in World, world'.answer = world.answer, world'.parsed = world.parsed,
         world'.left = world.left, world.rest = data \o world'.rest
  PROVE  IInv' /\ NoCutFails
<1>1. /\ ans \in Session /\ Fits(ans) /\ world \in World
      /\ InHeader(ans, world) /\ InBody(ans, world) /\ Ordered(world)
  BY DEF IInv
<1>2. /\ ans' \in Session /\ Fits(ans') /\ InHeader(ans', world') /\ InBody(ans', world')
      /\ ans'.phase = "idle" => ans'.result = "failed" \/ ans'.size = 0
      /\ ans'.phase = "idle" /\ ans'.size > 0 =>
           ~world'.answer.ok \/ Len(ans'.buffer) = BufferSize \/ world'.left
      /\ ans'.phase = "receiving" => world'.rest # <<>>
  BY <1>1, ReceivedProperties
<1>3. Ordered(world')
  BY <1>1 DEF Ordered
<1>4. NoCutFails
  BY <1>2 DEF NoCutFails
<1>5. QED
  BY <1>2, <1>3, <1>4 DEF IInv, SuccessIsComplete, Succeeded, LastByteEnds

LEMMA DataStep ==
  ASSUME IInv, NEW n \in 1 .. BufferSize, on_data_received(n)
  PROVE  IInv' /\ NoCutFails
<1> DEFINE r == world.rest
           data == SubSeq(r, 1, n)
           left == SubSeq(r, n + 1, Len(r))
<1>1. /\ ans \in Session /\ Fits(ans) /\ world \in World /\ r \in Seq(Tokens)
      /\ Len(r) \in Nat /\ n \in Nat /\ n <= Len(r) /\ n >= 1
  BY WebSvcAnswerAssumption DEF IInv, World, on_data_received
<1>2. /\ ans.phase = "receiving" /\ n <= free_size(ans)
      /\ ans' = Received(ans, data) /\ world' = [world EXCEPT !.rest = left]
  BY DEF on_data_received
<1>3. data \in Seq(Tokens) /\ Len(data) = n
  <2> HIDE DEF r
  <2>1. \A i \in 1 .. n : r[i] \in Tokens
    BY <1>1
  <2>2. 1 <= n /\ n - 1 + 1 = n
    BY <1>1
  <2>3. QED
    BY <1>1, <2>1, <2>2, SubSeqProperties
<1>4. left \in Seq(Tokens)
  <2> HIDE DEF r
  <2>1. \A i \in n + 1 .. Len(r) : r[i] \in Tokens
    BY <1>1
  <2>2. n + 1 \in Int /\ Len(r) \in Int
    BY <1>1
  <2>3. QED
    BY <1>1, <2>1, <2>2, SubSeqProperties
<1>5. data \o left = r
  <2> HIDE DEF r
  <2>1. 1 \in 1 .. Len(r) + 1 /\ n \in 1 - 1 .. Len(r) /\ Len(r) \in n .. Len(r)
    BY <1>1
  <2>2. SubSeq(r, 1, n) \o SubSeq(r, n + 1, Len(r)) = SubSeq(r, 1, Len(r))
    BY <1>1, <2>1, ConcatAdjacentSubSeq
  <2>3. SubSeq(r, 1, Len(r)) = r
    BY <1>1, SubSeqFull
  <2>4. QED
    BY <2>2, <2>3
<1> HIDE DEF data, left
<1>6. Len(ans.buffer) + Len(data) <= BufferSize
  <2>1. Len(ans.buffer) \in Nat
    BY <1>1 DEF Session
  <2>2. QED
    BY <1>1, <1>2, <1>3, <2>1, WebSvcAnswerAssumption DEF free_size
<1>7. /\ world' \in World /\ world'.answer = world.answer /\ world'.parsed = world.parsed
      /\ world'.left = world.left /\ world.rest = data \o world'.rest
  BY <1>1, <1>2, <1>4, <1>5 DEF World
<1>8. QED
  BY <1>2, <1>3, <1>6, <1>7, ReceivedStep

LEMMA NothingStep ==
  ASSUME IInv, NothingReceived
  PROVE  IInv' /\ NoCutFails
<1>1. ans \in Session /\ Fits(ans) /\ world \in World /\ world.rest \in Seq(Tokens)
  BY DEF IInv, World
<1>2. ans.phase = "receiving" /\ ans' = Received(ans, <<>>) /\ world' = world
  BY DEF NothingReceived
<1>3. <<>> \in Seq(Tokens) /\ <<>> \o world.rest = world.rest
  BY <1>1, ConcatEmptySeq
<1>4. Len(ans.buffer) + Len(<<>>) <= BufferSize
  <2>1. Len(<<>>) = 0 /\ Len(ans.buffer) \in Nat /\ Len(ans.buffer) <= BufferSize
    BY <1>1 DEF Session, Fits
  <2>2. QED
    BY <2>1
<1>5. /\ world' \in World /\ world'.answer = world.answer /\ world'.parsed = world.parsed
      /\ world'.left = world.left /\ world.rest = <<>> \o world'.rest
  BY <1>1, <1>2, <1>3
<1>6. QED
  BY <1>2, <1>3, <1>4, <1>5, ReceivedStep

(* The read fails, or the watchdog gives up.                               *)
LEMMA FailedStep ==
  ASSUME IInv, ReceiveFailed \/ TimedOut
  PROVE  IInv' /\ NoCutFails
<1>1. /\ ans \in Session /\ Fits(ans) /\ world \in World /\ Ordered(world)
      /\ ans' = [ans EXCEPT !.size = -1, !.phase = "idle", !.result = "failed"]
      /\ world' = world
  BY DEF IInv, ReceiveFailed, TimedOut, Ended
<1>2. -1 \in -1 .. BufferSize /\ ~(-1 > 0)
  BY WebSvcAnswerAssumption
<1>3. /\ ans' \in Session /\ ans'.phase = "idle" /\ ans'.result = "failed" /\ ans'.size = -1
      /\ ans'.buffer = ans.buffer /\ ans'.read_processed = ans.read_processed
  BY <1>1, <1>2 DEF Session
<1>4. Fits(ans')
  BY <1>1, <1>3 DEF Fits
<1>5. QED
  BY <1>1, <1>2, <1>3, <1>4
     DEF IInv, NoCutFails, InHeader, InBody, SuccessIsComplete, Succeeded, LastByteEnds

(* What a parser leaves is in order, and the loop is not at its end.       *)
LEMMA ParsedStep ==
  ASSUME IInv, ans.phase = "parsing", Unprocessed(ans) # <<>>,
         NEW m \in {1, 2}, 3 * m <= Len(Unprocessed(ans)),
         Len(world.parsed) + m <= Len(world.answer.lines),
         NEW rc \in {"succeeded", "failed"},
         ans' = [ans EXCEPT !.rc = rc, !.read_processed = ans.read_processed + 3 * m],
         NEW lines, lines = (IF m = 1 THEN <<Len(world.parsed) + 1>>
                             ELSE <<Len(world.parsed) + 1, Len(world.parsed) + 2>>),
         world' = [world EXCEPT !.parsed = world.parsed \o lines]
  PROVE  IInv' /\ NoCutFails
<1>1. /\ ans \in Session /\ Fits(ans) /\ world \in World
      /\ InHeader(ans, world) /\ InBody(ans, world) /\ Ordered(world)
  BY DEF IInv
<1>2. /\ ans' \in Session /\ Fits(ans') /\ world' \in World /\ ans'.phase = "parsing"
      /\ InHeader(ans', world') /\ InBody(ans', world') /\ Ordered(world')
  BY <1>1, LinesParsed
<1>3. QED
  BY <1>2 DEF IInv, NoCutFails, SuccessIsComplete, Succeeded, LastByteEnds

LEMMA LineParsedStep ==
  ASSUME IInv, LineParsed
  PROVE  IInv' /\ NoCutFails
<1> DEFINE u == Unprocessed(ans)
           end == IF WantsAnother(u) THEN SecondEnd(u) ELSE FirstEnd(u)
           lines == IF WantsAnother(u) THEN <<u[1][2], u[FirstEnd(u) + 1][2]>>
                    ELSE <<u[1][2]>>
           p == Len(world.parsed)
           L == Len(world.answer.lines)
           m == IF WantsAnother(u) THEN 2 ELSE 1
<1>1. /\ ans \in Session /\ Fits(ans) /\ world \in World /\ Ordered(world)
      /\ ans.phase = "parsing" /\ Complete(u)
      /\ ans' = [ans EXCEPT !.read_processed = ans.read_processed + end]
      /\ world' = [world EXCEPT !.parsed = world.parsed \o lines]
  BY DEF IInv, LineParsed
<1>2. Reading(ans, world)
  BY <1>1 DEF IInv, InHeader, InBody, Session
<1>3. Holds(u, Eol) /\ u # <<>>
  BY <1>1 DEF Complete, Holds, Positions
<1>4. /\ p + 1 \in 1 .. L /\ L \in 1 .. MaxLines /\ u[1][2] = p + 1
      /\ 3 <= Len(u) /\ FirstEnd(u) = 3
      /\ WantsAnother(u) =>
           6 <= Len(u) /\ SecondEnd(u) = 6 /\ u[4][2] = (p + 1) + 1 /\ (p + 1) + 1 \in 1 .. L
  BY <1>1, <1>2, <1>3, LineFound
<1>5. p \in Nat /\ L \in Nat /\ (p + 1) + 1 = p + 2
  BY <1>1, <1>4, WebSvcAnswerAssumption DEF World
<1>6. end = 3 * m /\ m \in {1, 2} /\ 3 * m <= Len(u)
  BY <1>4
<1>7. lines = (IF m = 1 THEN <<p + 1>> ELSE <<p + 1, p + 2>>)
  BY <1>4, <1>5
<1>8. p + m <= L
  <2> HIDE DEF p, L, u
  <2>1. QED
    BY <1>4, <1>5
<1> HIDE DEF end, lines, m, u
<1>9. ans' = [ans EXCEPT !.rc = ans.rc, !.read_processed = ans.read_processed + 3 * m]
  BY <1>1, <1>6 DEF Session
<1>10. ans.rc \in {"succeeded", "failed"}
  BY <1>1 DEF Session
<1>11. QED
  BY <1>1, <1>3, <1>6, <1>7, <1>8, <1>9, <1>10, ParsedStep DEF u

LEMMA ParserFailsStep ==
  ASSUME IInv, ParserFails
  PROVE  IInv' /\ NoCutFails
<1> DEFINE u == Unprocessed(ans)
           p == Len(world.parsed)
           L == Len(world.answer.lines)
<1>1. /\ ans \in Session /\ Fits(ans) /\ world \in World /\ Ordered(world)
      /\ ans.phase = "parsing" /\ Holds(u, Eol)
      /\ ans' = [ans EXCEPT !.rc = "failed",
                            !.read_processed = ans.read_processed + FirstEnd(u)]
      /\ world' = [world EXCEPT !.parsed = Append(world.parsed, u[1][2])]
  BY DEF IInv, ParserFails, Skipped
<1>2. Reading(ans, world)
  BY <1>1 DEF IInv, InHeader, InBody, Session
<1>3. u # <<>>
  BY <1>1 DEF Holds, Positions
<1>4. /\ p + 1 \in 1 .. L /\ L \in 1 .. MaxLines /\ u[1][2] = p + 1
      /\ 3 <= Len(u) /\ FirstEnd(u) = 3
  BY <1>1, <1>2, <1>3, LineFound
<1>5. p \in Nat /\ L \in Nat /\ p + 1 \in 1 .. MaxLines /\ p + 1 <= L
  <2>1. p \in Nat
    BY <1>1 DEF World
  <2> HIDE DEF p, L
  <2>2. QED
    BY <1>4, <2>1, WebSvcAnswerAssumption
<1>6. Append(world.parsed, p + 1) = world.parsed \o <<p + 1>>
  <2>1. world.parsed \in Seq(1 .. MaxLines)
    BY <1>1 DEF World
  <2>2. QED
    BY <1>5, <2>1, AppendIsConcat
<1> DEFINE lines == <<p + 1>>
<1>7. /\ ans' = [ans EXCEPT !.rc = "failed", !.read_processed = ans.read_processed + 3 * 1]
      /\ world' = [world EXCEPT !.parsed = world.parsed \o lines]
  <2>1. FirstEnd(u) = 3 * 1
    BY <1>4
  <2>2. Append(world.parsed, u[1][2]) = world.parsed \o lines
    BY <1>4, <1>6
  <2> HIDE DEF lines, u
  <2>3. QED
    BY <1>1, <2>1, <2>2
<1>8. lines = (IF 1 = 1 THEN <<p + 1>> ELSE <<p + 1, p + 2>>) /\ 3 * 1 <= Len(u)
  BY <1>4
<1> HIDE DEF lines, u
<1>9. QED
  BY <1>1, <1>3, <1>5, <1>7, <1>8, ParsedStep DEF u

LEMMA LoopEndsStep ==
  ASSUME IInv, LoopEnds
  PROVE  IInv' /\ NoCutFails
<1> DEFINE u == Unprocessed(ans)
<1>1. /\ ans \in Session /\ Fits(ans) /\ world \in World /\ ans.phase = "parsing"
      /\ InHeader(ans, world) /\ InBody(ans, world) /\ Ordered(world)
      /\ u = <<>> \/ ~Complete(u)
      /\ ans' = Conclude(Becomes(ans, IF u = <<>> THEN ans.rc ELSE "in_progress"))
      /\ world' = world
  BY DEF IInv, LoopEnds
<1>2. /\ ans' \in Session /\ Fits(ans') /\ InHeader(ans', world) /\ InBody(ans', world)
      /\ ans'.phase = "idle" /\ ans'.result = "succeeded" /\ ans'.size # 0 /\ ~world.left =>
           world.answer.ok /\ Len(world.parsed) = Len(world.answer.lines)
      /\ world.rest = <<>> /\ world.answer.announced /\ ~world.left =>
           ans'.phase # "receiving"
      /\ ans'.phase = "idle" /\ ans'.result = "failed" /\ ans'.size > 0 =>
           ans'.rc = "failed" \/ Len(ans'.buffer) = BufferSize
  BY <1>1, LoopEndsProperties
<1>3. QED
  BY <1>1, <1>2
     DEF IInv, NoCutFails, SuccessIsComplete, Succeeded, AllParsed, LastByteEnds

LEMMA RetryStep ==
  ASSUME IInv, NEW a \in Answer, Retry(a)
  PROVE  IInv' /\ NoCutFails
<1> DEFINE left == world.left \/ ans.buffer # <<>>
<1>1. /\ ans \in Session /\ Fits(ans) /\ world \in World /\ ans.phase = "receiving"
      /\ InHeader(ans, world) /\ InBody(ans, world)
      /\ ans.retries < MaxRetries
      /\ ans' = [ans EXCEPT !.http_parser_state = FirstState(ans.v2), !.rc = "succeeded",
                            !.retries = ans.retries + 1]
      /\ world' = Transmission(a, ans.v2, left)
  BY DEF IInv, Retry, Retried
<1>2. HeaderEnds(Unprocessed(ans)) = {}
  <2>1. CASE ans.http_parser_state = "completed"
    <3>1. Reading(ans, world)
      BY <1>1, <2>1 DEF InBody
    <3>2. QED
      BY <1>1, <3>1, NoEmptyLine
  <2>2. CASE ans.http_parser_state # "completed"
    BY <1>1, <2>2 DEF InHeader
  <2>3. QED
    BY <2>1, <2>2
<1>3. ans.v2 \in BOOLEAN /\ FirstState(ans.v2) \in {"not_acked", "not_parsed"}
  BY <1>1, DueProperties DEF Session
<1>4. /\ ans' \in Session /\ ans'.phase = "receiving"
      /\ ans'.http_parser_state = FirstState(ans.v2) /\ ans'.v2 = ans.v2
      /\ ans'.buffer = ans.buffer /\ ans'.read_processed = ans.read_processed
  <2>1. ans.retries + 1 \in 0 .. MaxRetries
    BY <1>1, WebSvcAnswerAssumption DEF Session
  <2>2. QED
    BY <1>1, <1>3, <2>1 DEF Session
<1>5. Fits(ans') /\ Unprocessed(ans') = Unprocessed(ans)
  BY <1>1, <1>4 DEF Fits, Unprocessed
<1>6. left \in BOOLEAN /\ (~left => ans'.buffer = <<>>)
  BY <1>1, <1>4 DEF World
<1> HIDE DEF left
<1>7. /\ HeaderEnds(Unprocessed(ans')) = {}
      /\ ans'.http_parser_state = FirstState(ans'.v2)
      /\ world' = Transmission(a, ans'.v2, left)
  BY <1>1, <1>2, <1>4, <1>5
<1>8. world' \in World /\ Ordered(world') /\ Looking(ans', world') /\ world'.rest # <<>>
  BY <1>4, <1>5, <1>6, <1>7, TransmissionProperties
<1>9. QED
  BY <1>3, <1>4, <1>5, <1>7, <1>8
     DEF IInv, NoCutFails, InHeader, InBody, SuccessIsComplete, Succeeded, LastByteEnds

LEMMA StepIInv == IInv /\ [Next]_vars => IInv' /\ [NoCutFails]_vars
<1>1. SUFFICES ASSUME IInv, [Next]_vars PROVE IInv' /\ [NoCutFails]_vars
  OBVIOUS
<1>2. CASE UNCHANGED vars
  BY <1>1, <1>2 DEF vars, IInv, SuccessIsComplete, Succeeded, AllParsed, LastByteEnds
<1>3. CASE Next
  <2>1. ASSUME NEW v2 \in BOOLEAN, NEW a \in Answer, Start(v2, a) PROVE IInv' /\ NoCutFails
    BY <1>1, <2>1, StartStep
  <2>2. ASSUME NEW n \in 1 .. BufferSize, on_data_received(n) PROVE IInv' /\ NoCutFails
    BY <1>1, <2>2, DataStep
  <2>3. CASE NothingReceived
    BY <1>1, <2>3, NothingStep
  <2>4. CASE ReceiveFailed \/ TimedOut
    BY <1>1, <2>4, FailedStep
  <2>5. CASE LineParsed
    BY <1>1, <2>5, LineParsedStep
  <2>6. CASE ParserFails
    BY <1>1, <2>6, ParserFailsStep
  <2>7. CASE LoopEnds
    BY <1>1, <2>7, LoopEndsStep
  <2>8. ASSUME NEW a \in Answer, Retry(a) PROVE IInv' /\ NoCutFails
    BY <1>1, <2>8, RetryStep
  <2>9. QED
    BY <1>3, <2>1, <2>2, <2>3, <2>4, <2>5, <2>6, <2>7, <2>8 DEF Next
<1>4. QED
  BY <1>1, <1>2, <1>3

THEOREM Invariance == Spec => []IInv
<1>1. IInv /\ [Next]_vars => IInv'
  BY StepIInv
<1>2. QED
  BY InitIInv, <1>1, PTL DEF Spec

(* The invariant gives the lines in order, and the buffer its bounds.      *)
LEMMA IInvLinesInOrder == IInv => LinesInOrder
<1>1. SUFFICES ASSUME IInv PROVE LinesInOrder
  OBVIOUS
<1>2. /\ ans \in Session /\ Fits(ans) /\ world \in World /\ Ordered(world)
  BY <1>1 DEF IInv
<1>3. /\ ans.buffer \in Seq(Tokens) /\ ans.read_processed \in Nat
      /\ ans.read_processed <= Len(ans.buffer) /\ Len(ans.buffer) <= BufferSize
      /\ Len(ans.buffer) \in Nat
  BY <1>2 DEF Session, Fits
<1>4. /\ \A k \in DOMAIN ans.buffer : ans.buffer[k] \in Tokens
      /\ ans.read_processed \in 0 .. Len(ans.buffer)
  BY <1>3
<1>5. TypeOK
  BY <1>2, <1>3, <1>4 DEF TypeOK, Session
<1>6. DOMAIN world.parsed = 1 .. Len(world.parsed)
  BY <1>2 DEF World
<1>7. QED
  BY <1>2, <1>5, <1>6 DEF LinesInOrder, Ordered

(* However an answer is cut into reads, whatever a retry found in the      *)
(* buffer, and whichever parsers fail, the lines of each transmission      *)
(* reach their parsers in order, each once, none left out; and the buffer  *)
(* is never overrun (websvc_trans.c, OnCustomResponse; cyclic_buffer.c).   *)
THEOREM LinesReachParsers == Spec => []LinesInOrder
BY Invariance, IInvLinesInOrder, PTL

(* A transaction that succeeds was given every line, and the last byte of  *)
(* an answer that announced its length ends it: the counters that are kept *)
(* across reads find the end of the answer and nothing else.               *)
THEOREM EndIsFound == Spec => []EndIsExact
<1>1. IInv => EndIsExact
  BY DEF IInv, EndIsExact
<1>2. QED
  BY <1>1, Invariance, PTL

(* No cut makes an answer fail: where a read ends a transaction that then  *)
(* fails, the server refused, a parser failed, the buffer is full, or a    *)
(* retry found it in use.                                                  *)
THEOREM CutsAreHarmless == Spec => CutsDoNotFail
<1>1. IInv /\ [Next]_vars
        => [ans.phase # "idle" /\ ans'.phase = "idle" /\ ans'.result = "failed" /\ ans'.size > 0
              => \/ ~world.answer.ok
                 \/ ans'.rc = "failed"
                 \/ Len(ans'.buffer) = BufferSize
                 \/ world.left]_vars
  BY StepIInv DEF NoCutFails
<1>2. QED
  BY <1>1, Invariance, PTL DEF Spec, CutsDoNotFail
===========================================================================
