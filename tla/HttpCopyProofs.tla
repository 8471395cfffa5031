--------------------------- MODULE HttpCopyProofs ---------------------------
(***************************************************************************)
(* Proofs about HttpCopy, for any clients, methods and sizes.  Transfers   *)
(* share nothing, so the invariant and what a client may see of a step are *)
(* stated of one context; the last lemmas lift them to all.                *)
(***************************************************************************)
EXTENDS HttpCopy, TLAPS

(***************************************************************************)
(* The invariant, in named parts.                                          *)
(***************************************************************************)

(* What holds a context is what its stage waits for.                       *)
Held(t) ==
  /\ t.connect <=> t.stage = "connecting"
  /\ t.watch = CASE t.stage \in {"none", "connecting"} -> "none"
                 [] t.stage = "sending"                -> "output"
                 [] t.stage \in {"header", "body"}     -> "input"

(* What the client was told fits the stage: nothing of an end before it,   *)
(* and progress once the request is on its way.                            *)
Announced(t) ==
  /\ t.stage # "none" => t.told = "none"
  /\ t.moving <=> t.stage \in {"sending", "header", "body"}

(* What the client of a download was handed is what was counted, and it    *)
(* was told the length that is counted against.                            *)
Counted(t) ==
  /\ t.stage \in {"connecting", "sending", "header"} =>
       t.got = 0 /\ t.handed = 0 /\ t.size = NoSize
  /\ t.stage = "body" =>
       /\ t.handed <= t.got
       /\ t.method = "get" => /\ t.size = t.length /\ t.handed = t.got
                              /\ t.cut \/ t.length = t.sent

Complete(t) ==
  Downloaded(t) => /\ t.handed = IF t.size = NoSize THEN 0 ELSE t.size
                   /\ t.cut \/ t.handed = t.sent

Sound(t) == t \in Transfer /\ Held(t) /\ Announced(t) /\ Counted(t) /\ Complete(t)

IInv ==
  /\ http \in [Clients -> Transfer]
  /\ \A c \in Clients : Sound(http[c])

(***************************************************************************)
(* What a step of a context from t to u may show.                          *)
(***************************************************************************)

(* The client sees a step of HttpTransfer, or nothing.                     *)
Shows(t, u) ==
  \/ Seen(u) = Seen(t) /\ u.told = t.told
  \/ Seen(t) = "idle" /\ Seen(u) \in {"asked", "moving"} /\ u.told = "none"
  \/ Seen(t) = "idle" /\ Seen(u) = "idle" /\ u.told = "failed"
  \/ Seen(t) = "asked" /\ Seen(u) = "moving" /\ u.told = t.told
  \/ Seen(t) = "asked" /\ Seen(u) = "idle" /\ u.told = "failed"
  \/ Seen(t) = "moving" /\ Seen(u) = "idle" /\ u.told \in {"done", "failed"}
  \/ Seen(t) = "moving" /\ Seen(u) = "idle" /\ u.told = t.told

LeavesWatch(t, u) ==
  ~t.stale /\ u.stale => t.stage = "sending" /\ u.told = "failed"

Step(t, u) == Sound(u) /\ Shows(t, u) /\ LeavesWatch(t, u)

(* A transfer of which the body is read, or its first part with the        *)
(* header: what the client saw until then is that it moves.                *)
Reading(t) == Sound(t) /\ t.stage = "body"

LEMMA SeenOfReading ==
  ASSUME NEW t, Reading(t)
  PROVE  Seen(t) = "moving"
BY DEF Reading, Sound, Announced, Seen

(***************************************************************************)
(* The answer.                                                             *)
(***************************************************************************)

LEMMA EndedProperties ==
  ASSUME NEW t, Sound(t), t.stage \in {"header", "body"}, NEW end \in {"done", "failed"},
         NEW u, u = Ended(Silent(t), end), end = "done" => Complete(u)
  PROVE  Step(t, u)
<1>1. /\ u \in Transfer
      /\ u.stage = "none" /\ u.watch = "none" /\ ~u.moving /\ u.told = end
      /\ ~u.connect /\ u.stale = t.stale
  BY DEF Sound, Ended, Silent, Transfer, Held
<1>2. Sound(u)
  BY <1>1 DEF Sound, Held, Announced, Counted, Complete, Downloaded
<1>3. Seen(t) = "moving" /\ Seen(u) = "idle"
  BY <1>1 DEF Seen, Sound, Announced
<1>4. QED
  BY <1>1, <1>2, <1>3 DEF Step, Shows, LeavesWatch

(* After a read, or an error, the transfer goes on or is over.             *)
LEMMA ConcludeProperties ==
  ASSUME NEW t, Reading(t), NEW res \in Int
  PROVE  Step(t, Conclude(t, res))
<1>1. CASE ~Finished(t, res)
  BY <1>1 DEF Conclude, Step, Shows, LeavesWatch, Reading
<1>2. CASE Finished(t, res)
  <2> DEFINE s == Silent(t)
  <2>1. s.method = t.method /\ s.length = t.length /\ s.got = t.got
    BY DEF Silent, Reading, Sound, Transfer
  <2>2. CASE res >= 0 /\ _check_content_length(s)
    <3> DEFINE u == Ended(s, "done")
    <3>1. Conclude(t, res) = u
      BY <1>2, <2>2 DEF Conclude, End
    <3>2. /\ u.method = t.method /\ u.handed = t.handed /\ u.size = t.size
          /\ u.cut = t.cut /\ u.sent = t.sent
      BY DEF Ended, Silent, Reading, Sound, Transfer
    <3>3. t.method = "get" => t.got = t.length /\ t.length > 0
      BY <2>1, <2>2 DEF _check_content_length
    <3>4. t \in Transfer /\ Counted(t) /\ t.stage = "body"
      BY DEF Reading, Sound
    <3>5. Complete(u)
      BY <3>2, <3>3, <3>4 DEF Counted, Complete, Downloaded, NoSize, Transfer
    <3>6. QED
      BY <3>1, <3>5, EndedProperties DEF Reading
  <2>3. CASE ~(res >= 0 /\ _check_content_length(s))
    BY <1>2, <2>3, EndedProperties DEF Conclude, End, Fails, Reading
  <2>4. QED
    BY <2>2, <2>3
<1>3. QED
  BY <1>1, <1>2

(* Reading on, or over, from what is seen as one context.                  *)
LEMMA StepOfReading ==
  ASSUME NEW t, NEW r, NEW u, Sound(t), t.stage \in {"header", "body"},
         Reading(r), r.stale = t.stale, r.told = t.told, Step(r, u)
  PROVE  Step(t, u)
<1>1. Seen(t) = "moving" /\ Seen(r) = "moving"
  BY SeenOfReading DEF Sound, Announced, Seen
<1>2. r.stage # "sending"
  BY DEF Reading
<1>3. QED
  BY <1>1, <1>2 DEF Step, Shows, LeavesWatch

LEMMA TakeProperties ==
  ASSUME NEW t, Reading(t), NEW res \in Nat, t.got + res <= 2 * MaxBytes,
         NEW u \in Take(t, res)
  PROVE  Step(t, u)
<1> DEFINE more   == [t EXCEPT !.got = @ + res]
           handed == [more EXCEPT !.handed = @ + res]
<1>1. t \in Transfer /\ t.stage = "body" /\ t.handed <= t.got
  BY DEF Reading, Sound, Counted
<1>2. MaxBytes \in Nat
  BY HttpCopyAssumption
<1>3. t.got + res \in 0 .. 2 * MaxBytes /\ t.handed + res \in 0 .. 2 * MaxBytes
  BY <1>1, <1>2 DEF Transfer
<1>4. more \in Transfer /\ handed = [more EXCEPT !.handed = t.handed + res] /\ handed \in Transfer
  BY <1>1, <1>3 DEF Transfer
<1>5. t.method = "file" => Reading(more)
  BY <1>1, <1>4 DEF Reading, Sound, Held, Announced, Counted, Complete, Downloaded, Transfer
<1>6. Reading(handed)
  BY <1>1, <1>4 DEF Reading, Sound, Held, Announced, Counted, Complete, Downloaded, Transfer
<1>7. /\ more.stale = t.stale /\ more.told = t.told
      /\ handed.stale = t.stale /\ handed.told = t.told
  BY <1>1 DEF Transfer
<1>8. CASE t.method = "file"
  <2>1. u = Conclude(more, res) \/ u = Conclude(more, -1)
    BY <1>8 DEF Take
  <2>2. Step(more, u)
    BY <1>5, <1>8, <2>1, ConcludeProperties
  <2>3. QED
    BY <1>5, <1>7, <1>8, <2>2, StepOfReading DEF Reading
<1>9. CASE t.method # "file"
  <2>1. u = Conclude(handed, res)
    BY <1>9 DEF Take
  <2>2. Step(handed, u)
    BY <1>6, <2>1, ConcludeProperties
  <2>3. QED
    BY <1>6, <1>7, <2>2, StepOfReading DEF Reading
<1>10. QED
  BY <1>8, <1>9

LEMMA HeaderReadProperties ==
  ASSUME NEW t, Sound(t), t.stage = "header",
         NEW length \in Lengths(t), NEW res \in 0 .. MaxBytes,
         NEW u \in HeaderRead(t, length, res)
  PROVE  Step(t, u)
<1> DEFINE known == [t EXCEPT !.stage = "body", !.length = length]
           sized == [known EXCEPT !.size = length]
<1>1. /\ t \in Transfer /\ t.got = 0 /\ t.handed = 0 /\ t.size = NoSize
      /\ t.told = "none" /\ t.moving /\ ~t.connect /\ t.watch = "input"
  BY DEF Sound, Counted, Announced, Held
<1>2. MaxBytes \in Nat \ {0}
  BY HttpCopyAssumption
<1>3. length \in Unknown .. MaxBytes /\ (t.method = "get" => t.cut \/ length = t.sent)
  BY <1>1, <1>2 DEF Lengths, Transfer, Unknown
<1>4. known \in Transfer
  BY <1>1, <1>3 DEF Transfer
<1>5. sized \in Transfer
  <2>1. length \in NoSize .. MaxBytes
    BY <1>2, <1>3 DEF NoSize, Unknown
  <2>2. QED
    BY <1>4, <2>1 DEF Transfer
<1>6. t.method = "file" => Reading(known)
  BY <1>1, <1>4 DEF Reading, Sound, Held, Announced, Counted, Complete, Downloaded, Transfer
<1>7. Reading(sized)
  BY <1>1, <1>3, <1>5 DEF Reading, Sound, Held, Announced, Counted, Complete, Downloaded, Transfer
<1>8. /\ known.stale = t.stale /\ known.told = t.told /\ known.got = 0 /\ known.method = t.method
      /\ sized.stale = t.stale /\ sized.told = t.told /\ sized.got = 0
  BY <1>1 DEF Transfer
<1>9. res \in Nat /\ 0 + res <= 2 * MaxBytes
  BY <1>2
<1>10. ASSUME NEW r, Reading(r), r.stale = t.stale, r.told = t.told, r.got = 0,
              \/ u = r \/ u = Conclude(r, -1)
              \/ u \in Take(r, res)
       PROVE  Step(t, u)
  <2>1. CASE u = r
    BY <1>10, <2>1, StepOfReading DEF Step, Shows, LeavesWatch, Reading
  <2>2. CASE u = Conclude(r, -1)
    BY <1>10, <2>2, ConcludeProperties, StepOfReading
  <2>3. CASE u \in Take(r, res)
    BY <1>9, <1>10, <2>3, TakeProperties, StepOfReading
  <2>4. QED
    BY <1>10, <2>1, <2>2, <2>3
<1>11. CASE t.method = "file"
  <2>1. u = known \/ u \in Take(known, res)
    BY <1>11 DEF HeaderRead
  <2>2. QED
    BY <1>6, <1>8, <1>10, <1>11, <2>1
<1>12. CASE t.method # "file"
  <2>1. u = sized \/ u = Conclude(sized, -1) \/ u \in Take(sized, res)
    BY <1>12 DEF HeaderRead
  <2>2. QED
    BY <1>7, <1>8, <1>10, <2>1
<1>13. QED
  BY <1>11, <1>12

(***************************************************************************)
(* The actions, on the context of their client.                            *)
(***************************************************************************)

(* The net layer answers, perhaps before the call that asked has returned. *)
LEMMA ConnectProperties ==
  ASSUME NEW t, Sound(t), t.stage = "connecting",
         NEW u \in roadmap_http_async_connect_cb(t)
  PROVE  /\ Sound(u)
         /\ u.stale = t.stale
         /\ \/ Seen(u) = "idle" /\ u.told = "failed"
            \/ Seen(u) = "moving" /\ u.told = "none"
<1> DEFINE answered == [t EXCEPT !.connect = FALSE]
           sent == IF t.method = "file" THEN roadmap_http_async_prepare_output(answered)
                   ELSE roadmap_http_async_prepare_input(answered)
<1>1. t \in Transfer /\ t.got = 0 /\ t.handed = 0 /\ t.size = NoSize /\ t.told = "none" /\ ~t.moving
  BY DEF Sound, Counted, Announced
<1>2. 0 \in 0 .. 2 * MaxBytes /\ Unknown \in Unknown .. MaxBytes
  BY HttpCopyAssumption DEF Unknown
<1>3. CASE u = Fails(answered)
  <2>1. /\ u \in Transfer /\ u.stage = "none" /\ ~u.connect /\ u.watch = "none"
        /\ u.told = "failed" /\ ~u.moving /\ u.stale = t.stale
    BY <1>1, <1>3 DEF Fails, Ended, Transfer, Sound, Held
  <2>2. QED
    BY <2>1 DEF Sound, Held, Announced, Counted, Complete, Downloaded, Seen
<1>4. CASE u = [sent EXCEPT !.moving = TRUE]
  <2>1. /\ u \in Transfer /\ u.stage = (IF t.method = "file" THEN "sending" ELSE "header")
        /\ ~u.connect /\ u.watch = (IF t.method = "file" THEN "output" ELSE "input")
        /\ u.told = "none" /\ u.moving /\ u.stale = t.stale
        /\ u.got = 0 /\ u.handed = 0 /\ u.size = NoSize
    BY <1>1, <1>2, <1>4 DEF roadmap_http_async_prepare_input, roadmap_http_async_prepare_output,
       Transfer
  <2>2. QED
    BY <2>1 DEF Sound, Held, Announced, Counted, Complete, Downloaded, Seen
<1>5. QED
  BY <1>3, <1>4 DEF roadmap_http_async_connect_cb

LEMMA AskProperties ==
  ASSUME IInv, NEW c \in Clients, NEW method \in Methods, NEW sent \in Unknown .. MaxBytes,
         Ask(c, method, sent)
  PROVE  \E u : http' = [http EXCEPT ![c] = u] /\ Step(http[c], u)
<1> DEFINE t   == http[c]
           new == [NoTransfer EXCEPT !.stage = "connecting", !.method = method,
                                     !.connect = TRUE, !.sent = sent,
                                     !.stale = t.stale, !.kept = t.kept]
           failed == Fails([new EXCEPT !.connect = FALSE])
<1>1. Sound(t) /\ t \in Transfer /\ t.stage = "none" /\ Seen(t) = "idle"
  BY DEF IInv, Sound, Ask, Seen
<1>2. /\ method \in {"get", "post", "file"}
      /\ 0 \in 0 .. 2 * MaxBytes /\ Unknown \in Unknown .. MaxBytes /\ NoSize \in NoSize .. MaxBytes
  BY HttpCopyAssumption DEF Unknown, NoSize
<1>3. new \in Transfer
  BY <1>1, <1>2 DEF NoTransfer, Transfer
<1>4. Sound(new) /\ Seen(new) = "asked" /\ new.told = "none" /\ new.stale = t.stale
  BY <1>3 DEF NoTransfer, Sound, Held, Announced, Counted, Complete, Downloaded, Seen
<1>5. failed \in Transfer
  BY <1>3 DEF Fails, Ended, Transfer
<1>6. Sound(failed) /\ Seen(failed) = "idle" /\ failed.told = "failed" /\ failed.stale = t.stale
  BY <1>5 DEF NoTransfer, Fails, Ended, Sound, Held, Announced, Counted, Complete, Downloaded, Seen
<1>7. PICK u \in {failed, new} \cup roadmap_http_async_connect_cb(new) :
        http' = [http EXCEPT ![c] = u]
  BY DEF Ask, Becomes
<1>8. CASE u \in {failed, new}
  BY <1>1, <1>4, <1>6, <1>7, <1>8 DEF Step, Shows, LeavesWatch
<1>9. CASE u \in roadmap_http_async_connect_cb(new)
  <2>1. new.stage = "connecting"
    BY DEF NoTransfer
  <2>2. /\ Sound(u) /\ u.stale = t.stale
        /\ \/ Seen(u) = "idle" /\ u.told = "failed"
           \/ Seen(u) = "moving" /\ u.told = "none"
    BY <1>4, <1>9, <2>1, ConnectProperties
  <2>3. QED
    BY <1>1, <1>7, <2>2 DEF Step, Shows, LeavesWatch
<1>10. QED
  BY <1>7, <1>8, <1>9

LEMMA ConnectedProperties ==
  ASSUME IInv, NEW c \in Clients, Connected(c)
  PROVE  \E u : http' = [http EXCEPT ![c] = u] /\ Step(http[c], u)
<1>1. Sound(http[c]) /\ http[c].stage = "connecting"
  BY DEF IInv, Connected, Sound, Held
<1>2. Seen(http[c]) = "asked" /\ http[c].told = "none"
  BY <1>1 DEF Sound, Announced, Seen
<1>3. PICK u \in roadmap_http_async_connect_cb(http[c]) : http' = [http EXCEPT ![c] = u]
  BY DEF Connected, Becomes
<1>4. /\ Sound(u) /\ u.stale = http[c].stale
      /\ \/ Seen(u) = "idle" /\ u.told = "failed"
         \/ Seen(u) = "moving" /\ u.told = "none"
  BY <1>1, <1>3, ConnectProperties
<1>5. Step(http[c], u)
  BY <1>2, <1>4 DEF Step, Shows, LeavesWatch
<1>6. QED
  BY <1>3, <1>5

LEMMA WriteProperties ==
  ASSUME IInv, NEW c \in Clients, roadmap_http_async_write_cb(c)
  PROVE  \E u : http' = [http EXCEPT ![c] = u] /\ Step(http[c], u)
<1> DEFINE t      == http[c]
           failed == [Fails(Silent(t)) EXCEPT !.stale = TRUE]
<1>1. Sound(t) /\ t \in Transfer /\ t.stage = "sending" /\ Seen(t) = "moving" /\ t.told = "none"
  <2>1. Sound(t) /\ t \in Transfer /\ t.watch = "output"
    BY DEF IInv, roadmap_http_async_write_cb, Sound
  <2>2. t.stage = "sending"
    BY <2>1 DEF Sound, Held, Transfer
  <2>3. QED
    BY <2>1, <2>2 DEF Sound, Announced, Seen
<1>2. PICK u \in {t, Sent(t), failed} : http' = [http EXCEPT ![c] = u]
  BY DEF roadmap_http_async_write_cb, Becomes
<1>3. CASE u = t
  BY <1>1, <1>3, <1>2 DEF Step, Shows, LeavesWatch
<1>4. CASE u = Sent(t)
  <2>1. 0 \in 0 .. 2 * MaxBytes /\ Unknown \in Unknown .. MaxBytes
    BY HttpCopyAssumption DEF Unknown
  <2>2. /\ u \in Transfer /\ u.stage = "header" /\ u.watch = "input" /\ ~u.connect
        /\ u.moving /\ u.told = "none" /\ u.stale = t.stale
        /\ u.got = 0 /\ u.handed = 0 /\ u.size = NoSize
    BY <1>1, <1>4, <2>1 DEF Sent, Silent, roadmap_http_async_prepare_input, Transfer,
       Sound, Held, Announced, Counted
  <2>3. Sound(u) /\ Seen(u) = "moving"
    BY <2>2 DEF Sound, Held, Announced, Counted, Complete, Downloaded, Seen
  <2>4. QED
    BY <1>1, <1>2, <2>2, <2>3 DEF Step, Shows, LeavesWatch
<1>5. CASE u = failed
  <2>1. /\ u \in Transfer /\ u.stage = "none" /\ u.watch = "none" /\ ~u.connect
        /\ ~u.moving /\ u.told = "failed"
    BY <1>1, <1>5 DEF Fails, Ended, Silent, Transfer, Sound, Held
  <2>2. Sound(u) /\ Seen(u) = "idle"
    BY <2>1 DEF Sound, Held, Announced, Counted, Complete, Downloaded, Seen
  <2>3. QED
    BY <1>1, <1>2, <2>1, <2>2 DEF Step, Shows, LeavesWatch
<1>6. QED
  BY <1>2, <1>3, <1>4, <1>5

LEMMA HeaderProperties ==
  ASSUME IInv, NEW c \in Clients, has_data_header(c)
  PROVE  \E u : http' = [http EXCEPT ![c] = u] /\ Step(http[c], u)
<1> DEFINE t == http[c]
<1>1. Sound(t) /\ t \in Transfer /\ t.stage = "header" /\ Seen(t) = "moving" /\ t.told = "none"
  BY DEF IInv, has_data_header, Sound, Announced, Seen
<1>2. CASE \E cut \in {FALSE, t.sent # Unknown} : Becomes(c, {[t EXCEPT !.cut = @ \/ cut]})
  <2>1. PICK cut \in BOOLEAN : http' = [http EXCEPT ![c] = [t EXCEPT !.cut = @ \/ cut]]
    BY <1>2 DEF Becomes
  <2> DEFINE u == [t EXCEPT !.cut = @ \/ cut]
  <2>2. t.cut \/ cut \in BOOLEAN
    BY <1>1 DEF Transfer
  <2>3. /\ u \in Transfer /\ u.stage = t.stage /\ u.watch = t.watch /\ u.connect = t.connect
        /\ u.moving = t.moving /\ u.told = t.told /\ u.stale = t.stale
        /\ u.got = t.got /\ u.handed = t.handed /\ u.size = t.size
    BY <1>1, <2>2 DEF Transfer
  <2>4. Sound(u) /\ Seen(u) = "moving"
    BY <1>1, <2>3 DEF Sound, Held, Announced, Counted, Complete, Downloaded, Seen
  <2>5. QED
    BY <1>1, <2>1, <2>3, <2>4 DEF Step, Shows, LeavesWatch
<1>3. CASE Becomes(c, {Conclude(t, -1)})
  <2>1. Conclude(t, -1) = Ended(Silent(t), "failed")
    BY DEF Conclude, Finished, End, Fails
  <2>2. Step(t, Conclude(t, -1))
    BY <1>1, <2>1, EndedProperties
  <2>3. QED
    BY <1>3, <2>2 DEF Becomes
<1>4. CASE 0 \in Lengths(t) /\ Becomes(c, {NoContent(t)})
  <2> DEFINE e == Ended(Silent(t), "done")
             u == NoContent(t)
  <2>1. /\ t.handed = 0 /\ t.size = NoSize /\ ~t.connect
        /\ t.method = "get" => t.cut \/ t.sent = 0
    BY <1>1, <1>4 DEF Sound, Held, Counted, Lengths, Transfer
  <2>2. /\ u \in Transfer /\ u.stage = "none" /\ u.watch = "none" /\ ~u.connect
        /\ ~u.moving /\ u.told = "done" /\ u.stale = t.stale
        /\ u.handed = 0 /\ u.size = NoSize /\ u.cut = t.cut /\ u.sent = t.sent
        /\ u.method = t.method
    BY <1>1, <2>1 DEF NoContent, Ended, Silent, Transfer
  <2>3. Sound(u) /\ Seen(u) = "idle"
    BY <2>1, <2>2 DEF Sound, Held, Announced, Counted, Complete, Downloaded, Seen
  <2>4. Step(t, u)
    BY <1>1, <2>2, <2>3 DEF Step, Shows, LeavesWatch
  <2>5. QED
    BY <1>4, <2>4 DEF Becomes
<1>5. CASE \E length \in Lengths(t) \ {0}, res \in 0 .. MaxBytes :
             Becomes(c, HeaderRead(t, length, res))
  BY <1>1, <1>5, HeaderReadProperties DEF Becomes
<1>6. QED
  BY <1>2, <1>3, <1>4, <1>5 DEF has_data_header

LEMMA BodyProperties ==
  ASSUME IInv, NEW c \in Clients, has_data_body(c)
  PROVE  \E u : http' = [http EXCEPT ![c] = u] /\ Step(http[c], u)
<1> DEFINE t     == http[c]
           limit == IF t.length = Unknown THEN MaxBytes ELSE t.length - t.got
<1>1. Reading(t)
  BY DEF IInv, has_data_body, Reading
<1>2. CASE \E res \in {-1, 0} : Becomes(c, {Conclude(t, res)})
  <2>1. PICK res \in {-1, 0} : http' = [http EXCEPT ![c] = Conclude(t, res)]
    BY <1>2 DEF Becomes
  <2>2. res \in Int
    OBVIOUS
  <2>3. QED
    BY <1>1, <2>1, <2>2, ConcludeProperties
<1>3. CASE \E res \in 1 .. limit :
             t.got + res <= 2 * MaxBytes /\ Becomes(c, Take(t, res))
  <2>1. PICK res \in 1 .. limit : t.got + res <= 2 * MaxBytes /\ Becomes(c, Take(t, res))
    BY <1>3
  <2>2. res \in Nat
    BY <2>1
  <2>3. QED
    BY <1>1, <2>1, <2>2, TakeProperties DEF Becomes
<1>4. QED
  BY <1>2, <1>3 DEF has_data_body

LEMMA AbortProperties ==
  ASSUME IInv, NEW c \in Clients, roadmap_http_async_copy_abort(c)
  PROVE  \E u : http' = [http EXCEPT ![c] = u] /\ Step(http[c], u)
<1> DEFINE t == http[c]
           u == [Silent(t) EXCEPT !.stage = "none", !.moving = FALSE]
<1>1. /\ Sound(t) /\ t \in Transfer /\ t.stage \in {"sending", "header", "body"}
      /\ Seen(t) = "moving" /\ t.told = "none"
  BY DEF IInv, roadmap_http_async_copy_abort, Sound, Announced, Seen
<1>2. /\ u \in Transfer /\ u.stage = "none" /\ u.watch = "none" /\ ~u.connect
      /\ ~u.moving /\ u.told = "none" /\ u.stale = t.stale
  BY <1>1 DEF Silent, Transfer, Sound, Held
<1>3. Sound(u) /\ Seen(u) = "idle"
  BY <1>2 DEF Sound, Held, Announced, Counted, Complete, Downloaded, Seen
<1>4. http' = [http EXCEPT ![c] = u]
  BY DEF roadmap_http_async_copy_abort, Becomes
<1>5. QED
  BY <1>1, <1>2, <1>3, <1>4 DEF Step, Shows, LeavesWatch

(***************************************************************************)
(* All contexts.                                                           *)
(***************************************************************************)

LEMMA InitIInv == Init => IInv
<1> SUFFICES ASSUME Init PROVE IInv
  OBVIOUS
<1>1. MaxBytes \in Nat \ {0}
  BY HttpCopyAssumption
<1>2. NoTransfer \in Transfer
  BY <1>1 DEF NoTransfer, Transfer, Unknown, NoSize
<1>3. Sound(NoTransfer)
  BY <1>2 DEF NoTransfer, Sound, Held, Announced, Counted, Complete, Downloaded
<1>4. QED
  BY <1>2, <1>3 DEF Init, IInv

LEMMA NextStep ==
  ASSUME IInv, [Next]_http
  PROVE  \/ UNCHANGED http
         \/ \E c \in Clients : \E u : http' = [http EXCEPT ![c] = u] /\ Step(http[c], u)
<1>1. ASSUME NEW c \in Clients,
             \/ \E method \in Methods, sent \in Unknown .. MaxBytes : Ask(c, method, sent)
             \/ Connected(c)
             \/ roadmap_http_async_write_cb(c)
             \/ has_data_header(c)
             \/ has_data_body(c)
             \/ roadmap_http_async_copy_abort(c)
      PROVE  \E u : http' = [http EXCEPT ![c] = u] /\ Step(http[c], u)
  BY <1>1, AskProperties, ConnectedProperties, WriteProperties, HeaderProperties,
     BodyProperties, AbortProperties
<1>2. QED
  BY <1>1 DEF Next

LEMMA Invariance == Spec => []IInv
<1>1. IInv /\ [Next]_http => IInv'
  <2> SUFFICES ASSUME IInv, [Next]_http PROVE IInv'
    OBVIOUS
  <2>1. CASE UNCHANGED http
    BY <2>1 DEF IInv
  <2>2. ASSUME NEW c \in Clients, NEW u, http' = [http EXCEPT ![c] = u], Step(http[c], u)
        PROVE  IInv'
    <3>1. u \in Transfer /\ Sound(u)
      BY <2>2 DEF Step, Sound
    <3>2. http' \in [Clients -> Transfer] /\ \A d \in Clients : Sound(http'[d])
      BY <2>2, <3>1 DEF IInv
    <3>3. QED
      BY <3>2 DEF IInv
  <2>3. QED
    BY <2>1, <2>2, NextStep
<1>2. QED
  BY <1>1, InitIInv, PTL DEF Spec

(***************************************************************************)
(* The theorems.                                                           *)
(***************************************************************************)

(* A download that is told to be done is complete: the client was handed   *)
(* the length it was told, however the answer was cut into reads.          *)
THEOREM DownloadsComplete == Spec => []DoneIsComplete
<1>1. IInv => DoneIsComplete
  BY DEF IInv, Sound, Complete, DoneIsComplete
<1>2. QED
  BY <1>1, Invariance, PTL

(* The main loop and the net layer hold a context exactly for what it      *)
(* waits for, and only an upload that fails leaves a watch behind.         *)
THEOREM ContextsAwaited == Spec => ContextIsAwaited
<1>1. IInv => TypeOK /\ Awaited
  BY DEF IInv, Sound, Held, TypeOK, Awaited
<1>2. ASSUME IInv, [Next]_http
      PROVE  [\A c \in Clients : ~http[c].stale /\ http'[c].stale
                => http[c].stage = "sending" /\ http'[c].told = "failed"]_http
  <2>1. CASE UNCHANGED http
    BY <2>1
  <2>2. ASSUME NEW d \in Clients, NEW u, http' = [http EXCEPT ![d] = u], Step(http[d], u)
        PROVE  \A c \in Clients : ~http[c].stale /\ http'[c].stale
                 => http[c].stage = "sending" /\ http'[c].told = "failed"
    BY <1>2, <2>2 DEF IInv, Step, LeavesWatch
  <2>3. QED
    BY <1>2, <2>1, <2>2, NextStep
<1>3. QED
  BY <1>1, <1>2, Invariance, PTL DEF Spec, ContextIsAwaited, OnlyFailedUploadsLeaveWatches

(* The layer implements HttpTransfer: a transfer is told its end once, and *)
(* nothing after its client gave it up.                                    *)
THEOREM ImplementsHttpTransfer == Spec => ToldOnce
<1> DEFINE stage == [c \in Clients |-> Seen(http[c])]
           told  == [c \in Clients |-> http[c].told]
<1>1. Init => Contract!Init
  BY DEF Init, Contract!Init, NoTransfer, Seen
<1>2. ASSUME IInv, [Next]_http
      PROVE  [Contract!Next]_(Contract!vars)
  <2>1. CASE UNCHANGED http
    BY <2>1 DEF Contract!vars
  <2>2. ASSUME NEW c \in Clients, NEW u, http' = [http EXCEPT ![c] = u], Step(http[c], u)
        PROVE  Contract!Next \/ UNCHANGED Contract!vars
    <3>1. /\ stage' = [stage EXCEPT ![c] = Seen(u)]
          /\ told' = [told EXCEPT ![c] = u.told]
          /\ stage[c] = Seen(http[c]) /\ told[c] = http[c].told
      BY <1>2, <2>2 DEF IInv
    <3>2. Shows(http[c], u)
      BY <2>2 DEF Step
    <3> HIDE DEF stage, told
    <3>3. \/ UNCHANGED <<stage, told>>
          \/ /\ stage[c] = "idle"
             /\ \/ /\ stage' = [stage EXCEPT ![c] = "asked"]
                   /\ told'  = [told EXCEPT ![c] = "none"]
                \/ /\ stage' = [stage EXCEPT ![c] = "moving"]
                   /\ told'  = [told EXCEPT ![c] = "none"]
                \/ /\ stage' = stage
                   /\ told'  = [told EXCEPT ![c] = "failed"]
          \/ /\ stage[c] = "asked" /\ stage' = [stage EXCEPT ![c] = "moving"] /\ told' = told
          \/ /\ \/ stage[c] = "asked" /\ told' = [told EXCEPT ![c] = "failed"]
                \/ stage[c] = "moving"
                     /\ \E end \in {"done", "failed"} : told' = [told EXCEPT ![c] = end]
             /\ stage' = [stage EXCEPT ![c] = "idle"]
          \/ /\ stage[c] = "moving" /\ stage' = [stage EXCEPT ![c] = "idle"] /\ told' = told
      <4>1. /\ stage = [stage EXCEPT ![c] = stage[c]]
            /\ told = [told EXCEPT ![c] = told[c]]
        BY DEF stage, told
      <4>2. QED
        BY <3>1, <3>2, <4>1 DEF Shows
    <3>4. QED
      BY <3>3 DEF stage, told, Contract!Next, Contract!Ask, Contract!FirstProgress,
         Contract!End, Contract!GiveUp, Contract!vars
  <2>3. QED
    BY <1>2, <2>1, <2>2, NextStep
<1>3. QED
  BY <1>1, <1>2, Invariance, PTL DEF Spec, ToldOnce, Contract!Spec
=============================================================================
