---------------------------- MODULE WebSvcAnswer ----------------------------
(***************************************************************************)
(* How a web-service transaction reads its answer: the buffer the socket   *)
(* is read into (cyclic_buffer.c), and the search for the acknowledgement, *)
(* the header and the lines of the answer in it (websvc_trans.c).          *)
(* WebSvcTrans has the rest of a session and only how far this has got.    *)
(*                                                                         *)
(* An answer is a sequence of tokens: an acknowledgement (of requests that *)
(* ask for it), a status, perhaps a length, an empty line, and lines of a  *)
(* tag and its arguments.  A read may be cut between any two of them; a    *)
(* cut inside a token is like one before it, as only whole ones are found. *)
(* A line of kind "status" goes to the parser without a tag, which also    *)
(* wants the line after it.  What the lines say is whether their parser    *)
(* takes them.                                                             *)
(***************************************************************************)
EXTENDS Integers, Sequences

CONSTANTS
  BufferSize,   (* CYCLIC_BUFFER_SIZE, in tokens                           *)
  MaxRetries,   (* MAX_RETRIES                                             *)
  MaxLines      (* bound: lines of an answer                               *)

INT_MAX == 2147483647

(* The sizes of the buffer and of an answer are int's.                     *)
ASSUME WebSvcAnswerAssumption ==
  /\ BufferSize \in Nat \ {0} /\ MaxRetries \in Nat /\ MaxLines \in Nat \ {0}
  /\ BufferSize + 3 * MaxLines < INT_MAX

VARIABLES
  ans,          (* what the session knows                                  *)
  world         (* the answer the server sends, and what became of it      *)

vars == <<ans, world>>

Ack     == <<"ack", 0>>
Ok      == <<"200 ok", 0>>
Refused == <<"refused", 0>>
Eol     == <<"eol", 0>>
Length(n) == <<"content-length", n>>

(* The last line is not one that wants another behind it.                  *)
Answer ==
  [ok : BOOLEAN, announced : BOOLEAN,
   lines : {l \in UNION {[1 .. n -> {"tagged", "status"}] : n \in 1 .. MaxLines} :
              l[Len(l)] = "tagged"}]

Body(a) ==
  [n \in 1 .. 3 * Len(a.lines) |->
     LET i == (n + 2) \div 3
     IN  CASE n % 3 = 1 -> <<a.lines[i], i>>
           [] n % 3 = 2 -> <<"args", i>>
           [] n % 3 = 0 -> Eol]

(* What the server sends, to a request that asks for an acknowledgement    *)
(* (WEBSVC_FLAG_V2) or does not.                                           *)
Sent(a, v2) ==
  (IF v2 THEN <<Ack, Eol>> ELSE <<>>)
    \o <<IF a.ok THEN Ok ELSE Refused, Eol>>
    \o (IF a.announced THEN <<Length(Len(Body(a))), Eol>> ELSE <<>>)
    \o <<Eol>> \o Body(a)

(***************************************************************************)
(* The buffer: what was read and not dropped, and how much of it was       *)
(* processed.  Before a read the processed part is dropped.                *)
(***************************************************************************)

cyclic_buffer_init ==
  [buffer |-> <<>>, read_processed |-> 0, data_size |-> -1, data_processed |-> 0]

Unprocessed(a) == SubSeq(a.buffer, a.read_processed + 1, Len(a.buffer))

(* Mutant: the whole buffer is counted as processed.                       *)
MutRecycle(a) ==
  [a EXCEPT !.data_processed = @ + Len(a.buffer), !.buffer = Unprocessed(a),
            !.read_processed = 0]

(* Mutant: what is left is cut from the front.                             *)
MutShift(a) ==
  [a EXCEPT !.data_processed = @ + a.read_processed,
            !.buffer = SubSeq(@, 1, Len(@) - a.read_processed), !.read_processed = 0]

cyclic_buffer_recycle(a) ==
  [a EXCEPT !.data_processed = @ + a.read_processed, !.buffer = Unprocessed(a),
            !.read_processed = 0]

free_size(a) == BufferSize - Len(a.buffer)

Positions(s, token) == {k \in DOMAIN s : s[k] = token}

Least(S) == CHOOSE k \in S : \A j \in S : k <= j

Holds(s, token) == Positions(s, token) # {}

(***************************************************************************)
(* The searches, each with its result.                                     *)
(***************************************************************************)

Becomes(a, res) == [a EXCEPT !.result = res]

(* The acknowledgement is taken to be at the front of the buffer.          *)
OnHTTPAck(a) ==
  LET buffer == Unprocessed(a)
  IN  CASE a.http_parser_state # "not_acked" -> a
        [] a.http_parser_state = "not_acked" /\ ~Holds(buffer, Eol) -> Becomes(a, "in_progress")
        [] a.http_parser_state = "not_acked" /\ Holds(buffer, Eol) /\ ~Holds(buffer, Ack) ->
             Becomes(a, "failed")
        [] a.http_parser_state = "not_acked" /\ Holds(buffer, Eol) /\ Holds(buffer, Ack) ->
             [a EXCEPT !.http_parser_state = "not_parsed", !.read_processed = @ + 2]

(* The header ends with an empty line; the first length found is taken.    *)
HeaderEnds(buffer) == {k \in Positions(buffer, Eol) : k > 1 /\ buffer[k - 1] = Eol}

Lengths(buffer) == {k \in DOMAIN buffer : buffer[k][1] = "content-length"}

HeaderRead(a) ==
  LET buffer    == Unprocessed(a)
      processed == a.read_processed + Least(HeaderEnds(buffer))
  IN  [a EXCEPT !.http_parser_state = "completed", !.read_processed = processed,
                !.data_processed = 0,
                !.data_size = IF Lengths(buffer) = {} THEN INT_MAX
                              ELSE processed + buffer[Least(Lengths(buffer))][2]]

(* Mutant: the status is expected in the first read.                       *)
MutOnHTTPHeader(a) ==
  LET buffer == Unprocessed(a)
  IN  CASE a.http_parser_state # "not_parsed" \/ a.result = "failed" -> a
        [] a.http_parser_state = "not_parsed" /\ ~Holds(buffer, Ok) -> Becomes(a, "failed")
        [] a.http_parser_state = "not_parsed" /\ Holds(buffer, Ok) /\ HeaderEnds(buffer) = {} ->
             Becomes(a, "in_progress")
        [] a.http_parser_state = "not_parsed" /\ Holds(buffer, Ok) /\ HeaderEnds(buffer) # {} ->
             HeaderRead(a)

OnHTTPHeader(a) ==
  LET buffer == Unprocessed(a)
  IN  CASE a.http_parser_state # "not_parsed" \/ a.result = "failed" -> a
        [] a.http_parser_state = "not_parsed" /\ ~Holds(buffer, Eol) -> Becomes(a, "in_progress")
        [] a.http_parser_state = "not_parsed" /\ Holds(buffer, Eol) /\ ~Holds(buffer, Ok) ->
             Becomes(a, "failed")
        [] a.http_parser_state = "not_parsed" /\ Holds(buffer, Ok) /\ HeaderEnds(buffer) = {} ->
             Becomes(a, "in_progress")
        [] a.http_parser_state = "not_parsed" /\ Holds(buffer, Ok) /\ HeaderEnds(buffer) # {} ->
             HeaderRead(a)

(***************************************************************************)
(* The end of a read.                                                      *)
(***************************************************************************)

Ended(a, result) == [a EXCEPT !.phase = "idle", !.result = result]

(* 0 bytes end the answer, whatever was announced.                         *)
LastRead(a) ==
  a.size = 0 \/ (a.result # "in_progress" /\ a.data_processed + Len(a.buffer) >= a.data_size)

ReadOn(a) ==
  LET recycled == cyclic_buffer_recycle(a)
  IN  IF free_size(recycled) = 0 THEN Ended(recycled, "failed")
      ELSE [recycled EXCEPT !.phase = "receiving"]

Conclude(a) ==
  CASE a.result = "failed"                  -> Ended(a, "failed")
    [] a.result # "failed" /\ LastRead(a)   ->
         Ended(a, IF Unprocessed(a) # <<>> THEN "failed" ELSE a.rc)
    [] a.result # "failed" /\ ~LastRead(a)  -> ReadOn(a)

Received(a, data) ==
  LET read == [a EXCEPT !.buffer = @ \o data, !.size = Len(data), !.result = "succeeded",
                        !.data_size = IF @ = -1 THEN Len(data) ELSE @]
      found == OnHTTPHeader(OnHTTPAck(read))
  IN  IF found.http_parser_state = "completed" /\ found.result # "failed"
      THEN [found EXCEPT !.phase = "parsing"]
      ELSE Conclude(found)

-----------------------------------------------------------------------------
FirstState(v2) == IF v2 THEN "not_acked" ELSE "not_parsed"

(* wst_context_reset and wst_context_load, and the connection is made.     *)
Fresh(v2) ==
  LET empty == cyclic_buffer_init
  IN  [phase |-> "receiving", v2 |-> v2, http_parser_state |-> FirstState(v2),
       result |-> "succeeded", rc |-> "succeeded", retries |-> 0, size |-> -1,
       buffer |-> empty.buffer, read_processed |-> empty.read_processed,
       data_size |-> empty.data_size, data_processed |-> empty.data_processed]

(* parsed: the lines the parsers were given; left: what a retry found in   *)
(* the buffer.                                                             *)
Transmission(a, v2, left) ==
  [answer |-> a, rest |-> Sent(a, v2), parsed |-> <<>>, left |-> left]

Init ==
  \E v2 \in BOOLEAN, a \in Answer :
    ans = Fresh(v2) /\ world = Transmission(a, v2, FALSE)

(* The session works for the next request.                                 *)
Start(v2, a) ==
  /\ ans.phase = "idle"
  /\ ans' = Fresh(v2)
  /\ world' = Transmission(a, v2, FALSE)

(* A part of what was sent comes, as long as the buffer has room.          *)
on_data_received(n) ==
  /\ ans.phase = "receiving"
  /\ n <= Len(world.rest) /\ n <= free_size(ans)
  /\ ans' = Received(ans, SubSeq(world.rest, 1, n))
  /\ world' = [world EXCEPT !.rest = SubSeq(@, n + 1, Len(@))]

(* 0 bytes: the server closed the connection, or the decompression has     *)
(* nothing yet.                                                            *)
NothingReceived ==
  /\ ans.phase = "receiving"
  /\ ans' = Received(ans, <<>>)
  /\ UNCHANGED world

ReceiveFailed ==
  /\ ans.phase = "receiving"
  /\ ans' = Ended([ans EXCEPT !.size = -1], "failed")
  /\ UNCHANGED world

(***************************************************************************)
(* OnCustomResponse: the loop over the lines in the buffer.                *)
(***************************************************************************)

FirstEnd(buffer)  == Least(Positions(buffer, Eol))
SecondEnd(buffer) == Least(Positions(buffer, Eol) \ {FirstEnd(buffer)})

WantsAnother(buffer) == buffer[1][1] = "status"

(* What the next parser wants is in the buffer.                            *)
Complete(buffer) ==
  /\ Holds(buffer, Eol)
  /\ WantsAnother(buffer) => Positions(buffer, Eol) # {FirstEnd(buffer)}

(* The parser takes its line, or its status and the line behind it.        *)
LineParsed ==
  LET buffer == Unprocessed(ans)
      end    == IF WantsAnother(buffer) THEN SecondEnd(buffer) ELSE FirstEnd(buffer)
      lines  == IF WantsAnother(buffer) THEN <<buffer[1][2], buffer[FirstEnd(buffer) + 1][2]>>
                ELSE <<buffer[1][2]>>
  IN  /\ ans.phase = "parsing" /\ Complete(buffer)
      /\ ans' = [ans EXCEPT !.read_processed = @ + end]
      /\ world' = [world EXCEPT !.parsed = @ \o lines]

(* The line, of which the first was complete, is jumped over.              *)
Skipped(a) ==
  [a EXCEPT !.rc = "failed", !.read_processed = @ + FirstEnd(Unprocessed(a))]

(* The parser fails; the loop goes on with the next line.                  *)
ParserFails ==
  LET buffer == Unprocessed(ans)
  IN  /\ ans.phase = "parsing" /\ Holds(buffer, Eol)
      /\ ans' = Skipped(ans)
      /\ world' = [world EXCEPT !.parsed = Append(@, buffer[1][2])]

(* What is left is not complete, or nothing is left.                       *)
LoopEnds ==
  LET buffer == Unprocessed(ans)
  IN  /\ ans.phase = "parsing"
      /\ buffer = <<>> \/ ~Complete(buffer)
      /\ ans' = Conclude(Becomes(ans, IF buffer = <<>> THEN ans.rc ELSE "in_progress"))
      /\ UNCHANGED world

(***************************************************************************)
(* The watchdog ends the transaction, or repeats it: the buffer stays.     *)
(***************************************************************************)

Retried(a) ==
  [a EXCEPT !.http_parser_state = FirstState(a.v2), !.rc = "succeeded", !.retries = @ + 1]

Retry(a) ==
  /\ ans.phase = "receiving"
  /\ ans.retries < MaxRetries
  /\ ans' = Retried(ans)
  /\ world' = Transmission(a, ans.v2, world.left \/ ans.buffer # <<>>)

TimedOut ==
  /\ ans.phase = "receiving"
  /\ ans' = Ended([ans EXCEPT !.size = -1], "failed")
  /\ UNCHANGED world

Next ==
  \/ \E v2 \in BOOLEAN, a \in Answer : Start(v2, a)
  \/ \E n \in 1 .. BufferSize : on_data_received(n)
  \/ NothingReceived
  \/ ReceiveFailed
  \/ LineParsed
  \/ ParserFails
  \/ LoopEnds
  \/ \E a \in Answer : Retry(a)
  \/ TimedOut

Spec == Init /\ [][Next]_vars

-----------------------------------------------------------------------------
(***************************************************************************)
(* Properties.                                                             *)
(***************************************************************************)

Tokens ==
  {Ack, Ok, Refused, Eol}
    \cup {Length(n) : n \in 0 .. 3 * MaxLines}
    \cup {"tagged", "status", "args"} \X (1 .. MaxLines)

(* The buffer is never overrun, and what is counted lies within it.        *)
TypeOK ==
  /\ ans.phase \in {"idle", "receiving", "parsing"}
  /\ ans.http_parser_state \in {"not_acked", "not_parsed", "completed"}
  /\ ans.result \in {"succeeded", "in_progress", "failed"}
  /\ ans.rc \in {"succeeded", "failed"}
  /\ ans.retries \in 0 .. MaxRetries
  /\ Len(ans.buffer) <= BufferSize
  /\ \A k \in DOMAIN ans.buffer : ans.buffer[k] \in Tokens
  /\ ans.read_processed \in 0 .. Len(ans.buffer)
  /\ ans.size \in -1 .. BufferSize
  /\ ans.data_size \in -1 .. INT_MAX
  /\ ans.data_processed \in Nat

(* However the answer is cut into reads, its lines reach their parsers in  *)
(* order, each once, and none is left out, in every transmission; and the  *)
(* counters of the buffer stay within what it holds.                       *)
LinesInOrder ==
  /\ TypeOK
  /\ Len(world.parsed) <= Len(world.answer.lines)
  /\ \A i \in DOMAIN world.parsed : world.parsed[i] = i

AllParsed == Len(world.parsed) = Len(world.answer.lines)

Succeeded == ans.phase = "idle" /\ ans.result = "succeeded"

(* A transaction that succeeds was given all of the answer, unless the     *)
(* read that ended it was of 0 bytes, or a retry found the buffer in use.  *)
SuccessIsComplete ==
  Succeeded /\ ans.size # 0 /\ ~world.left => world.answer.ok /\ AllParsed

(* The last byte of an answer that announced its length ends the           *)
(* transaction: it does not wait for the server to close or the watchdog.  *)
LastByteEnds ==
  world.rest = <<>> /\ world.answer.announced /\ ~world.left => ans.phase # "receiving"

(* The four counters find the end of the answer, neither before its last   *)
(* line nor after it.                                                      *)
EndIsExact == SuccessIsComplete /\ LastByteEnds

(* A cut never makes an answer fail: a read that came is the end of a      *)
(* transaction only if the server refused, a parser failed, the buffer is  *)
(* too small, or a retry found it in use.                                  *)
CutsDoNotFail ==
  [][ans.phase # "idle" /\ ans'.phase = "idle" /\ ans'.result = "failed" /\ ans'.size > 0
       => \/ ~world.answer.ok
          \/ ans'.rc = "failed"
          \/ Len(ans'.buffer) = BufferSize
          \/ world.left]_vars
=============================================================================
