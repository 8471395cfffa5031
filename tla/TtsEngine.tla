----------------------------- MODULE TtsEngine -----------------------------
(***************************************************************************)
(* The text-to-speech engine: tts.c, its request queue tts_queue.c, and    *)
(* what tts_cache.c stores of each voice.                                  *)
(*                                                                         *)
(* A client queues texts (tts_request_ex) and commits them (tts_commit):   *)
(* one provider request takes the first BatchLimit idle entries of the     *)
(* queue, in a context of a fixed pool.  The provider answers later with   *)
(* the audio of some of the texts or with an error, or fails at once, from *)
(* inside request_cb.  Every answer ends in another tts_commit.            *)
(*                                                                         *)
(* The engine is single-threaded: `frame' says which function is running,  *)
(* and while one is, nothing else happens.  Loops over queue entries take  *)
(* a step for each entry.                                                  *)
(***************************************************************************)
EXTENDS Integers, FiniteSets, Sequences

CONSTANTS Texts, NoText, Voices,
          QueueSize,         \* TTS_QUEUE_SIZE
          PoolSize,          \* TTS_ACTIVE_REQUESTS_LIMIT
          BatchLimit,        \* batch_request_limit of the provider
          ConcurrentLimit,   \* concurrent_limit of the provider
          RetryCount         \* TTS_RETRY_COUNT

ASSUME TtsAssumption ==
  /\ NoText \notin Texts
  /\ Voices # {}
  /\ {QueueSize, PoolSize, BatchLimit, ConcurrentLimit} \subseteq Nat \ {0}
  /\ RetryCount \in Nat

NoSlot == -1
Slots == 0 .. QueueSize - 1
Contexts == 0 .. PoolSize - 1

\* What is stored for a text: nothing, an entry whose file was never written,
\* or the audio of a text.
NoAudio == "no audio"
NoFile == "no file"

VARIABLES
  queue,        \* sgTtsQueue, sgTtsQueueHead, sgTtsQueueTail
  request,      \* sgUserCtxPool: the client's request in each queue slot
  pool,         \* sgProviderCtxPool: the contexts that are marked busy
  active,       \* sgActiveRequestsCount
  voice,        \* sgTtsVoiceId, and the voice of the cache
  store,        \* what the cache's database holds for each voice and text
  outstanding,  \* the requests the provider has sent and not answered
  frame,        \* the function that is running
  changing,     \* the voice-changed callbacks are running
  order         \* history: the occupied slots, oldest entry first

vars == <<queue, request, pool, active, voice, store, outstanding, frame, changing, order>>

ProviderRequest ==
  [ctx : Contexts, voice : Voices, idx_list : Seq(Slots)]

MainLoop == [at |-> "main"]

Least(S) == CHOOSE s \in S : \A r \in S : s <= r

----------------------------------------------------------------------------
(* The queue: a linked list in an array.                                   *)

Queue ==
  [busy : [Slots -> BOOLEAN], next : [Slots -> Slots \cup {NoSlot}],
   key : [Slots -> Texts \cup {NoText}],
   status : [Slots -> {"undefined", "idle", "committed"}],
   head : Slots \cup {NoSlot}, tail : Slots]

EmptyQueue ==
  [busy |-> [s \in Slots |-> FALSE], next |-> [s \in Slots |-> NoSlot],
   key |-> [s \in Slots |-> NoText], status |-> [s \in Slots |-> "undefined"],
   head |-> NoSlot, tail |-> 0]

Free == {s \in Slots : ~ queue.busy[s]}
Holding(text) == {s \in Slots : queue.busy[s] /\ queue.key[s] = text}

tts_queue_add(q, i, text) ==
  [q EXCEPT !.next = [[@ EXCEPT ![q.tail] = i] EXCEPT ![i] = NoSlot],
            !.tail = i,
            !.busy[i] = TRUE,
            !.key[i] = text,
            !.status[i] = "idle",
            !.head = IF @ = NoSlot THEN i ELSE @]

(* Mutant: the tail stays on a removed entry.                              *)
MutQueueRemove(q, index) ==
  LET before == {s \in Slots : q.next[s] = index}
      bypass == IF before = {} THEN q.next
                ELSE [q.next EXCEPT ![Least(before)] = q.next[index]]
  IN [busy   |-> [q.busy EXCEPT ![index] = FALSE],
      next   |-> [bypass EXCEPT ![index] = NoSlot],
      key    |-> [q.key EXCEPT ![index] = NoText],
      status |-> [q.status EXCEPT ![index] = "undefined"],
      head   |-> IF index = q.head THEN q.next[index] ELSE q.head,
      tail   |-> q.tail]

tts_queue_remove(q, index) ==
  LET before == {s \in Slots : q.next[s] = index}
      bypass == IF before = {} THEN q.next
                ELSE [q.next EXCEPT ![Least(before)] = q.next[index]]
  IN [busy   |-> [q.busy EXCEPT ![index] = FALSE],
      next   |-> [bypass EXCEPT ![index] = NoSlot],
      key    |-> [q.key EXCEPT ![index] = NoText],
      status |-> [q.status EXCEPT ![index] = "undefined"],
      head   |-> IF index = q.head THEN q.next[index] ELSE q.head,
      tail   |-> IF index # q.tail THEN q.tail
                 ELSE IF before = {} THEN 0 ELSE Least(before)]

(* The request of an occupied slot: its TTS_FLAG_RETRY, its retry_index,   *)
(* and whether a callback was added since the callbacks last heard a final *)
(* result.  A free slot's request is never read.                           *)
Request == [retry : BOOLEAN, retry_index : 0 .. RetryCount, waiting : BOOLEAN]

NoRequest == [retry |-> FALSE, retry_index |-> 0, waiting |-> FALSE]

----------------------------------------------------------------------------
(* Committing: tts_commit, from its entry to request_cb.                   *)

\* The innermost tts_commit returns to `depth' callers that are waiting in
\* request_cb, and each of them counts its request on the way out.
CommitReturns(count, depth) ==
  /\ active' = count + depth
  /\ frame' = MainLoop

\* tts_commit up to its walk over the queue q.
Commit(q, count, depth) ==
  IF count >= ConcurrentLimit
  THEN CommitReturns(count, depth)
  ELSE /\ active' = count
       /\ frame' = [at |-> "walk", depth |-> depth, slot |-> q.head, idx_list |-> <<>>]

tts_commit ==
  /\ frame.at = "main"
  /\ Commit(queue, active, 0)
  /\ UNCHANGED <<queue, request, pool, voice, store, outstanding, changing, order>>

MoreToCollect == frame.slot # NoSlot /\ Len(frame.idx_list) < BatchLimit

(* Mutant: the loop takes entries whatever their status.                   *)
MutGetIndexes ==
  /\ frame.at = "walk" /\ MoreToCollect
  /\ frame' = [frame EXCEPT !.slot = queue.next[@],
                            !.idx_list = Append(@, frame.slot)]
  /\ UNCHANGED <<queue, request, pool, active, voice, store, outstanding, changing, order>>

\* The loop of tts_queue_get_indexes.
tts_queue_get_indexes ==
  /\ frame.at = "walk" /\ MoreToCollect
  /\ frame' = [frame EXCEPT !.slot = queue.next[@],
                            !.idx_list = IF queue.status[frame.slot] = "idle"
                                         THEN Append(@, frame.slot) ELSE @]
  /\ UNCHANGED <<queue, request, pool, active, voice, store, outstanding, changing, order>>

Members(idx_list) == {idx_list[k] : k \in 1 .. Len(idx_list)}

\* The rest of tts_commit: nothing to send, no context, or request_cb.
CommitBatch ==
  /\ frame.at = "walk" /\ ~ MoreToCollect
  /\ IF frame.idx_list = <<>> \/ pool = Contexts
     THEN /\ CommitReturns(active, frame.depth)
          /\ UNCHANGED <<queue, pool>>
     ELSE LET ctx == Least(Contexts \ pool)
          IN /\ pool' = pool \cup {ctx}
             /\ queue' = [queue EXCEPT !.status =
                            [s \in Slots |-> IF s \in Members(frame.idx_list)
                                             THEN "committed" ELSE @[s]]]
             /\ frame' = [at |-> "request_cb", depth |-> frame.depth + 1, ctx |-> ctx,
                          voice |-> voice, idx_list |-> frame.idx_list]
             /\ UNCHANGED active
  /\ UNCHANGED <<request, voice, store, outstanding, changing, order>>

Posted == [ctx |-> frame.ctx, voice |-> frame.voice, idx_list |-> frame.idx_list]

\* The frame of _on_response for the provider request r.
Answering(r, depth, synthesized) ==
  [at |-> "response", depth |-> depth, ctx |-> r.ctx, voice |-> r.voice,
   idx_list |-> r.idx_list, i |-> 1, synthesized |-> synthesized,
   apply_retry |-> FALSE]

\* request_cb of the provider returns: the request is on its way, or it has
\* failed already and request_cb calls _on_response before it returns.
RequestSent ==
  /\ frame.at = "request_cb"
  /\ outstanding' = outstanding \cup {Posted}
  /\ CommitReturns(active, frame.depth)
  /\ UNCHANGED <<queue, request, pool, voice, store, changing, order>>

RequestFails ==
  /\ frame.at = "request_cb"
  /\ frame' = Answering(Posted, frame.depth, {})
  /\ UNCHANGED <<queue, request, pool, active, voice, store, outstanding, changing, order>>

----------------------------------------------------------------------------
(* Requests of the clients.                                                *)

\* _queue_one.  A full queue is left out: tts_queue_add returns -1 there and
\* the context of slot -1 is written.
_queue_one(text, retry, callback) ==
  IF Holding(text) # {}
  THEN /\ request' = [request EXCEPT ![Least(Holding(text))].waiting = @ \/ callback]
       /\ UNCHANGED <<queue, order>>
  ELSE /\ Free # {}
       /\ queue' = tts_queue_add(queue, Least(Free), text)
       /\ request' = [request EXCEPT ![Least(Free)] =
                        [retry |-> retry, retry_index |-> 0, waiting |-> callback]]
       /\ order' = Append(order, Least(Free))

\* The navigation prompts ask with TTS_FLAG_RETRY, the application's texts
\* without.  A text that is cached is answered at once and changes nothing.
tts_request_ex(text, retry) ==
  /\ frame.at = "main"
  /\ store[voice][text] = NoAudio
  /\ _queue_one(text, retry, TRUE)
  /\ IF BatchLimit = 1 THEN Commit(queue', active, 0) ELSE UNCHANGED <<active, frame>>
  /\ UNCHANGED <<pool, voice, store, outstanding, changing>>

\* tts_playlist_add finds the file of a stored text missing: the entry is
\* dropped and, for the current voice, requested and committed again.
tts_playlist_add(text, v) ==
  /\ frame.at = "main" /\ ~ changing
  /\ store[v][text] # NoAudio
  /\ store' = [store EXCEPT ![v][text] = NoAudio]
  /\ IF v = voice
     THEN /\ _queue_one(text, FALSE, FALSE)
          /\ Commit(queue', active, 0)
     ELSE UNCHANGED <<queue, request, order, active, frame>>
  /\ UNCHANGED <<pool, voice, outstanding, changing>>

\* tts_set_voice runs the voice-changed callbacks last: the clients request
\* and commit their texts for the new voice before anything else happens.
tts_set_voice(v) ==
  /\ frame.at = "main" /\ ~ changing
  /\ v # voice
  /\ voice' = v
  /\ active' = 0
  /\ changing' = TRUE
  /\ UNCHANGED <<queue, request, pool, store, outstanding, frame, order>>

\* A new version of a voice (_voice_updated), and tts_clear_cache.
_voice_updated(v) ==
  /\ frame.at = "main" /\ ~ changing
  /\ store' = [store EXCEPT ![v] = [t \in Texts |-> NoAudio]]
  /\ changing' = (v = voice)
  /\ UNCHANGED <<queue, request, pool, active, voice, outstanding, frame, order>>

tts_clear_cache ==
  /\ frame.at = "main" /\ ~ changing
  /\ store' = [v \in Voices |-> [t \in Texts |-> NoAudio]]
  /\ UNCHANGED <<queue, request, pool, active, voice, outstanding, frame, changing, order>>

VoiceChangedReturns ==
  /\ frame.at = "main" /\ changing
  /\ changing' = FALSE
  /\ UNCHANGED <<queue, request, pool, active, voice, store, outstanding, frame, order>>

----------------------------------------------------------------------------
(* Answers of the provider: _on_response.                                  *)

\* The provider answers a request with the audio of the texts at some
\* positions of the request, in the order they were asked for.  An error is
\* the answer that holds none: _process_error treats each entry just as
\* _process_received treats a text it does not find.
_on_response(r) ==
  /\ frame.at = "main" /\ ~ changing
  /\ outstanding' = outstanding \ {r}
  /\ \E synthesized \in SUBSET (1 .. Len(r.idx_list)) :
       frame' = Answering(r, 0, synthesized)
  /\ UNCHANGED <<queue, request, pool, active, voice, store, changing, order>>

\* The loops skip an entry that is free already; by RequestsHold none is.
Current == frame.idx_list[frame.i]
InResponse == frame.at = "response" /\ frame.i <= Len(frame.idx_list)

\* The entry leaves the queue.
Without(o, s) ==
  LET k == CHOOSE j \in 1 .. Len(o) : o[j] = s
  IN  [j \in 1 .. Len(o) - 1 |-> o[IF j < k THEN j ELSE j + 1]]

Dequeue(s) ==
  /\ queue' = tts_queue_remove(queue, s)
  /\ request' = [request EXCEPT ![s] = NoRequest]
  /\ order' = Without(order, s)

\* tts_data[i]: the i-th audio of the answer, not the one of the i-th text.
Ith(i) ==
  {k \in frame.synthesized : Cardinality({j \in frame.synthesized : j < k}) = i - 1}

tts_data(i) ==
  IF Ith(i) = {} THEN NoFile ELSE queue.key[frame.idx_list[Least(Ith(i))]]

\* _process_received, a text the answer holds.  apply_retry still has the
\* value an earlier text of the answer gave it.
StoreAudio ==
  /\ InResponse
  /\ frame.i \in frame.synthesized
  /\ store' = IF frame.voice = voice
              THEN [store EXCEPT ![voice][queue.key[Current]] = tts_data(frame.i)]
              ELSE store
  /\ IF frame.apply_retry
     THEN /\ request' = [request EXCEPT ![Current].waiting = FALSE]
          /\ UNCHANGED <<queue, order>>
     ELSE Dequeue(Current)
  /\ frame' = [frame EXCEPT !.i = @ + 1]
  /\ UNCHANGED <<pool, active, voice, outstanding, changing>>

\* _apply_retry, for a text that failed: _process_error, or a text of
\* _process_received that the answer lacks.
_apply_retry(s) == request[s].retry /\ request[s].retry_index < RetryCount

(* Mutant: an entry that is to be retried stays committed.                 *)
MutFailEntry ==
  /\ InResponse
  /\ frame.i \notin frame.synthesized
  /\ IF _apply_retry(Current)
     THEN /\ request' = [request EXCEPT ![Current].retry_index = @ + 1]
          /\ UNCHANGED <<queue, order>>
     ELSE Dequeue(Current)
  /\ frame' = [frame EXCEPT !.i = @ + 1, !.apply_retry = _apply_retry(Current)]
  /\ UNCHANGED <<pool, active, voice, store, outstanding, changing>>

FailEntry ==
  /\ InResponse
  /\ frame.i \notin frame.synthesized
  /\ IF _apply_retry(Current)
     THEN /\ request' = [request EXCEPT ![Current].retry_index = @ + 1]
          /\ queue' = [queue EXCEPT !.status[Current] = "idle"]
          /\ UNCHANGED order
     ELSE Dequeue(Current)
  /\ frame' = [frame EXCEPT !.i = @ + 1, !.apply_retry = _apply_retry(Current)]
  /\ UNCHANGED <<pool, active, voice, store, outstanding, changing>>

(* Mutant: the remaining entries are not committed.                        *)
MutNoCommit ==
  /\ frame.at = "response" /\ frame.i > Len(frame.idx_list)
  /\ CommitReturns(active - 1, frame.depth)
  /\ UNCHANGED <<queue, request, pool, voice, store, outstanding, changing, order>>

\* The end of _on_response.  _provider_ctx_free leaves the context busy.
ResponseProcessed ==
  /\ frame.at = "response" /\ frame.i > Len(frame.idx_list)
  /\ Commit(queue, active - 1, frame.depth)
  /\ UNCHANGED <<queue, request, pool, voice, store, outstanding, changing, order>>

----------------------------------------------------------------------------
Init ==
  /\ queue = EmptyQueue
  /\ request = [s \in Slots |-> NoRequest]
  /\ pool = {} /\ active = 0
  /\ voice \in Voices
  /\ store = [v \in Voices |-> [t \in Texts |-> NoAudio]]
  /\ outstanding = {} /\ frame = MainLoop /\ changing = FALSE
  /\ order = <<>>

Next ==
  \/ \E t \in Texts, retry \in BOOLEAN : tts_request_ex(t, retry)
  \/ tts_commit
  \/ tts_queue_get_indexes
  \/ CommitBatch
  \/ RequestSent
  \/ RequestFails
  \/ \E t \in Texts, v \in Voices : tts_playlist_add(t, v)
  \/ \E v \in Voices : tts_set_voice(v)
  \/ \E v \in Voices : _voice_updated(v)
  \/ tts_clear_cache
  \/ VoiceChangedReturns
  \/ \E r \in outstanding : _on_response(r)
  \/ StoreAudio
  \/ FailEntry
  \/ ResponseProcessed

Spec == Init /\ [][Next]_vars

----------------------------------------------------------------------------
(* Properties.                                                             *)

Frame ==
  {MainLoop}
    \cup [at : {"walk"}, depth : Nat, slot : Slots \cup {NoSlot}, idx_list : Seq(Slots)]
    \cup [at : {"request_cb"}, depth : Nat, ctx : Contexts, voice : Voices, idx_list : Seq(Slots)]
    \cup [at : {"response"}, depth : Nat, ctx : Contexts, voice : Voices, idx_list : Seq(Slots),
          i : Nat, synthesized : SUBSET Nat, apply_retry : BOOLEAN]

\* Every variable has its type; above all no entry is retried more than
\* TTS_RETRY_COUNT times, and the list's links stay inside the array.
TypeOK ==
  /\ queue \in Queue
  /\ request \in [Slots -> Request]
  /\ pool \subseteq Contexts /\ active \in Int
  /\ voice \in Voices
  /\ store \in [Voices -> [Texts -> Texts \cup {NoAudio, NoFile}]]
  /\ outstanding \subseteq ProviderRequest
  /\ frame \in Frame /\ changing \in BOOLEAN
  /\ order \in Seq(Slots)

\* A text has one entry however often and under whichever voice it is asked
\* for, so that the provider is not asked for it twice at a time.
OneEntryPerText == \A t \in Texts : Cardinality(Holding(t)) <= 1

\* The links of tts_queue.c always thread exactly the occupied slots, in the
\* order of their arrival, from the head to the tail: slots freed at the head,
\* in the middle and at the tail, and taken again, never cut an entry off,
\* which would then never be sent, or close the list to a ring.
QueueIsList ==
  /\ TypeOK
  /\ OneEntryPerText
  /\ {s \in Slots : queue.busy[s]} = Members(order)
  /\ Cardinality(Members(order)) = Len(order)
  /\ IF order = <<>> THEN queue.head = NoSlot /\ queue.tail = 0
     ELSE /\ queue.head = order[1] /\ queue.tail = order[Len(order)]
          /\ queue.next[order[Len(order)]] = NoSlot
          /\ \A k \in 1 .. Len(order) - 1 : queue.next[order[k]] = order[k + 1]

\* The provider requests in flight, the one being posted and the rest of the
\* one being answered among them.
InFlight ==
  {Members(r.idx_list) : r \in outstanding}
    \cup (IF frame.at = "request_cb" THEN {Members(frame.idx_list)}
          ELSE IF frame.at = "response"
          THEN {{frame.idx_list[k] : k \in frame.i .. Len(frame.idx_list)}} ELSE {})

\* The count that limits the provider's concurrent requests never exceeds the
\* requests that are really out, nested failures inside request_cb and voice
\* changes included: it never blocks a commit for good.
ActiveIsBacked == frame = MainLoop => active <= Cardinality(outstanding)

\* An entry the provider was asked for stays where it is, occupied and
\* committed, until its own answer is processed, whatever is asked, answered,
\* retried or changed meanwhile: an answer never meets a slot that was freed
\* or taken by another text ("Internal error. Current status ... differs from
\* 'COMMITTED'", tts.c:861), and no entry is in two requests.
RequestsHold ==
  /\ ActiveIsBacked
  /\ \A e \in InFlight : \A s \in e : queue.busy[s] /\ queue.status[s] = "committed"
  /\ \A e1, e2 \in InFlight : e1 # e2 => e1 \cap e2 = {}
  /\ \A r1, r2 \in outstanding : r1.ctx = r2.ctx => r1 = r2

\* A failed entry that waits for its retry is not forgotten: nobody commits
\* for it but the end of the next answer, so while one waits an answer is
\* still to come, unless the pool of contexts has run dry.
RetryIsServed ==
  frame = MainLoop
    /\ (\E s \in Slots : queue.status[s] = "idle" /\ request[s].retry_index > 0)
  => outstanding # {} \/ pool = Contexts

\* What is stored for a text is that text's audio (or no file, which
\* tts_playlist_add notices), as tts.h:63 promises the client of a completed
\* request.  It does not hold: tts_data is indexed by the entry's position in
\* the request, not by its position in the answer.
AudioIsOfText ==
  \A v \in Voices, t \in Texts : store[v][t] \in {t, NoAudio, NoFile}

\* An entry that is committed, and that no request will answer, is never
\* sent again: requests for its text are added to it in vain.  Only the end of
\* an answer leaves one behind, for a text that was stored after another text
\* of the answer had to be retried (apply_retry is not cleared).
Stranded ==
  {s \in Slots : queue.busy[s] /\ queue.status[s] = "committed" /\ s \notin UNION InFlight}

OnlyAfterRetryStranded ==
  [][Stranded' \subseteq Stranded \/ (frame.at = "response" /\ frame.apply_retry)]_vars
============================================================================
