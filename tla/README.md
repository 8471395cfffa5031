# Verification of the waze client

TLA+ models of the parts of the client (`src/src/`, C) that keep state across
events: downloads of map tiles, voices and other files, web-service transactions
and the Realtime service on top of them, connects, the cache of map tiles and
text to speech. Each model is checked with TLC on a small instance. For eight
of the nine detailed models (all but `RealtimeSession`), every safety
property that holds on its run (invariants, step properties, refinements) is also
proved with TLAPS for every value of the constants.

Source paths are given relative to the repository (`src/...` below is its
directory `src/`).

1. [The system](#1-the-system)
2. [The models](#2-the-models)
3. [The runs](#3-the-runs)
4. [The proofs](#4-the-proofs)
5. [Findings](#5-findings)
6. [What is not modelled](#6-what-is-not-modelled)
7. [Plan](#7-plan)

## 1. The system

The client is a single-threaded, event-driven program. The main loop (GTK in
the build that was modelled, `src/gtk2/roadmap_main.c`) watches sockets for
input and output, runs periodic timers, and calls handlers which run to
completion. Nothing is preemptive; what makes the program hard is

- **re-entrance**: a handler calls a callback of another component, which calls
  back into the first before it returned (a failed connect is reported from
  inside the call that asked for it; a parser aborts the session it is called
  by; a completed request starts the next one);
- **time**: sweeps and watchdogs end what takes too long, and race answers,
  cancellations and retries;
- **shared single slots and tables**: counters that stand for the contents of a
  table, one-slot callbacks, indexes that are kept across events.

```
   screen, navigation, alerts, editor, login ... (requests)
      |              |                 |               |
  tile manager   Realtime session   resource      text-to-speech
      |              |              download       (tts, queue, cache)
      |      web-service transactions |               |
      |      (session, queue, parser) |               |
      +--------------+------ HTTP copy (async) -------+
                     |            |
              net layer: asynchronous connect, timeout sweep, retries
                     |
              main loop: watches (input/output), timers
```

| component | state | operations | interacts with | what is hard, what must hold |
|---|---|---|---|---|
| tile manager (`roadmap_tile_manager.c`) | queue of requests by priority, transfers, flags of each tile, timers | request, refresh, HTTP callbacks, timeout sweep, retry and login timers | HTTP copy, square cache, Realtime login | a failure is reported inside the call that starts a transfer; counters, slots and flags must agree, a waiting manager must be woken, the queue stays sorted |
| web-service transactions (`websvc_trans/`) | one session: active item, queue, connect, socket, receive, parser state, retries | start, stop, abort, watchdog, connected, data received, send, finish | net layer, parsers and callbacks of the application | re-entrance from parsers and callbacks; replacement by type; every accepted request is reported once or knowingly given up |
| net layer (`unix/roadmap_net.c`, `gtk2/roadmap_main.c`) | watch table, counter of connects, timeout timer | connect, cancel, close, timeout sweep, retry, callback | everything with a socket | the sweep walks a table its callbacks change; each connect is answered once |
| text to speech (`tts/`) | linked queue in an array, context pool, number of active requests, voice, cache | request, commit, answers, voice change, cache clearing | provider (`tts_was_provider.c`), navigation prompts | indexes kept across events; nested commits; retries nobody else will trigger |
| Realtime service (`Realtime/Realtime.c`, `RealtimeNet.c`) | is it running, are its timers set, status of the transaction, login details, the one-slot callbacks | enable, disable, sign in, relogin, test details, register, report, keep-alive, logout, both timers | one transaction session; tile manager and voice download wait for its login | what ends a login must forget what was queued under it; a status nobody resets and a queue nobody looks at must not stop it |
| receive buffer (`websvc_trans/cyclic_buffer.c`, parsers in `websvc_trans.c`) | bytes read and not dropped, four counters, state of the parse | read, recycle, search for acknowledgement, header, lines | transactions, parsers of the application | an answer comes cut anywhere; the same lines must reach the parsers, and its end must be found to the byte |
| HTTP copy, asynchronous (`roadmap_httpcopy_async.c`) | context of a transfer: header parser, length, bytes so far, connect or watch | copy, post, post a file, abort, connected, readable, writable | net layer, tile manager, TTS, resources | one end is told, of a whole answer; nothing may keep a context that is freed |
| square cache (`roadmap_square.c`, `roadmap_hash.c`, `roadmap_dbread.c`) | slots, ring in the order of use, hash chains, current tile, which tile each module serves, open databases | find, load, set current, unload, replace by a download, refresh | tile manager, locator | tiles are replaced while they are in use; four structures must agree |
| resource and voice download (`roadmap_res_download.c`, `roadmap_prompts.c`) | queue of requests, the transfer under way, count of files, set and waiting set (saved), watchdog | request, transfer ends, watchdog, login, restart | HTTP copy, Realtime login, configuration | callbacks download from inside downloads; late files of a set that was given up; a set that is never resumed |
| navigation (`navigate/`) | guidance state, route request | route, reroute, position update | transactions, TTS | late route answers after a reroute |

The remaining components (navigation, Realtime's tables, search, editor, alerter, dialogs,
map readers, ports, tools, vendored libraries) are listed with the reason they
are left out in section 6.

## 2. The models

Conventions. A component's statics are one record (`tm`, `ws`, `net`, ...); a C
function that changes them is an operator from the record to the record, or to
the *set* of records, it may leave behind, so that a handler which calls many
helpers stays one action. Definitions have the names of the C functions where
TLA+ allows it. Constants carry named assumptions that TLC evaluates and the
proofs use. Operators called `Mut...` next to a definition are plausible bugs
(a lost guard, a missing reset, an off-by-one) that no specification uses;
they are there to confirm that each property notices such a change.
`PROJECT.json` maps every definition to its lines.

### TileManager: `roadmap_tile_manager.c`, `roadmap_tile_status.c`

| model | code |
|---|---|
| `tm.queue` | `RequestQueue` from `QueueHead` on, `QueueSize` |
| `tm.slot`, `tm.open`, `tm.timed` | `Connections[]`: the tile, `NumOpenConnections`, `time_out # 0` |
| `tm.status` | `TileManagerStatus`: first use, waiting for login or retry, active |
| `tm.queued/active/uptodate/unforce/priority` | the flag bits of each tile |
| `tm.retry`, `sweepTimer`, `refreshTimer`, `login` | is the periodic callback or login callback registered? |
| `timestamped`, `session` | what the square cache and the stored session say |
| `refreshing` | progress of the loop in `roadmap_square_refresh` |

`roadmap_tile_request`, the HTTP callbacks, `start_network`, the timeout sweep
and the refresh are actions. `load_next_tile` is a set-valued operator because
`roadmap_http_async_copy` may fail, through `http_cb_error` and
`requeue_tile`, before it returns. The sweep over several connections takes a
step per connection, and so does the loop of a refresh over squares.

Left out: the `on_loaded` callback (NULL at every call site), the error,
exists and callback flags (nobody's control depends on them), and the eviction
of squares. The squares that are cached survive `roadmap_locator_close`, so a
refresh always works over cached squares.

### WebSvcTrans: `websvc_trans.c`, `websvc_trans_queue.c`

`ws` has the fields of `wst_context` that carry control, plus three histories:
which requests were accepted, which were given up without a callback, and how
often each callback ran. `ws.stack` holds the frames of the application's
parsers and completion callbacks that have not returned: calls *into* the
session are allowed at any depth, events of the main loop only when the stack
is empty.

What was received is abstracted to how far it is parsed (`not_acked`, `not_parsed`,
`parse_completed`), and time to a choice inside `wst_watchdog(late)`. The
connect never completes inside the call that asks for it (the code calls that
case "Probably not realistic"), and the table of receivers is not full. The
field `http_status_verified` is not kept: the code resets it but never sets
it.

### WebSvcAnswer: `cyclic_buffer.c` and the parse in `websvc_trans.c`

What `WebSvcTrans` takes as "parsed so far". `ans.buffer` is the part of the
buffer that was read and not dropped, with the code's counters
`read_processed`, `data_size` and `data_processed`; `read_size` is its length,
`next_read` its end. A read appends any part of what the server still has to
send; then `OnHTTPAck`, `OnHTTPHeader` and the loop of `OnCustomResponse` search
what is unprocessed, each line to a parser being a step, and the end of the loop
concludes the transaction or recycles the buffer for the next read.

The bytes of an answer are abstracted to tokens: an acknowledgement, a status,
a length, tags, arguments, ends of lines. Cuts inside a token have the effect
of cuts before it, because only whole ones are found; the exception is a
`Content-Length` that a *retry* finds cut in its value, which is left out. A buffer
and an answer together are shorter than `INT_MAX`, so that the length that
stands for "unknown" is no answer's. A parser takes
its line or fails; the parsers without a tag, as those of login and logout
(`VerifyStatusAndTag`), may want the line after theirs. Left out: a line that is
a bare tag, which the code refuses if it is the last in the buffer
(`websvc_trans.c:1234`); parsers that call back into the session, which
`WebSvcTrans` has; and the table of receivers, which has one entry per socket
and is never full.

### TransQueue, TransSession, WebSvcTransRefines

`TransSession` is what a session promises its users: a request that is worked
for, a bounded queue in the order of asking, replacement by type, one end at
most for each request. Its operators on the pair of active request and queue
are in `TransQueue`, which `RealtimeSession` uses as the session below it. `Others` is a queue
without its request of a type, of which at most one waits.
`WebSvcTransRefines` maps `ws` to it and is checked: the composition of
`RealtimeSession` with the real session is covered by what the two have in
common.

### AsyncConnect and NetConnect: `unix/roadmap_net.c`, `gtk2/roadmap_main.c`

`AsyncConnect` is the abstract promise to a caller: idle, pending, then one
answer or a cancellation. `NetConnect` adds what the layer does for it: the
watch table with the age of each watch, the counter `RoadMapNetNumConnects`
that decides about the timer, the sweep with its reconnects, and callbacks
inside the sweep or inside the call. File uploads are part of it, since their
watches are in the same table (`roadmap_httpcopy_async.c`): each time the socket
is writable, an upload sends a piece and calls the progress callback, sends the
last piece and removes its watch, or fails, tells its owner and leaves its watch
behind (lines 340-376; `stale`). What the loop and the sweep make of a
watch whose context is gone is undefined and left out here; that only failed uploads
leave one is a part of `ContextIsAwaited` of `HttpCopy`.

`Cases` says which things happen in an instance (immediate success, a
reconnect that fails before it starts, uploads, uploads that last longer than
a connect may), so that each run has the smallest instance that shows its
point. Left out: full watch and timer tables, a failing allocation of the SSL
context, and sending and receiving.

### TtsEngine: `tts/tts.c`, `tts/tts_queue.c`

| model | code |
|---|---|
| `queue` | `sgTtsQueue[]` with `next` links, head and tail |
| `request` | `sgUserCtxPool[]`: retry flag, retry index, is a client waiting |
| `pool`, `active` | busy provider contexts, `sgActiveRequestsCount` |
| `voice`, `store` | `sgTtsVoiceId`, the texts the database holds for each voice |
| `outstanding` | requests the provider has sent and not answered |
| `frame` | which function is running, with its loop variables |
| `changing` | the voice-changed callbacks are running |
| `order` | history: the entries in order of arrival |

The loops of `tts_queue_get_indexes` and of the answers are steps, so that
their loop variables are state. `frame.depth` counts the commits that are
nested because a provider's request failed before it returned
(`tts_was_provider.c`) and the error handler committed again: each of the
callers counts its request when it gets back.

Answers are a set of the request's positions that were synthesized; the empty
set is an error. Contexts are never returned to the pool, as in the code
(`_provider_ctx_free` sets `busy` to TRUE), so a behaviour has at most
`PoolSize` provider requests.

Left out: a full queue, on which the code writes the slot at index -1;
requests that carry the status "retry on"; the 32-entry memory cache in front
of the database; the provider's wire format and its list of voices; and the
switch that turns the feature off.

### RealtimeSession: `Realtime.c`, `RealtimeNet.c`, `roadmap_login.c`

| model | code |
|---|---|
| `rt.running`, `rt.timers` | `gs_bRunning`; are `OnTimer_Realtime` and the keep-alive timer set? |
| `rt.status` | `gs_CI.eTransactionStatus` |
| `rt.loggedIn`, `wrong`, `details`, `sent` | `bLoggedIn`, `LastError`, the login details, those of the last login request |
| `rt.test`, `relogin`, `waiting` | the slots `gs_pfnOnLoginTestResult`, `gs_pfnOnLoginAfterRegister`, `gs_pfnOnUserLoggedIn` |
| `rt.recent`, `loginTimer` | is it too early for a report; is `Realtime_LoginCallback` due? |
| `rt.net`, `rt.stopped` | the session below: active request and queue, and is it stopping? |

A transaction ends with any result at any time; what its callback does, and
what `OnTransactionCompleted` does after it (the next request, the answer to a
login test, the announcement of a login), is one step, as in the code. Left out:
the second session for routes, the handlers of network events of the Android
and iPhone builds, dialogs, and what the requests say. `NotifyOnLogin` has one
slot, and its clients keep the callback they displaced; the model has the slot.

### SquareCache: `roadmap_square.c`, `roadmap_hash.c`, `roadmap_dbread.c`

Slots, the ring in the order of use with its `next` and `prev` links, the
chains of the hash table, the current tile, what each module (lines, polygons,
...) serves, and the open databases. `roadmap_square_set_current` and
`http_cb_done` are whole handlers: find or load, throw out the least recently
used slot, unload it through the database, and activate the modules. The hash
table is the code's, chain by chain, so that an entry removed from the wrong
chain shows. What a walk along the links meets is stated as a set that is closed
under them (`Chain`, `RingIsList`), not by following them one by one. `Keeps` are the modules whose unmap leaves the pointer to what they
serve (`roadmap_line_unmap`, `roadmap_line_route_unmap`). Left out: the geometry of squares, file formats,
`roadmap_square_unload_all` (only at exit).

### HttpTransfer and HttpCopy: `roadmap_httpcopy_async.c`

`HttpTransfer` is the promise to a client: an accepted transfer is told its
end once, progress comes only before, and a transfer that was given up is
silent. `HttpCopy` has the context: connect or watch, length, bytes so far, for
downloads, posts, and uploads of files. The header of an answer may come in
several reads; what the decoder makes of a `Content-Length` that was cut is any
length or none, since it leaves older text behind what is left of a read (`roadmap_httpcopy_async.c:102`).
`Content-Length: 0` tells the client "done" and never frees the context; the
model keeps that in `kept`. Left out: a cut line that is exactly one character
longer than the one before it, where the code moves -1 bytes; a cut at the
empty line makes the header end later or never. The layer has no timeout of its own.

### VoiceDownload: `roadmap_prompts.c`, `roadmap_res_download.c`

The queue of resource downloads, one transfer at a time, and the set of voice
prompts that is downloaded through it. `calls` is the stack of calls in
progress: callbacks start downloads while one is being started or ended, and
the code decides by the queue being empty. A transfer fails, hangs or ends
late; the watchdog gives the set up and starts the waiting one; `SaveConfig`
and `Restart` are a crash at any point, after which the login of the next run
resumes what was saved. The waiting set's name is read from a configuration entry
that is then overwritten and freed (`roadmap_prompts.c:278`, `205`): what is
downloaded is either the set or files without a language. A full queue drops
its oldest request without a word.

`url` says whether there is a prefix for the URLs. The default has one
(`roadmap_res_download.c:109-115`), and the server may take it away and give it back
(`on_update_config`, which saves the configuration too). Without one, a file
that is not there is told to be loaded, and nothing is transferred
(`ToldWithoutUrl`; lines 515-524). The history variable `blank` holds the files
whose owner was told so; no action reads it. Left out: files that are written in part,
the check for new prompts, the dialog after `prompts.conf` came, and requests
that callbacks of other resources make.

## 3. The runs

Twelve runs, one per question. All bounds are constants in the `.cfg` files.

A property that has the name of its strongest part takes its type invariant and
the parts in parentheses as conjuncts.

| run | result | shows |
|---|---|---|
| `tile_safety` | holds | 2 tiles, 2 connections, queue 2, three priorities: `ConnectionAccounting`, `NoRedundantDownload`, `NeverWedged`, and the step properties `OnlySweepStalls`, `PriorityOrder`, `LostOnlyWhenFull` |
| `tile_liveness` | holds | 1 tile, 1 connection: a stalled queue with a retry timer is served again (`RetryEndsStall`) |
| `wst_session` | holds | 4 requests, some replacing their like, queue 2, one retry: `SessionHasWork`, `CallbackDiscipline`, `RequestsAccounted`, `QueueTypesDistinct`, `NoCrossTalk`, the refinement `ImplementsTransSession`, and `SilentServerEndsSession` under fairness |
| `net_connect` | holds | 2 callers, 2 retries, callbacks two deep: `ConnectsCounted`, `TimerWhilePending`, the refinement `AnsweredOnce`, and `EveryConnectAnswered` under fairness |
| `wst_answer` | holds | answers of up to 3 lines, every cut, a buffer of 8 tokens, one retry: `LinesInOrder`, `EndIsExact` (`SuccessIsComplete` and `LastByteEnds`), `CutsDoNotFail` |
| `tts_engine` | holds | 3 texts, 2 voices, 3 slots, batches of 2, 2 concurrent requests: `QueueIsList` (with `OneEntryPerText`), `RequestsHold` (with `ActiveIsBacked`), `RetryIsServed`, and the step property `OnlyAfterRetryStranded` |
| `realtime` | holds | 2 accounts, trips, a queue of 1, every result of every transaction: `OldLoginForgotten`, and under fairness `KeepsTrying` and `Answered` (`TestEnds`, `QueueServed`, `LoginNotified`) |
| `square_cache` | holds | 4 tiles, 3 of them in one hash chain, 3 slots, 2 modules: `CacheConsistent` (`RingIsList`, `CacheAgreesWithDatabase`, `LoadedTilesExist`), `ServedInMemory` (`CurrentIsServed`, `NothingServedAfterUnload`), and the step property `CurrentSpared` |
| `http_copy` | holds | one client, each kind of transfer, bodies of up to 3 bytes: `DoneIsComplete`, `ContextIsAwaited` (with `OnlyFailedUploadsLeaveWatches`), the refinement `ToldOnce` |
| `voice_download` | holds | 2 sets of 2 files, 3 downloads, 1 restart, a queue of 3, the URL prefix is taken away once: `QueueIsServed` (with `WaitsForAnother`), `PureSetIsInstalled`, and, under fairness, `DownloadEnds` (with `OnlyWatchdogAbandons`) |
| `tts_wrong_audio`, `http_header` | violated | the findings of section 5: each states what a comment or header of the repository says |

Why the bounds are enough to be interesting:

- *Tiles*: two connections are needed for one transfer to fail while another
  goes on; a queue of two fills up, rotates and is inserted into at every position;
  three priorities allow insertion before, between and behind.
- *Transactions*: with four requests there can be an active one, a full queue
  of two, and one that is replaced or reported in a callback; one type
  suffices because types are only compared with each other. One retry gives the
  first, the repeated and the given-up transmission.
- *Connects*: two callers suffice for a sweep whose callback changes the
  other's watch, and two retries are the code's own number. `MaxDepth` bounds
  callbacks inside callbacks, `MaxLost` the failed reconnects.
- *Speech*: three slots are the least at which an entry leaves from the head, the middle
  and the tail; two concurrent requests of two entries each overlap in time;
  a pool of three lets a context run out, too.
- *Answers*: three lines have a first, a middle and a last one; a buffer of
  eight tokens holds a header with what a retry left in front of it, and is too
  small for some answers.
- *Realtime*: two accounts, because a relogin may be as the same user or
  another; a queue of one is empty, full and refuses; each kind of request
  occurs at most once in the queue by its type.
- *Squares*: three slots are the least at which the ring has a head, a middle and
  a tail; four tiles force evictions; one chain of three and one of one.
- *HTTP*: contexts share nothing, so one client is enough; three bytes come in
  one, two or three reads.
- *Voices*: one set downloads, one waits, and a third request is refused or takes
  the place of the waiting one; the queue of 3 (100 in the code) overflows with
  two sets of two files and another resource's request. With one change of
  the URL prefix a set is told complete with none, one or all of its files there;
  the proofs cover any number of changes.

Symmetry is used only in runs without liveness properties. Deadlock is checked
except in `wst_session`, where a session that was freed, or has used up its
requests, rightly stops, in `voice_download`, which ends when its bounds are
used up, and in `realtime`, where a service that is switched off may rest.

### Fairness, and why the code gives it

- `TileManager`: weak fairness of the periodic `start_network` and of the loop
  inside a refresh. A registered timer fires again; a `for` loop ends.
- `WebSvcTrans`: weak fairness of the watchdog, which `OnTimer_Realtime` calls through
  `RTNet_Watchdog` for `gs_WST` and `gs_WST_Routing` while Realtime runs
  (`Realtime_Stop` removes the timer: the property says nothing of the time
  after), and of the return of parsers and callbacks.
- `NetConnect`: time passes (`Age`), the sweep that was begun ends, every
  callback returns infinitely often to depth 0, and *strong* fairness of the
  timeout timer: the main loop of GLib dispatches every ready source before it
  polls again, so a timer that is due over and over is not starved by sockets.

- `RealtimeSession`: weak fairness of `OnTimer_Realtime`, of the keep-alive
  timer, of `Realtime_LoginCallback` (periodic timers that are set) and of the
  passing of the time a report waits; *strong* fairness of the watchdog's
  timeout inside `OnTimer_Realtime`: a transaction that the server does not answer lasts
  75 seconds at most (`WST_SESSION_TIMEOUT`), while the keep-alive that could
  replace it comes every five minutes.
- `VoiceDownload`: weak fairness of the calls in progress (they return), of
  the watchdog and of the login of a run. The network owes nothing: a transfer
  may hang for ever.

Nothing is ever assumed of the user, the network or a server.
`SilentServerEndsSession` assumes that bytes stop arriving at last and that
the session is not freed; `EveryConnectAnswered` assumes that no reconnect
failed, because such a failure is counted off twice and makes the timer
disappear early. The liveness properties of `RealtimeSession` speak of the time
after the user's last request (`UserLeavesItAlone`) and, where a request must
get through, of a network that lets transactions start again and again
(`NetworkUsable`); whether they succeed is left open.

## 4. The proofs

Eight proof modules, checked by `tlapm` (SMT, Zenon and, for the temporal
steps, LS4). Each has the same outline: an inductive invariant, a lemma for
each C function that preserves it, one step per action, and theorems that
derive the run's properties. A step property follows from the invariant and one
look at each action, a refinement from mapping each action to a step of the
abstract specification or to a stutter.

| module | theorem | property |
|---|---|---|
| `TileManagerProofs` | `TypeCorrect`, `ConnectionsAccounted`, `DownloadsNeeded`, `AlwaysAwakened` | `TypeOK`, `ConnectionAccounting`, `NoRedundantDownload`, `NeverWedged` |
| | `PriorityOrdered`, `SweepAloneStalls`, `FullQueueAloneLoses` | the steps `PriorityOrder`, `OnlySweepStalls`, `LostOnlyWhenFull` |
| `WebSvcTransProofs` | `TypeCorrect`, `SessionAlwaysHasWork`, `CallbackOnlyOnce`, `NoRequestLost`, `QueuedTypesDistinct`, `ParserSeesOwnRequest` | `TypeOK`, `SessionHasWork`, `CallbackDiscipline`, `RequestsAccounted`, `QueueTypesDistinct`, `NoCrossTalk` |
| | `ImplementsContract` | `ImplementsTransSession`: the refinement of `TransSession` |
| `WebSvcAnswerProofs` | `LinesReachParsers`, `EndIsFound`, `CutsAreHarmless` | `LinesInOrder`, `EndIsExact`, the step `CutsDoNotFail` |
| `NetConnectProofs` | `TypeCorrect`, `CounterExact`, `TimerCorrect` | `TypeOK`, `ConnectsCounted`, `TimerWhilePending` |
| | `ImplementsAsyncConnect` | `AnsweredOnce`: the refinement of `AsyncConnect` |
| `HttpCopyProofs` | `DownloadsComplete`, `ContextsAwaited` | `DoneIsComplete`, `ContextIsAwaited` |
| | `ImplementsHttpTransfer` | `ToldOnce`: the refinement of `HttpTransfer` |
| `SquareCacheProofs` | `CacheIsConsistent`, `ServedIsInMemory`, `CurrentIsSpared` | `CacheConsistent`, `ServedInMemory`, the step `CurrentSpared` |
| `TtsEngineProofs` | `QueueIsThreaded`, `RequestsAreHeld`, `RetriesAreServed`, `StrandedAfterRetry` | `QueueIsList`, `RequestsHold`, `RetryIsServed`, the step `OnlyAfterRetryStranded` |
| `VoiceDownloadProofs` | `QueueNeverStalls`, `PureSetInstalled`, `WatchdogAloneAbandons` | `QueueIsServed`, `PureSetIsInstalled`, `OnlyWatchdogAbandons` (the safety part of `DownloadEnds`) |

The only assumptions are those on the constants, which are named in each model
and which TLC evaluates in every run.

**TileManager.** `IInv` has the invariant of the record, `ManagerOK(tm)`
(types, the bound of the queue, and that slots, counter and `FLAG_ACTIVE`
agree and no active tile is up to date), the types of the other variables, and
`NeverWedged` with the fact that makes it inductive: a retry timer exists only
once the sweep is running (`start_network` sets the status active without
installing the sweep). Since a handler composes several C functions, a lemma
for each shows that `ManagerOK` passes from its argument to its result, and
relations between the two say what else the function does: the manager only
starts to wait when it installs the retry timer, a sorted queue with room stays
sorted, a connection that becomes free leaves no queue behind, and a tile loses
its place only from a full queue. The step properties compose these.
Assumption: `TileManagerAssumption`, that `NoTile` is not a tile, the
connections are finite and not empty, and queue and priorities are positive.

**WebSvcTrans.** `IInv` is `SessionInv(ws)` and `Located(ws) = ws.accepted`.
`SessionInv` is typed, unique (each request in one of active item, queue and
histories, called at most once), has work exactly while running, and *framed*:
a parser frame whose transaction still looks alive belongs to the active
request, a session that is to be deleted is stopping or freed, and no parser
is on the stack by then. The last two are what `NoCrossTalk` needs to be
inductive when a parser stops the session that called it. The set-valued
operators compose, so that the lemma about the end of a transaction serves
watchdog, abort, replacement and receive alike. The refinement uses the
distinctness of the queued types: `wstq_remove_type` skips the item behind one
it removed, and does what `TransSession` promises only because there is at most
one to remove. Assumption: `WebSvcTransAssumption`.

**WebSvcAnswer.** The counters of the buffer say little alone; what is
invariant is `Awaited`, the unprocessed part of the buffer followed by what is
still to come, which no cut into reads changes. Before the header is read
(`InHeader`), it holds the header and then the body, with nothing in front but
what a retry left, and no end of a header lies in what was read. Behind it
(`InBody`), it is the body without the lines that were parsed, and the counters
add up to its end. `EndIsExact` needs both halves: the length is set in one and
compared in the other. Assumption: `WebSvcAnswerAssumption`, which has the
buffer and the longest answer together below `INT_MAX`, since the code counts
in `int` and takes that value for "length unknown".

**NetConnect.** `Inv(net)` is the conjunction of the three invariants of the
run: types with each watch that is due or overdue belonging to a pending
connect or an upload (without it the sweep could close what is no longer
there), the counter, and the timer. The counter and the timer need each other:
the timer is removed when the counter reaches 0. The theorem about the
refinement uses this invariant and the mapping `Seen(net.status)`: each action
is a step of `AsyncConnect` or leaves its variables unchanged. Assumption:
`NetConnectAssumption`.

**HttpCopy.** Contexts share nothing, so the invariant `Sound(t)` is of one
context: what is registered for it fits its stage (`Held`), so does what the
client was told (`Announced`), what was handed to the client of a download is
what was counted, against the length it was told (`Counted`), and a download
that ended is whole (`Complete`). `Shows(t, u)` is the step of `HttpTransfer`
a client sees, and the last lemmas lift one context to all. Assumption:
`HttpCopyAssumption`.

**SquareCache.** `Sane(sq)` relates the four structures: the ring is one list
of all slots (`Ring`), the chain of a code holds exactly the used slots of its
tiles and at most one link leads to a slot (`Hashed`), a database is open for
each tile in a slot and no other (`Databases`), slots that were never used
are empty, and the current slot holds the current tile while it is in memory
(`Placed`), and the modules serve what is in memory (`Served`). Ring and chains
are spoken of as sets closed under the links, so that promotion, insertion and
removal are proved without induction along a list: each lemma names the set
that stays closed. Assumption: `SquareCacheAssumption`, at least two slots
(the code has 64 or 512): to spare the only slot of a ring, `roadmap_square_cache`
would take the head of the ring.

**TtsEngine.** The links, head and tail of the queue thread the slots of the
history `order` (`ListOf`), so that adding and removing are lemmas about a
sequence. The other parts say what the function that is running holds, since
requests and answers are taken apart in loops whose variables are state: a
request that is out holds committed entries and its context, apart from every
other (`SentHold`); the walk has collected idle entries of the part it has
passed (`Walking`); a request that is being posted and the rest of an answer that
is processed are held likewise (`Posting`, `Responding`). `Counted` has the
limit of concurrent requests: the count never exceeds what is out, and is
*below* it while commits are nested, because each caller counts its request
only when it gets back. `RetryAwaits` is inductive only with all of these.
Assumption: `TtsAssumption`.

**VoiceDownload.** In the middle of an event the flag "downloading" and the
queue need not agree, because callbacks start downloads inside downloads. So
the invariant speaks of the stack of calls that are still to be executed: the
flag is up for a transfer or for the one call that takes it down (`Flagged`), a
request that nothing precedes has its start on the stack (`Started`), the
calls that ask for the files of a set follow one another and no other set
starts between them (`Shape`), and the count of the set is the number of its files
that are there or were told to be loaded for want of a URL (`Known`) and are
asked for no more, while those still to come are others, each once
(`Accounted`, unless "mixed"). With the last, "all were counted" means that each
is there or is in `blank`: a set that is told complete lacks a file for no
other reason, and lacks none while the prefix stays. When the stack is empty this is `QueueIsServed` and
`PureSetIsInstalled`. `Waits` holds of the saved names too, so that it survives
a crash and a restart. Assumption: `VoiceDownloadAssumption`.

Only model-checked:

- `OldLoginForgotten` of `RealtimeSession`, its type invariant and step
  property: in reach of the prover, not proved yet (section 7);
- `RetryEndsStall`, `SilentServerEndsSession`, `EveryConnectAnswered`,
  `KeepsTrying`, `Answered` and what `DownloadEnds` says beyond
  `OnlyWatchdogAbandons`: liveness under fairness, and so ENABLED, is out of
  the prover's reach.

Also out of its reach are induction over data (what a recursive definition
computes for every input) and RECURSIVE operators. The models use neither:
what a loop along links or down a queue does is stated by the set or the
positions it ends with.

## 5. Findings

Each is a run that TLC refutes and whose property quotes the repository.

| run | the code | the repository says |
|---|---|---|
| `tts_wrong_audio` | the audio is taken at the text's place in the request, not in the answer (`tts.c:888`) | "user can access the audio data of the text" (`tts.h:64`) |
| `http_header` | what is left of a header after a read is followed by older text: a `Content-Length` that is cut between two reads is decoded wrongly, and a part of the file is told to be all of it (`roadmap_httpcopy_async.c:102`) | "we're still parsing headers and may have left overs to append" (`roadmap_httpcopy_async.c:232`) |

Behaviour that the models have and the properties are stated around. Each is a
state the model reaches; where a comment says otherwise it is quoted:

- *Tile manager.* A stall after a timeout sweep lasts until another request or
  retry (`roadmap_tile_manager.c:449`); `OnlySweepStalls` shows there is no
  other cause. A refresh over an empty square cache stays "in progress" until
  some transfer ends (line 672), and the progress counts failures (line 216).
- *Transactions.* A replaced transaction ends without its callback
  (`websvc_trans.c:475`, `525`). A request made inside a completion callback is
  sent at once, ahead of the queue (line 414), though "until the full
  transaction is completed (including all callbacks), any new requests will be
  inserted into queue" (line 521). A transaction that has parsed part of its
  answer is sent again (line 389), on a condition that "means we did not get any
  response" (line 390), and the buffer is kept: the retry may then take a
  refusal for a success, or the old length for the new one (the exception
  `world.left` in `WebSvcAnswer`). A read of 0 bytes is the end of the
  answer even if the header is not complete, or less than the announced length has come
  (line 948; the exception `ans.size # 0`). A line whose parser failed is jumped
  over only while more lines are in the buffer, then the transaction fails
  (line 1287).
- *Connects.* A connect that is given up loses its `RoadMapIO`
  (`unix/roadmap_net.c:134`; `net.leaked`),
  though "in this case the context is deallocated in the net layer"
  (`websvc_trans.c:795`). A reconnect that fails is uncounted twice (line 139).
  The sweep cannot tell an upload that lasts longer than five seconds from a
  connect (`gtk2/roadmap_main.c:508`); the model has it as the case
  "slow_upload", which the proofs cover and no run includes.
- *Speech.* A text that is served behind a failed one of the same answer stays
  in the queue and is never committed again (`tts.c:906`);
  `OnlyAfterRetryStranded` shows there is no other cause. Provider contexts are never given back (line 1138).
  A text asked for under a new voice joins the entry committed under the old one and is told of a success
  that was not stored (line 891).
- *Realtime.* A test of the login details one is logged in with is never
  answered (`Realtime.c:4243`), and refuses later tests. A service that is disabled during its
  logout keeps `gs_bRunning` without its timers, so that enabling it again does nothing
  (lines 892, 959). The status may be "active" with nothing under way until the
  keep-alive (line 2910), and two reports may be sent at once.
- *Squares.* After a download, modules for which the new tile has no data serve
  the tile that was current before (`roadmap_square.c:405`), while "modules
  with no context [...] will be deactivated" (`roadmap_dbread.c:168`). A current tile whose
  reload failed is not in memory, and `set_current` still returns 1. The refresh
  skips slot 0 (line 1111).
- *Downloads.* Without a URL prefix a file is told to be loaded
  (`roadmap_res_download.c:515`): a set is told to be complete with none of its files
  there; `PureSetIsInstalled` shows that, in a set that is not "mixed", no file
  is missing for another cause. Files of a set the watchdog gave up are counted for the next one, which
  may be told to be complete without its files (`roadmap_prompts.c:269`; the state
  "mixed"). The waiting set that the watchdog starts has no watchdog (line 207). A transfer that
  hangs blocks the queue until the program restarts.

## 6. What is not modelled

| component | why |
|---|---|
| navigation guidance | planned; route search and costs are numeric code over map data |
| TTS cache, its SQL and files | what the database *holds* is in `TtsEngine`; the statements and files are I/O |
| Realtime answers (alerts, users, points) | parsing into tables; the alerts' add/remove protocol may follow |
| blocking HTTP copy and sends | nothing interleaves with them |
| track recording, editor | GPS geometry and a local database |
| alerter, message ticker, search | small, driven by position or one request at a time |
| lists and arrays | sequential containers, used by what they promise (the hash table is in `SquareCache`) |
| map readers | decoding of a static format |
| main loop, start-up, configuration | watches and timers are in `NetConnect`; the rest is a list of calls and text I/O |
| screen, dialogs, ports, tools, vendored libraries | drawing, platform wrappers, offline tools, third-party code |

Within the modelled components: what each module leaves out is said in section
2.

Hazards of this code that no property covers, and why:

- the `RoadMapIO` that is lost with a connect that is given up
  (`unix/roadmap_net.c:134`): modelled, but nothing later depends on the memory;
- when the receive of a new connection cannot be posted, the failed transaction
  is reported as a success (`websvc_trans.c:822`): unreachable while fewer
  sessions than `RECEIVER_QUEUE_SIZE` exist;
- a full queue of tiles that makes its last request the first, since it moves its
  head back before it decides to refuse a request (`roadmap_tile_manager.c:487`):
  modelled, but nothing says in what order a full queue should be served, and
  `PriorityOrder` is about the steps while it is not full;
- a request that a session starts from inside a callback, ahead of its queue
  (`websvc_trans.c:414`): the order is a behaviour of section 5, and
  `ImplementsTransSession` shows that such a request is neither lost nor ended twice;
- the waiting set whose name is freed before it is used
  (`roadmap_prompts.c:278`): both outcomes are modelled and no property denies
  that the set is lost; `PureSetIsInstalled` shows that the files without a
  language do not count for the next set;
- the 17th watch of the main loop is dropped, and its `io` is left without an
  index, which its removal follows (`gtk2/roadmap_main.c:482`): the models take
  the tables to have room, since no use of more than 16 sockets at once was found;
- those of section 5 that no exception of a property names: the sweep and slow
  uploads, the entry shared by two voices, the refresh of an empty cache, the
  service that is disabled during its logout. The models reach them; a property
  would say no more than the line itself.

## 7. Plan

Done, in this order: `TileManager`, `WebSvcTrans` and `NetConnect` with the
proofs of their invariants; `TtsEngine`; `TransSession` with the refinement, and
`RealtimeSession` over it; `SquareCache`; `HttpTransfer` and `HttpCopy`;
`VoiceDownload`; `WebSvcAnswer`; then the proofs of the step properties and
refinements of the first, and of `HttpCopy`, `SquareCache`, `WebSvcAnswer`,
`TtsEngine` and `VoiceDownload`.

Next, most important first:

1. the proof of `OldLoginForgotten`. An end of a login composes a callback,
   `OnTransactionCompleted` and what either starts, each set-valued: it takes
   a lemma for each on what the queue may still hold;
2. the guidance state of navigation over `TransSession` (late route answers
   after a reroute), and the composition of `TileManager`'s refresh with
   `SquareCache`, whose loop skips slot 0;
3. the tables of alerts and users that the parsers of Realtime fill.

Composition: `AsyncConnect` below `HttpCopy` and `WebSvcTrans`, `TransSession`
below `RealtimeSession`, `HttpTransfer` below `TileManager`, `VoiceDownload` and
`TtsEngine`; each lower module is checked against its abstract specification
once, and proved to implement it, so that the upper one needs only the abstract
state.
Bounds as now: two clients, queues of two or three, one retry, and runs of
under three minutes.
