---------------------------- MODULE VoiceDownload ----------------------------
(***************************************************************************)
(* Downloading a set of voice prompts (roadmap_prompts.c) through the      *)
(* queue of resource downloads (roadmap_res_download.c): one file is       *)
(* transferred at a time, the callback of a file counts it, the count ends *)
(* the set, a watchdog gives it up, a second set waits in one slot, and    *)
(* both names are in the configuration, so that a set is resumed by the    *)
(* login of the next run.                                                  *)
(*                                                                         *)
(* Callbacks start downloads while downloads are being started.  `calls`   *)
(* holds what is still to be executed of the calls in progress, innermost  *)
(* first; nothing else happens before it is empty.  Other resources        *)
(* (images, texts) share the queue and have no callback that matters here. *)
(***************************************************************************)
EXTENDS Integers, Sequences, FiniteSets

CONSTANTS
  Langs,
  None,           (* "", also a language whose files have no directory     *)
  NumPrompts,     (* num_prompts                                           *)
  MaxQueue,       (* RES_DOWNLOAD_MAX_QUEUE                                *)
  MaxOthers,      (* bound: requests of others                             *)
  MaxDownloads,   (* bound: sets the user asks for                         *)
  MaxUpdates,     (* bound: changes of the URL prefix by the server        *)
  MaxRestarts     (* bound: runs after the first                           *)

ASSUME VoiceDownloadAssumption ==
  /\ None \notin Langs
  /\ NumPrompts \in Nat \ {0}
  /\ MaxQueue \in Nat \ {0}

VARIABLE dl

Texts == Langs \cup {None}
Files == 1 .. NumPrompts

(* fresh: asked for by the download that is counted now.                   *)
Requests ==
  [kind : {"sound"}, lang : Texts, file : Files, fresh : BOOLEAN]
    \cup [kind : {"other"}, lang : {None}, file : {0}, fresh : {FALSE}]

Other == [kind |-> "other", lang |-> None, file |-> 0, fresh |-> FALSE]
Idle  == [kind |-> "none", lang |-> None, file |-> 0, fresh |-> FALSE]

Frames == [do : {"ask"}, what : Requests] \cup [do : {"start", "finish", "unwatch", "resume"}, what : {Idle}]

Frame(do) == [do |-> do, what |-> Idle]
AskFor(r) == [do |-> "ask", what |-> r]

(* The calls c come before what is to be executed.                         *)
Calls(s, c) == [s EXCEPT !.calls = c \o @]

-----------------------------------------------------------------------------
(* roadmap_prompts.c                                                       *)

Stale(r) == [r EXCEPT !.fresh = FALSE]

Batch(lang) ==
  [i \in Files |-> AskFor([kind |-> "sound", lang |-> lang, file |-> i, fresh |-> TRUE])]

(* set_periodic does nothing for a watchdog that runs.                     *)
Starts(s, lang) ==
  Calls([s EXCEPT !.count = 0, !.watched = TRUE, !.name = lang, !.mixed = FALSE,
                  !.queue = [i \in DOMAIN @ |-> Stale(@[i])], !.current = Stale(@)],
        Batch(lang))

roadmap_prompts_download(s, lang) ==
  IF s.name = None THEN Starts(s, lang)
  ELSE IF s.name # lang /\ s.queued = None THEN [s EXCEPT !.queued = lang] ELSE s

(* The name is read from the configuration, its entry is set to "", which  *)
(* frees the text, and then the name is used: it is the text that was      *)
(* freed or, where its memory was taken for the new one, "".               *)
Dequeue(s) ==
  IF s.queued = None THEN {s}
  ELSE {roadmap_prompts_download([s EXCEPT !.queued = None], lang) : lang \in {s.queued, None}}

Declared(s) ==
  IF s.name = None THEN s.declared
  ELSE [s.declared EXCEPT ![s.name] = IF s.mixed THEN "mixed" ELSE "pure"]

SetDone(s) ==
  Dequeue([s EXCEPT !.watched = FALSE, !.declared = Declared(s), !.name = None])

(* The count past the end of the set is one value.                         *)
Counted(s, r) ==
  LET counted == [s EXCEPT !.count = IF @ > NumPrompts THEN @ ELSE @ + 1,
                           !.mixed = @ \/ ~r.fresh]
  IN  IF counted.count = NumPrompts THEN SetDone(counted) ELSE {counted}

(* Mutant: a failed file is counted too.                                   *)
MutOnLoaded(s, r, success) == IF r.kind = "sound" THEN Counted(s, r) ELSE {s}

on_loaded_prompt_file(s, r, success) ==
  IF r.kind = "sound" /\ success THEN Counted(s, r) ELSE {s}

-----------------------------------------------------------------------------
(* roadmap_res_download.c                                                  *)

(* A full queue loses its oldest request without a word to its owner.      *)
ResDataQueue_Push(q, r) ==
  Append(IF Len(q) = MaxQueue THEN Tail(q) ELSE q, r)

roadmap_res_download(s, r) ==
  LET pushed == [s EXCEPT !.queue = ResDataQueue_Push(@, r)]
  IN  IF s.queue = <<>> THEN Calls(pushed, <<Frame("start")>>) ELSE pushed

Told(s, r, success) ==
  on_loaded_prompt_file(Calls(s, <<Frame("finish")>>), r, success)

(* get_download_url returns no URL: the owner is told of a success.        *)
ToldWithoutUrl(s, r) == Told([s EXCEPT !.blank = @ \cup {<<r.lang, r.file>>}], r, TRUE)

(* A file that is there is not transferred.  A transfer may fail before    *)
(* the call returns, which for others is as if there were no URL.          *)
roadmap_download_start(s) ==
  IF s.downloading \/ s.queue = <<>> THEN {s}
  ELSE LET r  == Head(s.queue)
           up == [s EXCEPT !.queue = Tail(@), !.downloading = TRUE]
           sound == r.kind = "sound"
           there == <<r.lang, r.file>> \in s.files
       IN  CASE sound /\ there            -> Told(up, r, TRUE)
             [] sound /\ ~there /\ ~s.url -> ToldWithoutUrl(up, r)
             [] ~sound \/ (~there /\ s.url) ->
                  {[up EXCEPT !.current = r]} \cup Told(up, r, FALSE)

(* Mutant: a download that failed leaves the flag.                         *)
MutFinish(s) == Calls(s, <<Frame("start")>>)

Finish(s) == Calls([s EXCEPT !.downloading = FALSE], <<Frame("start")>>)

Ended(s) == [s EXCEPT !.current = Idle]

(* A file that cannot be opened is told to nobody.                         *)
download_done_callback(s) ==
  LET r == s.current
  IN  Told([Ended(s) EXCEPT !.files = IF r.kind = "sound" THEN @ \cup {<<r.lang, r.file>>} ELSE @],
           r, TRUE)
        \cup {Finish(Ended(s))}

download_error_callback(s) == Told(Ended(s), s.current, FALSE)

-----------------------------------------------------------------------------
(* The rest of the watchdog and of the login.                              *)

(* Mutant: without another set that waits, the watchdog only warns.        *)
MutWatchdog(s) ==
  IF s.queued = None THEN {s} ELSE Dequeue(Calls([s EXCEPT !.name = None], <<Frame("unwatch")>>))

roadmap_prompts_download_watchdog_timer(s) ==
  Dequeue(Calls([s EXCEPT !.name = None], <<Frame("unwatch")>>))

Resume(s) ==
  IF s.name = None THEN s
  ELSE roadmap_prompts_download([s EXCEPT !.name = None], s.name)

Execute(s, f) ==
  CASE f.do = "ask"     -> {roadmap_res_download(s, f.what)}
    [] f.do = "start"   -> roadmap_download_start(s)
    [] f.do = "finish"  -> {Finish(s)}
    [] f.do = "unwatch" -> {[s EXCEPT !.watched = FALSE]}
    [] f.do = "resume"  -> {Resume(s)}

-----------------------------------------------------------------------------
Init ==
  dl = [queue |-> <<>>, downloading |-> FALSE, current |-> Idle, files |-> {},
        blank |-> {}, url |-> TRUE, updates |-> 0,
        name |-> None, queued |-> None, count |-> 0, watched |-> FALSE,
        login |-> TRUE, saved |-> [name |-> None, queued |-> None],
        calls |-> <<>>, others |-> 0, downloads |-> 0, restarts |-> 0,
        mixed |-> FALSE, declared |-> [l \in Langs |-> "no"]]

Becomes(ss) == \E s \in ss : dl' = s
Free        == dl.calls = <<>>

Proceed ==
  /\ ~Free
  /\ Becomes(Execute([dl EXCEPT !.calls = Tail(@)], Head(dl.calls)))

(* A transfer ends, or never does: the layer below has no timeout.         *)
TransferEnds ==
  /\ Free
  /\ dl.current # Idle
  /\ Becomes(download_done_callback(dl) \cup download_error_callback(dl))

(* The user confirms a dialog, which may have been open for long.          *)
UserDownloads(lang) ==
  /\ Free
  /\ dl.downloads < MaxDownloads
  /\ Becomes({roadmap_prompts_download([dl EXCEPT !.downloads = @ + 1], lang)})

OthersDownload ==
  /\ Free
  /\ dl.others < MaxOthers
  /\ Becomes({roadmap_res_download([dl EXCEPT !.others = @ + 1], Other)})

WatchdogFires ==
  /\ Free
  /\ dl.watched
  /\ Becomes(roadmap_prompts_download_watchdog_timer(dl))

(* roadmap_prompts_login_cb, once in a run.                                *)
Login ==
  /\ Free
  /\ dl.login
  /\ Becomes({Calls([dl EXCEPT !.login = FALSE], <<AskFor(Other), Frame("resume")>>)})

SaveConfig ==
  /\ Free
  /\ dl.saved # [name |-> dl.name, queued |-> dl.queued]
  /\ Becomes({[dl EXCEPT !.saved = [name |-> dl.name, queued |-> dl.queued]]})

(* The server sets the prefix of the URLs, or takes it away, and the whole *)
(* configuration is saved.                                                 *)
on_update_config ==
  /\ Free
  /\ dl.updates < MaxUpdates
  /\ Becomes({[dl EXCEPT !.url = ~@, !.updates = @ + 1,
                         !.saved = [name |-> dl.name, queued |-> dl.queued]]})

(* Files and the saved configuration are what is left.                     *)
Restart ==
  /\ dl.restarts < MaxRestarts
  /\ Becomes({[dl EXCEPT !.queue = <<>>, !.downloading = FALSE, !.current = Idle,
                         !.name = dl.saved.name, !.queued = dl.saved.queued,
                         !.count = 0, !.watched = FALSE, !.login = TRUE,
                         !.calls = <<>>, !.mixed = FALSE, !.restarts = @ + 1]})

Next ==
  \/ Proceed
  \/ TransferEnds
  \/ \E lang \in Langs : UserDownloads(lang)
  \/ OthersDownload
  \/ WatchdogFires
  \/ Login
  \/ SaveConfig
  \/ on_update_config
  \/ Restart

Spec == Init /\ [][Next]_dl

(* The main loop returns from its calls, timers come, and a client that    *)
(* runs long enough logs in; the network owes nothing.                     *)
Fairness == WF_dl(Proceed) /\ WF_dl(WatchdogFires) /\ WF_dl(Login)

FairSpec == Spec /\ Fairness

-----------------------------------------------------------------------------
(***************************************************************************)
(* Properties.                                                             *)
(***************************************************************************)

(* The statics have their types, and the queue fits.                       *)
TypeOK ==
  /\ dl.queue \in Seq(Requests) /\ Len(dl.queue) <= MaxQueue
  /\ dl.current \in Requests \cup {Idle}
  /\ dl.files \subseteq Texts \X Files /\ dl.blank \subseteq Texts \X Files
  /\ {dl.name, dl.queued, dl.saved.name, dl.saved.queued} \subseteq Texts
  /\ dl.count \in 0 .. NumPrompts + 1
  /\ dl.calls \in Seq(Frames)
  /\ {dl.downloading, dl.watched, dl.login, dl.url, dl.mixed} \subseteq BOOLEAN
  /\ dl.declared \in [Langs -> {"no", "pure", "mixed"}]

(* The waiting set is never the one that is downloaded, and no set waits   *)
(* while none is downloaded.                                               *)
WaitsForAnother ==
  Free /\ dl.queued # None => dl.name \notin {None, dl.queued}

(* Between two events the queue is served: a request waits only behind a   *)
(* transfer that is under way, and the flag says so.  The nested calls,    *)
(* each of which starts what it can, leave no request behind.              *)
QueueIsServed ==
  /\ TypeOK
  /\ WaitsForAnother
  /\ Free => /\ dl.downloading <=> dl.current # Idle
             /\ dl.queue # <<>> => dl.downloading

(* A set that is told to be complete has all its files, unless a file of   *)
(* an earlier download was counted for it; only a file whose owner was     *)
(* told of a success for want of a URL may be missing.                     *)
PureSetIsInstalled ==
  \A l \in Langs : dl.declared[l] = "pure" =>
    \A i \in Files : <<l, i>> \in dl.files \cup dl.blank

Watched == dl.watched \/ dl.login \/ Frame("resume") \in {dl.calls[i] : i \in DOMAIN dl.calls}

(* A set is watched, or will be resumed by the login of this run: only     *)
(* the watchdog itself leaves alone the set that it takes from the queue.  *)
OnlyWatchdogAbandons ==
  [][dl.name # None /\ Watched /\ dl'.name # None /\ ~Watched'
       => dl.calls # <<>> /\ Head(dl.calls).do = "unwatch"]_dl

(* A download ends, complete or given up, unless it lost its watchdog,     *)
(* which happens in that one way only.                                     *)
DownloadEnds ==
  /\ OnlyWatchdogAbandons
  /\ \A l \in Langs : dl.name = l ~> (dl.name # l \/ (Free /\ ~Watched))
=============================================================================
