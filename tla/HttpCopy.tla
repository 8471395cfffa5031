------------------------------ MODULE HttpCopy ------------------------------
(***************************************************************************)
(* The asynchronous HTTP client (roadmap_httpcopy_async.c): a context for  *)
(* each transfer, which connects, sends its request (and a file, piece by  *)
(* piece), and reads the header and the body of the answer as they come.   *)
(*                                                                         *)
(* Texts are abstracted to the length the header announces, where the      *)
(* reads of the header were cut, and the number of bytes that came.  The   *)
(* decoder ends what it keeps for the next read by the length of the whole *)
(* read, not of what is left, so that the line a read was cut in or before *)
(* (unless it is the first) is spoilt by older text.  The layer has no     *)
(* timeout of its own: a client may abort.  Each client has one transfer   *)
(* at a time (a slot of the tile manager, the resource download, a request *)
(* of the speech provider).                                                *)
(***************************************************************************)
EXTENDS Integers

CONSTANTS
  Clients,
  Methods,      (* "get", "post" (which ignores Content-Length), "file"    *)
  MaxBytes      (* bound: bytes of a body, and of one read                 *)

ASSUME HttpCopyAssumption ==
  /\ Methods \subseteq {"get", "post", "file"}
  /\ MaxBytes \in Nat \ {0}

VARIABLE http

Unknown == -1      (* content_length without a header                      *)
NoSize  == -2      (* the client was told no size                          *)

Transfer ==
  [stage  : {"none", "connecting", "sending", "header", "body"},
   method : {"get", "post", "file"},
   length : Unknown .. MaxBytes,            (* content_length              *)
   got    : 0 .. 2 * MaxBytes,              (* download_size_current       *)
   sent   : Unknown .. MaxBytes,            (* Content-Length as sent      *)
   cut    : BOOLEAN,       (* a read ended at or in the Content-Length     *)
   connect: BOOLEAN,       (* the net layer has the context for a connect  *)
   watch  : {"none", "input", "output"},    (* ... the main loop           *)
   stale  : BOOLEAN,       (* a watch was left behind                      *)
   kept   : BOOLEAN,       (* a context was not freed                      *)
   (* What the client saw: the size it was told, the bytes it was handed,  *)
   (* progress, the end.                                                   *)
   size   : NoSize .. MaxBytes,
   handed : 0 .. 2 * MaxBytes,
   moving : BOOLEAN,
   told   : {"none", "done", "failed"}]

NoTransfer ==
  [stage |-> "none", method |-> "get", length |-> Unknown, got |-> 0,
   sent |-> Unknown, cut |-> FALSE,
   connect |-> FALSE, watch |-> "none", stale |-> FALSE, kept |-> FALSE,
   size |-> NoSize, handed |-> 0, moving |-> FALSE, told |-> "none"]

(* The client is told, and the context is freed.                           *)
Ended(t, end) == [t EXCEPT !.stage = "none", !.moving = FALSE, !.told = end]

Fails(t) == Ended(t, "failed")

Silent(t) == [t EXCEPT !.watch = "none"]       (* roadmap_main_remove_input *)

(***************************************************************************)
(* The answer.                                                             *)
(***************************************************************************)

(* Mutant: an answer is complete when the header announced anything.       *)
MutCheckContentLength(t) == t.method = "post" \/ t.length > 0

_check_content_length(t) ==
  t.method = "post" \/ (t.length > 0 /\ t.got = t.length)

Finished(t, res) == res <= 0 \/ (t.got >= t.length /\ t.method # "post")

End(t, res) ==
  IF res >= 0 /\ _check_content_length(t) THEN Ended(t, "done") ELSE Fails(t)

(* res: bytes of the body that were read, 0 at its end, -1 for an error.   *)
Conclude(t, res) == IF Finished(t, res) THEN End(Silent(t), res) ELSE t

(* Part of the body came.  The answer to an upload is kept in a buffer,    *)
(* which may be too small.                                                 *)
Take(t, res) ==
  LET more == [t EXCEPT !.got = @ + res]
  IN  IF t.method = "file"
      THEN {Conclude(more, res), Conclude(more, -1)}
      ELSE {Conclude([more EXCEPT !.handed = @ + res], res)}

(* The header is complete, with what followed it in the same read.  The    *)
(* client may refuse the size.                                             *)
HeaderRead(t, length, res) ==
  LET known == [t EXCEPT !.stage = "body", !.length = length]
      sized == [known EXCEPT !.size = length]
  IN  IF t.method = "file"
      THEN IF res = 0 THEN {known} ELSE Take(known, res)
      ELSE {Conclude(sized, -1)} \cup (IF res = 0 THEN {sized} ELSE Take(sized, res))

(* Mutant: the transfer goes on after it was told to be done.              *)
MutNoContent(t) == [t EXCEPT !.told = "done"]

(* "Content-Length: 0": done, and the context is not freed.                *)
NoContent(t) == [Ended(Silent(t), "done") EXCEPT !.kept = TRUE]

(***************************************************************************)
(* The request.                                                            *)
(***************************************************************************)

roadmap_http_async_prepare_input(t) ==
  [t EXCEPT !.stage = "header", !.watch = "input", !.got = 0, !.length = Unknown]

roadmap_http_async_prepare_output(t) ==
  [t EXCEPT !.stage = "sending", !.watch = "output", !.got = 0, !.length = Unknown]

(* What the decoder takes for the length.                                  *)
Lengths(t) ==
  IF t.method = "post" THEN {Unknown}
  ELSE IF t.cut THEN Unknown .. MaxBytes ELSE {t.sent}

(* No socket, or the request cannot be written; or the client sees the     *)
(* first progress, of 0 bytes.                                             *)
roadmap_http_async_connect_cb(t) ==
  LET answered == [t EXCEPT !.connect = FALSE]
      sent     == IF t.method = "file" THEN roadmap_http_async_prepare_output(answered)
                  ELSE roadmap_http_async_prepare_input(answered)
  IN  {Fails(answered), [sent EXCEPT !.moving = TRUE]}

-----------------------------------------------------------------------------
Init == http = [c \in Clients |-> NoTransfer]

Becomes(c, ts) == \E t \in ts : http' = [http EXCEPT ![c] = t]

(* roadmap_http_async_copy, _post and _post_file: the file cannot be read, *)
(* its size is refused or there is no connection; or the connect is under  *)
(* way, or over before it is returned from.                                *)
Ask(c, method, sent) ==
  /\ http[c].stage = "none"
  /\ ~http[c].connect
  /\ LET new == [NoTransfer EXCEPT !.stage = "connecting", !.method = method,
                                   !.connect = TRUE, !.sent = sent,
                                   !.stale = http[c].stale, !.kept = http[c].kept]
     IN  Becomes(c, {Fails([new EXCEPT !.connect = FALSE]), new}
                      \cup roadmap_http_async_connect_cb(new))

Connected(c) ==
  /\ http[c].connect
  /\ Becomes(c, roadmap_http_async_connect_cb(http[c]))

Sent(t) == roadmap_http_async_prepare_input(Silent(t))

(* A part of the file is sent, or its end; where the file cannot be read   *)
(* or the socket not written, the watch is left.                           *)
roadmap_http_async_write_cb(c) ==
  /\ http[c].watch = "output"
  /\ Becomes(c, {http[c], Sent(http[c]), [Fails(Silent(http[c])) EXCEPT !.stale = TRUE]})

(* A part of the header (which may end at or in its Content-Length), an    *)
(* error, or the end of the header and the first bytes of a body.  A cut   *)
(* at the empty line makes the header end later, or never.                 *)
has_data_header(c) ==
  /\ http[c].stage = "header"
  /\ \/ \E cut \in {FALSE, http[c].sent # Unknown} :
          Becomes(c, {[http[c] EXCEPT !.cut = @ \/ cut]})
     \/ Becomes(c, {Conclude(http[c], -1)})
     \/ 0 \in Lengths(http[c]) /\ Becomes(c, {NoContent(http[c])})
     \/ \E length \in Lengths(http[c]) \ {0}, res \in 0 .. MaxBytes :
          Becomes(c, HeaderRead(http[c], length, res))

(* At most the rest of the announced length is read; a length that is not  *)
(* known reads as much as there is.                                        *)
has_data_body(c) ==
  LET t     == http[c]
      limit == IF t.length = Unknown THEN MaxBytes ELSE t.length - t.got
  IN  /\ t.stage = "body"
      /\ \/ \E res \in {-1, 0} : Becomes(c, {Conclude(t, res)})
         \/ \E res \in 1 .. limit :
              /\ t.got + res <= 2 * MaxBytes
              /\ Becomes(c, Take(t, res))

(* Mutant: a transfer may be aborted as soon as it was asked for.          *)
MutCopyAbort(c) ==
  /\ http[c].method = "get"
  /\ http[c].stage # "none"
  /\ Becomes(c, {[Silent(http[c]) EXCEPT !.stage = "none", !.moving = FALSE]})

(* The sweep of the tile manager: it knows a time limit only after the     *)
(* first progress.                                                         *)
roadmap_http_async_copy_abort(c) ==
  /\ http[c].method = "get"
  /\ http[c].moving
  /\ Becomes(c, {[Silent(http[c]) EXCEPT !.stage = "none", !.moving = FALSE]})

Next ==
  \E c \in Clients :
    \/ \E method \in Methods, sent \in Unknown .. MaxBytes : Ask(c, method, sent)
    \/ Connected(c)
    \/ roadmap_http_async_write_cb(c)
    \/ has_data_header(c)
    \/ has_data_body(c)
    \/ roadmap_http_async_copy_abort(c)

Spec == Init /\ [][Next]_http

-----------------------------------------------------------------------------
(***************************************************************************)
(* Properties.                                                             *)
(***************************************************************************)

(* Contexts have their types.                                              *)
TypeOK == http \in [Clients -> Transfer]

Downloaded(t) == t.told = "done" /\ t.method = "get"

(* What is told to be done is complete: over any split of the answer into  *)
(* header and reads the client was handed the length it was told, or       *)
(* nothing and no size; and it is what the server announced, unless the    *)
(* header was cut at its Content-Length.                                   *)
DoneIsComplete ==
  \A c \in Clients : Downloaded(http[c]) =>
    /\ http[c].handed = IF http[c].size = NoSize THEN 0 ELSE http[c].size
    /\ http[c].cut \/ http[c].handed = http[c].sent

(* "we're still parsing headers and may have left overs to append"         *)
(* (roadmap_httpcopy_async.c:232): however the header comes, a download    *)
(* that is told to be done is the whole file.                              *)
DoneIsWhole == \A c \in Clients : Downloaded(http[c]) => http[c].handed >= http[c].sent

(* The main loop and the net layer hold a context only while it lives, and *)
(* for what it waits for; a transfer that lives waits for something.       *)
Awaited ==
  \A c \in Clients :
    /\ http[c].connect <=> http[c].stage = "connecting"
    /\ http[c].watch = CASE http[c].stage \in {"none", "connecting"} -> "none"
                         [] http[c].stage = "sending"                -> "output"
                         [] http[c].stage \in {"header", "body"}     -> "input"

(* Only an upload that fails while it is sent leaves its watch in the      *)
(* table of the main loop, whose entries are few.                          *)
OnlyFailedUploadsLeaveWatches ==
  [][\A c \in Clients :
       ~http[c].stale /\ http'[c].stale
         => http[c].stage = "sending" /\ http'[c].told = "failed"]_http

(* Contexts and watches go together, at rest and when they are left.       *)
ContextIsAwaited == [](TypeOK /\ Awaited) /\ OnlyFailedUploadsLeaveWatches

Seen(t) ==
  CASE t.stage = "none"                -> "idle"
    [] t.stage # "none" /\ ~t.moving   -> "asked"
    [] t.stage # "none" /\ t.moving    -> "moving"

Contract == INSTANCE HttpTransfer WITH
  stage <- [c \in Clients |-> Seen(http[c])],
  told  <- [c \in Clients |-> http[c].told]

(* The layer keeps its promise: one end for each transfer, none after it   *)
(* was given up, and progress only in between.                             *)
ToldOnce == Contract!Spec
=============================================================================
