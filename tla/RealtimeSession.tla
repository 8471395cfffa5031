--------------------------- MODULE RealtimeSession ---------------------------
(***************************************************************************)
(* The Realtime service (Realtime/Realtime.c): it logs the user in, sends  *)
(* the periodic report, keeps the login alive, tests new login details and *)
(* logs out, all over one session of the web service client, of which it   *)
(* knows only what TransQueue says.                                        *)
(*                                                                         *)
(* The statics and gs_CI are the record rt.  A C function that changes     *)
(* them is an operator from rt to the set of records it may leave; one     *)
(* that returns a BOOL, to outcomes [ok, rt].  The session is idle while   *)
(* it calls back, so what a callback asks for starts at once or is refused.*)
(*                                                                         *)
(* Left out: the handlers of network events that only the Android and      *)
(* iPhone builds raise, and the parsers' other effects on the map.         *)
(***************************************************************************)
EXTENDS Naturals, Sequences

CONSTANTS
  Accounts,     (* user names with their passwords and nicknames           *)
  NoAccount,    (* empty login details                                     *)
  Posts,        (* "post", "trip": other requests of the user              *)
  NoRequest,    (* active of an idle session                               *)
  MaxQueue      (* TRANSACTION_QUEUE_SIZE                                  *)

VARIABLE rt

ASSUME RealtimeSessionAssumption ==
  /\ NoAccount \notin Accounts
  /\ Posts \subseteq {"post", "trip"}
  /\ MaxQueue \in Nat

NoType == "none"
Net == INSTANCE TransQueue WITH None <- NoRequest

(* "login" and "test" are both RTNet_Login, with one callback or the other;*)
(* "profile" stands for creating an account too.                           *)
Kinds == {"login", "test", "report", "keepalive", "logout", "profile", "register"} \cup Posts

TypeOf(kind) ==
  CASE kind \in {"login", "test"} -> "login"
    [] kind = "keepalive"         -> "keepalive"
    [] OTHER                      -> NoType

Request == [id : Kinds, type : {"login", "keepalive", NoType}]

Service ==
  [running    : BOOLEAN,                    (* gs_bRunning                 *)
   timers     : BOOLEAN,                    (* the two periodic timers     *)
   status     : {"idle", "active", "stopping"},  (* eTransactionStatus     *)
   loggedIn   : BOOLEAN,                    (* bLoggedIn                   *)
   wrong      : BOOLEAN,                    (* LastError: wrong name or pw *)
   details    : Accounts \cup {NoAccount},  (* gs_LoginDetails             *)
   sent       : Accounts \cup {NoAccount},  (* UserNm, UserPW, UserNk      *)
   test       : BOOLEAN,                    (* gs_pfnOnLoginTestResult set *)
   relogin    : BOOLEAN,                    (* gs_pfnOnLoginAfterRegister  *)
   recent     : BOOLEAN,                    (* gs_LastMsgTime is recent    *)
   waiting    : BOOLEAN,                    (* gs_pfnOnUserLoggedIn set    *)
   loginTimer : BOOLEAN,                    (* Realtime_LoginCallback due  *)
   stopped    : BOOLEAN,                    (* the session's trans_stopping*)
   net        : [active : Request \cup {NoRequest}, queue : Seq(Request)]]

(***************************************************************************)
(* Resets, and requests to the session.                                    *)
(***************************************************************************)

TransactionQueue_Clear(s) == [s EXCEPT !.net = Net!Cleared(@)]

ResetTransaction(s) == [s EXCEPT !.status = "idle"]

ResetLogin(s) == [ResetTransaction(s) EXCEPT !.loggedIn = FALSE, !.sent = NoAccount]

(* Mutant: the requests of the old login stay.                             *)
MutResetLoginState(s) == ResetLogin(s)

ResetLoginState(s) == TransactionQueue_Clear(ResetLogin(s))

FullReset(s) == [ResetLoginState(s) EXCEPT !.wrong = FALSE, !.test = FALSE]

Yes(s) == [ok |-> TRUE,  rt |-> s]
No(s)  == [ok |-> FALSE, rt |-> s]

(* The session is asked for a request of this kind.                        *)
Send(s, kind) ==
  LET r    == [id |-> kind, type |-> TypeOf(kind)]
      left == [s EXCEPT !.stopped = @ /\ Net!Busy(Net!Replaced(s.net, r))]
  IN  {Yes([left EXCEPT !.net = n]) : n \in Net!Accept(s.net, r)}
        \cup {No([left EXCEPT !.net = n]) : n \in Net!Refuse(s.net, r)}

(***************************************************************************)
(* Logging in.                                                             *)
(***************************************************************************)

(* Without details there is nothing to send: the registration dialog is    *)
(* shown, or nothing happens, and the caller is told TRUE.                 *)
Login(s, kind, showRegistration) ==
  CASE s.details # NoAccount ->
         {[o EXCEPT !.rt.sent = IF o.ok THEN s.details ELSE NoAccount] : o \in Send(s, kind)}
    [] s.details = NoAccount /\ showRegistration  -> {Yes([s EXCEPT !.relogin = TRUE])}
    [] s.details = NoAccount /\ ~showRegistration -> {Yes(s)}

AlreadyFailed(s) == s.wrong /\ s.details = s.sent

TestLoginDetailsCompleted(s) == [s EXCEPT !.test = FALSE, !.status = "idle"]

TestLoginMain(s) == Login([s EXCEPT !.status = "active", !.wrong = FALSE], "test", FALSE)

TestLoginDetails(s) ==
  CASE s.loggedIn /\ s.details = s.sent -> {s}
    [] ~(s.loggedIn /\ s.details = s.sent) /\ AlreadyFailed(s) -> {TestLoginDetailsCompleted(s)}
    [] ~(s.loggedIn /\ s.details = s.sent) /\ ~AlreadyFailed(s) ->
         {IF o.ok THEN o.rt ELSE TestLoginDetailsCompleted(o.rt)
            : o \in TestLoginMain(ResetLoginState(s))}

VerifyLoginDetails(s) ==
  IF s.test THEN {s} ELSE TestLoginDetails([s EXCEPT !.test = TRUE])

(***************************************************************************)
(* Stopping.                                                               *)
(***************************************************************************)

(* RTNet_AbortTransaction without bStopNow: the transaction that is under  *)
(* way ends as aborted when its connect or its data arrives.               *)
AbortTransaction(s) ==
  [s EXCEPT !.status  = IF Net!Busy(s.net) THEN "stopping" ELSE "idle",
            !.stopped = Net!Busy(s.net)]

Stop(s, enableLogout) ==
  LET quiet   == [s EXCEPT !.timers = FALSE]
      cleared == IF s.loggedIn THEN TransactionQueue_Clear(quiet) ELSE quiet
      halted(x) == [IF x.status = "idle" THEN FullReset(x) ELSE AbortTransaction(x)
                      EXCEPT !.running = FALSE]
  IN  CASE ~s.running -> {s}
        [] s.running /\ s.loggedIn /\ enableLogout ->
             {IF o.ok THEN o.rt ELSE halted(o.rt) : o \in Send(cleared, "logout")}
        [] s.running /\ ~(s.loggedIn /\ enableLogout) -> {halted(cleared)}

(***************************************************************************)
(* The end of a transaction.                                               *)
(***************************************************************************)

Results == {"ok", "wrong", "unknown_login", "failed"}

(* Mutant: the queue waits for the next transaction.                       *)
MutProcessSingleItem(s) == {s}

(* The first request of the queue is started, or gone if that fails.       *)
ProcessSingleItem(s) ==
  IF s.net.queue = <<>> THEN {s}
  ELSE {o.rt : o \in Send([s EXCEPT !.net = Net!Without(@)], Net!First(s.net).id)}

(* A test of login details comes before the queue.                         *)
NextTransaction(s) ==
  IF s.test THEN TestLoginDetails(s)
  ELSE IF s.loggedIn THEN ProcessSingleItem(s) ELSE {s}

Announce(s) == [s EXCEPT !.loginTimer = @ \/ (s.status = "idle" /\ s.loggedIn)]

(* ResetTransaction leaves the status idle, also when a request from the   *)
(* queue is started.  A failure may be one too many, which stops the       *)
(* service, as does the lack of a network.                                 *)
OnTransactionCompleted(s, res) ==
  LET seen      == [s EXCEPT !.wrong = (res = "wrong")]
      checked   == IF res = "unknown_login" THEN ResetLoginState(seen) ELSE seen
      survivors == IF res = "failed" THEN {checked} \cup Stop(checked, FALSE) ELSE {checked}
  IN  IF s.status = "stopping" THEN {TransactionQueue_Clear(ResetTransaction(seen))}
      ELSE {Announce(x) : x \in UNION {NextTransaction(ResetTransaction(y)) : y \in survivors}}

(* The report: sent, or there is nothing to send, or the session refuses   *)
(* it; the first part of a long one has then set gs_LastMsgTime.           *)
SendAllMessagesTogether(s, afterLogin) ==
  LET tried   == Send(s, "report")
      refused == {[o.rt EXCEPT !.recent = part] : o \in {p \in tried : ~p.ok},
                                                  part \in {s.recent, TRUE}}
      unsent  == refused \cup {[s EXCEPT !.wrong = FALSE]}
  IN  {Yes([o.rt EXCEPT !.recent = TRUE]) : o \in {p \in tried : p.ok}}
        \cup {No(x) : x \in IF afterLogin
                            THEN UNION {OnTransactionCompleted(y, "ok") : y \in unsent}
                            ELSE unsent}

After(outcomes) == {o.rt : o \in outcomes}

OnCompleted_Login(s, res) ==
  IF res = "ok" /\ s.loggedIn
  THEN {[x EXCEPT !.loginTimer = TRUE] : x \in After(SendAllMessagesTogether(s, TRUE))}
  ELSE OnTransactionCompleted(s, res)

OnCompleted_TestLogin(s, res) ==
  LET tested == [TestLoginDetailsCompleted(s) EXCEPT !.loginTimer = @ \/ s.loggedIn]
  IN  IF res = "ok" THEN After(SendAllMessagesTogether(tested, TRUE)) ELSE {tested}

(* A long report goes on with a further part.                              *)
OnCompleted_Report(s, res) ==
  OnTransactionCompleted(s, res)
    \cup (IF res = "ok"
          THEN UNION {IF o.ok THEN {o.rt} ELSE OnTransactionCompleted(o.rt, "failed")
                        : o \in Send(s, "report")}
          ELSE {})

(* A changed profile is logged in with at once: account is what the dialog *)
(* shows.                                                                  *)
OnCompleted_Profile(s, res, account) ==
  LET done == OnTransactionCompleted(s, res)
  IN  IF res = "ok"
      THEN UNION {VerifyLoginDetails([x EXCEPT !.details = account]) : x \in done}
      ELSE done

(* The server made up an account.                                          *)
OnCompleted_Register(s, res, account) ==
  LET done == [ResetTransaction(s) EXCEPT !.relogin = FALSE]
      new  == [ResetLoginState(done) EXCEPT !.details = account]
  IN  CASE res # "ok"              -> {done}
        [] res = "ok" /\ s.relogin  -> After(Login(new, "login", FALSE))
        [] res = "ok" /\ ~s.relogin -> After(TestLoginMain(new))

(* A trip request that failed ends without OnTransactionCompleted.         *)
OnCompleted_Trip(s, res) == IF res = "ok" THEN OnTransactionCompleted(s, res) ELSE {s}

OnCompleted_Logout(s) == {FullReset(s)}

(* The session calls back.                                                 *)
Completed(s, res, account) ==
  LET done == [s EXCEPT !.net = Net!Ended(@), !.stopped = FALSE]
      kind == s.net.active.id
  IN  CASE kind = "login"    -> OnCompleted_Login(done, res)
        [] kind = "test"     -> OnCompleted_TestLogin(done, res)
        [] kind = "report"   -> OnCompleted_Report(done, res)
        [] kind = "profile"  -> OnCompleted_Profile(done, res, account)
        [] kind = "register" -> OnCompleted_Register(done, res, account)
        [] kind = "trip"     -> OnCompleted_Trip(done, res)
        [] kind = "logout"   -> OnCompleted_Logout(done)
        [] kind \in {"keepalive", "post"} -> OnTransactionCompleted(done, res)

(***************************************************************************)
(* The periodic report.                                                    *)
(***************************************************************************)

TransactionStarted(s) ==
  IF s.running /\ ~s.loggedIn THEN Login(s, "login", TRUE)
  ELSE SendAllMessagesTogether(s, FALSE)

StartTransaction(s) ==
  IF AlreadyFailed(s) THEN {s}
  ELSE {IF o.ok THEN o.rt ELSE ResetTransaction(o.rt)
          : o \in TransactionStarted([s EXCEPT !.status = "active"])}

(* RTNet_Watchdog: it may find that the transaction has timed out.         *)
TimedOut(s) == Completed(s, "failed", NoAccount)

(* The rest of a tick; cycle: it is time for a report (or for a login), by *)
(* Realtime_GetCycleType and outside of the quiet error mode.              *)
Tick(s, cycle) == IF s.status = "idle" /\ cycle THEN StartTransaction(s) ELSE {s}

Start(s) ==
  IF s.running THEN {s}
  ELSE UNION {Tick([FullReset(s) EXCEPT !.running = TRUE, !.timers = TRUE], cycle)
                : cycle \in BOOLEAN}

(***************************************************************************)
(* Timers.                                                                 *)
(***************************************************************************)

OnTimer(cycle) ==
  /\ rt.timers
  /\ rt' \in Tick(rt, cycle)

(* The same, when the watchdog ends the transaction first.                 *)
OnTimer_TimedOut(cycle) ==
  /\ rt.timers
  /\ Net!Busy(rt.net)
  /\ rt' \in UNION {Tick(x, cycle) : x \in TimedOut(rt)}

(* Mutant: a service that is not logged in is not kept alive.              *)
MutKeepAliveTimer ==
  /\ rt.timers
  /\ rt.loggedIn
  /\ ~rt.recent
  /\ rt' \in After(Send(rt, "keepalive"))

OnKeepAliveTimer ==
  /\ rt.timers
  /\ ~rt.recent
  /\ rt' \in After(Send(rt, "keepalive"))

(* gs_iKeepAliveSeconds pass without a report.                             *)
MessageAges ==
  /\ rt.recent
  /\ rt' = [rt EXCEPT !.recent = FALSE]

LoginCallback ==
  /\ rt.loginTimer
  /\ rt' = [rt EXCEPT !.loginTimer = FALSE, !.waiting = FALSE]

(***************************************************************************)
(* The session calls parsers and callbacks.                                *)
(***************************************************************************)

OnLoginResponse ==
  /\ Net!Busy(rt.net)
  /\ rt.net.active.id \in {"login", "test"}
  /\ ~rt.stopped
  /\ rt' = [rt EXCEPT !.loggedIn = TRUE]

OnLogOutResponse ==
  /\ Net!Busy(rt.net)
  /\ rt.net.active.id = "logout"
  /\ ~rt.stopped
  /\ rt' = [rt EXCEPT !.loggedIn = FALSE]

SessionEnds(res, account) ==
  /\ Net!Busy(rt.net)
  /\ rt.stopped => res = "failed"
  /\ rt' \in Completed(rt, res, account)

(***************************************************************************)
(* The user, and modules that wait for a login.                            *)
(***************************************************************************)

(* OnSettingsChanged_EnableDisable                                         *)
Enable  == ~rt.running /\ rt' \in Start(rt)
Disable == rt.running /\ rt' \in Stop(rt, TRUE)

(* roadmap_login_on_login                                                  *)
SignIn(account) == rt' \in VerifyLoginDetails([rt EXCEPT !.details = account])

(* Realtime_CreateAccount, Realtime_UpdateProfile                          *)
UpdateProfile ==
  rt' \in After(Send([rt EXCEPT !.wrong = FALSE, !.status = "active"], "profile"))

(* roadmap_login_on_signup_skip                                            *)
RandomUserRegister ==
  /\ ~rt.loggedIn
  /\ rt' \in After(Send([rt EXCEPT !.sent = NoAccount], "register"))

(* The nickname was changed.                                               *)
Relogin ==
  /\ rt.loggedIn
  /\ \E account \in Accounts :
       rt' \in After(Login([ResetLoginState(rt) EXCEPT !.details = account], "login", TRUE))

Ask(kind) == rt' \in After(Send(rt, kind))

NotifyOnLogin ==
  /\ ~rt.waiting
  /\ rt' = Announce([rt EXCEPT !.waiting = TRUE])

-----------------------------------------------------------------------------
Init ==
  \E account \in Accounts \cup {NoAccount} :
    rt = [running |-> FALSE, timers |-> FALSE, status |-> "idle", loggedIn |-> FALSE,
          wrong |-> FALSE, details |-> account, sent |-> NoAccount, test |-> FALSE,
          relogin |-> FALSE, recent |-> FALSE, waiting |-> FALSE, loginTimer |-> FALSE,
          stopped |-> FALSE, net |-> Net!Idle]

TimerNext ==
  \/ \E cycle \in BOOLEAN : OnTimer(cycle)
  \/ \E cycle \in BOOLEAN : OnTimer_TimedOut(cycle)
  \/ OnKeepAliveTimer
  \/ MessageAges
  \/ LoginCallback

SessionNext ==
  \/ OnLoginResponse
  \/ OnLogOutResponse
  \/ \E res \in Results, account \in Accounts : SessionEnds(res, account)

UserNext ==
  \/ Enable
  \/ Disable
  \/ \E account \in Accounts : SignIn(account)
  \/ UpdateProfile
  \/ RandomUserRegister
  \/ Relogin
  \/ \E kind \in Posts : Ask(kind)
  \/ NotifyOnLogin

Next == TimerNext \/ SessionNext \/ UserNext

Spec == Init /\ [][Next]_rt

(***************************************************************************)
(* Timers of a single-threaded main loop run, and time passes.  The server *)
(* may be silent for ever: the watchdog ends a transaction.  A tick sooner *)
(* or later finds that it is time for a report.                            *)
(***************************************************************************)
Fairness ==
  /\ WF_rt(OnTimer(TRUE))
  /\ SF_rt(OnTimer_TimedOut(TRUE))
  /\ WF_rt(OnKeepAliveTimer)
  /\ WF_rt(MessageAges)
  /\ WF_rt(LoginCallback)

FairSpec == Spec /\ Fairness

-----------------------------------------------------------------------------
(***************************************************************************)
(* Properties.                                                             *)
(***************************************************************************)

(* The statics have their types, and the queue fits.                       *)
TypeOK == rt \in Service /\ Len(rt.net.queue) <= MaxQueue

Active == IF Net!Busy(rt.net) THEN {rt.net.active.id} ELSE {}
Queued == {rt.net.queue[i].id : i \in 1 .. Len(rt.net.queue)}

(* When a login is given up, by the server, for other details or by the    *)
(* user, what was queued under it is thrown away and never sent under the  *)
(* next one; an answered logout ends the login by itself.                  *)
OldLoginForgotten ==
  /\ []TypeOK
  /\ [][rt.loggedIn /\ ~rt.loggedIn' /\ "logout" \notin Active
          => Queued' \subseteq {"login", "test"}]_rt

(* Nothing more is asked of the service, and its transactions can be       *)
(* started, whatever becomes of them.                                      *)
UserLeavesItAlone == <>[][~UserNext]_rt
NetworkUsable     == []<>Net!Busy(rt.net)

(* A service that runs with login details does not wedge: eTransactionStatus *)
(* may say that a transaction is under way when none is (a trip request    *)
(* failed, the registration dialog was closed, a request was refused), but *)
(* the keep-alive ends such a pause, and logins or reports go on.          *)
KeepsTrying ==
  UserLeavesItAlone /\ <>[](rt.timers /\ rt.details # NoAccount)
    => []<>(rt.status = "idle" \/ Active \cap {"login", "test", "report"} # {})

(* A test of login details is answered, whatever replaces the login it     *)
(* made, unless the details are those of the current login.                *)
TestEnds ==
  UserLeavesItAlone /\ NetworkUsable =>
    (rt.test /\ rt.timers ~> ~rt.test \/ ~rt.timers \/ (rt.loggedIn /\ rt.details = rt.sent))

(* A request of the user that waits in the queue leaves it while the login *)
(* lasts, although an idle session never looks at its queue by itself.     *)
QueueServed ==
  UserLeavesItAlone /\ NetworkUsable =>
    \A kind \in Posts :
      rt.timers /\ rt.loggedIn /\ ~rt.test /\ kind \in Queued
        ~> ~rt.timers \/ ~rt.loggedIn \/ rt.test \/ kind \notin Queued

(* Who waits for a login hears of it, also who asked while a transaction   *)
(* was under way.                                                          *)
LoginNotified ==
  UserLeavesItAlone /\ NetworkUsable =>
    (rt.waiting /\ rt.loggedIn /\ rt.timers ~> ~rt.waiting \/ ~rt.loggedIn \/ ~rt.timers)

(* Nobody waits for ever for the single-slot callbacks and the queue.      *)
Answered == TestEnds /\ QueueServed /\ LoginNotified
=============================================================================
