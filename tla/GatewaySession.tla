--------------------------- MODULE GatewaySession ----------------------------
(***************************************************************************)
(* The gateway exporter's admin session: gateway/client.py (fetch, log in, *)
(* the login throttle), gateway/main.py (how a poll ends), common/loop.py  *)
(* (how long it waits for the next) and the pinned connection of           *)
(* common/http.py.                                                         *)
(*                                                                         *)
(* The gateway is the environment.  It has one admin session, and a person *)
(* who logs in takes it from the exporter as the exporter takes it from    *)
(* the person.  Time is counted in units of a configuration's choosing.    *)
(***************************************************************************)
EXTENDS Integers

CONSTANTS
    Interval,     \* seconds between polls
    Cap,          \* the longest wait after a failed poll, before jitter
    Window,       \* relogin_min_seconds
    RequestTime,  \* the longest a request takes
    MaxExponent,  \* 20 in the code
    Horizon,      \* bound: ages past it are not told apart
    None          \* never happened

ASSUME GatewaySessionAssumption ==
    /\ Interval \in Nat \ {0} /\ Cap \in Nat \ {0} /\ Window \in Nat
    /\ RequestTime \in Nat /\ MaxExponent \in Nat
    /\ Horizon \in Nat /\ Window <= Horizon
    /\ None \notin Int

VARIABLES
    (* the gateway *)
    holder,     \* who has the session: "exporter", "person", or "nobody"
    accepts,    \* it accepts the exporter's credentials
    pinned,     \* its certificate is the pinned one
    calm,       \* no more trouble will come from outside
    (* the exporter *)
    pc,         \* what it does next
    delay,      \* while waiting: how long
    sinceLogin, \* the age of the last login attempt, or None
    failures,   \* consecutive failures, as far as the backoff counts
    conn,       \* a kept-alive connection is open
    published,  \* there is a snapshot
    (* history *)
    chain,      \* "failed": the last login attempt ended in a login error, and
                \* every poll since then was throttled
    sinceOut,   \* the age of the last time the exporter took a person's session
    startPinned \* the certificate was the pinned one when the poll began

gateway == <<holder, accepts, pinned, calm>>
vars == <<gateway, pc, delay, sinceLogin, failures, conn, published, chain, sinceOut,
          startPinned>>

Ages == (0 .. Horizon) \cup {None}

TypeOK ==
    /\ holder \in {"exporter", "person", "nobody"}
    /\ accepts \in BOOLEAN /\ pinned \in BOOLEAN /\ calm \in BOOLEAN
    /\ pc \in {"waiting", "status", "login", "again", "parse"}
    /\ delay \in Nat
    /\ sinceLogin \in Ages /\ sinceOut \in Ages
    /\ failures \in 0 .. MaxExponent
    /\ conn \in BOOLEAN /\ published \in BOOLEAN
    /\ chain \in {"none", "failed"}
    /\ startPinned \in BOOLEAN

Init ==
    /\ holder = "nobody" /\ accepts = TRUE /\ pinned = TRUE /\ calm = FALSE
    /\ pc = "waiting" /\ delay = 0 /\ sinceLogin = None /\ failures = 0
    /\ conn = FALSE /\ published = FALSE
    /\ chain = "none" /\ sinceOut = None /\ startPinned = TRUE

exporter == <<pc, delay, sinceLogin, failures, conn, published>>
history == <<chain, sinceOut, startPinned>>

Older(age, t) ==
    IF age = None THEN None ELSE IF age + t < Horizon THEN age + t ELSE Horizon

\* t seconds pass.
Elapse(t) ==
    /\ sinceLogin' = Older(sinceLogin, t)
    /\ sinceOut' = Older(sinceOut, t)

(***************************************************************************)
(* run_scrape_loop: the wait after a poll, with a jitter of a tenth.       *)
(***************************************************************************)
Jittered(d) == {t \in 0 .. 2 * d : 9 * d <= 10 * t /\ 10 * t <= 11 * d}

\* A mistake: the wait is not capped.
Uncapped(n) == Interval * 2 ^ n

Backoff(n) == IF Interval * 2 ^ n \in 1 .. Cap THEN Interval * 2 ^ n ELSE Cap

\* The poll is over: GatewayScraper closes the connection as the fetch ends.
Succeed ==
    /\ pc' = "waiting" /\ conn' = FALSE
    /\ published' = TRUE
    /\ failures' = 0
    /\ delay' \in Jittered(Interval)

\* Two mistakes: the exponent grows with every failure; only a fetch that
\* succeeds closes the connection.
FailUnbounded ==
    /\ pc' = "waiting" /\ conn' = FALSE
    /\ published' = FALSE
    /\ failures' = failures + 1
    /\ delay' \in Jittered(Backoff(failures'))
FailLeavesOpen ==
    /\ pc' = "waiting" /\ conn' = conn
    /\ published' = FALSE
    /\ failures' = IF failures < MaxExponent THEN failures + 1 ELSE failures
    /\ delay' \in Jittered(Backoff(failures'))

Fail ==
    /\ pc' = "waiting" /\ conn' = FALSE
    /\ published' = FALSE
    /\ failures' = IF failures < MaxExponent THEN failures + 1 ELSE failures
    /\ delay' \in Jittered(Backoff(failures'))

\* The wait is over.
StartPoll ==
    /\ pc = "waiting"
    /\ pc' = "status"
    /\ Elapse(delay) /\ delay' = 0
    /\ startPinned' = pinned
    /\ UNCHANGED <<gateway, failures, conn, published, chain>>

(***************************************************************************)
(* A request.  On a new connection the certificate is checked; an open one *)
(* is used as it is.                                                       *)
(***************************************************************************)
Reaches == conn \/ pinned

\* No response: the certificate is not the pinned one, or something went wrong.
NoResponse == ~Reaches \/ ~calm

\* Anything but the status page calls for a login.
NeedsLogin == holder # "exporter" \/ ~calm

\* The first look at the status page.
FetchStatus ==
    /\ pc = "status"
    /\ \E t \in 0 .. RequestTime : Elapse(t)
    /\ \/ /\ Reaches /\ holder = "exporter"
          /\ pc' = "parse" /\ conn' = FALSE
          /\ UNCHANGED <<delay, failures, published, chain>>
       \/ /\ Reaches /\ NeedsLogin
          /\ pc' = "login" /\ conn' = TRUE
          /\ UNCHANGED <<delay, failures, published, chain>>
       \/ /\ NoResponse
          /\ Fail
          /\ chain' = "none"
    /\ UNCHANGED <<gateway, startPinned>>

(***************************************************************************)
(* _login.                                                                 *)
(***************************************************************************)
\* A mistake: only an attempt that got a snapshot counts.
ThrottledIfUp == published /\ sinceLogin # None /\ sinceLogin < Window

Throttled == sinceLogin # None /\ sinceLogin < Window

\* A mistake: the suppressed attempt counts as one.
ThrottleCounts ==
    /\ pc = "login" /\ Throttled
    /\ Fail
    /\ sinceLogin' = 0
    /\ UNCHANGED <<gateway, history>>

\* The attempt is suppressed: LoginThrottled.
Throttle ==
    /\ pc = "login" /\ Throttled
    /\ Fail
    /\ UNCHANGED <<gateway, sinceLogin, history>>

\* The time t after an attempt that did, or did not, take a person's session.
AfterAttempt(t, takes) ==
    /\ sinceLogin' = Older(0, t)
    /\ sinceOut' = IF takes THEN Older(0, t) ELSE Older(sinceOut, t)

\* The redirect to at_a_glance: the session is the exporter's.
LoggedIn ==
    /\ pc = "login" /\ ~Throttled /\ Reaches /\ accepts
    /\ \E t \in 0 .. RequestTime : AfterAttempt(t, holder = "person")
    /\ holder' = "exporter"
    /\ pc' = "again" /\ conn' = TRUE
    /\ chain' = "none"
    /\ UNCHANGED <<accepts, pinned, calm, delay, failures, published, startPinned>>

\* The login form again: the credentials do not work.
Rejected ==
    /\ pc = "login" /\ ~Throttled /\ Reaches /\ ~accepts
    /\ \E t \in 0 .. RequestTime : AfterAttempt(t, FALSE)
    /\ Fail
    /\ chain' = "failed"
    /\ UNCHANGED <<gateway, startPinned>>

\* No answer to the login, or not one the code knows; the gateway may have acted
\* on it: the session it then made is one whose cookie nobody has.
NoLoginAnswer ==
    /\ pc = "login" /\ ~Throttled /\ NoResponse
    /\ \E t \in 0 .. RequestTime :
          \/ AfterAttempt(t, FALSE) /\ UNCHANGED holder
          \/ /\ Reaches /\ accepts
             /\ AfterAttempt(t, holder = "person")
             /\ holder' = "nobody"
    /\ Fail
    /\ chain' \in {"failed", "none"}
    /\ UNCHANGED <<accepts, pinned, calm, startPinned>>

\* The second look, after the login.
FetchAgain ==
    /\ pc = "again"
    /\ \E t \in 0 .. RequestTime : Elapse(t)
    /\ \/ /\ Reaches /\ holder = "exporter"
          /\ pc' = "parse" /\ conn' = FALSE
          /\ UNCHANGED <<delay, failures, published, chain>>
       \/ /\ Reaches /\ NeedsLogin
          /\ Fail
          /\ chain' = "failed"
       \/ /\ NoResponse
          /\ Fail
          /\ chain' = "none"
    /\ UNCHANGED <<gateway, startPinned>>

\* The page is parsed and published, or does not parse.
Parse ==
    /\ pc = "parse"
    /\ \/ Succeed
       \/ ~calm /\ Fail
    /\ chain' = "none"
    /\ UNCHANGED <<gateway, sinceLogin, sinceOut, startPinned>>

Exporter ==
    StartPoll \/ FetchStatus \/ Throttle \/ LoggedIn \/ Rejected \/ NoLoginAnswer
        \/ FetchAgain \/ Parse

(***************************************************************************)
(* The gateway, the people, and the operator.                              *)
(***************************************************************************)
\* A person logs in, or out; a session of either ends.
PersonLogsIn ==
    /\ ~calm /\ holder # "person"
    /\ holder' = "person"
    /\ UNCHANGED <<accepts, pinned, calm, exporter, history>>

SessionEnds ==
    /\ ~calm /\ holder # "nobody"
    /\ holder' = "nobody"
    /\ UNCHANGED <<accepts, pinned, calm, exporter, history>>

\* Somebody changes the password.
ChangePassword ==
    /\ ~calm /\ accepts' = ~accepts
    /\ UNCHANGED <<holder, pinned, calm, exporter, history>>

\* The gateway gets another certificate.
ChangeCertificate ==
    /\ ~calm /\ pinned' = FALSE
    /\ UNCHANGED <<holder, accepts, calm, exporter, history>>

\* An idle connection is dropped by the far side.
DropConnection ==
    /\ ~calm /\ conn' = FALSE
    /\ UNCHANGED <<gateway, pc, delay, sinceLogin, failures, published, history>>

\* The exporter restarts, with the fingerprint of the certificate of the day:
\* its cookie and its last attempt are gone.
Restart ==
    /\ ~calm
    /\ holder' = IF holder = "exporter" THEN "nobody" ELSE holder
    /\ pinned' = TRUE /\ startPinned' = TRUE
    /\ pc' = "waiting" /\ delay' = 0 /\ sinceLogin' = None /\ failures' = 0
    /\ conn' = FALSE /\ published' = FALSE
    /\ chain' = "none" /\ sinceOut' = None
    /\ UNCHANGED <<accepts, calm>>

\* From here on the gateway answers, takes the credentials, has the pinned
\* certificate and is left alone by people.
CalmDown ==
    /\ ~calm /\ accepts /\ pinned
    /\ calm' = TRUE
    /\ UNCHANGED <<holder, accepts, pinned, exporter, history>>

Environment ==
    PersonLogsIn \/ SessionEnds \/ ChangePassword \/ ChangeCertificate
        \/ DropConnection \/ Restart \/ CalmDown

Next == Exporter \/ Environment

Spec == Init /\ [][Next]_vars

\* The loop goes on: waits and requests end.
FairSpec == Spec /\ WF_vars(Exporter)

(***************************************************************************)
(* Properties.                                                             *)
(***************************************************************************)
Takes == holder = "person" /\ holder' # "person" /\ pc = "login"

\* A person using the GUI is not logged out every poll: between two times the
\* exporter takes a person's session there are relogin_min_seconds, whatever
\* became of the logins, unless the exporter was restarted.
PersonThrownOutRarely ==
    [][(Takes /\ Exporter) => (sinceOut = None \/ sinceOut >= Window)]_vars

Attempt == LoggedIn \/ Rejected \/ NoLoginAnswer

\* The throttle and the backoff together do not put off the next login after a
\* failed one for longer than the window and one capped wait.
GapIsBounded ==
    [][(Attempt /\ chain = "failed") =>
          10 * (sinceLogin - Window - 3 * RequestTime) <= 11 * Cap]_vars

\* Every poll checks the pinned certificate: nothing is published by a poll that
\* began after the gateway had got another one.
PinCheckedEveryPoll == [][pc = "parse" /\ published' => startPinned]_vars

\* Once the trouble is over the exporter gets its session and its snapshot back
\* for good: the throttle runs out and the backoff does not outlast it.
RecoversWhenCalm == calm ~> []published

\* client.py:15-17 gives the gap after any failed login as the window plus one
\* poll interval, about six minutes: here with a tenth of jitter on both.
GapIsSixMinutes ==
    [][(Attempt /\ chain = "failed") =>
          10 * sinceLogin <= 11 * (Window + Interval)]_vars
=============================================================================
