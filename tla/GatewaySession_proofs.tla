------------------------ MODULE GatewaySession_proofs ------------------------
(***************************************************************************)
(* Proofs about GatewaySession, for any intervals, windows and request     *)
(* times.                                                                  *)
(***************************************************************************)
EXTENDS GatewaySession, TLAPS

\* A wait that begins within the window, or within two requests, of an attempt.
LEMMA WaitArithmetic ==
    ASSUME NEW before \in Nat, NEW after \in Nat, NEW wait \in Nat,
           NEW window \in Nat, NEW request \in Nat, NEW cap \in Nat,
           before < window \/ before <= 2 * request,
           after <= before + wait, 10 * wait <= 11 * cap
    PROVE  10 * (after - window - 2 * request) <= 11 * cap
OBVIOUS

\* One request later.
LEMMA RequestArithmetic ==
    ASSUME NEW before \in Nat, NEW after \in Nat, NEW t \in Nat,
           NEW window \in Nat, NEW request \in Nat, NEW cap \in Nat,
           t <= request, after <= before + t,
           10 * (before - window - 2 * request) <= 11 * cap
    PROVE  10 * (after - window - 3 * request) <= 11 * cap
OBVIOUS

USE GatewaySessionAssumption

\* A wait after a failed poll is at most the cap and a tenth.
LEMMA BackoffBound ==
    ASSUME NEW n, NEW t \in Jittered(Backoff(n))
    PROVE  t \in Nat /\ 10 * t <= 11 * Cap
<1>1. Backoff(n) \in 1 .. Cap
  BY DEF Backoff
<1>2. QED
  BY <1>1 DEF Jittered

LEMMA IntervalBound ==
    ASSUME NEW t \in Jittered(Interval)
    PROVE  t \in Nat
BY DEF Jittered

LEMMA OlderFacts ==
    ASSUME NEW age \in Ages, NEW t \in Nat
    PROVE  /\ Older(age, t) \in Ages
           /\ (Older(age, t) = None) <=> (age = None)
           /\ age # None => Older(age, t) <= age + t
BY DEF Older, Ages

\* Ages keep their order, and one past the window stays past it.
LEMMA OlderOrder ==
    ASSUME NEW a \in Ages, NEW b \in Ages, NEW t \in Nat, a # None, b # None, a <= b
    PROVE  Older(a, t) <= Older(b, t)
BY DEF Older, Ages

-----------------------------------------------------------------------------
\* An attempt is at least as recent as the last time it took a session.
OutAfterLogin == sinceOut # None => (sinceLogin # None /\ sinceLogin <= sinceOut)

\* A connection is of the poll it serves, and a certificate only gets worse.
Pins ==
    /\ pc \in {"waiting", "status"} => ~conn
    /\ (pc # "waiting" /\ pinned) => startPinned
    /\ pc \in {"login", "again", "parse"} => startPinned

\* The age of the last attempt along the polls that follow it.
Gap ==
    /\ chain = "failed" =>
          /\ sinceLogin # None
          /\ pc = "waiting" => /\ sinceLogin < Window \/ sinceLogin <= 2 * RequestTime
                               /\ 10 * delay <= 11 * Cap
          /\ pc = "status" =>
                10 * (sinceLogin - Window - 2 * RequestTime) <= 11 * Cap
          /\ pc = "login" =>
                10 * (sinceLogin - Window - 3 * RequestTime) <= 11 * Cap
    /\ pc = "again" => sinceLogin # None /\ sinceLogin <= RequestTime

IInv == TypeOK /\ OutAfterLogin /\ Pins /\ Gap

LEMMA InitIInv == ASSUME Init PROVE IInv
<1>1. TypeOK
  <2>1. None \in Ages /\ 0 \in 0 .. MaxExponent
    BY DEF Ages
  <2>2. QED
    BY <2>1 DEF Init, TypeOK
<1>2. OutAfterLogin
  BY DEF Init, OutAfterLogin
<1>3. Pins
  BY DEF Init, Pins
<1>4. Gap
  BY DEF Init, Gap
<1>5. QED
  BY <1>1, <1>2, <1>3, <1>4 DEF IInv

\* How a failed poll leaves the exporter.
LEMMA FailFacts ==
    ASSUME TypeOK, Fail
    PROVE  /\ pc' = "waiting" /\ conn' = FALSE /\ published' = FALSE
           /\ failures' \in 0 .. MaxExponent
           /\ delay' \in Nat /\ 10 * delay' <= 11 * Cap
BY BackoffBound DEF Fail, TypeOK

\* Time passes.
LEMMA ElapseFacts ==
    ASSUME TypeOK, OutAfterLogin, NEW t \in Nat, Elapse(t)
    PROVE  /\ sinceLogin' \in Ages /\ sinceOut' \in Ages
           /\ (sinceLogin' = None) <=> (sinceLogin = None)
           /\ sinceLogin # None => sinceLogin' <= sinceLogin + t
           /\ OutAfterLogin'
<1>1. sinceLogin \in Ages /\ sinceOut \in Ages
  BY DEF TypeOK
<1>2. /\ sinceLogin' = Older(sinceLogin, t)
      /\ sinceOut' = Older(sinceOut, t)
  BY DEF Elapse
<1>3. OutAfterLogin'
  BY <1>1, <1>2, OlderFacts, OlderOrder DEF OutAfterLogin
<1>4. QED
  BY <1>1, <1>2, <1>3, OlderFacts

\* An attempt has just been made.
LEMMA AttemptFacts ==
    ASSUME TypeOK, OutAfterLogin, NEW t \in 0 .. RequestTime, NEW takes \in BOOLEAN,
           AfterAttempt(t, takes)
    PROVE  /\ sinceLogin' \in Ages /\ sinceOut' \in Ages
           /\ sinceLogin' # None /\ sinceLogin' <= RequestTime
           /\ OutAfterLogin'
<1>1. /\ sinceOut \in Ages /\ 0 \in Ages /\ t \in Nat
      /\ 0 # None /\ t <= RequestTime
  BY DEF TypeOK, Ages
<1>2. /\ sinceLogin' = Older(0, t)
      /\ sinceOut' \in {Older(0, t), Older(sinceOut, t)}
  BY DEF AfterAttempt
<1>3. Older(0, t) \in Ages /\ Older(0, t) # None /\ Older(0, t) <= t
  BY <1>1, OlderFacts
<1>4. Older(sinceOut, t) \in Ages
  BY <1>1, OlderFacts
<1>5. Older(sinceOut, t) # None => Older(0, t) <= Older(sinceOut, t)
  BY <1>1 DEF Older, Ages
<1>6. OutAfterLogin'
  BY <1>2, <1>3, <1>5 DEF OutAfterLogin, Ages
<1>7. Older(0, t) <= RequestTime
  BY <1>1, <1>3 DEF Ages
<1>8. QED
  BY <1>2, <1>3, <1>4, <1>6, <1>7

LEMMA StartPollStep == ASSUME IInv, StartPoll PROVE IInv'
<1>1. delay \in Nat /\ TypeOK /\ OutAfterLogin /\ Elapse(delay)
  BY DEF IInv, TypeOK, StartPoll
<1>2. /\ sinceLogin' \in Ages /\ sinceOut' \in Ages
      /\ (sinceLogin' = None) <=> (sinceLogin = None)
      /\ sinceLogin # None => sinceLogin' <= sinceLogin + delay
      /\ OutAfterLogin'
  BY <1>1, ElapseFacts
<1>3. TypeOK'
  BY <1>2 DEF IInv, TypeOK, StartPoll, gateway
<1>4. Pins'
  BY DEF IInv, Pins, StartPoll, gateway
<1>5. Gap'
  <2>1. pc' = "status" /\ chain' = chain /\ pc = "waiting"
    BY DEF StartPoll
  <2>2. ASSUME chain = "failed"
        PROVE  10 * (sinceLogin' - Window - 2 * RequestTime) <= 11 * Cap
    <3>1. sinceLogin # None /\ (sinceLogin < Window \/ sinceLogin <= 2 * RequestTime)
      BY <2>1, <2>2 DEF IInv, Gap
    <3>2. 10 * delay <= 11 * Cap
      BY <2>1, <2>2 DEF IInv, Gap
    <3>3. sinceLogin \in Nat /\ sinceLogin' \in Nat
      BY <1>1, <1>2, <3>1 DEF TypeOK, Ages
    <3>4. sinceLogin' <= sinceLogin + delay
      BY <1>2, <3>1
    <3>5. Window \in Nat /\ RequestTime \in Nat /\ Cap \in Nat /\ delay \in Nat
      BY <1>1
    <3>6. QED
      BY <3>1, <3>2, <3>3, <3>4, <3>5, WaitArithmetic
  <2>3. chain = "failed" => sinceLogin' # None
    BY <1>2, <2>1 DEF IInv, Gap
  <2>4. QED
    BY <2>1, <2>2, <2>3 DEF Gap
<1>6. QED
  BY <1>2, <1>3, <1>4, <1>5 DEF IInv

\* A poll that ends in failure keeps the invariant: what is left is the age of
\* the last attempt, when it failed.
LEMMA FailStep ==
    ASSUME IInv, Fail,
           sinceLogin' \in Ages, sinceOut' \in Ages, OutAfterLogin',
           holder' \in {"exporter", "person", "nobody"},
           accepts' = accepts, pinned' = pinned, calm' = calm,
           startPinned' = startPinned, chain' \in {"none", "failed"},
           chain' = "failed" => /\ sinceLogin' # None
                                /\ sinceLogin' < Window \/ sinceLogin' <= 2 * RequestTime
    PROVE  IInv'
<1>1. /\ pc' = "waiting" /\ conn' = FALSE /\ published' = FALSE
      /\ failures' \in 0 .. MaxExponent
      /\ delay' \in Nat /\ 10 * delay' <= 11 * Cap
  BY FailFacts DEF IInv
<1>2. TypeOK'
  BY <1>1 DEF IInv, TypeOK
<1>3. Pins'
  BY <1>1 DEF Pins
<1>4. Gap'
  BY <1>1 DEF Gap
<1>5. QED
  BY <1>2, <1>3, <1>4 DEF IInv

LEMMA FetchStatusStep == ASSUME IInv, FetchStatus PROVE IInv'
<1>1. PICK t \in 0 .. RequestTime : Elapse(t)
  BY DEF FetchStatus
<1>2. TypeOK /\ OutAfterLogin /\ t \in Nat /\ t <= RequestTime
  BY DEF IInv
<1>3. /\ sinceLogin' \in Ages /\ sinceOut' \in Ages
      /\ (sinceLogin' = None) <=> (sinceLogin = None)
      /\ sinceLogin # None => sinceLogin' <= sinceLogin + t
      /\ OutAfterLogin'
  BY <1>1, <1>2, ElapseFacts
<1>4. /\ pc = "status"
      /\ holder' = holder /\ accepts' = accepts /\ pinned' = pinned /\ calm' = calm
      /\ startPinned' = startPinned
  BY DEF FetchStatus, gateway
<1>5. CASE Fail /\ chain' = "none"
  BY <1>2, <1>3, <1>4, <1>5, FailStep DEF TypeOK
<1>6. CASE /\ Reaches
           /\ \/ pc' = "parse" /\ conn' = FALSE
              \/ pc' = "login" /\ conn' = TRUE
           /\ UNCHANGED <<delay, failures, published, chain>>
  <2>1. startPinned
    BY <1>4, <1>6 DEF IInv, Pins, Reaches
  <2>2. TypeOK'
    BY <1>2, <1>3, <1>4, <1>6 DEF TypeOK
  <2>3. Pins'
    BY <1>4, <1>6, <2>1 DEF Pins
  <2>4. ASSUME chain = "failed"
        PROVE  /\ sinceLogin' # None
               /\ 10 * (sinceLogin' - Window - 3 * RequestTime) <= 11 * Cap
    <3>1. /\ sinceLogin # None
          /\ 10 * (sinceLogin - Window - 2 * RequestTime) <= 11 * Cap
      BY <1>4, <2>4 DEF IInv, Gap
    <3>2. sinceLogin \in Nat /\ sinceLogin' \in Nat /\ sinceLogin' <= sinceLogin + t
      BY <1>2, <1>3, <3>1 DEF TypeOK, Ages
    <3>3. sinceLogin' # None
      BY <1>3, <3>1
    <3>4. Window \in Nat /\ RequestTime \in Nat /\ Cap \in Nat
      OBVIOUS
    <3>5. QED
      BY <1>2, <3>1, <3>2, <3>3, <3>4, RequestArithmetic
  <2>5. Gap'
    BY <1>6, <2>4 DEF Gap
  <2>6. QED
    BY <1>3, <2>2, <2>3, <2>5 DEF IInv
<1>7. QED
  BY <1>5, <1>6 DEF FetchStatus

LEMMA ThrottleStep == ASSUME IInv, Throttle PROVE IInv'
<1>1. /\ Fail
      /\ sinceLogin # None /\ sinceLogin < Window
      /\ holder' = holder /\ accepts' = accepts /\ pinned' = pinned /\ calm' = calm
      /\ sinceLogin' = sinceLogin /\ chain' = chain /\ sinceOut' = sinceOut
      /\ startPinned' = startPinned
  BY DEF Throttle, Throttled, gateway, history
<1>2. OutAfterLogin'
  BY <1>1 DEF IInv, OutAfterLogin
<1>3. /\ sinceLogin' \in Ages /\ sinceOut' \in Ages
      /\ holder' \in {"exporter", "person", "nobody"} /\ chain' \in {"none", "failed"}
  BY <1>1 DEF IInv, TypeOK
<1>4. QED
  BY <1>1, <1>2, <1>3, FailStep

LEMMA LoggedInStep == ASSUME IInv, LoggedIn PROVE IInv'
<1>1. TypeOK /\ OutAfterLogin /\ (holder = "person") \in BOOLEAN
  BY DEF IInv
<1>2. PICK t \in 0 .. RequestTime : AfterAttempt(t, holder = "person")
  BY DEF LoggedIn
<1>3. /\ sinceLogin' \in Ages /\ sinceOut' \in Ages
      /\ sinceLogin' # None /\ sinceLogin' <= RequestTime
      /\ OutAfterLogin'
  BY <1>1, <1>2, AttemptFacts
<1>4. /\ pc = "login" /\ pc' = "again" /\ chain' = "none" /\ startPinned' = startPinned
      /\ holder' = "exporter" /\ conn' = TRUE
      /\ UNCHANGED <<accepts, pinned, calm, delay, failures, published>>
  BY DEF LoggedIn
<1>5. TypeOK'
  BY <1>1, <1>3, <1>4 DEF TypeOK
<1>6. Pins'
  BY <1>4 DEF IInv, Pins
<1>7. Gap'
  BY <1>3, <1>4 DEF Gap
<1>8. QED
  BY <1>3, <1>5, <1>6, <1>7 DEF IInv

LEMMA RejectedStep == ASSUME IInv, Rejected PROVE IInv'
<1>1. TypeOK /\ OutAfterLogin
  BY DEF IInv
<1>2. PICK t \in 0 .. RequestTime : AfterAttempt(t, FALSE)
  BY DEF Rejected
<1>3. /\ sinceLogin' \in Ages /\ sinceOut' \in Ages
      /\ sinceLogin' # None /\ sinceLogin' <= RequestTime
      /\ OutAfterLogin'
  BY <1>1, <1>2, AttemptFacts
<1>4. sinceLogin' <= 2 * RequestTime
  BY <1>3 DEF Ages
<1>5. /\ Fail /\ chain' = "failed" /\ startPinned' = startPinned
      /\ UNCHANGED <<holder, accepts, pinned, calm>>
  BY DEF Rejected, gateway
<1>6. holder' \in {"exporter", "person", "nobody"}
  BY <1>1, <1>5 DEF TypeOK
<1>7. QED
  BY <1>3, <1>4, <1>5, <1>6, FailStep

LEMMA NoLoginAnswerStep == ASSUME IInv, NoLoginAnswer PROVE IInv'
<1>1. TypeOK /\ OutAfterLogin
  BY DEF IInv
<1>2. PICK t \in 0 .. RequestTime :
         \/ AfterAttempt(t, FALSE) /\ UNCHANGED holder
         \/ AfterAttempt(t, holder = "person") /\ holder' = "nobody"
  BY DEF NoLoginAnswer
<1>3. PICK takes \in BOOLEAN : AfterAttempt(t, takes)
  BY <1>2
<1>4. /\ sinceLogin' \in Ages /\ sinceOut' \in Ages
      /\ sinceLogin' # None /\ sinceLogin' <= RequestTime
      /\ OutAfterLogin'
  BY <1>1, <1>3, AttemptFacts
<1>5. sinceLogin' <= 2 * RequestTime
  BY <1>4 DEF Ages
<1>6. /\ Fail /\ chain' \in {"none", "failed"} /\ startPinned' = startPinned
      /\ UNCHANGED <<accepts, pinned, calm>>
  BY DEF NoLoginAnswer
<1>7. holder' \in {"exporter", "person", "nobody"}
  BY <1>1, <1>2 DEF TypeOK
<1>8. QED
  BY <1>4, <1>5, <1>6, <1>7, FailStep

LEMMA FetchAgainStep == ASSUME IInv, FetchAgain PROVE IInv'
<1>1. PICK t \in 0 .. RequestTime : Elapse(t)
  BY DEF FetchAgain
<1>2. TypeOK /\ OutAfterLogin /\ t \in Nat /\ t <= RequestTime
  BY DEF IInv
<1>3. /\ sinceLogin' \in Ages /\ sinceOut' \in Ages
      /\ (sinceLogin' = None) <=> (sinceLogin = None)
      /\ sinceLogin # None => sinceLogin' <= sinceLogin + t
      /\ OutAfterLogin'
  BY <1>1, <1>2, ElapseFacts
<1>4. /\ pc = "again"
      /\ holder' = holder /\ accepts' = accepts /\ pinned' = pinned /\ calm' = calm
      /\ startPinned' = startPinned
  BY DEF FetchAgain, gateway
<1>5. sinceLogin # None /\ sinceLogin <= RequestTime
  BY <1>4 DEF IInv, Gap
<1>6. sinceLogin \in Nat /\ sinceLogin' \in Nat /\ sinceLogin' # None
  BY <1>2, <1>3, <1>5 DEF TypeOK, Ages
<1>7. sinceLogin' <= 2 * RequestTime
  BY <1>2, <1>3, <1>5, <1>6
<1>8. CASE Fail /\ chain' \in {"none", "failed"}
  <2>1. holder' \in {"exporter", "person", "nobody"}
    BY <1>2, <1>4 DEF TypeOK
  <2>2. QED
    BY <1>3, <1>4, <1>6, <1>7, <1>8, <2>1, FailStep
<1>9. CASE /\ pc' = "parse" /\ conn' = FALSE
           /\ UNCHANGED <<delay, failures, published, chain>>
  <2>1. TypeOK'
    BY <1>2, <1>3, <1>4, <1>9 DEF TypeOK
  <2>2. Pins'
    BY <1>4, <1>9 DEF IInv, Pins
  <2>3. Gap'
    BY <1>6, <1>9 DEF Gap
  <2>4. QED
    BY <1>3, <2>1, <2>2, <2>3 DEF IInv
<1>10. QED
  BY <1>8, <1>9 DEF FetchAgain

LEMMA ParseStep == ASSUME IInv, Parse PROVE IInv'
<1>1. /\ pc = "parse" /\ chain' = "none"
      /\ UNCHANGED <<holder, accepts, pinned, calm, sinceLogin, sinceOut, startPinned>>
  BY DEF Parse, gateway
<1>2. /\ sinceLogin' \in Ages /\ sinceOut' \in Ages
      /\ holder' \in {"exporter", "person", "nobody"}
  BY <1>1 DEF IInv, TypeOK
<1>3. OutAfterLogin'
  BY <1>1 DEF IInv, OutAfterLogin
<1>4. CASE Fail
  BY <1>1, <1>2, <1>3, <1>4, FailStep
<1>5. CASE Succeed
  <2>1. /\ pc' = "waiting" /\ conn' = FALSE /\ published' = TRUE
        /\ failures' \in 0 .. MaxExponent /\ delay' \in Nat
    BY <1>5, IntervalBound DEF Succeed
  <2>2. TypeOK'
    BY <1>1, <1>2, <2>1 DEF IInv, TypeOK
  <2>3. Pins'
    BY <2>1 DEF Pins
  <2>4. Gap'
    BY <1>1, <2>1 DEF Gap
  <2>5. QED
    BY <1>3, <2>2, <2>3, <2>4 DEF IInv
<1>6. QED
  BY <1>4, <1>5 DEF Parse

\* The gateway and its people touch neither the exporter's ages nor its waits.
LEMMA GatewayStep ==
    ASSUME IInv, holder' \in {"exporter", "person", "nobody"},
           accepts' \in BOOLEAN, pinned' \in {pinned, FALSE}, calm' \in BOOLEAN,
           conn' \in {conn, FALSE},
           UNCHANGED <<pc, delay, sinceLogin, failures, published, history>>
    PROVE  IInv'
<1>1. TypeOK'
  BY DEF IInv, TypeOK, history
<1>2. OutAfterLogin'
  BY DEF IInv, OutAfterLogin, history
<1>3. Pins'
  <2>1. startPinned' = startPinned /\ pc' = pc
    BY DEF history
  <2>2. ASSUME pc \in {"waiting", "status"} PROVE ~conn'
    BY <2>2 DEF IInv, Pins
  <2>3. ASSUME pc # "waiting", pinned' PROVE startPinned
    BY <2>3 DEF IInv, Pins
  <2>4. ASSUME pc \in {"login", "again", "parse"} PROVE startPinned
    BY <2>4 DEF IInv, Pins
  <2>5. QED
    BY <2>1, <2>2, <2>3, <2>4 DEF Pins
<1>4. Gap'
  BY DEF IInv, Gap, history
<1>5. QED
  BY <1>1, <1>2, <1>3, <1>4 DEF IInv

LEMMA RestartStep == ASSUME IInv, Restart PROVE IInv'
<1>1. None \in Ages /\ 0 \in 0 .. MaxExponent
  BY DEF Ages
<1>2. TypeOK'
  BY <1>1 DEF IInv, TypeOK, Restart
<1>3. OutAfterLogin' /\ Pins' /\ Gap'
  BY DEF Restart, OutAfterLogin, Pins, Gap
<1>4. QED
  BY <1>2, <1>3 DEF IInv

LEMMA EnvironmentStep == ASSUME IInv, Environment PROVE IInv'
<1>1. /\ holder \in {"exporter", "person", "nobody"}
      /\ accepts \in BOOLEAN /\ calm \in BOOLEAN
  BY DEF IInv, TypeOK
<1>2. CASE PersonLogsIn
  BY <1>1, <1>2, GatewayStep DEF PersonLogsIn, exporter
<1>3. CASE SessionEnds
  BY <1>1, <1>3, GatewayStep DEF SessionEnds, exporter
<1>4. CASE ChangePassword
  BY <1>1, <1>4, GatewayStep DEF ChangePassword, exporter
<1>5. CASE ChangeCertificate
  BY <1>1, <1>5, GatewayStep DEF ChangeCertificate, exporter
<1>6. CASE DropConnection
  BY <1>1, <1>6, GatewayStep DEF DropConnection, gateway
<1>7. CASE Restart
  BY <1>7, RestartStep
<1>8. CASE CalmDown
  BY <1>1, <1>8, GatewayStep DEF CalmDown, exporter
<1>9. QED
  BY <1>2, <1>3, <1>4, <1>5, <1>6, <1>7, <1>8 DEF Environment

LEMMA NextIInv == ASSUME IInv, [Next]_vars PROVE IInv'
<1>1. CASE Exporter
  BY <1>1, StartPollStep, FetchStatusStep, ThrottleStep, LoggedInStep, RejectedStep,
     NoLoginAnswerStep, FetchAgainStep, ParseStep DEF Exporter
<1>2. CASE Environment
  BY <1>2, EnvironmentStep
<1>3. CASE UNCHANGED vars
  BY <1>3 DEF vars, gateway, IInv, TypeOK, OutAfterLogin, Pins, Gap
<1>4. QED
  BY <1>1, <1>2, <1>3 DEF Next

-----------------------------------------------------------------------------
\* The inductive invariant.
THEOREM Invariance == Spec => []IInv
<1>1. Init => IInv
  BY InitIInv
<1>2. IInv /\ [Next]_vars => IInv'
  BY NextIInv
<1>3. QED
  BY <1>1, <1>2, PTL DEF Spec

\* Every variable has its type; the exponent of the backoff (loop.py:15) stays
\* bounded however long the gateway is away.
THEOREM TypeCorrect == Spec => []TypeOK
<1>1. IInv => TypeOK
  BY DEF IInv
<1>2. QED
  BY <1>1, Invariance, PTL

\* client.py:85-92: whatever the window, the exporter takes a person's session at
\* most once in it.
THEOREM PersonThrownOutRarelyHolds == Spec => PersonThrownOutRarely
<1>1. ASSUME IInv, Next, Takes, Exporter
      PROVE  sinceOut = None \/ sinceOut >= Window
  <2>1. pc = "login" /\ holder = "person" /\ holder' # "person"
    BY <1>1 DEF Takes
  <2>2. ~Throttled
    BY <1>1, <2>1 DEF Exporter, StartPoll, FetchStatus, Throttle, LoggedIn, Rejected,
                      NoLoginAnswer, FetchAgain, Parse, gateway
  <2>3. sinceOut # None => sinceLogin # None /\ sinceLogin <= sinceOut
    BY <1>1 DEF IInv, OutAfterLogin
  <2>4. sinceOut \in Ages /\ sinceLogin \in Ages
    BY <1>1 DEF IInv, TypeOK
  <2>5. QED
    BY <2>2, <2>3, <2>4 DEF Throttled, Ages
<1>2. IInv /\ [Next]_vars =>
         [(Takes /\ Exporter) => (sinceOut = None \/ sinceOut >= Window)]_vars
  BY <1>1
<1>3. QED
  BY <1>2, Invariance, PTL DEF Spec, PersonThrownOutRarely

\* client.py:85-92 with loop.py:50-51: whatever the settings, the login after a
\* failed one comes within the window, one capped wait and three requests.
THEOREM GapIsBoundedHolds == Spec => GapIsBounded
<1>1. ASSUME IInv, Next, Attempt, chain = "failed"
      PROVE  10 * (sinceLogin - Window - 3 * RequestTime) <= 11 * Cap
  BY <1>1 DEF Attempt, LoggedIn, Rejected, NoLoginAnswer, IInv, Gap
<1>2. IInv /\ [Next]_vars =>
         [(Attempt /\ chain = "failed") =>
             10 * (sinceLogin - Window - 3 * RequestTime) <= 11 * Cap]_vars
  BY <1>1
<1>3. QED
  BY <1>2, Invariance, PTL DEF Spec, GapIsBounded

\* gateway/main.py:150-157 with common/http.py:138-153: what is published was
\* fetched by a poll that began with the pinned certificate.
THEOREM PinCheckedEveryPollHolds == Spec => PinCheckedEveryPoll
<1>1. IInv /\ [Next]_vars => [pc = "parse" /\ published' => startPinned]_vars
  BY DEF IInv, Pins
<1>2. QED
  BY <1>1, Invariance, PTL DEF Spec, PinCheckedEveryPoll
=============================================================================
