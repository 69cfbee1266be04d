----------------------- MODULE ExporterProcess_proofs ------------------------
(***************************************************************************)
(* Proofs about ExporterProcess, for any number of polls and signals.      *)
(***************************************************************************)
EXTENDS ExporterProcess, TLAPS

USE ExporterProcessAssumption

\* The recorded status lags the poll, the snapshot lies in between, and a poll
\* that has ended but is not recorded yet has left its mark on the snapshot.
PollOrder ==
    /\ status.poll <= poll
    /\ snapshot # None => status.poll <= snapshot /\ snapshot <= poll
    /\ scraper = "succeeded" => snapshot = poll
    /\ scraper = "failed" => snapshot = None \/ (writes /\ snapshot = poll)

\* The status a response is being built from is not newer than the recorded
\* one.
CollectOrder == collect # None => collect.poll <= status.poll

\* Cleanup runs last, behind the join or the discovery of a dead thread.
StopOrder ==
    /\ main = "cleaning" => ~ThreadAlive \/ joinGaveUp
    /\ cleanup => main \in {"closing", "exited"}
    /\ CleanupAfterLoop

IInv ==
    /\ TypeOK
    /\ PollOrder
    /\ UpMatchesSnapshot
    /\ CollectOrder
    /\ ResponseNeverStale
    /\ StopOrder

-----------------------------------------------------------------------------
LEMMA InitIInv == Init => IInv
<1> SUFFICES ASSUME Init PROVE IInv
  OBVIOUS
<1>1. [poll |-> 0, up |-> FALSE] \in Status
  BY DEF Status
<1>2. TypeOK
  BY <1>1 DEF Init, TypeOK
<1>3. PollOrder /\ UpMatchesSnapshot /\ CollectOrder /\ ResponseNeverStale
  BY DEF Init, PollOrder, UpMatchesSnapshot, CollectOrder, ResponseNeverStale
<1>4. StopOrder
  BY DEF Init, StopOrder, CleanupAfterLoop
<1>5. QED
  BY <1>2, <1>3, <1>4 DEF IInv

\* A step that only moves the main thread keeps the types.
LEMMA MoveKeepsTypes ==
    ASSUME TypeOK, UNCHANGED WaitVars,
           main' \in {"entering", "blocked", "timedOut", "leaving", "checking",
                     "joining", "cleaning", "closing", "exited", "stuck"}
    PROVE  TypeOK'
<1>1. UNCHANGED <<got, stop, cleanup, server, raised, joinGaveUp, signals, scraper, poll,
                  status, snapshot, crashed, writes, collect, response>>
  BY DEF WaitVars, loopVars, httpVars
<1>2. QED
  BY <1>1 DEF TypeOK

\* The steps of the main thread and the signal handler, which leave the polls
\* and their results alone.
LEMMA MainStep ==
    ASSUME IInv, (MainThread /\ ~ShutdownServer) \/ Signal
    PROVE  IInv'
<1>1. UNCHANGED <<loopVars, httpVars>>
  BY DEF MainThread, EnterWait, WaitTimesOut, Reacquire, LeaveWait, CheckThread,
         Join, Cleanup, Signal, WaitVars
<1>2. PollOrder' /\ UpMatchesSnapshot' /\ CollectOrder' /\ ResponseNeverStale'
  BY <1>1 DEF IInv, PollOrder, UpMatchesSnapshot, CollectOrder, ResponseNeverStale,
              loopVars, httpVars
<1>3. TypeOK'
  <2>0. TypeOK
    BY DEF IInv
  <2>1. CASE EnterWait \/ WaitTimesOut \/ Reacquire \/ LeaveWait
    <3>1. /\ main' \in {"blocked", "timedOut", "leaving", "checking", "joining"}
          /\ UNCHANGED WaitVars
      BY <2>1 DEF EnterWait, WaitTimesOut, Reacquire, LeaveWait
    <3>2. main' \in {"entering", "blocked", "timedOut", "leaving", "checking",
                     "joining", "cleaning", "closing", "exited", "stuck"}
      BY <3>1
    <3>3. QED
      BY <2>0, <3>1, <3>2, MoveKeepsTypes, Zenon
  <2>2. CASE CheckThread
    <3>1. main' \in {"cleaning", "entering"} /\ raised' \in BOOLEAN
      BY <2>0, <2>2 DEF CheckThread, TypeOK
    <3>2. UNCHANGED <<got, cleanup, server, joinGaveUp, stop, signals>>
      BY <2>2 DEF CheckThread
    <3>3. QED
      BY <1>1, <2>0, <3>1, <3>2 DEF TypeOK, loopVars, httpVars
  <2>3. CASE Join
    BY <2>0, <1>1, <2>3, ThreadAlive \in BOOLEAN
       DEF Join, ThreadAlive, TypeOK, loopVars, httpVars
  <2>4. CASE Cleanup
    BY <2>0, <1>1, <2>4 DEF Cleanup, TypeOK, loopVars, httpVars
  <2>5. CASE Signal
    <3>1. (got \/ main = "blocked") \in BOOLEAN
      OBVIOUS
    <3>2. stop' \in BOOLEAN /\ got' \in BOOLEAN
      BY <2>0, <2>5, <3>1, Zenon DEF Signal, TypeOK
    <3>3. /\ main' \in {main, "stuck"} /\ signals' \in Nat
          /\ UNCHANGED <<cleanup, server, raised, joinGaveUp>>
      BY <2>0, <2>5 DEF Signal, TypeOK
    <3>4. QED
      BY <1>1, <2>0, <3>2, <3>3 DEF TypeOK, loopVars, httpVars
  <2>6. QED
    BY <2>1, <2>2, <2>3, <2>4, <2>5 DEF MainThread
<1>4. StopOrder'
  <2>1. CASE Signal
    BY <1>1, <2>1 DEF IInv, StopOrder, CleanupAfterLoop, ThreadAlive, Signal,
                      HoldsEventLock, loopVars
  <2>2. CASE EnterWait \/ WaitTimesOut \/ Reacquire \/ LeaveWait
    BY <1>1, <2>2 DEF IInv, StopOrder, CleanupAfterLoop, ThreadAlive, EnterWait,
                      WaitTimesOut, Reacquire, LeaveWait, WaitVars, loopVars
  <2>3. CASE CheckThread \/ Join
    <3>1. ThreadAlive' <=> ThreadAlive
      BY <1>1 DEF ThreadAlive, loopVars
    <3>2. CASE CheckThread
      BY <1>1, <3>1, <3>2 DEF IInv, StopOrder, CleanupAfterLoop, ThreadAlive,
                              CheckThread, loopVars
    <3>3. CASE Join
      BY <3>1, <3>3 DEF IInv, StopOrder, CleanupAfterLoop, Join
    <3>4. QED
      BY <2>3, <3>2, <3>3
  <2>4. CASE Cleanup
    BY <1>1, <2>4 DEF IInv, StopOrder, CleanupAfterLoop, ThreadAlive, Cleanup,
                      loopVars
  <2>5. QED
    BY <2>1, <2>2, <2>3, <2>4 DEF MainThread
<1>5. QED
  BY <1>2, <1>3, <1>4 DEF IInv

\* The process ends and takes the daemon threads with it.
LEMMA ShutdownStep ==
    ASSUME IInv, ShutdownServer
    PROVE  IInv'
<1>1. scraper' \in {"none", "dead"}
  BY DEF ShutdownServer
<1>2. TypeOK'
  <2>1. main' = "exited" /\ server' = FALSE /\ collect' = None
    BY DEF ShutdownServer
  <2>2. UNCHANGED <<got, stop, cleanup, raised, joinGaveUp, poll, status, snapshot,
                    crashed, writes, response, signals>>
    BY DEF ShutdownServer
  <2>3. main' \in {"entering", "blocked", "timedOut", "leaving", "checking",
                   "joining", "cleaning", "closing", "exited", "stuck"}
    BY <2>1
  <2>4. scraper' \in {"none", "top", "scraping", "succeeded", "failed", "pausing", "dead"}
    BY <1>1
  <2>5. server' \in BOOLEAN /\ collect' \in Status \cup {None}
    BY <2>1
  <2>6. QED
    BY <2>2, <2>3, <2>4, <2>5 DEF IInv, TypeOK
<1>3. PollOrder' /\ UpMatchesSnapshot' /\ CollectOrder' /\ ResponseNeverStale'
  BY <1>1 DEF IInv, PollOrder, UpMatchesSnapshot, CollectOrder, ResponseNeverStale,
              ShutdownServer
<1>4. StopOrder'
  BY <1>1 DEF IInv, StopOrder, CleanupAfterLoop, ThreadAlive, ShutdownServer
<1>5. QED
  BY <1>2, <1>3, <1>4 DEF IInv

\* The steps of the scrape thread, none of which revives it.
LEMMA ScrapeStep ==
    ASSUME IInv, ScrapeThread
    PROVE  IInv'
<1>1. UNCHANGED <<mainVars, stop, httpVars, signals>>
  BY DEF ScrapeThread, StartPoll, Publish, Fail, WriteFails, Crash, RecordStatus, EndPause
<1>2. StopOrder'
  BY <1>1 DEF IInv, StopOrder, CleanupAfterLoop, ThreadAlive, mainVars,
              ScrapeThread, StartPoll, Publish, Fail, WriteFails, Crash, RecordStatus, EndPause
<1>3. ResponseNeverStale'
  BY <1>1 DEF IInv, ResponseNeverStale, httpVars
<1>4. TypeOK' /\ PollOrder' /\ UpMatchesSnapshot' /\ CollectOrder'
  <2> USE <1>1 DEF IInv, TypeOK, Status, PollOrder, UpMatchesSnapshot, CollectOrder,
                   mainVars, httpVars
  <2>1. CASE StartPoll
    BY <2>1 DEF StartPoll
  <2>2. CASE Publish
    BY <2>2 DEF Publish
  <2>3. CASE Fail
    BY <2>3 DEF Fail
  <2>4. CASE WriteFails
    BY <2>4 DEF WriteFails
  <2>5. CASE Crash
    BY <2>5 DEF Crash
  <2>6. CASE RecordStatus
    <3>1. (scraper = "succeeded") \in BOOLEAN
      OBVIOUS
    <3>2. status' \in Status /\ status'.poll = poll
            /\ (status'.up <=> scraper = "succeeded")
      BY <2>6, <3>1 DEF RecordStatus
    <3>3. scraper \in {"succeeded", "failed"} /\ scraper' = "pausing"
            /\ UNCHANGED <<poll, snapshot, crashed, writes>>
      BY <2>6 DEF RecordStatus
    <3>4. UpMatchesSnapshot'
      <4>1. CASE scraper = "succeeded"
        BY <3>2, <3>3, <4>1
      <4>2. CASE scraper = "failed"
        BY <3>2, <3>3, <4>2
      <4>3. QED
        BY <3>3, <4>1, <4>2
    <3>5. PollOrder' /\ CollectOrder'
      BY <3>2, <3>3
    <3>6. TypeOK'
      BY <3>2, <3>3
    <3>7. QED
      BY <3>4, <3>5, <3>6
  <2>7. CASE EndPause
    BY <2>7 DEF EndPause
  <2>8. QED
    BY <2>1, <2>2, <2>3, <2>4, <2>5, <2>6, <2>7 DEF ScrapeThread
<1>5. QED
  BY <1>2, <1>3, <1>4 DEF IInv

\* The two reads of the HTTP thread.  Between them the snapshot may be replaced
\* or cleared, but never by an older one than the status it goes with.
LEMMA HttpStep ==
    ASSUME IInv, HttpThread
    PROVE  IInv'
<1>1. UNCHANGED <<mainVars, stop, loopVars, signals>>
  BY DEF HttpThread, CollectStatus, CollectSnapshot
<1>2. PollOrder' /\ UpMatchesSnapshot' /\ StopOrder'
  BY <1>1 DEF IInv, PollOrder, UpMatchesSnapshot, StopOrder, CleanupAfterLoop,
              ThreadAlive, mainVars, loopVars
<1>3. CASE CollectStatus
  BY <1>1, <1>2, <1>3 DEF IInv, TypeOK, Status, CollectOrder, ResponseNeverStale,
                          CollectStatus, mainVars, loopVars
<1>4. CASE CollectSnapshot
  <2>1. collect \in Status /\ response' = [status |-> collect, data |-> snapshot]
    BY <1>4 DEF CollectSnapshot, IInv, TypeOK
  <2>2. TypeOK' /\ CollectOrder'
    BY <1>1, <1>4, <2>1 DEF IInv, TypeOK, Status, CollectOrder, CollectSnapshot,
                            mainVars, loopVars
  <2>3. ResponseNeverStale'
    BY <1>4, <2>1 DEF IInv, TypeOK, Status, PollOrder, CollectOrder,
                      ResponseNeverStale, CollectSnapshot
  <2>4. QED
    BY <1>2, <2>2, <2>3 DEF IInv
<1>5. QED
  BY <1>3, <1>4 DEF HttpThread

LEMMA NextIInv == IInv /\ [Next]_vars => IInv'
<1> SUFFICES ASSUME IInv, [Next]_vars PROVE IInv'
  OBVIOUS
<1>1. CASE MainThread \/ Signal
  BY <1>1, MainStep, ShutdownStep
<1>2. CASE ScrapeThread
  BY <1>2, ScrapeStep
<1>3. CASE HttpThread
  BY <1>3, HttpStep
<1>4. CASE UNCHANGED vars
  BY <1>4 DEF IInv, TypeOK, PollOrder, UpMatchesSnapshot, CollectOrder,
              ResponseNeverStale, StopOrder, CleanupAfterLoop, ThreadAlive, vars,
              mainVars, loopVars, httpVars
<1>5. QED
  BY <1>1, <1>2, <1>3, <1>4 DEF Next

\* The strengthened invariant holds throughout.
THEOREM Invariance == Spec => []IInv
BY InitIInv, NextIInv, PTL DEF Spec

\* The variables keep their types, whatever the threads do.
THEOREM TypeCorrect == Spec => []TypeOK
<1>1. IInv => TypeOK
  BY DEF IInv
<1>2. QED
  BY Invariance, <1>1, PTL

\* Between polls the device metrics served are those of the poll <name>_up
\* reports on, with <name>_up 1 always and with <name>_up 0 only by an exporter
\* whose write failed after it had published (loop.py records the outcome only
\* after the scraper published or cleared; lan_discovery/main.py:210-221).
THEOREM UpMatchesSnapshotHolds == Spec => []UpMatchesSnapshot
<1>1. IInv => UpMatchesSnapshot
  BY DEF IInv
<1>2. QED
  BY Invariance, <1>1, PTL

\* No interleaving of the collector's two reads with the loop makes a response
\* that pairs a poll's status with an older poll's data.
THEOREM ResponseNeverStaleHolds == Spec => []ResponseNeverStale
<1>1. IInv => ResponseNeverStale
  BY DEF IInv
<1>2. QED
  BY Invariance, <1>1, PTL

\* server.py runs cleanup only after the scrape thread has ended or outlasted
\* the join.
THEOREM CleanupAfterLoopHolds == Spec => []CleanupAfterLoop
<1>1. IInv => CleanupAfterLoop
  BY DEF IInv, StopOrder
<1>2. QED
  BY Invariance, <1>1, PTL

-----------------------------------------------------------------------------
(***************************************************************************)
(* The process keeps what PublishedView promises.                          *)
(***************************************************************************)

\* Between polls the last one has been reported, during one it has not; and a
\* response that is being built with the last report has it as it is.
ReportOrder ==
    /\ scraper \in {"top", "pausing"} => status.poll = poll
    /\ scraper \in {"scraping", "succeeded", "failed"} => status.poll < poll
    /\ collect # None /\ collect.poll = status.poll => collect = status

LEMMA InitReportOrder == Init => ReportOrder
BY DEF Init, ReportOrder

LEMMA NextReportOrder == IInv /\ ReportOrder /\ [Next]_vars => ReportOrder'
<1> SUFFICES ASSUME IInv, ReportOrder, [Next]_vars PROVE ReportOrder'
  OBVIOUS
<1> USE DEF ReportOrder
<1>1. CASE (MainThread /\ ~ShutdownServer) \/ Signal
  <2>1. UNCHANGED <<loopVars, httpVars>>
    BY <1>1 DEF MainThread, EnterWait, WaitTimesOut, Reacquire, LeaveWait, CheckThread,
           Join, Cleanup, Signal, WaitVars
  <2>2. QED
    BY <2>1 DEF loopVars, httpVars
<1>2. CASE ShutdownServer
  BY <1>2 DEF ShutdownServer
<1>3. CASE ScrapeThread
  <2>1. UNCHANGED collect
    BY <1>3 DEF ScrapeThread, StartPoll, Publish, Fail, WriteFails, Crash, RecordStatus,
                EndPause, httpVars
  <2>2. CASE RecordStatus
    <3>1. status'.poll = poll /\ scraper' = "pausing" /\ UNCHANGED poll
      BY <2>2 DEF RecordStatus
    <3>2. status.poll < poll
      BY <2>2 DEF RecordStatus
    <3>3. collect # None => collect.poll < poll
      BY <3>2 DEF IInv, TypeOK, Status, CollectOrder
    <3>4. collect' # None => collect'.poll # status'.poll
      BY <2>1, <3>1, <3>3 DEF IInv, TypeOK, Status
    <3>5. QED
      BY <3>1, <3>4
  <2>3. CASE ~RecordStatus
    BY <1>3, <2>1, <2>3 DEF ScrapeThread, StartPoll, Publish, Fail, WriteFails, Crash,
                            EndPause, IInv, TypeOK, Status
  <2>4. QED
    BY <2>2, <2>3
<1>4. CASE HttpThread
  BY <1>4 DEF HttpThread, CollectStatus, CollectSnapshot, loopVars
<1>5. CASE UNCHANGED vars
  BY <1>5 DEF vars, loopVars, httpVars
<1>6. QED
  BY <1>1, <1>2, <1>3, <1>4, <1>5 DEF Next

\* Every step of a thread is a step of the abstract exporter or none.
LEMMA StepKeepsView ==
    ASSUME IInv, ReportOrder, [Next]_vars
    PROVE  [View!Next]_(View!vars)
<1> USE DEF View!vars
<1>1. CASE (MainThread /\ ~ShutdownServer) \/ Signal
  <2>1. UNCHANGED <<loopVars, httpVars>>
    BY <1>1 DEF MainThread, EnterWait, WaitTimesOut, Reacquire, LeaveWait, CheckThread,
           Join, Cleanup, Signal, WaitVars
  <2>2. QED
    BY <2>1 DEF loopVars, httpVars
<1>2. CASE ShutdownServer
  BY <1>2 DEF ShutdownServer
<1>3. CASE ScrapeThread
  <2>1. UNCHANGED response
    BY <1>3 DEF ScrapeThread, StartPoll, Publish, Fail, WriteFails, Crash, RecordStatus,
                EndPause, httpVars
  <2>2. CASE StartPoll
    <3>1. CASE stop
      BY <2>1, <2>2, <3>1 DEF StartPoll
    <3>2. CASE ~stop
      <4>1. View!Begin
        BY <2>1, <2>2, <3>2 DEF StartPoll, ReportOrder, View!Begin
      <4>2. QED
        BY <4>1 DEF View!Next
    <3>3. QED
      BY <3>1, <3>2
  <2>3. CASE Publish \/ Fail
    <3>1. View!Show
      BY <2>1, <2>3 DEF Publish, Fail, ReportOrder, View!Show
    <3>2. QED
      BY <3>1 DEF View!Next
  <2>4. CASE WriteFails \/ Crash \/ EndPause
    BY <2>1, <2>4 DEF WriteFails, Crash, EndPause
  <2>5. CASE RecordStatus
    <3>1. status.poll < poll /\ snapshot \in {poll, None}
      BY <2>5 DEF RecordStatus, ReportOrder, IInv, PollOrder
    <3>2. /\ scraper = "succeeded" => snapshot = poll
          /\ scraper # "succeeded" => snapshot = None \/ writes
      BY <2>5 DEF RecordStatus, IInv, PollOrder
    <3>3. /\ status' = [poll |-> poll, up |-> scraper = "succeeded"]
          /\ UNCHANGED <<poll, snapshot, response, writes>>
      BY <2>1, <2>5 DEF RecordStatus
    <3>4. View!Report
      <4>1. \E up \in BOOLEAN :
               /\ IF up THEN snapshot = poll ELSE snapshot = None \/ writes
               /\ status' = [poll |-> poll, up |-> up]
        <5>1. CASE scraper = "succeeded"
          BY <3>2, <3>3, <5>1
        <5>2. CASE scraper # "succeeded"
          BY <3>2, <3>3, <5>2
        <5>3. QED
          BY <5>1, <5>2
      <4>2. QED
        BY <3>1, <3>3, <4>1 DEF View!Report
    <3>5. QED
      BY <3>4 DEF View!Next
  <2>6. QED
    BY <1>3, <2>2, <2>3, <2>4, <2>5 DEF ScrapeThread
<1>4. CASE CollectStatus
  BY <1>4 DEF CollectStatus, loopVars
<1>5. CASE CollectSnapshot
  <2>1. collect \in Status /\ collect.poll <= status.poll
    BY <1>5 DEF CollectSnapshot, IInv, TypeOK, CollectOrder
  <2>2. collect \in [poll: 0 .. status.poll, up: BOOLEAN]
    BY <2>1 DEF Status, IInv, TypeOK
  <2>3. collect.poll = status.poll => collect = status
    BY <1>5 DEF CollectSnapshot, ReportOrder
  <2>4. snapshot = None \/ collect.poll <= snapshot
    BY <2>1 DEF IInv, TypeOK, PollOrder, Status
  <2>5. /\ response' = [status |-> collect, data |-> snapshot]
        /\ UNCHANGED <<poll, snapshot, status, writes>>
    BY <1>5 DEF CollectSnapshot, loopVars
  <2>6. View!Answer
    BY <2>2, <2>3, <2>4, <2>5 DEF View!Answer
  <2>7. QED
    BY <2>6 DEF View!Next
<1>6. CASE UNCHANGED vars
  BY <1>6 DEF vars, loopVars, httpVars
<1>7. QED
  BY <1>1, <1>2, <1>3, <1>4, <1>5, <1>6 DEF Next, HttpThread

\* The threads of server.py, loop.py and the collectors implement the exporter
\* that has none, for any number of polls and signals.
THEOREM KeepsPublishedViewHolds == Spec => KeepsPublishedView
<1>1. Init => View!Init
  BY DEF Init, View!Init
<1>2. IInv /\ ReportOrder /\ [Next]_vars => [View!Next]_(View!vars)
  BY StepKeepsView
<1>3. QED
  BY <1>1, <1>2, Invariance, InitReportOrder, NextReportOrder, PTL
     DEF Spec, KeepsPublishedView, View!Spec
=============================================================================
