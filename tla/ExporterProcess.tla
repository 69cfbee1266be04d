-------------------------- MODULE ExporterProcess ---------------------------
(***************************************************************************)
(* One exporter process: the main thread of common/server.py, the scrape   *)
(* thread of common/loop.py, the SIGTERM handler that runs inside the main *)
(* thread, and the HTTP thread that collects when Prometheus asks.         *)
(*                                                                         *)
(* Polls are numbered.  A snapshot is represented by the number of the     *)
(* poll that published it, a status by the number of the last poll it      *)
(* accounts for.                                                           *)
(*                                                                         *)
(* Every exporter runs in such a process.  They differ in what a poll that *)
(* fails leaves behind: all of them clear the snapshot and raise, but the  *)
(* one for LAN discovery goes on to write its target files after it has    *)
(* published, and a write that fails raises with the snapshot in place.    *)
(* What it does between reading the inventory and publishing only computes *)
(* from what has been read and checked, and raises nothing.                *)
(***************************************************************************)
EXTENDS Integers

CONSTANTS
    MaxPolls,     \* bound: polls one process performs
    MaxSignals,   \* bound: SIGTERM/SIGINT sent to the process
    None          \* no snapshot

ASSUME ExporterProcessAssumption ==
    /\ MaxPolls \in Nat
    /\ MaxSignals \in Nat
    /\ None \notin Nat

VARIABLES
    main,       \* where the main thread is
    got,        \* what its stop.wait() is about to return
    stop,       \* the stop event
    scraper,    \* where the scrape thread is
    poll,       \* the number of the current or last poll
    status,     \* the ScrapeStatus: [poll, up]
    snapshot,   \* the published snapshot, or None
    writes,     \* this exporter writes files after it has published
    cleanup,    \* the cleanup (closing mDNS) has run
    server,     \* the metrics server is serving
    raised,     \* run_until_stopped is leaving with RuntimeError
    collect,    \* the HTTP thread: the status it has read, or None
    response,   \* the last response: [status, data], or None
    (* history *)
    signals,    \* signals sent so far
    crashed,    \* the scrape thread died of an error the loop let through
    joinGaveUp  \* join(timeout=30) returned with the thread still alive

mainVars == <<main, got, cleanup, server, raised, joinGaveUp>>
loopVars == <<scraper, poll, status, snapshot, crashed, writes>>
httpVars == <<collect, response>>
vars == <<mainVars, stop, loopVars, httpVars, signals>>

Status == [poll: Nat, up: BOOLEAN]

TypeOK ==
    /\ main \in {"entering", "blocked", "timedOut", "leaving", "checking",
                 "joining", "cleaning", "closing", "exited", "stuck"}
    /\ scraper \in {"none", "top", "scraping", "succeeded", "failed", "pausing", "dead"}
    /\ poll \in Nat
    /\ status \in Status
    /\ snapshot \in Nat \cup {None}
    /\ writes \in BOOLEAN /\ got \in BOOLEAN /\ stop \in BOOLEAN /\ cleanup \in BOOLEAN
    /\ server \in BOOLEAN /\ raised \in BOOLEAN /\ crashed \in BOOLEAN
    /\ joinGaveUp \in BOOLEAN
    /\ collect \in Status \cup {None}
    /\ response \in [status: Status, data: Nat \cup {None}] \cup {None}
    /\ signals \in Nat

Alive == main # "exited"
ThreadAlive == scraper \notin {"none", "dead"}

\* The server is up, the thread started (there is none when the exporter is
\* not configured), the signal handlers installed.
Init ==
    /\ main = "entering" /\ got = FALSE /\ stop = FALSE
    /\ scraper \in {"none", "top"} /\ writes \in BOOLEAN
    /\ poll = 0 /\ status = [poll |-> 0, up |-> FALSE] /\ snapshot = None
    /\ cleanup = FALSE /\ server = TRUE /\ raised = FALSE
    /\ collect = None /\ response = None
    /\ signals = 0 /\ crashed = FALSE /\ joinGaveUp = FALSE

(***************************************************************************)
(* stop.wait(poll_seconds) in the main thread.  threading.Event guards its *)
(* flag with a plain lock: wait holds it on the way in and on the way out. *)
(***************************************************************************)
HoldsEventLock == main \in {"entering", "leaving"}

WaitVars == <<got, cleanup, server, raised, joinGaveUp, stop, loopVars, httpVars, signals>>

\* A mistake: the flag is not looked at before blocking.
BlockWithoutLooking ==
    /\ main = "entering"
    /\ main' = "blocked"
    /\ UNCHANGED WaitVars

\* On the way in the flag is read: wait returns TRUE at once, or blocks.
EnterWait ==
    /\ main = "entering"
    /\ main' = IF stop THEN "joining" ELSE "blocked"
    /\ UNCHANGED WaitVars

\* A mistake: a wait that is over returns nothing, as Python's once did.
ReturnsNothing ==
    /\ main = "blocked" /\ ~got
    /\ main' = "timedOut" /\ got' = None
    /\ UNCHANGED <<cleanup, server, raised, joinGaveUp, stop, loopVars, httpVars, signals>>

\* The second is over before the event was set: wait will return FALSE.
WaitTimesOut ==
    /\ main = "blocked" /\ ~got
    /\ main' = "timedOut"
    /\ UNCHANGED WaitVars

\* The lock is taken again, after a timeout or a notification.
Reacquire ==
    /\ main = "timedOut" \/ (main = "blocked" /\ got)
    /\ main' = "leaving"
    /\ UNCHANGED WaitVars

LeaveWait ==
    /\ main = "leaving"
    /\ main' = IF got THEN "joining" ELSE "checking"
    /\ UNCHANGED WaitVars

(***************************************************************************)
(* run_until_stopped.                                                      *)
(***************************************************************************)

\* A mistake: nobody looks after the thread.
NeverCheckThread ==
    /\ main = "checking"
    /\ main' = "entering"
    /\ UNCHANGED WaitVars

\* After a wait that returned FALSE: a scrape thread that is not alive is
\* taken for a crash.
CheckThread ==
    /\ main = "checking"
    /\ IF scraper = "dead"
       THEN main' = "cleaning" /\ raised' = TRUE
       ELSE main' = "entering" /\ UNCHANGED raised
    /\ UNCHANGED <<got, cleanup, server, joinGaveUp, stop, loopVars, httpVars, signals>>

\* A mistake: cleanup does not wait for the thread.
SkipJoin ==
    /\ main = "joining"
    /\ main' = "cleaning"
    /\ UNCHANGED WaitVars

\* join(timeout=30): the thread has ended, or the timeout has passed.
Join ==
    /\ main = "joining"
    /\ main' = "cleaning"
    /\ joinGaveUp' = ThreadAlive
    /\ UNCHANGED <<got, cleanup, server, raised, stop, loopVars, httpVars, signals>>

\* The finally block: each step runs, also when the one before it raised.
Cleanup ==
    /\ main = "cleaning"
    /\ main' = "closing"
    /\ cleanup' = TRUE
    /\ UNCHANGED <<got, server, raised, joinGaveUp, stop, loopVars, httpVars, signals>>

\* The server is shut down and the process ends, daemon threads with it.
ShutdownServer ==
    /\ main = "closing"
    /\ main' = "exited"
    /\ server' = FALSE
    /\ scraper' = IF scraper = "none" THEN "none" ELSE "dead"
    /\ collect' = None
    /\ UNCHANGED <<got, cleanup, raised, joinGaveUp, stop, poll, status, snapshot,
                   crashed, writes, response, signals>>

\* A signal.  The handler runs in the main thread and sets the event, which
\* takes the event's lock: it blocks for ever if the main thread holds it.  A
\* main thread blocked in the wait is notified.
Signal ==
    /\ Alive /\ main # "stuck" /\ signals < MaxSignals
    /\ signals' = signals + 1
    /\ IF HoldsEventLock
       THEN main' = "stuck" /\ UNCHANGED <<stop, got>>
       ELSE stop' = TRUE /\ got' = (got \/ main = "blocked") /\ UNCHANGED main
    /\ UNCHANGED <<cleanup, server, raised, joinGaveUp, loopVars, httpVars>>

(***************************************************************************)
(* run_scrape_loop.                                                        *)
(***************************************************************************)
StartPoll ==
    /\ scraper = "top" /\ Alive
    /\ IF stop
       THEN scraper' = "dead" /\ UNCHANGED poll
       ELSE poll < MaxPolls /\ scraper' = "scraping" /\ poll' = poll + 1
    /\ UNCHANGED <<status, snapshot, crashed, writes, mainVars, stop, httpVars, signals>>

\* The scraper publishes the snapshot of this poll.
Publish ==
    /\ scraper = "scraping" /\ Alive
    /\ scraper' = "succeeded"
    /\ snapshot' = poll
    /\ UNCHANGED <<poll, status, crashed, writes, mainVars, stop, httpVars, signals>>

\* A mistake: a failed poll leaves the last good snapshot in place.
FailKeepsSnapshot ==
    /\ scraper = "scraping" /\ Alive
    /\ scraper' = "failed"
    /\ UNCHANGED <<poll, status, snapshot, crashed, writes, mainVars, stop, httpVars, signals>>

\* The scraper clears the snapshot and raises.
Fail ==
    /\ scraper = "scraping" /\ Alive
    /\ scraper' = "failed"
    /\ snapshot' = None
    /\ UNCHANGED <<poll, status, crashed, writes, mainVars, stop, httpVars, signals>>

\* A file cannot be written: the scraper raises, and what it has published
\* stays.
WriteFails ==
    /\ scraper = "succeeded" /\ writes /\ Alive
    /\ scraper' = "failed"
    /\ UNCHANGED <<poll, status, snapshot, crashed, writes, mainVars, stop, httpVars, signals>>

\* An error the loop does not catch ends the thread.
Crash ==
    /\ scraper \in {"scraping", "succeeded", "failed"} /\ Alive
    /\ scraper' = "dead"
    /\ crashed' = TRUE
    /\ UNCHANGED <<poll, status, snapshot, writes, mainVars, stop, httpVars, signals>>

\* A mistake: the status is set after a poll that succeeded and not otherwise.
RecordSuccess ==
    /\ scraper \in {"succeeded", "failed"} /\ Alive
    /\ status' = IF scraper = "succeeded" THEN [poll |-> poll, up |-> TRUE] ELSE status
    /\ scraper' = "pausing"
    /\ UNCHANGED <<poll, snapshot, crashed, writes, mainVars, stop, httpVars, signals>>

\* The loop records how the poll ended and waits for the next one.
RecordStatus ==
    /\ scraper \in {"succeeded", "failed"} /\ Alive
    /\ status' = [poll |-> poll, up |-> scraper = "succeeded"]
    /\ scraper' = "pausing"
    /\ UNCHANGED <<poll, snapshot, crashed, writes, mainVars, stop, httpVars, signals>>

\* wait(delay): the stop event ends the loop, a timeout continues it.  Both
\* need the event's lock, which a stuck main thread never releases.
EndPause ==
    /\ scraper = "pausing" /\ Alive /\ main # "stuck"
    /\ \/ stop /\ scraper' = "dead"
       \/ scraper' = "top"
    /\ UNCHANGED <<poll, status, snapshot, crashed, writes, mainVars, stop, httpVars, signals>>

(***************************************************************************)
(* Collector.collect in the HTTP thread: the status is read first, then    *)
(* the snapshot.                                                           *)
(***************************************************************************)
CollectStatus ==
    /\ server /\ Alive /\ collect = None
    /\ collect' = status
    /\ UNCHANGED <<response, mainVars, stop, loopVars, signals>>

CollectSnapshot ==
    /\ collect # None
    /\ response' = [status |-> collect, data |-> snapshot]
    /\ collect' = None
    /\ UNCHANGED <<mainVars, stop, loopVars, signals>>

MainThread ==
    EnterWait \/ WaitTimesOut \/ Reacquire \/ LeaveWait \/ CheckThread
        \/ Join \/ Cleanup \/ ShutdownServer
ScrapeThread ==
    StartPoll \/ Publish \/ Fail \/ WriteFails \/ Crash \/ RecordStatus \/ EndPause
HttpThread == CollectStatus \/ CollectSnapshot

Next == MainThread \/ ScrapeThread \/ HttpThread \/ Signal

Spec == Init /\ [][Next]_vars

\* The operating system schedules every thread, timeouts expire, and a poll
\* ends (every request has a timeout).  Nothing makes a signal come.
FairSpec == Spec /\ WF_vars(MainThread) /\ WF_vars(ScrapeThread)

(***************************************************************************)
(* Properties.                                                             *)
(***************************************************************************)

\* Between polls with <name>_up 1 the device metrics are those of the poll that
\* made it 1.  With <name>_up 0 there are none, or, from an exporter that writes
\* after it has published, those of the poll whose write failed: never older
\* ones.
UpMatchesSnapshot ==
    scraper \in {"top", "pausing"} =>
        /\ status.up => snapshot = status.poll
        /\ ~status.up => snapshot = None \/ (writes /\ snapshot = status.poll)

\* Whatever the threads do between its two reads, a response carries no device
\* metrics older than the poll its status reports on: a failed poll is never
\* reported together with the values of the one before.
ResponseNeverStale ==
    (response # None /\ response.data # None) =>
        response.data >= response.status.poll

\* Prometheus is promised no more than an abstract exporter without threads
\* keeps (PublishedView), and everything the threads do keeps it.
View == INSTANCE PublishedView
            WITH last <- poll, view <- snapshot, reported <- status, answer <- response,
                 goesOn <- writes
KeepsPublishedView == View!Spec

\* mDNS is closed under a running poll only if that poll outlasted the join.
CleanupAfterLoop == cleanup => ~ThreadAlive \/ joinGaveUp

\* Once the stop event is set the process ends, whatever the scrape thread is
\* doing; a further signal that finds the main thread on its way out of the
\* wait is the one exception (SignalEndsProcess).
StopEndsProcess == stop ~> main \in {"exited", "stuck"}

\* A dead scrape thread does not leave its last status served for ever: the
\* process ends, and with an error unless somebody asked it to stop meanwhile.
\* A main thread stuck in the signal handler is again the one exception.
CrashEndsProcess ==
    crashed ~> main = "stuck" \/ (main = "exited" /\ (raised \/ stop))

\* server.py:65 promises that a signal stops everything.
SignalEndsProcess == signals > 0 ~> main = "exited"
=============================================================================
