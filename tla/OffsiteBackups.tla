---------------------------- MODULE OffsiteBackups ----------------------------
(***************************************************************************)
(* The offsite backups of a host (roles/offsite_backups): three systemd    *)
(* services that share a lock, the script of the daily backup with its     *)
(* metrics file, and the alert that watches the file.                      *)
(*                                                                         *)
(* systemd, flock, restic and the host are the environment.  A service is  *)
(* started by its timer or by hand, waits for the lock, and is terminated  *)
(* at its time limit, by hand or when the host goes down; a host that      *)
(* loses power runs no script any more.  Of the timers only that of the    *)
(* backup has a calendar here: the other services may start at any time.   *)
(***************************************************************************)
EXTENDS Integers

CONSTANTS
    Day,       \* the period of the backup's timer
    Jitter,    \* its RandomizedDelaySec
    LockWait,  \* how long a service waits for the lock
    Limit,     \* Limit[s]: TimeoutStartSec of the service s
    MaxAge,    \* the age of the last success at which the alert fires
    Horizon,   \* bound: greater ages are not told apart
    None       \* no metrics file

Services == {"backup", "prune", "check"}

ASSUME OffsiteBackupsAssumption ==
    /\ Day \in Nat \ {0} /\ Jitter \in Nat /\ LockWait \in Nat
    /\ Limit \in [Services -> Nat]
    /\ MaxAge \in Nat /\ Day + Jitter <= MaxAge
    /\ Horizon \in Nat /\ MaxAge + Limit["backup"] < Horizon

VARIABLES
    (* the host and systemd *)
    on,       \* the host is up
    hour,     \* the time since the timer's last calendar time
    pending,  \* the timer is due
    delay,    \* for how long it has been, and the service ready to be started
    unit,     \* unit[s]: "idle", "waiting" for the lock, or where the script is
    spent,    \* spent[s]: the time since the service was started
    reading,  \* the time since restic began to read the files
    (* the metrics file: [success, last], with last an age *)
    file,
    (* history *)
    snapshot, \* the age of the files in the newest snapshot
    ended,    \* how the last run of the backup ended
    excused   \* something went wrong since the last snapshot that was recorded

host == <<on, hour, pending, delay>>
vars == <<host, unit, spent, reading, file, snapshot, ended, excused>>

Ages == 0 .. Horizon

\* The state is well formed.
TypeOK ==
    /\ on \in BOOLEAN /\ pending \in BOOLEAN
    /\ hour \in 0 .. Day - 1 /\ delay \in 0 .. Jitter
    /\ unit \in [Services -> {"idle", "waiting", "running", "record", "trap"}]
    /\ \A s \in Services \ {"backup"} : unit[s] \in {"idle", "waiting", "running"}
    /\ spent \in [Services -> Nat] /\ \A s \in Services : spent[s] <= Limit[s]
    /\ reading \in 0 .. Limit["backup"]
    /\ file = None \/ file \in [success : BOOLEAN, last : Ages]
    /\ snapshot \in Ages
    /\ ended \in {"never", "recorded", "exit", "killed", "unwritten", "locked_out", "power"}
    /\ excused \in BOOLEAN

Init ==
    /\ on = TRUE /\ hour = 0 /\ pending = FALSE /\ delay = 0
    /\ unit = [s \in Services |-> "idle"] /\ spent = [s \in Services |-> 0]
    /\ reading = 0 /\ file = None
    /\ snapshot = Horizon /\ ended = "never" /\ excused = TRUE

Active(s) == unit[s] # "idle"
HasLock(s) == unit[s] \notin {"idle", "waiting"}
LockFree == \A s \in Services : ~HasLock(s)

\* The timer is due, and the service not still active from the last time.
Ready == on /\ pending /\ ~Active("backup")

\* How long a backup may take without the alert.
Slack == MaxAge - Day - Jitter

Older(age) == IF age < Horizon THEN age + 1 ELSE Horizon

(***************************************************************************)
(* Time, and the services as systemd and flock run them.                   *)
(***************************************************************************)
\* Time passes; what follows restic in the script takes none.
Tick ==
    /\ unit["backup"] \notin {"record", "trap"}
    /\ Ready => delay < Jitter
    /\ \A s \in Services : Active(s) => spent[s] < Limit[s]
    /\ \A s \in Services : unit[s] = "waiting" => spent[s] < LockWait /\ ~LockFree
    /\ hour' = IF hour + 1 = Day THEN 0 ELSE hour + 1
    /\ pending' = (pending \/ hour' = 0)
    /\ delay' = IF Ready THEN delay + 1 ELSE 0
    /\ spent' = [s \in Services |-> IF Active(s) THEN spent[s] + 1 ELSE 0]
    /\ reading' = IF unit["backup"] = "running" THEN reading + 1 ELSE 0
    /\ snapshot' = Older(snapshot)
    /\ file' = IF file = None THEN None
               ELSE [success |-> file.success, last |-> Older(file.last)]
    /\ excused' = (excused \/ spent'["backup"] > Slack)
    /\ UNCHANGED <<on, unit, ended>>

StartUnit(s) ==
    /\ on /\ ~Active(s)
    /\ unit' = [unit EXCEPT ![s] = "waiting"]
    /\ spent' = [spent EXCEPT ![s] = 0]
    /\ UNCHANGED <<on, hour, reading, file, snapshot, ended, excused>>

\* Started by hand, or by the timer of another service.
Start(s) == StartUnit(s) /\ UNCHANGED <<pending, delay>>

\* Persistent: what fell due while the host was down is made up for.
TimerElapses ==
    /\ Ready
    /\ StartUnit("backup")
    /\ pending' = FALSE /\ delay' = 0

\* A run under way when the timer elapses is left alone.  If somebody started it
\* by hand it counts for the timer; if the timer did, the next follows it.
TimerIsServed ==
    /\ on /\ pending /\ Active("backup")
    /\ pending' = FALSE /\ delay' = 0
    /\ UNCHANGED <<on, hour, unit, spent, reading, file, snapshot, ended, excused>>

GoTo(s, step) == unit' = [unit EXCEPT ![s] = step]

\* The service is over; why is of interest for the backup only.
End(s, why) ==
    /\ GoTo(s, "idle")
    /\ spent' = [spent EXCEPT ![s] = 0]
    /\ IF s = "backup" THEN reading' = 0 /\ ended' = why
       ELSE UNCHANGED <<reading, ended>>

Acquire(s) ==
    /\ unit[s] = "waiting" /\ LockFree
    /\ GoTo(s, "running")
    /\ UNCHANGED <<host, spent, reading, file, snapshot, ended, excused>>

\* flock gives up; the script never ran.
LockTimesOut(s) ==
    /\ unit[s] = "waiting" /\ ~LockFree /\ spent[s] = LockWait
    /\ End(s, "locked_out")
    /\ excused' = (excused \/ s = "backup")
    /\ UNCHANGED <<host, file, snapshot>>

\* SIGTERM, at the time limit or when somebody stops the service.  bash runs
\* the exit trap with the status of the last command that ended, and until
\* restic has ended that is the 0 of "set +e": the trap takes it for a success.
Terminate(s) ==
    /\ Active(s)
    /\ End(s, IF unit[s] = "waiting" THEN "locked_out" ELSE "killed")
    /\ excused' = (excused \/ s = "backup")
    /\ UNCHANGED <<host, file, snapshot>>

\* The other services succeed or fail.
Finish(s) ==
    /\ s # "backup" /\ unit[s] = "running"
    /\ End(s, "exit")
    /\ UNCHANGED <<host, file, snapshot, excused>>

\* The host loses power, and comes back.
PowerOff ==
    /\ on
    /\ on' = FALSE /\ delay' = 0
    /\ unit' = [s \in Services |-> "idle"] /\ spent' = [s \in Services |-> 0]
    /\ ended' = IF Active("backup") THEN "power" ELSE ended
    /\ reading' = 0 /\ excused' = TRUE
    /\ UNCHANGED <<hour, pending, file, snapshot>>

Boot ==
    /\ ~on
    /\ on' = TRUE
    /\ UNCHANGED <<hour, pending, delay, unit, spent, reading, file, snapshot, ended, excused>>

(***************************************************************************)
(* offsite-backups.sh.                                                     *)
(***************************************************************************)
\* A mistake: a backup that could not read some files is a failed one.
OnlyZero(code) == code = 0

\* The exit codes of restic with which there is a snapshot.
IsBackup(code) == code \in {0, 3}

\* restic backup ends; code 1 stands for every other, and for nothing to do.
ResticEnds ==
    /\ unit["backup"] = "running"
    /\ \E rc \in {0, 1, 3} :
          /\ snapshot' \in IF rc = 1 THEN {snapshot, reading} ELSE {reading}
          /\ excused' = (excused \/ rc = 1)
          /\ GoTo("backup", IF IsBackup(rc) THEN "record" ELSE "trap")
    /\ UNCHANGED <<host, spent, reading, file, ended>>

\* Two mistakes: a failed run takes itself for the last success, and no last
\* success is no number.
LastIsNow(success) == [success |-> success, last |-> 0]
LastMayBeBlank(success) ==
    [success |-> success,
     last |-> IF success THEN 0 ELSE IF file = None THEN None ELSE file.last]

\* What recordRun writes: a failure keeps the last success, or has the epoch.
Metrics(success) ==
    [success |-> success,
     last |-> IF success THEN 0 ELSE IF file = None THEN Horizon ELSE file.last]

RecordSuccess ==
    /\ unit["backup"] = "record"
    /\ file' = Metrics(TRUE)
    /\ End("backup", "recorded")
    /\ excused' = FALSE
    /\ UNCHANGED <<host, snapshot>>

\* The metrics file cannot be written: the script exits, into its trap.
RecordFails ==
    /\ unit["backup"] = "record"
    /\ GoTo("backup", "trap")
    /\ excused' = TRUE
    /\ UNCHANGED <<host, spent, reading, file, snapshot, ended>>

\* The exit trap records a failure, if it can.
Trap ==
    /\ unit["backup"] = "trap"
    /\ \/ file' = Metrics(FALSE) /\ End("backup", "exit") /\ UNCHANGED excused
       \/ UNCHANGED file /\ End("backup", "unwritten") /\ excused' = TRUE
    /\ UNCHANGED <<host, snapshot>>

Script == ResticEnds \/ RecordSuccess \/ RecordFails \/ Trap

Next ==
    \/ Tick \/ TimerElapses \/ TimerIsServed \/ PowerOff \/ Boot \/ Script
    \/ \E s \in Services :
          Start(s) \/ Acquire(s) \/ LockTimesOut(s) \/ Terminate(s) \/ Finish(s)

Spec == Init /\ [][Next]_vars

(***************************************************************************)
(* Properties.                                                             *)
(***************************************************************************)

\* OffsiteBackupStale of alerts.yml.j2.
StaleAlert == file # None /\ file.last > MaxAge

\* Once there are metrics, no host whose newest snapshot is older than MaxAge
\* and the longest run is without the alert: not when runs fail, are killed,
\* never get the lock or cannot write their metrics, in any order.  The run
\* counts because a success is dated at its end, its files at its start.
OldSnapshotsAreNoticed ==
    file # None /\ snapshot > MaxAge + Limit["backup"] => StaleAlert

\* The alert has a cause: since the last recorded snapshot a run made none, was
\* stopped, locked out or took longer than what MaxAge leaves over a day, its
\* metrics could not be written, or the host was down.  Waiting for the lock,
\* a delayed timer, a run by hand and unreadable files are none.
AlertHasCause == StaleAlert => excused

\* offsite-backups.sh.j2:45 promises that any unexpected exit of the script
\* records a failure (where the file can be written, and the host has power).
FailuresAreRecorded ==
    ended \in {"exit", "killed"} => file # None /\ ~file.success
=============================================================================
