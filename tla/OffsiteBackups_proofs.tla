------------------------ MODULE OffsiteBackups_proofs ------------------------
(***************************************************************************)
(* Proofs about OffsiteBackups, for any period, jitter, lock wait, time    *)
(* limits and alert threshold.                                             *)
(***************************************************************************)
EXTENDS OffsiteBackups, TLAPS

USE OffsiteBackupsAssumption

LEMMA OlderFacts ==
    ASSUME NEW age \in Ages
    PROVE  /\ Older(age) \in Ages
           /\ Older(age) <= age + 1
           /\ age <= Older(age)
           /\ age < Horizon => Older(age) = age + 1
           /\ age = Horizon => Older(age) = Horizon
BY DEF Older, Ages

LEMMA SlackIsNat == Slack \in Nat /\ Day + Jitter + Slack = MaxAge
BY DEF Slack

-----------------------------------------------------------------------------
\* Services run on a host that is up, and restic reads no longer than its run.
Runs ==
    /\ \A s \in Services : Active(s) => on
    /\ reading <= spent["backup"]
    /\ ~HasLock("backup") => reading = 0

\* The newest snapshot is no older than the last success and one run.
Data ==
    /\ file # None => snapshot <= file.last + Limit["backup"]
    /\ unit["backup"] = "record" => snapshot <= Limit["backup"]

\* What is not excused went by the timer.
Causes ==
    /\ unit["backup"] = "trap" => excused
    /\ ~on => excused
    /\ ~excused => spent["backup"] <= Slack

\* The last success is as old as the timer lets it become.
Timely ==
    (file # None /\ ~excused) =>
        /\ ~Active("backup") /\ ~pending => file.last <= hour
        /\ ~Active("backup") /\ pending => file.last <= Day + delay
        /\ Active("backup") => file.last <= Day + Jitter + spent["backup"]

Inv == TypeOK /\ Runs /\ Data /\ Causes /\ Timely

LEMMA LimitIsNat == \A s \in Services : Limit[s] \in Nat
OBVIOUS

LEMMA InitInv == Init => Inv
<1> SUFFICES ASSUME Init PROVE Inv
  OBVIOUS
<1> USE DEF Init
<1>1. /\ hour \in 0 .. Day - 1 /\ delay \in 0 .. Jitter /\ snapshot \in Ages
      /\ reading \in 0 .. Limit["backup"]
  BY LimitIsNat DEF Ages, Services
<1>2. /\ spent \in [Services -> Nat] /\ \A s \in Services : spent[s] <= Limit[s]
  BY LimitIsNat
<1>3. /\ unit \in [Services -> {"idle", "waiting", "running", "record", "trap"}]
      /\ \A s \in Services : unit[s] = "idle"
  OBVIOUS
<1>4. TypeOK
  BY <1>1, <1>2, <1>3 DEF TypeOK
<1>5. Runs /\ Data /\ Causes /\ Timely
  BY <1>3 DEF Runs, Data, Causes, Timely, Active, HasLock, Services
<1> QED
  BY <1>4, <1>5 DEF Inv

-----------------------------------------------------------------------------
\* Time passes: what the ages become.
LEMMA TickAges ==
    ASSUME Inv, Tick
    PROVE  /\ snapshot \in Ages /\ snapshot' \in Ages /\ snapshot' <= snapshot + 1
           /\ (file = None) => (file' = None)
           /\ (file # None) =>
                 /\ file' \in [success : BOOLEAN, last : Ages]
                 /\ file.last \in Ages /\ file'.last \in Ages
                 /\ file'.last <= file.last + 1
                 /\ file.last < Horizon => file'.last = file.last + 1
                 /\ file.last = Horizon => file'.last = Horizon
<1>1. snapshot \in Ages /\ snapshot' = Older(snapshot)
  BY DEF Inv, TypeOK, Tick
<1>2. ASSUME file # None
      PROVE  /\ file' \in [success : BOOLEAN, last : Ages]
             /\ file.last \in Ages /\ file'.last = Older(file.last)
  <2>1. file \in [success : BOOLEAN, last : Ages]
    BY <1>2 DEF Inv, TypeOK
  <2>2. file' = [success |-> file.success, last |-> Older(file.last)]
    BY <1>2 DEF Tick
  <2>3. file.success \in BOOLEAN /\ file.last \in Ages /\ Older(file.last) \in Ages
    BY <2>1, OlderFacts
  <2> QED
    BY <2>2, <2>3
<1>3. file = None => file' = None
  BY DEF Tick
<1> QED
  BY <1>1, <1>2, <1>3, OlderFacts

LEMMA TickType == ASSUME Inv, Tick PROVE TypeOK'
<1> USE DEF Inv, TypeOK
<1>1. hour' \in 0 .. Day - 1
  BY DEF Tick
<1>2. delay' \in 0 .. Jitter
  BY DEF Tick
<1>3. spent' \in [Services -> Nat] /\ \A s \in Services : spent'[s] <= Limit[s]
  BY LimitIsNat DEF Tick
<1>4. reading' \in 0 .. Limit["backup"]
  <2>1. CASE unit["backup"] = "running"
    <3>1. spent["backup"] < Limit["backup"]
      BY <2>1 DEF Tick, Active, Services
    <3>2. reading <= spent["backup"] /\ reading' = reading + 1
      BY <2>1 DEF Runs, Tick
    <3> QED
      BY <3>1, <3>2, LimitIsNat DEF Services
  <2>2. CASE unit["backup"] # "running"
    BY <2>2, LimitIsNat DEF Tick, Services
  <2> QED
    BY <2>1, <2>2
<1>5. snapshot' \in Ages /\ (file' = None \/ file' \in [success : BOOLEAN, last : Ages])
  BY TickAges
<1>6. pending' \in BOOLEAN /\ excused' \in BOOLEAN
  BY DEF Tick
<1>7. UNCHANGED <<on, unit, ended>>
  BY DEF Tick
<1> QED
  BY <1>1, <1>2, <1>3, <1>4, <1>5, <1>6, <1>7

LEMMA TickInv == ASSUME Inv, Tick PROVE Inv'
<1> DEFINE run == spent["backup"]
<1>1. /\ hour \in 0 .. Day - 1 /\ delay \in 0 .. Jitter /\ run \in Nat
      /\ reading \in Nat /\ Limit["backup"] \in Nat
  BY LimitIsNat DEF Inv, TypeOK, Services
<1>2. /\ UNCHANGED <<on, unit>>
      /\ unit["backup"] \notin {"record", "trap"}
      /\ Active("backup") => run' = run + 1
      /\ ~Active("backup") => run' = 0
      /\ Active("backup")' <=> Active("backup")
  BY DEF Tick, Active, Services
<1>3. Runs'
  <2>1. reading' <= run'
    BY <1>1, <1>2 DEF Inv, Runs, Tick, Active
  <2>2. ~HasLock("backup") => reading' = 0
    BY DEF HasLock, Tick
  <2> QED
    BY <1>2, <2>1, <2>2 DEF Inv, Runs, Active, HasLock
<1>4. Data'
  <2>1. ASSUME file' # None
        PROVE  snapshot' <= file'.last + Limit["backup"]
    <3>1. file # None
      BY <2>1, TickAges
    <3>2. snapshot <= file.last + Limit["backup"]
      BY <3>1 DEF Inv, Data
    <3> QED
      BY <1>1, <3>1, <3>2, TickAges DEF Ages
  <2> QED
    BY <1>2, <2>1 DEF Data
<1>5. Causes'
  <2>1. excused' \in BOOLEAN /\ (excused => excused') /\ (run' > Slack => excused')
    BY DEF Tick
  <2>2. ~excused' => run' <= Slack
    BY <2>1, <1>1, <1>2, SlackIsNat
  <2> QED
    BY <2>1, <2>2, <1>2 DEF Inv, Causes
<1>6. Timely'
  <2> SUFFICES ASSUME file' # None, ~excused'
               PROVE  /\ ~Active("backup") /\ ~pending' => file'.last <= hour'
                      /\ ~Active("backup") /\ pending' => file'.last <= Day + delay'
                      /\ Active("backup") => file'.last <= Day + Jitter + run'
    BY <1>2 DEF Timely
  <2>1. file # None /\ ~excused
    BY TickAges DEF Tick
  <2>2. on
    BY <2>1 DEF Inv, Causes
  <2>3. file.last \in Nat /\ file'.last \in Nat /\ file'.last <= file.last + 1
    BY <2>1, TickAges DEF Ages
  <2>4. CASE Active("backup")
    BY <1>1, <1>2, <2>1, <2>3, <2>4 DEF Inv, Timely
  <2>5. CASE ~Active("backup") /\ pending
    <3>1. delay' = delay + 1 /\ pending'
      BY <2>2, <2>5 DEF Tick, Ready
    <3>2. file.last <= Day + delay
      BY <2>1, <2>5 DEF Inv, Timely
    <3> QED
      BY <1>1, <2>3, <2>5, <3>1, <3>2
  <2>6. CASE ~Active("backup") /\ ~pending
    <3>1. delay' = 0 /\ (pending' <=> hour' = 0)
      BY <2>6 DEF Tick, Ready
    <3>2. file.last <= hour
      BY <2>1, <2>6 DEF Inv, Timely
    <3>3. hour' = IF hour + 1 = Day THEN 0 ELSE hour + 1
      BY DEF Tick
    <3>4. CASE hour + 1 = Day
      BY <1>1, <2>3, <2>6, <3>1, <3>2, <3>3, <3>4
    <3>5. CASE hour + 1 # Day
      BY <1>1, <2>3, <2>6, <3>1, <3>2, <3>3, <3>5
    <3> QED
      BY <3>4, <3>5
  <2> QED
    BY <2>4, <2>5, <2>6
<1> QED
  BY TickType, <1>3, <1>4, <1>5, <1>6 DEF Inv

-----------------------------------------------------------------------------
\* One service moves on, and the others stay where they are.
LEMMA MovesAre ==
    ASSUME Inv, NEW s \in Services, NEW step, GoTo(s, step)
    PROVE  /\ unit'[s] = step
           /\ \A t \in Services : t # s => unit'[t] = unit[t]
           /\ step \in {"idle", "waiting", "running"} \/ (s = "backup" /\ step \in {"record", "trap"})
                => /\ unit' \in [Services -> {"idle", "waiting", "running", "record", "trap"}]
                   /\ \A t \in Services \ {"backup"} : unit'[t] \in {"idle", "waiting", "running"}
<1>1. unit \in [Services -> {"idle", "waiting", "running", "record", "trap"}]
  BY DEF Inv, TypeOK
<1>2. unit'[s] = step /\ \A t \in Services : t # s => unit'[t] = unit[t]
  BY <1>1 DEF GoTo
<1>3. ASSUME step \in {"idle", "waiting", "running", "record", "trap"}
      PROVE  unit' \in [Services -> {"idle", "waiting", "running", "record", "trap"}]
  BY <1>1, <1>3 DEF GoTo
<1>4. ASSUME step \in {"idle", "waiting", "running"} \/ s = "backup"
      PROVE  \A t \in Services \ {"backup"} : unit'[t] \in {"idle", "waiting", "running"}
  BY <1>2, <1>4 DEF Inv, TypeOK
<1> QED
  BY <1>2, <1>3, <1>4

LEMMA ResetsAre ==
    ASSUME Inv, NEW s \in Services, spent' = [spent EXCEPT ![s] = 0]
    PROVE  /\ spent' \in [Services -> Nat] /\ \A t \in Services : spent'[t] <= Limit[t]
           /\ spent'[s] = 0 /\ \A t \in Services : t # s => spent'[t] = spent[t]
BY LimitIsNat DEF Inv, TypeOK

\* A service starts.
LEMMA StartInv ==
    ASSUME Inv, NEW s \in Services, StartUnit(s),
           \/ UNCHANGED <<pending, delay>>
           \/ s = "backup" /\ Ready /\ pending' = FALSE /\ delay' = 0
    PROVE  Inv'
<1>1. /\ on /\ ~Active(s) /\ GoTo(s, "waiting")
      /\ UNCHANGED <<on, hour, reading, file, snapshot, ended, excused>>
  BY DEF StartUnit, GoTo
<1>2. /\ unit'[s] = "waiting" /\ \A t \in Services : t # s => unit'[t] = unit[t]
      /\ unit' \in [Services -> {"idle", "waiting", "running", "record", "trap"}]
      /\ \A t \in Services \ {"backup"} : unit'[t] \in {"idle", "waiting", "running"}
  BY <1>1, MovesAre
<1>3. /\ spent' \in [Services -> Nat] /\ \A t \in Services : spent'[t] <= Limit[t]
      /\ spent'[s] = 0 /\ \A t \in Services : t # s => spent'[t] = spent[t]
  BY ResetsAre DEF StartUnit
<1>4. pending' \in BOOLEAN /\ delay' \in 0 .. Jitter
  <2>1. pending \in BOOLEAN /\ delay \in 0 .. Jitter /\ 0 \in 0 .. Jitter
    BY DEF Inv, TypeOK
  <2>2. CASE UNCHANGED <<pending, delay>>
    BY <2>1, <2>2
  <2>3. CASE pending' = FALSE /\ delay' = 0
    BY <2>1, <2>3
  <2> QED
    BY <2>2, <2>3
<1>5. TypeOK'
  BY <1>1, <1>2, <1>3, <1>4 DEF Inv, TypeOK
<1>6. Runs'
  <2>1. reading' <= spent'["backup"]
    <3>1. CASE s = "backup"
      BY <1>1, <1>3, <3>1 DEF Inv, Runs, Active, HasLock
    <3>2. CASE s # "backup"
      BY <1>1, <1>3, <3>2 DEF Inv, Runs, Services
    <3> QED
      BY <3>1, <3>2
  <2>2. ~HasLock("backup")' => reading' = 0
    <3>1. CASE s = "backup"
      BY <1>1, <3>1 DEF Inv, Runs, Active, HasLock
    <3>2. CASE s # "backup"
      BY <1>1, <1>2, <3>2 DEF Inv, Runs, HasLock, Services
    <3> QED
      BY <3>1, <3>2
  <2> QED
    BY <1>1, <2>1, <2>2 DEF Runs
<1>7. Data' /\ Causes'
  <2>1. unit'["backup"] \in {"waiting", unit["backup"]}
    BY <1>2 DEF Services
  <2>2. spent'["backup"] <= spent["backup"] /\ spent["backup"] \in Nat /\ spent'["backup"] \in Nat
    BY <1>3 DEF Services, Inv, TypeOK
  <2>3. Data'
    BY <1>1, <2>1 DEF Inv, Data
  <2>4. unit'["backup"] = "trap" => unit["backup"] = "trap"
    BY <2>1
  <2>5. ~excused => spent'["backup"] <= Slack
    BY <2>2, SlackIsNat DEF Inv, Causes
  <2>6. Causes'
    BY <1>1, <2>4, <2>5 DEF Inv, Causes
  <2> QED
    BY <2>3, <2>6
<1>8. Timely'
  <2> SUFFICES ASSUME file # None, ~excused
               PROVE  /\ ~Active("backup")' /\ ~pending' => file.last <= hour
                      /\ ~Active("backup")' /\ pending' => file.last <= Day + delay'
                      /\ Active("backup")' => file.last <= Day + Jitter + spent'["backup"]
    BY <1>1 DEF Timely
  <2>1. /\ hour \in 0 .. Day - 1 /\ delay \in 0 .. Jitter /\ file.last \in Nat
    BY DEF Inv, TypeOK, Ages
  <2>2. CASE s = "backup"
    <3>1. file.last <= hour \/ file.last <= Day + delay
      BY <1>1, <2>2 DEF Inv, TypeOK, Timely
    <3> QED
      BY <1>2, <1>3, <2>1, <2>2, <3>1 DEF Active
  <2>3. CASE s # "backup"
    BY <1>2, <1>3, <2>3 DEF Inv, Timely, Active, Services
  <2> QED
    BY <2>2, <2>3
<1> QED
  BY <1>5, <1>6, <1>7, <1>8 DEF Inv

LEMMA TimerIsServedInv == ASSUME Inv, TimerIsServed PROVE Inv'
<1>1. /\ Active("backup") /\ pending' = FALSE /\ delay' = 0
      /\ UNCHANGED <<on, hour, unit, spent, reading, file, snapshot, ended, excused>>
  BY DEF TimerIsServed
<1>2. 0 \in 0 .. Jitter
  OBVIOUS
<1>3. TypeOK'
  BY <1>1, <1>2 DEF Inv, TypeOK
<1>4. Runs' /\ Data' /\ Causes'
  BY <1>1 DEF Inv, Runs, Data, Causes, Active, HasLock
<1>5. Timely'
  BY <1>1 DEF Inv, Timely, Active
<1> QED
  BY <1>3, <1>4, <1>5 DEF Inv

\* The end of a service that leaves the timer and the metrics file alone, and of
\* which the alert need not know only if it is not the backup.
LEMMA EndInv ==
    ASSUME Inv, NEW s \in Services, NEW why, End(s, why),
           why \in {"exit", "killed", "unwritten", "locked_out"},
           UNCHANGED <<host, file, snapshot>>,
           excused' \in BOOLEAN, excused => excused', s = "backup" => excused'
    PROVE  Inv'
<1>1. GoTo(s, "idle") /\ UNCHANGED <<on, hour, pending, delay, file, snapshot>>
  BY DEF End, host
<1>2. /\ unit'[s] = "idle" /\ \A t \in Services : t # s => unit'[t] = unit[t]
      /\ unit' \in [Services -> {"idle", "waiting", "running", "record", "trap"}]
      /\ \A t \in Services \ {"backup"} : unit'[t] \in {"idle", "waiting", "running"}
  BY <1>1, MovesAre
<1>3. /\ spent' \in [Services -> Nat] /\ \A t \in Services : spent'[t] <= Limit[t]
      /\ spent'[s] = 0 /\ \A t \in Services : t # s => spent'[t] = spent[t]
  BY ResetsAre DEF End
<1>4. /\ s = "backup" => reading' = 0 /\ ended' = why
      /\ s # "backup" => reading' = reading /\ ended' = ended
  BY DEF End
<1>5. TypeOK'
  <2>1. reading' \in 0 .. Limit["backup"]
    BY <1>4, LimitIsNat DEF Inv, TypeOK, Services
  <2>2. ended' \in {"never", "recorded", "exit", "killed", "unwritten", "locked_out", "power"}
    BY <1>4 DEF Inv, TypeOK
  <2> QED
    BY <1>1, <1>2, <1>3, <2>1, <2>2 DEF Inv, TypeOK
<1>6. CASE s = "backup"
  <2>1. Runs' /\ Data'
    BY <1>1, <1>2, <1>3, <1>4, <1>6 DEF Inv, Runs, Data, Active, HasLock, Services
  <2>2. Causes' /\ Timely'
    BY <1>2, <1>6 DEF Causes, Timely
  <2> QED
    BY <1>5, <2>1, <2>2 DEF Inv
<1>7. CASE s # "backup"
  <2>1. unit'["backup"] = unit["backup"] /\ spent'["backup"] = spent["backup"]
    BY <1>2, <1>3, <1>7 DEF Services
  <2>2. Runs' /\ Data'
    BY <1>1, <1>2, <1>4, <1>7, <2>1 DEF Inv, Runs, Data, Active, HasLock, Services
  <2>3. Causes' /\ Timely'
    BY <1>1, <2>1 DEF Inv, Causes, Timely, Active
  <2> QED
    BY <1>5, <2>2, <2>3 DEF Inv
<1> QED
  BY <1>6, <1>7

LEMMA EndsInv ==
    ASSUME Inv, NEW s \in Services, LockTimesOut(s) \/ Terminate(s) \/ Finish(s)
    PROVE  Inv'
<1>1. excused \in BOOLEAN
  BY DEF Inv, TypeOK
<1>2. CASE LockTimesOut(s)
  BY <1>1, <1>2, EndInv DEF LockTimesOut
<1>3. CASE Terminate(s)
  <2>1. PICK why \in {"locked_out", "killed"} : End(s, why)
    BY <1>3 DEF Terminate
  <2> QED
    BY <1>1, <1>3, <2>1, EndInv DEF Terminate
<1>4. CASE Finish(s)
  BY <1>1, <1>4, EndInv DEF Finish
<1> QED
  BY <1>2, <1>3, <1>4

-----------------------------------------------------------------------------
LEMMA AcquireInv == ASSUME Inv, NEW s \in Services, Acquire(s) PROVE Inv'
<1>1. /\ unit[s] = "waiting" /\ GoTo(s, "running")
      /\ UNCHANGED <<on, hour, pending, delay, spent, reading, file, snapshot, ended, excused>>
  BY DEF Acquire, host
<1>2. /\ unit'[s] = "running" /\ \A t \in Services : t # s => unit'[t] = unit[t]
      /\ unit' \in [Services -> {"idle", "waiting", "running", "record", "trap"}]
      /\ \A t \in Services \ {"backup"} : unit'[t] \in {"idle", "waiting", "running"}
  BY <1>1, MovesAre
<1>3. TypeOK'
  BY <1>1, <1>2 DEF Inv, TypeOK
<1>4. \/ unit'["backup"] = unit["backup"]
      \/ unit["backup"] = "waiting" /\ unit'["backup"] = "running"
  BY <1>1, <1>2 DEF Services
<1>5. Runs'
  BY <1>1, <1>2, <1>4 DEF Inv, Runs, Active, HasLock
<1>6. Data' /\ Causes' /\ Timely'
  BY <1>1, <1>4 DEF Inv, Data, Causes, Timely, Active
<1> QED
  BY <1>3, <1>5, <1>6 DEF Inv

\* The host goes down, and comes up: from then on the alert may fire.
LEMMA PowerInv == ASSUME Inv, PowerOff \/ Boot PROVE Inv'
<1>1. CASE PowerOff
  <2>1. /\ on' = FALSE /\ delay' = 0 /\ reading' = 0 /\ excused' = TRUE
        /\ UNCHANGED <<hour, pending, file, snapshot>>
    BY <1>1 DEF PowerOff
  <2>2. /\ unit' \in [Services -> {"idle", "waiting", "running", "record", "trap"}]
        /\ \A s \in Services : unit'[s] = "idle"
    BY <1>1 DEF PowerOff
  <2>3. /\ spent' \in [Services -> Nat]
        /\ \A s \in Services : spent'[s] = 0 /\ spent'[s] <= Limit[s]
    BY <1>1, LimitIsNat DEF PowerOff
  <2>4. ended' \in {"never", "recorded", "exit", "killed", "unwritten", "locked_out", "power"}
    BY <1>1 DEF PowerOff, Inv, TypeOK
  <2>5. 0 \in 0 .. Limit["backup"] /\ 0 \in 0 .. Jitter
    BY LimitIsNat DEF Services
  <2>6. TypeOK'
    BY <2>1, <2>2, <2>3, <2>4, <2>5 DEF Inv, TypeOK
  <2>7. Runs' /\ Data'
    BY <2>1, <2>2, <2>3 DEF Inv, Runs, Data, Active, Services
  <2>8. Causes' /\ Timely'
    BY <2>1, <2>2 DEF Causes, Timely, Services
  <2> QED
    BY <2>6, <2>7, <2>8 DEF Inv
<1>2. CASE Boot
  <2>1. /\ on' = TRUE /\ ~on
        /\ UNCHANGED <<hour, pending, delay, unit, spent, reading, file, snapshot, ended, excused>>
    BY <1>2 DEF Boot
  <2>2. TypeOK' /\ Runs'
    BY <2>1 DEF Inv, TypeOK, Runs, Active, HasLock
  <2>3. Data' /\ Causes' /\ Timely'
    BY <2>1 DEF Inv, Data, Causes, Timely, Active
  <2> QED
    BY <2>2, <2>3 DEF Inv
<1> QED
  BY <1>1, <1>2

-----------------------------------------------------------------------------
\* The script goes on to its next step.
LEMMA ResticEndsInv == ASSUME Inv, ResticEnds PROVE Inv'
<1>1. PICK rc \in {0, 1, 3} :
        /\ snapshot' \in IF rc = 1 THEN {snapshot, reading} ELSE {reading}
        /\ excused' = (excused \/ rc = 1)
        /\ GoTo("backup", IF IsBackup(rc) THEN "record" ELSE "trap")
  BY DEF ResticEnds
<1>2. /\ unit["backup"] = "running"
      /\ UNCHANGED <<on, hour, pending, delay, spent, reading, file, ended>>
  BY DEF ResticEnds, host
<1>3. PICK step \in {"record", "trap"} :
        /\ GoTo("backup", step)
        /\ step = "record" => snapshot' = reading
        /\ step = "trap" => excused'
  <2>1. CASE rc = 1
    <3>1. ~IsBackup(rc)
      BY <2>1 DEF IsBackup
    <3>2. GoTo("backup", "trap")
      BY <1>1, <3>1
    <3>3. excused'
      BY <1>1, <2>1
    <3> QED
      BY <3>2, <3>3
  <2>2. CASE rc # 1
    <3>1. GoTo("backup", "record") /\ snapshot' = reading
      BY <1>1, <2>2 DEF IsBackup
    <3> QED
      BY <3>1
  <2> QED
    BY <2>1, <2>2
<1>4. /\ unit'["backup"] = step /\ \A t \in Services : t # "backup" => unit'[t] = unit[t]
      /\ unit' \in [Services -> {"idle", "waiting", "running", "record", "trap"}]
      /\ \A t \in Services \ {"backup"} : unit'[t] \in {"idle", "waiting", "running"}
  BY <1>3, MovesAre DEF Services
<1>5. /\ reading \in 0 .. Limit["backup"] /\ reading \in Ages /\ snapshot \in Ages
      /\ Limit["backup"] \in Nat
  BY LimitIsNat DEF Inv, TypeOK, Ages, Services
<1>6. snapshot' \in {snapshot, reading} /\ excused' \in BOOLEAN /\ (excused => excused')
  BY <1>1 DEF Inv, TypeOK
<1>7. TypeOK'
  BY <1>2, <1>4, <1>5, <1>6 DEF Inv, TypeOK
<1>8. Runs'
  <2>1. on
    BY <1>2 DEF Inv, Runs, Active, Services
  <2> QED
    BY <1>2, <1>4, <2>1 DEF Inv, Runs, HasLock
<1>9. Data'
  <2>1. file # None => file.last \in Nat
    BY DEF Inv, TypeOK, Ages
  <2>2. reading <= Limit["backup"]
    BY <1>5
  <2>3. file # None => reading <= file.last + Limit["backup"]
    BY <1>5, <2>1
  <2> QED
    BY <1>2, <1>3, <1>4, <1>6, <2>2, <2>3 DEF Inv, Data
<1>10. Causes' /\ Timely'
  <2>1. Active("backup") /\ Active("backup")'
    BY <1>2, <1>4 DEF Active
  <2>2. Timely'
    BY <1>2, <1>6, <2>1 DEF Inv, Timely
  <2>3. Causes'
    BY <1>2, <1>3, <1>4, <1>6 DEF Inv, Causes
  <2> QED
    BY <2>2, <2>3
<1> QED
  BY <1>7, <1>8, <1>9, <1>10 DEF Inv

LEMMA RecordSuccessInv == ASSUME Inv, RecordSuccess PROVE Inv'
<1>1. /\ unit["backup"] = "record" /\ GoTo("backup", "idle")
      /\ UNCHANGED <<on, hour, pending, delay, snapshot>>
      /\ spent' = [spent EXCEPT !["backup"] = 0] /\ reading' = 0
      /\ ended' = "recorded" /\ excused' = FALSE
  BY DEF RecordSuccess, End, host
<1>2. /\ unit'["backup"] = "idle" /\ \A t \in Services : t # "backup" => unit'[t] = unit[t]
      /\ unit' \in [Services -> {"idle", "waiting", "running", "record", "trap"}]
      /\ \A t \in Services \ {"backup"} : unit'[t] \in {"idle", "waiting", "running"}
  BY <1>1, MovesAre DEF Services
<1>3. /\ spent' \in [Services -> Nat] /\ \A t \in Services : spent'[t] <= Limit[t]
      /\ spent'["backup"] = 0
  BY <1>1, ResetsAre DEF Services
<1>4. file' \in [success : BOOLEAN, last : Ages] /\ file'.last = 0
  <2>1. file' = [success |-> TRUE, last |-> 0] /\ 0 \in Ages
    BY DEF RecordSuccess, Metrics, Ages
  <2> QED
    BY <2>1
<1>5. 0 \in 0 .. Limit["backup"]
  BY LimitIsNat DEF Services
<1>6. TypeOK'
  BY <1>1, <1>2, <1>3, <1>4, <1>5 DEF Inv, TypeOK
<1>7. on
  BY <1>1 DEF Inv, Runs, Active, Services
<1>8. Runs'
  BY <1>1, <1>2, <1>3, <1>7 DEF Runs
<1>9. Data'
  <2>1. snapshot <= 0 + Limit["backup"]
    BY <1>1, LimitIsNat DEF Inv, Data, Services
  <2> QED
    BY <1>1, <1>2, <1>4, <2>1 DEF Data
<1>10. Causes'
  BY <1>1, <1>2, <1>3, <1>7, SlackIsNat DEF Causes
<1>11. Timely'
  <2>1. ~Active("backup")'
    BY <1>2 DEF Active
  <2>2. 0 <= hour' /\ 0 <= Day + delay'
    <3>1. hour \in 0 .. Day - 1 /\ delay \in 0 .. Jitter
      BY DEF Inv, TypeOK
    <3>2. 0 <= hour /\ 0 <= Day + delay
      BY <3>1
    <3> QED
      BY <1>1, <3>2
  <2>3. file'.last <= hour' /\ file'.last <= Day + delay'
    BY <1>4, <2>2
  <2> QED
    BY <2>1, <2>3, Zenon DEF Timely
<1> QED
  BY <1>6, <1>8, <1>9, <1>10, <1>11 DEF Inv

LEMMA RecordFailsInv == ASSUME Inv, RecordFails PROVE Inv'
<1>1. /\ unit["backup"] = "record" /\ GoTo("backup", "trap") /\ excused' = TRUE
      /\ UNCHANGED <<on, hour, pending, delay, spent, reading, file, snapshot, ended>>
  BY DEF RecordFails, host
<1>2. /\ unit'["backup"] = "trap" /\ \A t \in Services : t # "backup" => unit'[t] = unit[t]
      /\ unit' \in [Services -> {"idle", "waiting", "running", "record", "trap"}]
      /\ \A t \in Services \ {"backup"} : unit'[t] \in {"idle", "waiting", "running"}
  BY <1>1, MovesAre DEF Services
<1>3. TypeOK'
  BY <1>1, <1>2 DEF Inv, TypeOK
<1>4. on
  BY <1>1 DEF Inv, Runs, Active, Services
<1>5. Runs' /\ Data'
  BY <1>1, <1>2, <1>4 DEF Inv, Runs, Data, HasLock
<1>6. Causes' /\ Timely'
  BY <1>1 DEF Causes, Timely
<1> QED
  BY <1>3, <1>5, <1>6 DEF Inv

\* What a failed run writes is no later a success than what it found.
LEMMA TrapInv == ASSUME Inv, Trap PROVE Inv'
<1>1. /\ unit["backup"] = "trap" /\ UNCHANGED <<on, hour, pending, delay, snapshot>>
  BY DEF Trap, host
<1>2. excused
  BY <1>1 DEF Inv, Causes
<1>3. CASE UNCHANGED file /\ End("backup", "unwritten") /\ excused' = TRUE
  BY <1>1, <1>3, EndInv DEF host, Services
<1>4. CASE file' = Metrics(FALSE) /\ End("backup", "exit") /\ UNCHANGED excused
  <2>1. /\ GoTo("backup", "idle") /\ spent' = [spent EXCEPT !["backup"] = 0]
        /\ reading' = 0 /\ ended' = "exit" /\ excused' = TRUE
    BY <1>2, <1>4 DEF End, Inv, TypeOK
  <2>2. /\ unit'["backup"] = "idle" /\ \A t \in Services : t # "backup" => unit'[t] = unit[t]
        /\ unit' \in [Services -> {"idle", "waiting", "running", "record", "trap"}]
        /\ \A t \in Services \ {"backup"} : unit'[t] \in {"idle", "waiting", "running"}
    BY <2>1, MovesAre DEF Services
  <2>3. /\ spent' \in [Services -> Nat] /\ \A t \in Services : spent'[t] <= Limit[t]
        /\ spent'["backup"] = 0
    BY <2>1, ResetsAre DEF Services
  <2>4. PICK last \in Ages :
          /\ file' = [success |-> FALSE, last |-> last]
          /\ snapshot <= last + Limit["backup"]
    <3>1. CASE file = None
      <4>1. Horizon \in Ages /\ snapshot <= Horizon + Limit["backup"]
        BY LimitIsNat DEF Inv, TypeOK, Ages, Services
      <4> QED
        BY <1>4, <3>1, <4>1 DEF Metrics
    <3>2. CASE file # None
      <4>1. file.last \in Ages /\ snapshot <= file.last + Limit["backup"]
        BY <3>2 DEF Inv, TypeOK, Data
      <4> QED
        BY <1>4, <3>2, <4>1 DEF Metrics
    <3> QED
      BY <3>1, <3>2
  <2>5. file' \in [success : BOOLEAN, last : Ages] /\ file'.last = last
    BY <2>4
  <2>6. 0 \in 0 .. Limit["backup"]
    BY LimitIsNat DEF Services
  <2>7. TypeOK'
    BY <1>1, <2>1, <2>2, <2>3, <2>5, <2>6 DEF Inv, TypeOK
  <2>8. on
    BY <1>1 DEF Inv, Runs, Active, Services
  <2>9. Runs' /\ Data'
    BY <1>1, <2>1, <2>2, <2>3, <2>4, <2>5, <2>8 DEF Runs, Data
  <2>10. Causes' /\ Timely'
    BY <2>1 DEF Causes, Timely
  <2> QED
    BY <2>7, <2>9, <2>10 DEF Inv
<1> QED
  BY <1>3, <1>4 DEF Trap

-----------------------------------------------------------------------------
LEMMA StutterInv == ASSUME Inv, UNCHANGED vars PROVE Inv'
<1>1. UNCHANGED <<on, hour, pending, delay, unit, spent, reading, file, snapshot, ended, excused>>
  BY DEF vars, host
<1>2. TypeOK' /\ Runs'
  BY <1>1 DEF Inv, TypeOK, Runs, Active, HasLock
<1>3. Data' /\ Causes' /\ Timely'
  BY <1>1 DEF Inv, Data, Causes, Timely, Active
<1> QED
  BY <1>2, <1>3 DEF Inv

LEMMA NextInv == ASSUME Inv, [Next]_vars PROVE Inv'
<1>1. CASE TimerElapses
  BY <1>1, StartInv DEF TimerElapses, Services
<1>2. ASSUME NEW s \in Services, Start(s) PROVE Inv'
  BY <1>2, StartInv DEF Start
<1>3. CASE Script
  BY <1>3, ResticEndsInv, RecordSuccessInv, RecordFailsInv, TrapInv DEF Script
<1>4. ASSUME NEW s \in Services, Acquire(s) \/ LockTimesOut(s) \/ Terminate(s) \/ Finish(s)
      PROVE  Inv'
  BY <1>4, AcquireInv, EndsInv
<1> QED
  BY <1>1, <1>2, <1>3, <1>4, TickInv, TimerIsServedInv, PowerInv, StutterInv DEF Next

\* The invariant the others follow from.
THEOREM Invariance == Spec => []Inv
<1> QED
  BY InitInv, NextInv, PTL DEF Spec

\* The state is well formed whatever the services and the host do: no run is
\* over its time limit, and the metrics file always has a number to be parsed.
THEOREM TypeCorrect == Spec => []TypeOK
<1>1. Inv => TypeOK
  BY DEF Inv
<1> QED
  BY <1>1, Invariance, PTL

\* However runs fail, are killed, find no lock or cannot write the metrics file
\* (recordRun of offsite-backups.sh.j2), a host whose newest snapshot is older
\* than the threshold and the longest run has the alert OffsiteBackupStale.
THEOREM OldSnapshotsAreNoticedHolds == Spec => []OldSnapshotsAreNoticed
<1>1. ASSUME Inv PROVE OldSnapshotsAreNoticed
  <2> SUFFICES ASSUME file # None, snapshot > MaxAge + Limit["backup"]
               PROVE  file.last > MaxAge
    BY DEF OldSnapshotsAreNoticed, StaleAlert
  <2>1. snapshot <= file.last + Limit["backup"]
    BY <1>1 DEF Inv, Data
  <2>2. snapshot \in Nat /\ file.last \in Nat /\ Limit["backup"] \in Nat
    BY <1>1, LimitIsNat DEF Inv, TypeOK, Ages, Services
  <2> QED
    BY <2>1, <2>2
<1> QED
  BY <1>1, Invariance, PTL

\* The alert (alerts.yml.j2) fires on no host whose runs since the last snapshot
\* all went by the timer and took no longer than what the threshold leaves.
THEOREM AlertHasCauseHolds == Spec => []AlertHasCause
<1>1. ASSUME Inv PROVE AlertHasCause
  <2> SUFFICES ASSUME file # None, ~excused
               PROVE  file.last <= MaxAge
    <3>1. file # None => file.last \in Nat
      BY <1>1 DEF Inv, TypeOK, Ages
    <3> QED
      BY <3>1 DEF AlertHasCause, StaleAlert
  <2>1. /\ hour \in 0 .. Day - 1 /\ delay \in 0 .. Jitter /\ file.last \in Nat
        /\ spent["backup"] \in Nat /\ pending \in BOOLEAN
    BY <1>1 DEF Inv, TypeOK, Ages, Services
  <2>2. spent["backup"] <= Slack
    BY <1>1 DEF Inv, Causes
  <2>3. CASE Active("backup")
    BY <1>1, <2>1, <2>2, <2>3, SlackIsNat DEF Inv, Timely
  <2>4. CASE ~Active("backup") /\ pending
    BY <1>1, <2>1, <2>4, SlackIsNat DEF Inv, Timely
  <2>5. CASE ~Active("backup") /\ ~pending
    BY <1>1, <2>1, <2>5, SlackIsNat DEF Inv, Timely
  <2> QED
    BY <2>3, <2>4, <2>5
<1> QED
  BY <1>1, Invariance, PTL
=============================================================================
