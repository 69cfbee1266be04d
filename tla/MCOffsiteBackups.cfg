\* The deployed times in units of eight hours, rounded up.
CONSTANTS
    Day = 3
    Jitter = 1
    LockWait = 1
    BackupLimit = 5
    OtherLimit = 2
    Limit <- MCLimit
    MaxAge = 5
    Horizon = 11
    None = None
SPECIFICATION Spec
INVARIANTS TypeOK OldSnapshotsAreNoticed AlertHasCause
