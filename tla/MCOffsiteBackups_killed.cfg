\* As MCOffsiteBackups.cfg, for the promise the script makes of itself.
CONSTANTS
    Day = 3
    Jitter = 1
    LockWait = 1
    BackupLimit = 5
    OtherLimit = 2
    Limit <- MCLimit
    MaxAge = 5
    Horizon = 11
    None = None
SPECIFICATION Spec
INVARIANT FailuresAreRecorded
