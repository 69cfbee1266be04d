CONSTANTS
    MaxPolls = 3
    MaxSignals = 2
    None = None
SPECIFICATION FairSpec
INVARIANTS TypeOK CleanupAfterLoop
PROPERTIES KeepsPublishedView StopEndsProcess CrashEndsProcess
\* The process ends, so a last state is legal.
CHECK_DEADLOCK FALSE
