CONSTANTS
    MaxPolls = 1
    MaxSignals = 1
    None = None
SPECIFICATION FairSpec
PROPERTIES SignalEndsProcess
\* The process ends, so a last state is legal.
CHECK_DEADLOCK FALSE
