\* A tenth of jitter shows in the capped wait: 9, 10 or 11.
CONSTANTS
    Interval = 3
    Cap = 10
    Window = 10
    RequestTime = 1
    MaxExponent = 3
    Horizon = 25
    None = None
SPECIFICATION FairSpec
INVARIANTS TypeOK
PROPERTIES PersonThrownOutRarely GapIsBounded PinCheckedEveryPoll RecoversWhenCalm
