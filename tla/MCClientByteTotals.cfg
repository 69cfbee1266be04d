\* One client on two access points.
CONSTANTS
    Clients = {c1}
    NumAps = 2
    Wrap = 3
    ForgetAfter = 2
    MaxMoved = 4
    MaxIdle = 1
    None = None
SPECIFICATION Spec
INVARIANTS TypeOK NeverOverCounts
PROPERTIES AddsOnlyWhatMoved AddsAllWhenUnbroken TotalNeverGoesBack
