\* Two clients on one access point: polls that raise half way, forgetting.
CONSTANTS
    Clients = {c1, c2}
    NumAps = 1
    Wrap = 3
    ForgetAfter = 2
    MaxMoved = 1
    MaxIdle = 0
    None = None
    Damaged = Damaged
    Retention = 1
    MaxAddressesPerMac = 3
    Networks <- MCNetworks
    Levels = 2
    RouterMac = "r"
    Tracked <- HomePods
SPECIFICATION AmplifiSpec
INVARIANTS TypeOK ServesWhatTheRouterKnew NoSeriesTwice SourceOkIsTrue
PROPERTIES GoneIsForgotten PollsRecover
