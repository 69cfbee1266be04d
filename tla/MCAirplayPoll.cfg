\* One HomePod; whoever has its old address is not tracked.
CONSTANTS
    HomePods = {h1}
    Services = {"airplay"}
    Addresses = {a1, a2}
    Ttl = 1
    MaxAge = 0
    PollTime = 1
    Horizon = 2
    None = None
SPECIFICATION FairSpec
INVARIANTS TypeOK LastSeenHonest
PROPERTIES LastSeenNeverGoesBack SilentForAReason GoneIsReported
