\* An address on the LAN, one that is not, and a device that may have either.
CONSTANTS
    NumAddresses = 2
    OnLan = {1}
    Devices = {d1}
    ReachableTime = 1
    MaxTime = 2
    MaxChanges = 1
    None = None
    ParseError = ParseError
    Texts <- MCTexts
    Pages <- MCPages
    Pods <- MCPods
SPECIFICATION ReadersSpec
INVARIANTS ReadersTypeOK SightingHonest PageWholeOrNothing PageWholeParses PlaybackNeverGuessed
PROPERTIES WholeDumpOrFailure
