\* One device that moves between two addresses.
CONSTANTS
    NumDevices = 1
    NumAddresses = 2
    h1 = h1
    Hosts = {h1}
    HostOf <- OneHost
    MaxAddressesPerMac = 1
    Retention = 1
    MaxAge = 0
    Enabled = {"arp", "mdns"}
    Reachable = 1
    Fragile = {"arp"}
    MaxTime = 2
    None = None
SPECIFICATION Spec
INVARIANTS TypeOK TargetsWereHeld NewestSurvives FilesFollowSnapshot
PROPERTIES ArpDecides
