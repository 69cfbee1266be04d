\* A write that fails after the device has moved.
CONSTANTS
    NumDevices = 1
    NumAddresses = 2
    h1 = h1
    Hosts = {h1}
    HostOf <- OneHost
    MaxAddressesPerMac = 1
    Retention = 1
    MaxAge = 1
    Enabled = {"arp"}
    Reachable = 0
    Fragile = {}
    MaxTime = 2
    None = None
SPECIFICATION Spec
INVARIANTS FrozenRulesQuiet
