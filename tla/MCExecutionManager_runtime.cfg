SPECIFICATION FairSpec
CONSTANTS
    Fingerprints = {"f", "g"}
    Caller = {"c1", "c2", "c3", "c4", "c5"}
    Op <- Calls
    Asks <- Specs
    MaxEntries = 2
    MaxFaults = 1
    Closing = TRUE
    MaxCrashes = 1
CHECK_DEADLOCK FALSE
INVARIANTS MonitoredIsRegistered ExitKept
PROPERTIES  CallsReturn
