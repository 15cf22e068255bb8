SPECIFICATION Spec
CONSTANTS
    Fingerprints = {"f", "g"}
    Caller = {"c1", "c2", "c3", "c4"}
    Op <- Stops
    Asks <- Same
    MaxEntries = 2
    MaxFaults = 0
    Closing = TRUE
    MaxCrashes = 0
CHECK_DEADLOCK FALSE
INVARIANT RunningIsNotReported
