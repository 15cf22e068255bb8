SPECIFICATION ScenarioSpec
CONSTANTS
    e1 = e1  e2 = e2  None = None
    Executions = {e1, e2}
    MaxPairs = 2
    MaxPendingSessions = 1
    MaxFrames = 4
    MaxDials = 2
    MaxFaults = 1
CHECK_DEADLOCK FALSE
INVARIANTS NeverHalfOpen RoutesToLivePair SessionsAreRecorded
PROPERTIES TunnelEnds SessionIsReleased
