SPECIFICATION ScenarioSpec
CONSTANTS
    Execution = {"e1", "e2"}
    Streams = {"stdout"}
    StreamBytes = {2}
    totalBytes = 8
    MaxOutput = 2
    MaxCaptures = 1
    MaxFailures = 0
    Attempts <- TwoAttempts
    Chunk = 2
CHECK_DEADLOCK FALSE
INVARIANT PrintsBeginning
