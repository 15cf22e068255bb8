SPECIFICATION ScenarioSpec
CONSTANTS
    Execution = {"e1", "e2"}
    Streams = {"stdout"}
    StreamBytes = {1, 2}
    totalBytes = 4
    MaxOutput = 3
    MaxCaptures = 2
    MaxFailures = 1
    Attempts <- OneAttempt
    Chunk = 1
CHECK_DEADLOCK FALSE
INVARIANTS  RetainsBeginning PrintsBeginning
PROPERTIES Drains
