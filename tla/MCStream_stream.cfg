SPECIFICATION OneKindSpec
CONSTANTS
    None = None
    streamWindowSize = 3
    windowUpdateThreshold = 2
    maxSeg = 2
    Payloads <- Sizes
    Reasons <- Usual
    Closes = {"CloseRead", "Close", "PairClose"}
INVARIANT NeverOverrun
PROPERTIES ReliablePipe CreditKept AllDelivered 
CHECK_DEADLOCK FALSE
