SPECIFICATION FairSpec
CONSTANTS
    NumBlocks = 2
    MaxVersion = 2
    Recurring = FALSE
    HasSnapshot = TRUE
    MaxAgentFaults = 1
    MaxReceiverFaults = 2
    MaxRefusals = 1
    MaxForced = 1
    MaxRequests = 1
    None = None
INVARIANTS CheckpointIsDurable
PROPERTIES CatchesUp
