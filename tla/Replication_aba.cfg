SPECIFICATION Spec
CONSTANTS
    NumBlocks = 2
    MaxVersion = 2
    Recurring = TRUE
    HasSnapshot = FALSE
    MaxAgentFaults = 1
    MaxReceiverFaults = 0
    MaxRefusals = 0
    MaxForced = 0
    MaxRequests = 0
    None = None
INVARIANTS CheckpointIsDurable
