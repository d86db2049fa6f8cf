SPECIFICATION FairSpec
CONSTANTS
    NumBlocks = 2
    MaxVersion = 2
    Recurring = FALSE
    HasSnapshot = TRUE
    MaxAgentFaults = 2
    MaxReceiverFaults = 0
    MaxRefusals = 1
    MaxForced = 1
    MaxRequests = 1
    None = None
INVARIANTS FrozenAtOneInstant
PROPERTIES KeepsTargetContract KeepsRequest BaselineRecorded
