SPECIFICATION FairSpec
CONSTANTS
    Disks = {"root", "data"}
    Sources <- const_Sources
    MaxCutovers = 2
    MaxStops = 2
    MaxPauses = 1
    MaxFaults = 1
    MaxUpsets = 2
    MayOvertake = FALSE
INVARIANTS  RequestHasOwner PauseHolds
PROPERTIES SourceAnswers KeepsRequest
CHECK_DEADLOCK FALSE
