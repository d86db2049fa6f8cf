SPECIFICATION FairSpec
CONSTANTS
    DataDisks = {"data1", "data2"}
    MaxRuns = 2
    MaxStops = 2
    MaxRestarts = 2
    MayLag = FALSE
INVARIANTS LaunchedWhole CommandUsable TokenEndsWithRun Accounted
PROPERTIES CutoverEnds
CHECK_DEADLOCK FALSE
