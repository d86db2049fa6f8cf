SPECIFICATION FairSpec
CONSTANTS
    MaxRuns = 2
    MaxListeners = 2
    ConsoleOnly = FALSE
    MayOverrun = TRUE
    MayStopLate = TRUE
    MayRace = TRUE
    MaxStops = 1
    MaxRestarts = 0
    Removals = FALSE
INVARIANTS RecordedExists
PROPERTIES CutoverEnds
CHECK_DEADLOCK FALSE
