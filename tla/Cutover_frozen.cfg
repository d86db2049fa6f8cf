SPECIFICATION Spec
CONSTANTS
    MaxRuns = 2
    MaxListeners = 2
    ConsoleOnly = TRUE
    MayOverrun = FALSE
    MayStopLate = FALSE
    MayRace = FALSE
    MaxStops = 2
    MaxRestarts = 1
    Removals = TRUE
INVARIANTS SafeToPowerOff ClonesOnePass LaunchedHasInstance RecordedExists
CHECK_DEADLOCK FALSE
