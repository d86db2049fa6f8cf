SPECIFICATION Spec
CONSTANTS
    MaxCreations = 2
    Forms <- const_Forms
    Plans <- const_Plans
    GiB = 4
    FloorGiB = 2
    MaxRefusals = 1
    MaxFaults = 1
    MaxRestarts = 1
    MayCross = FALSE
INVARIANTS VolumesAccounted   RoundedSizesFit
