SPECIFICATION Spec
CONSTANTS
    DeviceSize = 5
    BlockSize = 3
    EraBytes = 2
    MaxEra = 6
    MayRollMidPass = FALSE
    MayWriteBetween = FALSE
INVARIANTS NoChangeMissed PassIsItsImage
CHECK_DEADLOCK FALSE
