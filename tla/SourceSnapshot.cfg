SPECIFICATION FairSpec
CONSTANTS
    Filesystems = {"/", "/var", "/var/lib"}
    Depth <- const_Depth
INVARIANTS SourceReleased PointInTime SnapshotAtRest NeverHeldFrozen
PROPERTIES ThawBegun
CHECK_DEADLOCK FALSE
