SPECIFICATION FairSpec
CONSTANTS
    Migrations <- const_Migrations
    Buffer = 1
    RegionIsCluster = FALSE
    MaxEntries = 1
    MaxRequests = 2
    MaxFaults = 1
INVARIANTS UploadedIsThere DeletedIsGone
PROPERTIES LogsReachBucket
CHECK_DEADLOCK FALSE
