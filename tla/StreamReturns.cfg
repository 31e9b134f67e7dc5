SPECIFICATION FairSpec
CONSTANTS
    SegmentBytes = 1
    RetainBytes = 1
    HighWater = 0
    ReplayChunk = 1
    Kinds <- MCBothKinds
    FromEnd = TRUE
    MaxRecords = 2
    MaxDrops = 0
    MaxCrashes = 1
    MaxLosses = 1
    MaxRemovals = 0
    MaxSubs = 1
    MaxFails = 1
INVARIANTS
    TypeOK
    FilterBehindCursor
PROPERTIES
    CatchesUp
    StreamUnracedSpec
CHECK_DEADLOCK FALSE
