SPECIFICATION Spec
CONSTANTS
    SegmentBytes = 9
    RetainBytes = 9
    HighWater = 1
    ReplayChunk = 1
    Kinds <- MCFullOnly
    FromEnd = FALSE
    MaxRecords = 3
    MaxDrops = 1
    MaxCrashes = 0
    MaxLosses = 0
    MaxRemovals = 1
    MaxSubs = 2
    MaxFails = 1
INVARIANTS
    LiveAtEnd
    BufferBounded
PROPERTY StreamSpec
CHECK_DEADLOCK FALSE
