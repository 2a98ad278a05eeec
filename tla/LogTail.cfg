CONSTANTS
    ChunkSize = 2
    MaxBytes = 6
    MaxCrashes = 3
SPECIFICATION FairSpec
CHECK_DEADLOCK FALSE
INVARIANT LogIsFaithful
PROPERTY OutputIsStored
