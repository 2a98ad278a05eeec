CONSTANTS
    ChunkSize = 2
    MaxBytes = 4
    MaxCrashes = 1
SPECIFICATION Spec
CHECK_DEADLOCK FALSE
INVARIANT NotReappended
