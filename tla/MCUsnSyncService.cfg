SPECIFICATION FairSpec
CONSTANTS
    File = {f1, f2}
    Noise = Noise
    Buf = 2
    MaxUsn = 3
    MaxId = 2
    MaxRuns = 2
    Concurrent = FALSE
INVARIANTS TypeOK NoRecordDropped CheckpointCovered RowsMirrorMemory
PROPERTIES CheckpointMonotone ChangesReachMemory
CHECK_DEADLOCK FALSE
