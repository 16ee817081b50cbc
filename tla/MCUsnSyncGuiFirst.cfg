SPECIFICATION Spec
CONSTANTS
    File = {f1, f2}
    Noise = Noise
    Buf = 2
    MaxUsn = 2
    MaxId = 2
    MaxRuns = 2
    Concurrent = TRUE
SYMMETRY FileSymmetry
INVARIANTS FirstRunKeepsAll
CHECK_DEADLOCK FALSE
