\* Does a log nobody edited verify?
CONSTANTS
    Writers = {w1, w2}
    Unlocked = Unlocked
    MaxBatch = 1
    MaxSeq = 3
SPECIFICATION Spec
INVARIANT UntouchedLogVerifies
CHECK_DEADLOCK FALSE
