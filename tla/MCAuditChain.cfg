\* Three transactions, up to two appends each, five identity values.
CONSTANTS
    Writers = {w1, w2, w3}
    Unlocked = Unlocked
    MaxBatch = 2
    MaxSeq = 5
SPECIFICATION FairSpec
INVARIANTS
    TypeOK
    BreaksAreGaps
    RefusedOnlyWhenStale
    EditsDetected
PROPERTIES
    LogImplementsPromise
    EveryWriterFinishes
CHECK_DEADLOCK FALSE
