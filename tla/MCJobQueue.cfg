\* Two submissions of one key, two workers, which may crash; a message may be delivered again.
CONSTANTS
    c2 = c2
    w2 = w2
    k1 = k1
    Calls = {c1, c2}
    Keys = {k1}
    KeyOf <- MCKeyOf
    Workers = {w1, w2}
    None = None
    Chunks = 1
    MaxRetries = 1
    MaxCrashes = 1
    MaxRedeliveries = 1
    MaxAbandons = 1
SPECIFICATION FairSpec
ACTION_CONSTRAINT OneAtATime
INVARIANTS
    TypeOK
    SubmittedOnce
    OutcomeIsTrue
PROPERTIES
    EndIsFinal
    DispatchedJobsEnd
CHECK_DEADLOCK FALSE
