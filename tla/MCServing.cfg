\* Three requests for two slots and two threads; one promotion; one failure.
CONSTANTS
    r1 = r1
    r2 = r2
    r3 = r3
    bottle = bottle
    Requests <- MCRequests
    Categories = {bottle}
    Versions = {v1, v2}
    CategoryOf <- MCCategoryOf
    None = None
    Slots = 2
    PoolSize = 2
    MaxPromotions = 1
    MaxFailures = 1
SPECIFICATION FairSpec
ACTION_CONSTRAINT InOneOrder
INVARIANTS
    TypeOK
    AnswersAreTrue
    LocksAreLive
    DelaysComeFromAbandoned
PROPERTIES
    NoRedundantReload
    EveryRequestIsAnswered
CHECK_DEADLOCK FALSE
