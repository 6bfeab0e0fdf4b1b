\* One run with two tries per task beside an operator's version; one review, one fault or lost
\* try, one promotion or rollback by an operator, a gate that asks for no improvement.
CONSTANTS
    r1 = r1
    manual = manual
    i1 = i1
    i2 = i2
    VersionCalls <- MCVersionCalls
    Asked <- MCAsked
    Images = {i1, i2}
    FileOf <- MCFileOf
    Begun = Begun
    Mixed = Mixed
    CategoryOf <- MCCategoryOf
    Rank <- MCRank
    None = None
    TrainPercent = 70
    ValPercent = 15
    Rows <- MCRows
    Verdicts <- MCVerdicts
    MaxFaults = 1
    TrainCalls <- MCTries
    Wanted <- MCWanted
    Metrics <- MCMetrics
    Runs = {r1}
    MaxTries = 2
    Incumbent = Incumbent
    IncumbentMetrics <- MCIncumbentMetrics
    MinAuroc = 95
    Margin = 0
    MaxRegression = 1
    Windows <- MCWindows
    MinSamples = 200
    Orders <- MCOrders
    MaxOrders = 1
SPECIFICATION FairSpec
INVARIANTS
    TypeOK
    HashesAreTrue
    HeldOutStaysOut
    LineageIsTrue
    OutcomesAreTrue
PROPERTIES
    SuiteOnlyGrows
    EveryRunEnds
CHECK_DEADLOCK FALSE
