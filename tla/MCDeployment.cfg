\* Two overlapping calls, four commands in all, one failure on the way.
CONSTANTS
    Sessions = {s1, s2}
    b1 = b1
    b2 = b2
    b3 = b3
    c1 = c1
    bottle = bottle
    cable = cable
    None = None
    Models = {b1, b2, b3}
    Categories = {bottle}
    CategoryOf <- MCCategoryOf
    Created <- MCCreated
    Auroc <- MCAuroc
    Recall <- MCRecall
    MinAuroc = 950
    Margin = 0
    MaxRegression = 10
    Commands <- MCAllCommands
    HistoryLimit = 3
    MaxCommands = 4
    MaxFailures = 1
SPECIFICATION Spec
INVARIANTS
    TypeOK
    ProductionWasEarned
    SlotHoldsUnlessChangesOverlap
    NoDeadlock
PROPERTY
    ChangesAreRecorded
CHECK_DEADLOCK FALSE
