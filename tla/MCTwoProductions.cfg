\* Can overlapping calls leave two models in production?
CONSTANTS
    Sessions = {s1, s2}
    b1 = b1
    b2 = b2
    b3 = b3
    c1 = c1
    bottle = bottle
    cable = cable
    None = None
    Models = {b1, b2, b3}
    Categories = {bottle}
    CategoryOf <- MCCategoryOf
    Created <- MCCreated
    Auroc <- MCAuroc
    Recall <- MCRecall
    MinAuroc = 950
    Margin = 5
    MaxRegression = 10
    Commands <- MCCommands
    HistoryLimit = 3
    MaxCommands = 2
    MaxFailures = 0
SPECIFICATION Spec
INVARIANT AtMostOneProduction
CHECK_DEADLOCK FALSE
