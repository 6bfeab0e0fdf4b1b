\* Calls that take turns in each of two categories, five commands in all, one failure on the way.
CONSTANTS
    Sessions = {s1, s2}
    b1 = b1
    b2 = b2
    b3 = b3
    c1 = c1
    bottle = bottle
    cable = cable
    None = None
    Models = {b1, b2, b3, c1}
    Categories = {bottle, cable}
    CategoryOf <- MCCategoryOf
    Created <- MCCreated
    Auroc <- MCAuroc
    Recall <- MCRecall
    MinAuroc = 930
    Margin = 5
    MaxRegression = 10
    Commands <- MCCommands
    HistoryLimit = 3
    MaxCommands = 5
    MaxFailures = 1
SYMMETRY CallSymmetry
SPECIFICATION Spec
CONSTRAINT OneCallPerCategory
INVARIANTS
    RegistryInSync
PROPERTY
    ImplementsSlot
CHECK_DEADLOCK FALSE
