CONSTANTS
    Pages = 2
    Cells = 2
    Keep = 2
    Stamp = 2
    FlashFails = FALSE
    Ids <- MCIds
    EnvBudget = 6
    Faults = {"reset", "torn", "case"}
SPECIFICATION MCFairSpec
INVARIANTS TypeOK
PROPERTIES ImplementsCauseLog IntrusionReported
CHECK_DEADLOCK FALSE
