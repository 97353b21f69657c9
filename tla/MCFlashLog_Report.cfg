CONSTANTS
    Pages = 2
    Cells = 2
    Keep = 2
    Stamp = 2
    FlashFails = FALSE
    Ids <- MCIds
    EnvBudget = 7
    Faults = {"reset", "torn"}
SPECIFICATION MCSpec
PROPERTIES ReportNewestFirst
CHECK_DEADLOCK FALSE
