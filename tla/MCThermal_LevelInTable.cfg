\* pangub only: a hot SSD, and the host reporting a graphics card.
CONSTANTS
    Boards = {"pangub"}
    Beyond <- MCBeyond
    TempValues <- MCHotSsdValues
    EnvBudget = 1
    HostBudget = 1
SPECIFICATION MCSpec
INVARIANT LevelInTable
