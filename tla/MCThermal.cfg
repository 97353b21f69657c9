\* Both boards, every host command, power cycles, a fan fault and an
\* overheating ambient sensor.
CONSTANTS
    Boards = {"pangub", "pangul"}
    Beyond <- MCBeyond
    TempValues <- MCTempValues
    EnvBudget = 2
    HostBudget = 2
SPECIFICATION MCSpec
INVARIANTS TypeOK TripWithinCount
PROPERTIES TripOnlyWhenHot LevelsSettle ThermalControlResumes
