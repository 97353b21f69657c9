\* The Renoir chipset task with the button and the software watchdogs.
CONSTANTS
    Debounce = 1
    NoTimer = NoTimer
    DelayT0 = 1
    DelayT1 = 1
    DelayT2 = 1
    DelayT3 = 1
    DelayInitial = 1
    MaxCauses = 1
    WdtBits = 1
    MinTime = 1
    TIMEOUT_NUM1 = 2
    HostTimes = {0}
    EnvBudget = 1
    HostBudget = 1
    Actors = {"user", "host", "pch", "fault"}
SPECIFICATION MCSpec
\* Once the environment's budget is spent the EC may idle in a steady state.
CHECK_DEADLOCK FALSE
INVARIANTS RnSequenceOrder
PROPERTIES RnRailLossReachesG3
