\* A rail loss after a thermal power-off of an earlier session (rocketlake.c:143-151).
CONSTANTS
    Debounce = 1
    NoTimer = NoTimer
    DelayT0 = 1
    DelayT1 = 1
    DelayT2 = 1
    DelayT3 = 1
    DelayInitial = 1
    MaxCauses = 3
    SlpS4PassThrough = TRUE
    EnvBudget = 3
    Actors = {"user", "monitor", "fault"}
SPECIFICATION MCSpec
\* Once the environment's budget is spent the EC idles in a steady state.
CHECK_DEADLOCK FALSE
PROPERTIES RailLossLogged
