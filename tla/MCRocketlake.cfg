\* The chipset task with the button, the hooks and the forced power-offs;
\* a thermal power-off from S0 is completed to G3.
CONSTANTS
    Debounce = 1
    NoTimer = NoTimer
    DelayT0 = 1
    DelayT1 = 1
    DelayT2 = 1
    DelayT3 = 1
    DelayInitial = 1
    MaxCauses = 3
    SlpS4PassThrough = TRUE
    EnvBudget = 2
    Actors = {"user", "host", "monitor", "pch", "fault"}
SPECIFICATION MCSpec
\* Once the environment's budget is spent the EC idles in a steady state.
CHECK_DEADLOCK FALSE
INVARIANTS SequenceOrder
PROPERTIES ForcedOffReachesG3
