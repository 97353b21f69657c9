CONSTANTS
    Debounce = 1
    NoTimer = NoTimer
    DelayT0 = 1
    DelayT1 = 1
    DelayT2 = 1
    DelayT3 = 1
    DelayInitial = 2
    MaxCauses = 1
    EnvBudget = 6
SPECIFICATION MCSpec
\* Once the environment has spent its budget and the tasks have nothing
\* due, the EC idles waiting for input: that is a legitimate end here.
CHECK_DEADLOCK FALSE
PROPERTY
    HeldEscalates
