--------------------------- MODULE MCPowerButtonX86 ---------------------------
(***************************************************************************)
(* The x86 power-button machine with a bounded environment: the user, the  *)
(* console, the LAN-wake line, the rails, the chipset and the host take at *)
(* most EnvBudget steps in all, after which only the EC tasks and time     *)
(* move.  Every behaviour of the module is a behaviour here up to the      *)
(* point its environment took EnvBudget steps, which keeps the liveness    *)
(* check small enough to run.                                              *)
(***************************************************************************)
EXTENDS PowerButtonX86

CONSTANT EnvBudget

VARIABLE envLeft   \* environment steps still allowed

EnvStep ==
    \/ HookLanWake
    \/ HostConfigPowerButton
    \/ ChipsetEnv
    \/ SignalEnv
    \/ ButtonEnv

MCInit == Init /\ envLeft = EnvBudget

McPb == PbTask /\ UNCHANGED envLeft
McHook == HookTask /\ UNCHANGED envLeft
McTick == Tick /\ UNCHANGED envLeft

MCNext ==
    \/ McPb \/ McHook \/ McTick
    \/ EnvStep /\ envLeft > 0 /\ envLeft' = envLeft - 1

mcVars == <<vars, envLeft>>

MCSpec ==
    /\ MCInit /\ [][MCNext]_mcVars
    /\ WF_mcVars(McPb) /\ WF_mcVars(McHook) /\ SF_mcVars(McTick)

=============================================================================
