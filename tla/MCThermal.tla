----------------------------- MODULE MCThermal -----------------------------
(***************************************************************************)
(* Thermal for TLC: the host sends at most HostBudget commands and the     *)
(* environment (power transitions the user asks for, readings that move)   *)
(* acts at most EnvBudget times; the hook task and the forced power-offs   *)
(* the protection issues are not counted.                                  *)
(***************************************************************************)
EXTENDS Thermal

CONSTANTS
    EnvBudget,   \* environment steps in a behaviour
    HostBudget   \* host commands in a behaviour

VARIABLES envLeft, hostLeft

\* Readings that drive every branch without leaving the tables: a warm and
\* a hot CPU die, an SSD at rest and near the top of its UMA table, and an
\* ambient sensor below the fan start temperatures or above its 70 C
\* protection limit; the other sensors sit at a fixed temperature.
MCTempValues ==
    [s \in TempSensors |->
        CASE s = "CPU_DTS"      -> {50, 90}
          [] s = "SSD1_NTC"     -> {40, 64}
          [] s = "AMBIENCE_NTC" -> {30, 72}
          [] OTHER              -> {40}]

\* The same, with an SSD reading above the top of the GFX tables.
MCHotSsdValues ==
    [s \in TempSensors |->
        CASE s = "SSD1_NTC" -> {40, 75}
          [] OTHER          -> {40}]

\* Zeroed bytes after the last GFX table.
MCBeyond == [RPM |-> 0, HowTri |-> 0, lowTri |-> 0]

MCInit == Init /\ envLeft = EnvBudget /\ hostLeft = HostBudget

MCNext ==
    \/ (HookStep \/ ForcedPowerDown) /\ UNCHANGED <<envLeft, hostLeft>>
    \/ /\ HostStep /\ hostLeft > 0 /\ hostLeft' = hostLeft - 1
       /\ UNCHANGED envLeft
    \/ /\ EnvStep /\ envLeft > 0 /\ envLeft' = envLeft - 1
       /\ UNCHANGED hostLeft

mcVars == <<vars, envLeft, hostLeft>>

MCSpec == MCInit /\ [][MCNext]_mcVars /\ Fairness
=============================================================================
