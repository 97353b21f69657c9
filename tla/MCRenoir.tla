------------------------------ MODULE MCRenoir ------------------------------
(***************************************************************************)
(* Renoir for TLC: the environment (the user, the console, the host, the   *)
(* PCH's own wake-ups and any input dropping) acts at most EnvBudget       *)
(* times, and the host's commands at most HostBudget times besides; rails  *)
(* that follow their enables, the PCH's answers to the power-button line,  *)
(* the tasks, the watchdog's seconds and time are not counted.             *)
(***************************************************************************)
EXTENDS Renoir

CONSTANTS
    EnvBudget,  \* environment steps in a behaviour
    HostBudget, \* host commands in a behaviour
    Actors      \* which of the environment's actors take part

(* The user presses and releases the physical button (the console's       *)
(* simulated presses are checked in MCPowerButtonX86).                     *)
Deb == INSTANCE PowerButton

UserEdge ==
    /\ Deb!PowerButtonInterrupt
    /\ UNCHANGED <<pwrbtn_state, tnext_state, power_button_pulse_enabled,
                   pchLow, pbWake, pbPc, hookPc, pstate, want_g3_exit,
                   chipWake, sig, logVars, rnVars, wdtVars>>

ActorStep(a) ==
    CASE a = "user"  -> UserEdge \/ LanWake
      [] a = "host"  -> HostConfig
      [] a = "pch"   -> PchWake
      [] a = "fault" -> SignalFall

VARIABLES
    envLeft,   \* environment steps still allowed
    hostLeft   \* host commands still allowed

MCInit == Init /\ envLeft = EnvBudget /\ hostLeft = HostBudget

McChipset == ChipsetTask /\ PchLatch /\ UNCHANGED <<envLeft, hostLeft>>
McPb == PbTask /\ PchLatch /\ UNCHANGED <<envLeft, hostLeft>>
McWdtSecond == RnWdtSecond /\ PchLatch /\ UNCHANGED <<envLeft, hostLeft>>
McPressResume == RnPressResume /\ PchLatch /\ UNCHANGED <<envLeft, hostLeft>>
McPowerOn == PowerOnMachineDeferred /\ PchLatch /\ UNCHANGED <<envLeft, hostLeft>>
McBtnHook == BtnHook /\ PchLatch /\ UNCHANGED <<envLeft, hostLeft>>
McTick == Tick /\ PchLatch /\ UNCHANGED <<envLeft, hostLeft>>
McRailRise == RailRise /\ PchLatch /\ UNCHANGED <<envLeft, hostLeft>>
McRailDecay == RailDecay /\ PchLatch /\ UNCHANGED <<envLeft, hostLeft>>
McOverride == PchOverride /\ UNCHANGED <<envLeft, hostLeft>>
McPressWake == PchPressWake /\ UNCHANGED <<envLeft, hostLeft>>

MCNext ==
    \/ McChipset \/ McPb \/ McWdtSecond \/ McPressResume \/ McPowerOn
    \/ McBtnHook \/ McTick \/ McRailRise \/ McRailDecay \/ McOverride
    \/ McPressWake
    \/ /\ \E a \in Actors : ActorStep(a)
       /\ PchLatch
       /\ envLeft > 0 /\ envLeft' = envLeft - 1 /\ UNCHANGED hostLeft
    \/ /\ "host" \in Actors /\ HostWdt /\ PchLatch
       /\ hostLeft > 0 /\ hostLeft' = hostLeft - 1 /\ UNCHANGED envLeft

mcVars == <<vars, envLeft, hostLeft>>

(* Renoir's Spec assumes every task, the PCH and time to be fair; the     *)
(* rail-loss property is checked here under the chipset task's weak        *)
(* fairness alone, which is a stronger result: no other task, nor time,    *)
(* has to move for a lost rail to reach G3.                                *)
MCSpec ==
    /\ MCInit /\ [][MCNext]_mcVars
    /\ WF_mcVars(McChipset)

=============================================================================
