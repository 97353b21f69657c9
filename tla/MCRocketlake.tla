---------------------------- MODULE MCRocketlake ----------------------------
(***************************************************************************)
(* Rocketlake for TLC: the environment (the user, the console, the host,   *)
(* the sensors, the watchdog, the PCH's wake-ups and any input dropping)   *)
(* acts at most EnvBudget times; rails that follow their enables, the      *)
(* tasks and time are not counted.                                         *)
(***************************************************************************)
EXTENDS Rocketlake

CONSTANTS
    EnvBudget,  \* environment steps in a behaviour
    Actors      \* which of the environment's actors take part

(* The environment's actors and their steps. *)
ActorStep(a) ==
    CASE a = "user"    -> ButtonEnv \/ LanWake
      [] a = "host"    -> HostConfig \/ HostEnterS3 \/ HostAcpiEnable
      [] a = "monitor" -> ThermalForceOff \/ WdtForceShutdown
      [] a = "pch"     -> PchWake
      [] a = "fault"   -> SignalFall

VARIABLE envLeft   \* environment steps still allowed

MCInit == Init /\ envLeft = EnvBudget

McChipset == ChipsetTask /\ UNCHANGED envLeft
McHook == HookTask /\ UNCHANGED envLeft
McPb == PbTask /\ UNCHANGED envLeft
McTick == Tick /\ UNCHANGED envLeft
McRailRise == RailRise /\ UNCHANGED envLeft
McRailDecay == RailDecay /\ UNCHANGED envLeft

MCNext ==
    \/ McChipset \/ McHook \/ McPb \/ McTick \/ McRailRise \/ McRailDecay
    \/ /\ \E a \in Actors : ActorStep(a)
       /\ envLeft > 0 /\ envLeft' = envLeft - 1

mcVars == <<vars, envLeft>>

MCSpec ==
    /\ MCInit /\ [][MCNext]_mcVars
    /\ WF_mcVars(McChipset) /\ WF_mcVars(McHook) /\ WF_mcVars(McPb)
    /\ WF_mcVars(McRailDecay) /\ SF_mcVars(McTick)

=============================================================================
