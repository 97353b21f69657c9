------------------------------ MODULE MCFlashLog ------------------------------
(***************************************************************************)
(* FlashLog for TLC: the callers record ids, the host resumes the chipset *)
(* (update_cause_ram) and the EC is reset, EnvBudget times in all; the     *)
(* EC's own steps are not counted.  Faults selects which resets happen.    *)
(***************************************************************************)
EXTENDS Chassis

CONSTANTS
    EnvBudget,  \* records, resumes and resets in one behaviour
    Faults      \* a subset of {"reset", "torn", "case"}

VARIABLE envLeft

LOG_ID_SHUTDOWN_0x30 == 65584    \* union32bit(1, 0x30)
LOG_ID_SHUTDOWN_0x01 == 1

(* A normal shutdown, a rail loss and a thermal shutdown: 0x01 & 0x10008 *)
(* = 0 and 0x30 & 0x10008 = 0x10000 are the two ways an overwritten id   *)
(* can read back.                                                         *)
MCIds == {LOG_ID_SHUTDOWN_0x01, LOG_ID_SHUTDOWN_0x08, LOG_ID_SHUTDOWN_0x30}

(* The latch starts clear; with "case" in Faults the case may be opened  *)
(* at any time, before the first boot included.                           *)
MCInit ==
    /\ ChassisInit({FALSE})
    /\ envLeft = EnvBudget

EnvEvent ==
    \/ \E id \in Ids : Record(id) /\ UNCHANGED chassisVars
    \/ UpdateCauseRam /\ UNCHANGED chassisVars
    \/ "reset" \in Faults /\ Reset /\ ChassisReset
    \/ "torn" \in Faults /\ ResetMidWrite /\ ChassisReset
    \/ "torn" \in Faults /\ ResetMidSync /\ ChassisReset
    \/ "case" \in Faults /\ CaseOpen
    \/ "case" \in Faults /\ \E sub \in 1..3, ok \in BOOLEAN :
                                HostChassisCommand(sub, ok)

mcVars == <<allVars, envLeft>>

MCNext ==
    \/ ChassisEcStep /\ UNCHANGED envLeft
    \/ envLeft > 0 /\ envLeft' = envLeft - 1 /\ EnvEvent

MCSpec == MCInit /\ [][MCNext]_mcVars

(* HOOK_INIT runs after every reset and the 1 ms hook runs for as long as *)
(* the EC is up: both are weakly fair.  The callers, the host and the     *)
(* case are not.                                                          *)
MCFairSpec ==
    /\ MCSpec
    /\ WF_mcVars(ChassisBoot /\ UNCHANGED envLeft)
    /\ WF_mcVars(ChassisIntrusionService /\ UNCHANGED envLeft)

=============================================================================
