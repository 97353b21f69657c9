----------------------------- MODULE PowerCommon -----------------------------
(***************************************************************************)
(* The x86 chipset-task framework (power/common.c of Chromium EC) that     *)
(* power/rocketlake.c plugs into.  That file is not in this repository, so *)
(* what is defined here follows spec.md (sections 3 and 4.1, "Power State  *)
(* Machine"): the state names, the chipset_in_state() masks, the request   *)
(* to leave hard-off and the steady-state waiting of the chipset task.     *)
(*                                                                         *)
(* The variables are shared by every component that reads the power state *)
(* or the power-good inputs, so they are declared here once.               *)
(***************************************************************************)
EXTENDS Naturals, FiniteSets

VARIABLES
    pstate,        \* enum power_state of the chipset task
    want_g3_exit,  \* request to leave G3, set by chipset_exit_hard_off()
    chipWake,      \* a task_wake(TASK_ID_CHIPSET) or a power-signal interrupt is pending
    sig            \* the power-signal inputs that are currently high

PowerStates == {"G3", "G3S5", "S5", "S5S3", "S3", "S3S0", "S0", "S0S3",
                "S3S5", "S5G3"}

SteadyStates == {"G3", "S5", "S3", "S0"}

(* Inputs: the rocketlake.h power-signal table and the GPIOs rocketlake.c *)
(* reads directly.  ATX_PG, VCORE_EN and VRMPWRGD are only ever waited    *)
(* for together (IN_PGOOD_ALL_CORE), so they are one input here.           *)
Signals == {"SB_PGOOD",   \* GPIO_3V3_SB_PGOOD
            "SLP_SUS",    \* IN_SLP_SUS_N
            "ALW_PG",     \* IN_SYSTEM_ALW_PG = IN_PGOOD_S5 = GPIO_S5_PGOOD
            "SLP_S4",     \* GPIO_PCH_SLP_S4_L high
            "SLP_S3",     \* GPIO_PCH_SLP_S3_L high
            "V12",        \* the 12 V rail checked by power_wait_voltage()
            "ALL_CORE"}   \* IN_PGOOD_ALL_CORE

(* chipset_in_state(): the bits a state needs; a query matches when the   *)
(* caller's mask contains all of them.                                    *)
NeedMask(s) ==
    CASE s = "G3"                -> {"HARD_OFF"}
      [] s \in {"G3S5", "S5G3"}  -> {"HARD_OFF", "SOFT_OFF"}
      [] s = "S5"                -> {"SOFT_OFF"}
      [] s \in {"S5S3", "S3S5"}  -> {"SOFT_OFF", "SUSPEND"}
      [] s = "S3"                -> {"SUSPEND"}
      [] s \in {"S3S0", "S0S3"}  -> {"SUSPEND", "ON"}
      [] s = "S0"                -> {"ON"}

ANY_OFF == {"HARD_OFF", "SOFT_OFF"}
ON      == {"ON"}
SUSPEND == {"SUSPEND"}
SOFT_OFF == {"SOFT_OFF"}

ChipsetInState(mask) == NeedMask(pstate) \subseteq mask

(* chipset_exit_hard_off(): a no-op unless the chipset is in G3 or going  *)
(* to or resting in S5; there it records the request and wakes the task.  *)
ChipsetExitHardOff ==
    IF pstate \in {"G3", "S5G3", "S5"}
    THEN want_g3_exit' = TRUE /\ chipWake' = TRUE
    ELSE UNCHANGED <<want_g3_exit, chipWake>>

=============================================================================
