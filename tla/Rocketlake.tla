----------------------------- MODULE Rocketlake -----------------------------
(***************************************************************************)
(* The chipset task of power/rocketlake.c, composed with the x86 power     *)
(* button (PowerButtonX86), the shutdown log, the board's chipset hooks    *)
(* (board/pangub/board.c) and the two hook-task callers that force the     *)
(* chipset off: the thermal protection (board/pangub/thermalInfo.c, via    *)
(* common/thermal.c) and the software watchdogs (common/softwareWatchdog.c).*)
(*                                                                         *)
(* The chipset task runs power_handle_state() for the current state and,   *)
(* in the steady states, the framework's waiting (PowerCommon).  Inside a  *)
(* handler it yields at every msleep() and power_wait_*() call; cpc names  *)
(* the yield point it is parked at, "top" when it is between handler      *)
(* calls.  Between two yields a handler runs atomically (cooperative       *)
(* scheduling, spec.md section 5), and the other tasks run only at yields  *)
(* or while it waits for an event.                                        *)
(*                                                                         *)
(* Outputs are the set out of power-sequence GPIOs the EC drives to their  *)
(* active level.  The platform raises an input only while the output that *)
(* powers it is driven, and may drop any input at any time (a failing     *)
(* rail, the PCH going to sleep).                                          *)
(***************************************************************************)
EXTENDS PowerCommon, ShutdownLog

CONSTANTS
    Debounce, NoTimer, DelayT0, DelayT1, DelayT2, DelayT3, DelayInitial,
    SlpS4PassThrough   \* the board-ID phase is above EVT or is DVT

ASSUME SlpS4PassThrough \in BOOLEAN

VARIABLES
    physPressed, hostLock, simulate_power_pressed, debounced_power_pressed,
    power_button_is_stable, deferT, kbScan, sinceEdge, consoleKick,
    pwrbtn_state, tnext_state, power_button_pulse_enabled, pchLow, pbWake,
    pbPc, hookPc,
    forcing_shutdown,  \* rocketlake.c: a forced shutdown holds the PCH line
    thermalFlag,       \* FORCE_POWER_OFF_THERMAL bit of g_cause_flag
    out,               \* power-sequence outputs driven active
    cpc,               \* where the chipset task is
    s3Flag,            \* EC_MEMMAP_SYSTEM_ENTER_S3 in EC_MEMMAP_SYS_MISC1
    id01Pending,       \* shutdown_ID_deferred() is scheduled
    s3Announced        \* ghost: the host announced S3 since the last resume

Btn == INSTANCE PowerButtonX86

(* Outputs, in power-up order.  PSON is GPIO_EC_PSON_L low; SLP_S5, SLP_S4 *)
(* and SLP_S3 are the EC's pass-through copies GPIO_EC_SLP_Sx_L.            *)
Outputs == {"ALW", "DSW", "AUX", "RSMRST", "PSON", "SLP_S5", "SLP_S4",
            "SLP_S3", "PQ9309", "VCCST", "PCH_PWRGD", "PWRGD_140MS"}

(* Yield points of power_handle_state(). *)
ChipsetPcs == {"top",
               "g3s5Sleep1", "g3s5WaitSus", "g3s5Sleep2", "g3s5WaitPg",
               "g3s5Sleep3", "s3WaitV12", "s3Sleep1", "s3Sleep2",
               "s3s0WaitCore", "s3s0Sleep1", "s3s0Sleep2", "s3s5Sleep"}

rlVars == <<forcing_shutdown, thermalFlag, out, cpc, s3Flag, id01Pending,
            s3Announced>>
(* The variables PowerButtonX86 shares with this module *)
btnAll == <<physPressed, hostLock, simulate_power_pressed,
            debounced_power_pressed, power_button_is_stable, deferT, kbScan,
            sinceEdge, consoleKick, pwrbtn_state, tnext_state,
            power_button_pulse_enabled, pchLow, pbWake, pbPc, hookPc, pstate,
            want_g3_exit, chipWake, sig, g_abnormal_shutdown, causes>>
vars == <<btnAll, rlVars>>

-----------------------------------------------------------------------------
(* Helpers of rocketlake.c *)

(* chipset_force_g3(): every output dropped; GPIO_EC_3V_5V_ALW_EN and the  *)
(* other S5 enables included.  The state is not changed.                   *)
(* Mutant: the always-on enable is left on, as by the commented-out line *)
(* for it.                                                                 *)
ChipsetForceG3KeepsAlw == out' = out \cap {"ALW"}

ChipsetForceG3 == out' = {}

(* thermal_shutdown_cause(): record 0x08 unless the thermal bit is set.    *)
(* The "clear" of that bit goes through update_cause_flag(), which ORs     *)
(* its argument into g_cause_flag, so the bit stays set.                    *)
ThermalShutdownCause ==
    IF thermalFlag
    THEN UNCHANGED <<g_abnormal_shutdown, causes, thermalFlag>>
    ELSE ShutdownCauseRecord("0x08") /\ UNCHANGED thermalFlag

(* The framework's loop: a new state is handled at once; a state that     *)
(* stays waits for the next event.                                         *)
Goto(s) == pstate' = s /\ chipWake' = TRUE /\ cpc' = "top"
Park(pc) == cpc' = pc /\ UNCHANGED <<pstate, chipWake>>

Alw == "ALW_PG" \in sig

ChipsetReady == cpc = "top" /\ (chipWake \/ pstate \notin SteadyStates)

(* Button-side effects of the chipset hooks STARTUP, SHUTDOWN, SUSPEND and *)
(* RESUME: power_button_pulse_setting_reset().                             *)
PulseReset == Btn!PowerButtonPulseSettingReset

btnOnly == <<physPressed, hostLock, simulate_power_pressed,
             debounced_power_pressed, power_button_is_stable, deferT, kbScan,
             sinceEdge, consoleKick, pwrbtn_state, tnext_state, pchLow,
             pbWake, pbPc, hookPc>>

(* What a stretch of the power sequence that only drives outputs leaves    *)
(* alone.                                                                  *)
SeqOnly ==
    UNCHANGED <<btnOnly, power_button_pulse_enabled, want_g3_exit, sig,
                g_abnormal_shutdown, causes, forcing_shutdown, thermalFlag,
                s3Flag, id01Pending, s3Announced>>

-----------------------------------------------------------------------------
(* The chipset task: power_handle_state(), one action per stretch of code  *)
(* between two yields.                                                     *)

(* G3: nothing in the handler; the framework leaves G3 on a request.       *)
(* The ghost log starts a new session here.                                *)
RlG3 ==
    /\ ChipsetReady /\ pstate = "G3"
    /\ IF want_g3_exit
       THEN want_g3_exit' = FALSE /\ Goto("G3S5") /\ causes' = <<>>
       ELSE chipWake' = FALSE /\ UNCHANGED <<pstate, cpc, want_g3_exit, causes>>
    /\ UNCHANGED <<btnOnly, power_button_pulse_enabled, sig, out,
                   g_abnormal_shutdown, forcing_shutdown, thermalFlag, s3Flag,
                   id01Pending, s3Announced>>

(* G3S5 up to its first msleep(10): 3V3_SB_PGOOD checked, ALW and 3VSBSW on *)
RlG3S5 ==
    /\ ChipsetReady /\ pstate = "G3S5"
    /\ IF "SB_PGOOD" \notin sig
       THEN Goto("G3") /\ UNCHANGED out
       ELSE out' = out \cup {"ALW"} /\ Park("g3s5Sleep1")
    /\ SeqOnly

(* DSW_PWROK on; power_wait_signals(IN_SLP_SUS_N) returns at once if it is *)
(* already up, and the AUX rail follows before the next msleep(10).        *)
RlG3S5Sleep1 ==
    /\ cpc = "g3s5Sleep1"
    /\ IF "SLP_SUS" \in sig
       THEN out' = out \cup {"DSW", "AUX"} /\ Park("g3s5Sleep2")
       ELSE out' = out \cup {"DSW"} /\ Park("g3s5WaitSus")
    /\ SeqOnly

RlG3S5SusUp ==
    /\ cpc = "g3s5WaitSus" /\ "SLP_SUS" \in sig
    /\ out' = out \cup {"AUX"} /\ Park("g3s5Sleep2")
    /\ SeqOnly

(* The SLP_SUS wait times out: straight to S5G3, nothing recorded.         *)
RlG3S5SusTimeout ==
    /\ cpc = "g3s5WaitSus" /\ "SLP_SUS" \notin sig
    /\ Goto("S5G3") /\ UNCHANGED out /\ SeqOnly

RlG3S5Sleep2 ==
    /\ cpc = "g3s5Sleep2"
    /\ IF Alw THEN Park("g3s5Sleep3") ELSE Park("g3s5WaitPg")
    /\ UNCHANGED out /\ SeqOnly

RlG3S5PgUp ==
    /\ cpc = "g3s5WaitPg" /\ Alw
    /\ Park("g3s5Sleep3") /\ UNCHANGED out /\ SeqOnly

(* The PGOOD_S5 wait times out: force G3, record 0x08, back to G3.         *)
RlG3S5PgTimeout ==
    /\ cpc = "g3s5WaitPg" /\ ~Alw
    /\ ChipsetForceG3 /\ ShutdownCauseRecord("0x08") /\ Goto("G3")
    /\ UNCHANGED <<btnOnly, power_button_pulse_enabled, want_g3_exit, sig,
                   forcing_shutdown, thermalFlag, s3Flag, id01Pending,
                   s3Announced>>

(* RSMRST released, HOOK_CHIPSET_PRE_INIT (the LAN-wake interrupts), S5.   *)
RlG3S5Sleep3 ==
    /\ cpc = "g3s5Sleep3"
    /\ out' = out \cup {"RSMRST"} /\ Goto("S5")
    /\ SeqOnly

(* S5: a forced shutdown is over, so its press is released; then the rail  *)
(* check, SLP_S4, or the framework's wait (pause_in_s5 is set).            *)
RlS5 ==
    /\ ChipsetReady /\ pstate = "S5"
    /\ IF forcing_shutdown
       THEN Btn!PowerButtonPchRelease /\ forcing_shutdown' = FALSE
       ELSE UNCHANGED <<pchLow, pwrbtn_state, forcing_shutdown>>
    /\ CASE ~Alw ->
              ThermalShutdownCause /\ Goto("S5G3") /\ UNCHANGED want_g3_exit
         [] "SLP_S4" \in sig ->
              Goto("S5S3")
              /\ UNCHANGED <<want_g3_exit, g_abnormal_shutdown, causes,
                             thermalFlag>>
         [] OTHER ->
              /\ want_g3_exit' = FALSE /\ chipWake' = FALSE
              /\ UNCHANGED <<pstate, cpc, g_abnormal_shutdown, causes,
                             thermalFlag>>
    /\ UNCHANGED <<physPressed, hostLock, simulate_power_pressed,
                   debounced_power_pressed, power_button_is_stable, deferT,
                   kbScan, sinceEdge, consoleKick, tnext_state, pbWake, pbPc,
                   hookPc, power_button_pulse_enabled, sig, out, s3Flag,
                   id01Pending, s3Announced>>

(* S5S3: rail check, then PSON and USB-A on and HOOK_CHIPSET_STARTUP.      *)
RlS5S3 ==
    /\ ChipsetReady /\ pstate = "S5S3"
    /\ IF ~Alw
       THEN /\ ThermalShutdownCause /\ Goto("S5G3")
            /\ UNCHANGED <<out, power_button_pulse_enabled>>
       ELSE /\ out' = out \cup {"PSON"} /\ PulseReset /\ Goto("S3")
            /\ UNCHANGED <<g_abnormal_shutdown, causes, thermalFlag>>
    /\ UNCHANGED <<btnOnly, want_g3_exit, sig, forcing_shutdown, s3Flag,
                   id01Pending, s3Announced>>

SlpS4Out == IF SlpS4PassThrough THEN {"SLP_S4"} ELSE {}

(* S3: rail check; SLP_S3 high starts the climb to S0 up to its first      *)
(* msleep(10) (or the 12 V wait); SLP_S4 low goes down to S5.              *)
RlS3 ==
    /\ ChipsetReady /\ pstate = "S3"
    /\ CASE ~Alw ->
              ThermalShutdownCause /\ Goto("S5G3") /\ UNCHANGED out
         [] "SLP_S3" \in sig ->
              LET up == out \cup {"PSON", "SLP_S5"} \cup SlpS4Out IN
              /\ IF "V12" \in sig
                 THEN out' = up \cup {"SLP_S3"} /\ Park("s3Sleep1")
                 ELSE out' = up /\ Park("s3WaitV12")
              /\ UNCHANGED <<g_abnormal_shutdown, causes, thermalFlag>>
         [] "SLP_S4" \notin sig ->
              Goto("S3S5")
              /\ UNCHANGED <<out, g_abnormal_shutdown, causes, thermalFlag>>
         [] OTHER ->
              /\ chipWake' = FALSE
              /\ UNCHANGED <<pstate, cpc, out, g_abnormal_shutdown, causes,
                             thermalFlag>>
    /\ UNCHANGED <<btnOnly, power_button_pulse_enabled, want_g3_exit, sig,
                   forcing_shutdown, s3Flag, id01Pending, s3Announced>>

(* power_wait_voltage() (not in this repository; spec.md 4.1: a bounded   *)
(* wait for the 12 V rail) sees the rail, SLP_S3 passes through.           *)
RlS3V12Up ==
    /\ cpc = "s3WaitV12" /\ "V12" \in sig
    /\ out' = out \cup {"SLP_S3"} /\ Park("s3Sleep1") /\ SeqOnly

RlS3V12Timeout ==
    /\ cpc = "s3WaitV12" /\ "V12" \notin sig
    /\ ShutdownCauseRecord("0x46") /\ Goto("S5G3")
    /\ UNCHANGED <<btnOnly, power_button_pulse_enabled, want_g3_exit, sig, out,
                   forcing_shutdown, thermalFlag, s3Flag, id01Pending,
                   s3Announced>>

RlS3Sleep1 ==
    /\ cpc = "s3Sleep1"
    /\ out' = out \cup {"PQ9309"} /\ Park("s3Sleep2") /\ SeqOnly

RlS3Sleep2 ==
    /\ cpc = "s3Sleep2"
    /\ out' = out \cup {"VCCST"} /\ Goto("S3S0") /\ SeqOnly

(* S3S0: rail check, then the ALL_CORE wait.                               *)
RlS3S0 ==
    /\ ChipsetReady /\ pstate = "S3S0"
    /\ IF ~Alw
       THEN ThermalShutdownCause /\ Goto("S5G3")
       ELSE /\ IF "ALL_CORE" \in sig THEN Park("s3s0Sleep1")
                                     ELSE Park("s3s0WaitCore")
            /\ UNCHANGED <<g_abnormal_shutdown, causes, thermalFlag>>
    /\ UNCHANGED <<btnOnly, power_button_pulse_enabled, want_g3_exit, sig, out,
                   forcing_shutdown, s3Flag, id01Pending, s3Announced>>

RlS3S0CoreUp ==
    /\ cpc = "s3s0WaitCore" /\ "ALL_CORE" \in sig
    /\ Park("s3s0Sleep1") /\ UNCHANGED out /\ SeqOnly

RlS3S0CoreTimeout ==
    /\ cpc = "s3s0WaitCore" /\ "ALL_CORE" \notin sig
    /\ ShutdownCauseRecord("0x47") /\ Goto("S5G3")
    /\ UNCHANGED <<btnOnly, power_button_pulse_enabled, want_g3_exit, sig, out,
                   forcing_shutdown, thermalFlag, s3Flag, id01Pending,
                   s3Announced>>

(* After msleep(10): PCH_PWRGD and SYS_RESET_L high.                       *)
RlS3S0Sleep1 ==
    /\ cpc = "s3s0Sleep1"
    /\ out' = out \cup {"PCH_PWRGD"} /\ Park("s3s0Sleep2") /\ SeqOnly

(* After msleep(140): PWRGD_140MS, g_abnormal_shutdown cleared,            *)
(* HOOK_CHIPSET_RESUME, S0.                                                *)
RlS3S0Sleep2 ==
    /\ cpc = "s3s0Sleep2"
    /\ out' = out \cup {"PWRGD_140MS"}
    /\ g_abnormal_shutdown' = FALSE
    /\ PulseReset
    /\ s3Announced' = FALSE
    /\ Goto("S0")
    /\ UNCHANGED <<btnOnly, want_g3_exit, sig, causes, forcing_shutdown,
                   thermalFlag, s3Flag, id01Pending>>

(* S0: rail check, or SLP_S3 low starts the way down.                      *)
RlS0 ==
    /\ ChipsetReady /\ pstate = "S0"
    /\ CASE ~Alw ->
              ThermalShutdownCause /\ Goto("S5G3")
         [] "SLP_S3" \notin sig ->
              Goto("S0S3")
              /\ UNCHANGED <<g_abnormal_shutdown, causes, thermalFlag>>
         [] OTHER ->
              /\ chipWake' = FALSE
              /\ UNCHANGED <<pstate, cpc, g_abnormal_shutdown, causes,
                             thermalFlag>>
    /\ UNCHANGED <<btnOnly, power_button_pulse_enabled, want_g3_exit, sig, out,
                   forcing_shutdown, s3Flag, id01Pending, s3Announced>>

(* board_chipset_suspend(): 0x03 when the host announced S3.               *)
BoardChipsetSuspend ==
    IF s3Flag THEN ShutdownCauseRecord("0x03")
              ELSE UNCHANGED <<g_abnormal_shutdown, causes>>

(* Mutant: S0S3 without the SLP_S3 pass-through withdrawal. *)
RlS0S3KeepsSlpS3 ==
    /\ ChipsetReady /\ pstate = "S0S3"
    /\ out' = out \ {"PSON", "PWRGD_140MS", "PCH_PWRGD", "VCCST", "PQ9309"}
    /\ PulseReset /\ BoardChipsetSuspend
    /\ Goto("S3")
    /\ UNCHANGED <<btnOnly, want_g3_exit, sig, forcing_shutdown, thermalFlag,
                   s3Flag, id01Pending, s3Announced>>

(* S0S3: the S0 outputs dropped, HOOK_CHIPSET_SUSPEND, S3.                 *)
RlS0S3 ==
    /\ ChipsetReady /\ pstate = "S0S3"
    /\ out' = out \ {"PSON", "PWRGD_140MS", "PCH_PWRGD", "VCCST", "SLP_S3",
                     "PQ9309"}
    /\ PulseReset /\ BoardChipsetSuspend
    /\ Goto("S3")
    /\ UNCHANGED <<btnOnly, want_g3_exit, sig, forcing_shutdown, thermalFlag,
                   s3Flag, id01Pending, s3Announced>>

(* board_chipset_shutdown(): 0x02 when the host announced S3, else a       *)
(* normal 0x01 three seconds later unless this shutdown is abnormal.  Its  *)
(* clearing of EC_MEMMAP_SYSTEM_ENTER_S3 is applied to the byte at         *)
(* EC_MEMMAP_RESET_FLAG, so s3Flag is left as it is.                       *)
BoardChipsetShutdown ==
    IF s3Flag
    THEN ShutdownCauseRecord("0x02") /\ UNCHANGED id01Pending
    ELSE /\ id01Pending' = (id01Pending \/ ~g_abnormal_shutdown)
         /\ UNCHANGED <<g_abnormal_shutdown, causes>>

(* S3S5 up to its msleep(40): HOOK_CHIPSET_SHUTDOWN, USB-A off, SLP_S4    *)
(* pass-through off.                                                       *)
RlS3S5 ==
    /\ ChipsetReady /\ pstate = "S3S5"
    /\ PulseReset /\ BoardChipsetShutdown
    /\ out' = out \ SlpS4Out
    /\ Park("s3s5Sleep")
    /\ UNCHANGED <<btnOnly, want_g3_exit, sig, forcing_shutdown, thermalFlag,
                   s3Flag, s3Announced>>

RlS3S5Sleep ==
    /\ cpc = "s3s5Sleep"
    /\ out' = out \ {"SLP_S5"} /\ Goto("S5") /\ SeqOnly

RlS5G3 ==
    /\ ChipsetReady /\ pstate = "S5G3"
    /\ ChipsetForceG3 /\ Goto("G3") /\ SeqOnly


ChipsetTask ==
    \/ RlG3 \/ RlG3S5 \/ RlG3S5Sleep1 \/ RlG3S5SusUp \/ RlG3S5SusTimeout
    \/ RlG3S5Sleep2 \/ RlG3S5PgUp \/ RlG3S5PgTimeout \/ RlG3S5Sleep3
    \/ RlS5 \/ RlS5S3 \/ RlS3 \/ RlS3V12Up \/ RlS3V12Timeout \/ RlS3Sleep1
    \/ RlS3Sleep2 \/ RlS3S0 \/ RlS3S0CoreUp \/ RlS3S0CoreTimeout
    \/ RlS3S0Sleep1 \/ RlS3S0Sleep2 \/ RlS0 \/ RlS0S3 \/ RlS3S5 \/ RlS3S5Sleep
    \/ RlS5G3

-----------------------------------------------------------------------------
(* The hook task: the button's deferred calls and the callers that force   *)
(* the chipset off.  Each runs only while the task is not parked inside    *)
(* board_pwrbtn_to_pch().                                                  *)

AllButSeq == <<btnOnly, power_button_pulse_enabled, pstate, want_g3_exit,
               chipWake, sig>>

(* HOOK_SECOND thermal_control() in S0 with the host in ACPI mode, a       *)
(* sensor over its limit for TEMP_PROTECTION_COUNT seconds:                *)
(* temperature_protection_mechanism() sets the thermal bit, then           *)
(* chipset_force_power_off() records the sensor's id and forces G3.  The   *)
(* state is not changed; the chipset task finds the rail gone later.       *)
ThermalForceOff ==
    /\ hookPc = "idle" /\ ChipsetInState(ON)
    /\ thermalFlag' = TRUE
    /\ ShutdownCauseRecord("0x30") /\ ChipsetForceG3
    /\ UNCHANGED <<AllButSeq, cpc, forcing_shutdown, s3Flag, id01Pending,
                   s3Announced>>

(* HOOK_SECOND ShutdownWDtService() with the watchdog expired in S0 (the   *)
(* wake-up watchdog's force, id 0x09, takes the same path):                *)
(* chipset_force_shutdown() marks the forced shutdown, asserts the PCH     *)
(* power button, and records the id once the assertion returns.            *)
WdtForceShutdown ==
    /\ hookPc = "idle" /\ ChipsetInState(ON)
    /\ forcing_shutdown' = TRUE
    /\ Btn!PowerButtonPchPress
    /\ IF hookPc' = "idle"
       THEN ShutdownCauseRecord("0x44")
       ELSE UNCHANGED <<g_abnormal_shutdown, causes>>
    /\ UNCHANGED <<physPressed, hostLock, simulate_power_pressed,
                   debounced_power_pressed, power_button_is_stable, deferT,
                   kbScan, sinceEdge, consoleKick, pwrbtn_state, tnext_state,
                   pbWake, pbPc, power_button_pulse_enabled, pstate,
                   want_g3_exit, chipWake, sig, thermalFlag, out, cpc, s3Flag,
                   id01Pending, s3Announced>>

(* The forced press returns from board_pwrbtn_to_pch(); the record follows.*)
RlPressResume ==
    /\ hookPc = "pressWait"
    /\ pchLow' = TRUE /\ hookPc' = "idle"
    /\ ShutdownCauseRecord("0x44")
    /\ UNCHANGED <<physPressed, hostLock, simulate_power_pressed,
                   debounced_power_pressed, power_button_is_stable, deferT,
                   kbScan, sinceEdge, consoleKick, pwrbtn_state, tnext_state,
                   power_button_pulse_enabled, pbWake, pbPc, pstate,
                   want_g3_exit, chipWake, sig, rlVars>>

(* shutdown_ID_deferred(), three seconds after a normal shutdown.          *)
Deferred01 ==
    /\ hookPc = "idle" /\ id01Pending
    /\ id01Pending' = FALSE
    /\ ShutdownCauseRecord("0x01")
    /\ UNCHANGED <<AllButSeq, forcing_shutdown, thermalFlag, out, cpc, s3Flag,
                   s3Announced>>

(* The button's own hook-task steps. *)
BtnHook ==
    /\ Btn!HookPowerButtonChange \/ Btn!HookResume
    /\ UNCHANGED rlVars

HookTask == BtnHook \/ RlPressResume \/ Deferred01

-----------------------------------------------------------------------------
(* The power-button task.  HELD_1 resets the EC: every RAM flag and every  *)
(* output is lost with it.                                                 *)

PbSteps ==
    \/ Btn!StateMachineEarly \/ Btn!StatePressed \/ Btn!StateT1
    \/ Btn!StateEndPulse \/ Btn!StateInitOn \/ Btn!StateBootKbReset
    \/ Btn!StateWasOff \/ Btn!StateNothing \/ Btn!StateHeld \/ Btn!PbResume

RlHeld1 ==
    /\ Btn!StateHeld1
    /\ out' = {} /\ cpc' = "top"
    /\ forcing_shutdown' = FALSE /\ thermalFlag' = FALSE /\ s3Flag' = FALSE
    /\ id01Pending' = FALSE /\ s3Announced' = FALSE

PbTask == (PbSteps /\ UNCHANGED rlVars) \/ RlHeld1

Tick == Btn!Tick /\ UNCHANGED rlVars


-----------------------------------------------------------------------------
(* The host: BIOS commands 0x0F over ACPI (common/acpi.c), sent while the *)
(* system runs.                                                            *)

(* 0x0F/0x02: the system is entering S3. *)
HostEnterS3 ==
    /\ pstate = "S0"
    /\ s3Flag' = TRUE /\ s3Announced' = TRUE
    /\ UNCHANGED <<btnAll, forcing_shutdown, thermalFlag, out, cpc,
                   id01Pending>>

(* 0x0F/0x05/0x01: ACPI enable; HOOK_CHIPSET_ACPI_MODE runs               *)
(* acpiModeEnableClear() (common/fan.c), which clears the ENTER_Sx bits.   *)
HostAcpiEnable ==
    /\ pstate = "S0"
    /\ s3Flag' = FALSE
    /\ UNCHANGED <<btnAll, forcing_shutdown, thermalFlag, out, cpc,
                   id01Pending, s3Announced>>

-----------------------------------------------------------------------------
(* The platform.  An input can be high only while the outputs it depends  *)
(* on are driven (the PCH's SLP_S3 also needs its SLP_S4).                 *)
NeedsOut == [s \in Signals |->
                CASE s = "SB_PGOOD" -> {}
                  [] s = "SLP_SUS"  -> {"DSW"}
                  [] s = "ALW_PG"   -> {"ALW"}
                  [] s \in {"SLP_S4", "SLP_S3"} -> {"RSMRST"}
                  [] s = "V12"      -> {"PSON"}
                  [] s = "ALL_CORE" -> {"PSON", "VCCST"}]

Powered(s) ==
    /\ NeedsOut[s] \subseteq out
    /\ s = "SLP_S3" => "SLP_S4" \in sig

(* Signals of the rocketlake.h table interrupt the chipset task;          *)
(* 3V3_SB_PGOOD and the 12 V rail are only polled.                         *)
Interrupting == Signals \ {"SB_PGOOD", "V12"}

SetSig(new, s) ==
    /\ sig' = new
    /\ chipWake' = (chipWake \/ s \in Interrupting)

PlatformOnly == UNCHANGED <<btnOnly, power_button_pulse_enabled, pstate,
                            want_g3_exit, g_abnormal_shutdown, causes, rlVars>>

(* The PCH raises SLP_S4 or SLP_S3 when it leaves a sleep state.          *)
PchSleepStates == {"SLP_S4", "SLP_S3"}

PchWake ==
    /\ \E s \in PchSleepStates \ sig : Powered(s) /\ SetSig(sig \cup {s}, s)
    /\ PlatformOnly

(* A powered rail reaches regulation and its power-good comes up.          *)
RailRise ==
    /\ \E s \in Signals \ (sig \cup PchSleepStates) :
          Powered(s) /\ SetSig(sig \cup {s}, s)
    /\ PlatformOnly

(* Any input may drop (the PCH entering a sleep state, a failing rail).    *)
SignalFall ==
    /\ \E s \in sig : SetSig(sig \ {s}, s)
    /\ PlatformOnly

(* An input whose outputs are gone drops: a rail decays once its enable is *)
(* withdrawn.                                                               *)
RailDecay ==
    /\ \E s \in sig : ~Powered(s) /\ SetSig(sig \ {s}, s)
    /\ PlatformOnly

(* The user and the console on the button; LAN wake; the host's pulse      *)
(* setting.                                                                *)
ButtonEnv == Btn!ButtonEnv /\ UNCHANGED rlVars
LanWake == Btn!HookLanWake /\ UNCHANGED rlVars
HostConfig == Btn!HostConfigPowerButton /\ UNCHANGED rlVars

-----------------------------------------------------------------------------
(* power_chipset_init(): G3, or S0 after a jump with the system on.  In   *)
(* G3 lan_wake_init_exit_G3() asks to leave G3 if LAN wake is enabled.     *)
Init ==
    /\ \E jumpedOn \in BOOLEAN :
          /\ Btn!ButtonInit(jumpedOn)
          /\ hostLock = FALSE
          /\ pstate = IF jumpedOn THEN "S0" ELSE "G3"
          /\ sig = IF jumpedOn THEN Signals ELSE {"SB_PGOOD"}
          /\ out = IF jumpedOn THEN Outputs \ ({"SLP_S4"} \ SlpS4Out) ELSE {}
          /\ want_g3_exit \in IF jumpedOn THEN {FALSE} ELSE BOOLEAN
    /\ chipWake = TRUE /\ cpc = "top"
    /\ g_abnormal_shutdown = FALSE /\ causes = <<>>
    /\ forcing_shutdown = FALSE /\ thermalFlag = FALSE /\ s3Flag = FALSE
    /\ id01Pending = FALSE /\ s3Announced = FALSE

(* What the user, the host, the thermal sensors, the watchdog and the      *)
(* platform may do at any time.                                            *)
EnvStep ==
    \/ ButtonEnv \/ LanWake \/ HostConfig \/ HostEnterS3 \/ HostAcpiEnable
    \/ ThermalForceOff \/ WdtForceShutdown \/ PchWake \/ SignalFall

Next ==
    \/ ChipsetTask \/ HookTask \/ PbTask \/ Tick \/ RailRise \/ RailDecay
    \/ EnvStep

(* Every task runs when it is ready (cooperative scheduling gives each a   *)
(* turn), a withdrawn rail decays, and time passes (strongly fair, as in   *)
(* PowerButtonX86).                                                        *)
Spec ==
    /\ Init /\ [][Next]_vars
    /\ WF_vars(ChipsetTask) /\ WF_vars(HookTask) /\ WF_vars(PbTask)
    /\ WF_vars(RailDecay) /\ SF_vars(Tick)


-----------------------------------------------------------------------------
(* Properties *)

TypeOK ==
    /\ Btn!TypeOK
    /\ out \subseteq Outputs /\ cpc \in ChipsetPcs
    /\ forcing_shutdown \in BOOLEAN /\ thermalFlag \in BOOLEAN
    /\ s3Flag \in BOOLEAN /\ id01Pending \in BOOLEAN
    /\ s3Announced \in BOOLEAN

(* The power-up order of the outputs that build on each other, from the   *)
(* always-on rails to the CPU power-good.                                  *)
PowerUpOrder == <<"ALW", "DSW", "AUX", "RSMRST", "PSON", "SLP_S3", "PQ9309",
                  "VCCST", "PCH_PWRGD", "PWRGD_140MS">>

(* Whatever the interleaving of rail failures, timeouts, forced power-offs *)
(* and EC resets, an output of the sequence is never driven while one it   *)
(* builds on is withdrawn: power_handle_state() raises them in order on    *)
(* the way up, S0S3 withdraws the upper ones together, chipset_force_g3()  *)
(* withdraws all of them.                                                  *)
SequenceOrder ==
    \A i \in 2..Len(PowerUpOrder) :
        PowerUpOrder[i] \in out => PowerUpOrder[i - 1] \in out

(* A power-off forced from S0 (chipset_force_power_off() by the thermal    *)
(* protection drops every output while the state stays S0) is completed:  *)
(* the withdrawn rails decay, their interrupt wakes the chipset task, and  *)
(* a rail check in whatever state it has reached takes it through S5G3 to  *)
(* G3.  A forced-off S0 is recognised by PSON being withdrawn.             *)
ForcedOffReachesG3 ==
    (pstate = "S0" /\ "PSON" \notin out) ~> pstate = "G3"

(* id was recorded by this step (or the bounded ghost log is full).        *)
Records(id) ==
    \/ Len(causes) = MaxCauses
    \/ Len(causes') > Len(causes) /\ causes'[Len(causes')] = id

(* A rail-loss exit of power_handle_state() (the ALW_PG check of S5, S5S3, *)
(* S3, S3S0 or S0) logs 0x08, unless the loss is the consequence of a      *)
(* thermal power-off recorded in the same power-on session.                *)
RailLossStep ==
    /\ cpc = "top" /\ pstate \in {"S5", "S5S3", "S3", "S3S0", "S0"}
    /\ ~Alw /\ pstate' = "S5G3"

RailLossLogged ==
    [][RailLossStep =>
          Records("0x08") \/ \E i \in 1..Len(causes) : causes[i] = "0x30"]_vars

(* board_chipset_shutdown() logs 0x02 ("S3 to S4/S5 fail off") only when  *)
(* the host announced S3 and the system has not resumed since.             *)
S3FailureLoggedOnlyAfterS3 ==
    [][Len(causes') > Len(causes) /\ causes'[Len(causes')] = "0x02"
          => s3Announced]_vars

=============================================================================
