------------------------------- MODULE Renoir -------------------------------
(***************************************************************************)
(* The chipset task of power/renoir.c (board/pangun: CONFIG_CHIPSET_RENOIR *)
(* and CONFIG_SOFTWARE_WATCHDOG), composed with the x86 power button       *)
(* (PowerButtonX86), the software watchdogs (SoftwareWatchdog) and the     *)
(* shutdown log.                                                           *)
(*                                                                         *)
(* As in Rocketlake, the chipset task runs power_handle_state() and yields *)
(* at every msleep() and power_wait_*() call; cpc names the yield point.   *)
(* Tasks run cooperatively between yields (spec.md section 5).             *)
(*                                                                         *)
(* The PCH power-button line GPIO_PCH_PWRBTN_L is GPIO_EC_FCH_PWR_BTN_L on *)
(* this board, so chipset_force_g3() (which pulls it low) and the G3S5     *)
(* step (which drives it high) write the same pchLow as the button.        *)
(* board/pangun provides board_pwrbtn_to_pch() (CONFIG_POWER_BUTTON_TO_    *)
(* PCH_CUSTOM) in a board.c that is not in this repository; the one of     *)
(* board/pangub, the other board of this family, is assumed.               *)
(***************************************************************************)
EXTENDS SoftwareWatchdog

CONSTANTS
    Debounce, NoTimer, DelayT0, DelayT1, DelayT2, DelayT3, DelayInitial

VARIABLES
    physPressed, hostLock, simulate_power_pressed, debounced_power_pressed,
    power_button_is_stable, deferT, kbScan, sinceEdge, consoleKick,
    pwrbtn_state, tnext_state, power_button_pulse_enabled, pchLow, pbWake,
    pbPc, hookPc,
    forcing_shutdown,  \* renoir.c: a forced shutdown holds the PCH line
    out,               \* power-sequence outputs driven active
    cpc,               \* where the chipset task is
    pchAnswered        \* the PCH has answered the line's current assertion

Btn == INSTANCE PowerButtonX86

(* Outputs.  AUX is GPIO_EC_1V8_AUX_EN, ALW the S5 rails GPIO_PROM19_EN   *)
(* and GPIO_EC_ALW_EN, PSON GPIO_EC_PSON_L low, SLP_S5 and SLP_S3 the      *)
(* EC's pass-through copies GPIO_EC_SLP_Sx_L, FCH_PWRGD GPIO_EC_FCH_PWRGD. *)
RnOutputs == {"AUX", "ALW", "RSMRST", "PSON", "SLP_S5", "SLP_S3",
              "FCH_PWRGD", "PWRGD_140MS"}

(* Inputs: IN_PGOOD_S5 (SYSTEM_ALW_PG), GPIO_PCH_SLP_S5_L and _S3_L, the   *)
(* 12 V rail of power_wait_voltage(), and IN_PGOOD_ALL_CORE (ATX_PG,       *)
(* VCORE_EN and VRMPWRGD, only ever waited for together).                  *)
RnSignals == {"ALW_PG", "SLP_S5", "SLP_S3", "V12", "ALL_CORE"}

RnPcs == {"top", "g3s5Sleep1", "g3s5WaitPg", "g3s5Sleep2", "s3WaitV12",
          "s3s0WaitCore", "s3s0Sleep1", "s3s0Sleep2"}

btnOnly == <<physPressed, hostLock, simulate_power_pressed,
             debounced_power_pressed, power_button_is_stable, deferT, kbScan,
             sinceEdge, consoleKick, pwrbtn_state, tnext_state, pchLow,
             pbWake, pbPc, hookPc>>
logVars == <<g_abnormal_shutdown, causes>>
rnVars == <<forcing_shutdown, out, cpc>>
vars == <<btnOnly, power_button_pulse_enabled, pstate, want_g3_exit, chipWake,
          sig, pchAnswered, logVars, rnVars, wdtVars>>

-----------------------------------------------------------------------------
(* Helpers of renoir.c *)

(* chipset_force_g3(): every output dropped and the PCH line pulled low.   *)
(* The state is not changed.                                               *)
ChipsetForceG3 == out' = {} /\ pchLow' = TRUE

Goto(s) == pstate' = s /\ chipWake' = TRUE /\ cpc' = "top"
Park(pc) == cpc' = pc /\ UNCHANGED <<pstate, chipWake>>

Alw == "ALW_PG" \in sig

ChipsetReady == cpc = "top" /\ (chipWake \/ pstate \notin SteadyStates)

(* power_button_pulse_setting_reset() on HOOK_CHIPSET_STARTUP, SHUTDOWN,   *)
(* SUSPEND and RESUME.                                                     *)
PulseReset == Btn!PowerButtonPulseSettingReset

(* What a chipset step that only drives outputs leaves alone.              *)
SeqOnly ==
    UNCHANGED <<btnOnly, power_button_pulse_enabled, want_g3_exit, sig,
                logVars, forcing_shutdown, wdtVars>>

(* A step that also records a cause.                                       *)
SeqRecord(id) ==
    /\ ShutdownCauseRecord(id)
    /\ UNCHANGED <<btnOnly, power_button_pulse_enabled, want_g3_exit, sig,
                   forcing_shutdown, wdtVars>>

-----------------------------------------------------------------------------
(* The chipset task: power_handle_state(), one action per stretch of code  *)
(* between two yields.                                                     *)

RnG3 ==
    /\ ChipsetReady /\ pstate = "G3"
    /\ IF want_g3_exit
       THEN want_g3_exit' = FALSE /\ Goto("G3S5") /\ causes' = <<>>
       ELSE chipWake' = FALSE /\ UNCHANGED <<pstate, cpc, want_g3_exit, causes>>
    /\ UNCHANGED <<btnOnly, power_button_pulse_enabled, sig, out,
                   g_abnormal_shutdown, forcing_shutdown, wdtVars>>

(* G3S5 up to msleep(10): AUX and 3V/5V on, the PCH line and the other     *)
(* sideband outputs driven high.                                           *)
RnG3S5 ==
    /\ ChipsetReady /\ pstate = "G3S5"
    /\ out' = out \cup {"AUX"} /\ pchLow' = FALSE
    /\ Park("g3s5Sleep1")
    /\ UNCHANGED <<physPressed, hostLock, simulate_power_pressed,
                   debounced_power_pressed, power_button_is_stable, deferT,
                   kbScan, sinceEdge, consoleKick, pwrbtn_state, tnext_state,
                   pbWake, pbPc, hookPc, power_button_pulse_enabled,
                   want_g3_exit, sig, logVars, forcing_shutdown, wdtVars>>

(* The S5 rails on, then power_wait_signals(IN_PGOOD_S5).                  *)
RnG3S5Sleep1 ==
    /\ cpc = "g3s5Sleep1"
    /\ out' = out \cup {"ALW"}
    /\ IF Alw THEN Park("g3s5Sleep2") ELSE Park("g3s5WaitPg")
    /\ SeqOnly

RnG3S5PgUp ==
    /\ cpc = "g3s5WaitPg" /\ Alw
    /\ Park("g3s5Sleep2") /\ UNCHANGED out /\ SeqOnly

(* The wait times out: chipset_force_g3(), 0x45, G3.                       *)
RnG3S5PgTimeout ==
    /\ cpc = "g3s5WaitPg" /\ ~Alw
    /\ ChipsetForceG3 /\ Goto("G3")
    /\ ShutdownCauseRecord("0x45")
    /\ UNCHANGED <<physPressed, hostLock, simulate_power_pressed,
                   debounced_power_pressed, power_button_is_stable, deferT,
                   kbScan, sinceEdge, consoleKick, pwrbtn_state, tnext_state,
                   pbWake, pbPc, hookPc, power_button_pulse_enabled,
                   want_g3_exit, sig, forcing_shutdown, wdtVars>>

(* After msleep(10): RSMRST released, HOOK_CHIPSET_PRE_INIT, S5.           *)
RnG3S5Sleep2 ==
    /\ cpc = "g3s5Sleep2"
    /\ out' = out \cup {"RSMRST"} /\ Goto("S5")
    /\ SeqOnly

(* S5: a forced shutdown is over, so its press is released; then the rail  *)
(* check (0x45: BIT0 of g_cause_flag is never set on this board, so the    *)
(* branch that skips the record is not taken), SLP_S5, or the framework's  *)
(* wait (pause_in_s5 is set).                                              *)
RnS5 ==
    /\ ChipsetReady /\ pstate = "S5"
    /\ IF forcing_shutdown
       THEN Btn!PowerButtonPchRelease /\ forcing_shutdown' = FALSE
       ELSE UNCHANGED <<pchLow, pwrbtn_state, forcing_shutdown>>
    /\ CASE ~Alw ->
              ShutdownCauseRecord("0x45") /\ Goto("S5G3")
              /\ UNCHANGED want_g3_exit
         [] "SLP_S5" \in sig ->
              Goto("S5S3") /\ UNCHANGED <<want_g3_exit, logVars>>
         [] OTHER ->
              /\ want_g3_exit' = FALSE /\ chipWake' = FALSE
              /\ UNCHANGED <<pstate, cpc, logVars>>
    /\ UNCHANGED <<physPressed, hostLock, simulate_power_pressed,
                   debounced_power_pressed, power_button_is_stable, deferT,
                   kbScan, sinceEdge, consoleKick, tnext_state, pbWake, pbPc,
                   hookPc, power_button_pulse_enabled, sig, out, wdtVars>>

(* S5S3: rail check, then PSON and USB-A on and HOOK_CHIPSET_STARTUP.      *)
RnS5S3 ==
    /\ ChipsetReady /\ pstate = "S5S3"
    /\ IF ~Alw
       THEN /\ ShutdownCauseRecord("0x45") /\ Goto("S5G3")
            /\ UNCHANGED <<out, power_button_pulse_enabled>>
       ELSE /\ out' = out \cup {"PSON"} /\ PulseReset /\ Goto("S3")
            /\ UNCHANGED logVars
    /\ UNCHANGED <<btnOnly, want_g3_exit, sig, forcing_shutdown, wdtVars>>

(* S3: rail check; SLP_S3 high turns PSON on and waits for 12 V; SLP_S5    *)
(* low goes down to S5.                                                    *)
RnS3 ==
    /\ ChipsetReady /\ pstate = "S3"
    /\ CASE ~Alw ->
              ShutdownCauseRecord("0x45") /\ Goto("S5G3") /\ UNCHANGED out
         [] "SLP_S3" \in sig ->
              /\ IF "V12" \in sig
                 THEN out' = out \cup {"PSON", "SLP_S5", "SLP_S3"}
                      /\ Goto("S3S0")
                 ELSE out' = out \cup {"PSON"} /\ Park("s3WaitV12")
              /\ UNCHANGED logVars
         [] "SLP_S5" \notin sig ->
              Goto("S3S5") /\ UNCHANGED <<out, logVars>>
         [] OTHER ->
              chipWake' = FALSE /\ UNCHANGED <<pstate, cpc, out, logVars>>
    /\ UNCHANGED <<btnOnly, power_button_pulse_enabled, want_g3_exit, sig,
                   forcing_shutdown, wdtVars>>

(* power_wait_voltage() (not in this repository; spec.md 4.1: a bounded   *)
(* wait for the 12 V rail) sees the rail: SLP_S5 and SLP_S3 pass through.  *)
RnS3V12Up ==
    /\ cpc = "s3WaitV12" /\ "V12" \in sig
    /\ out' = out \cup {"SLP_S5", "SLP_S3"} /\ Goto("S3S0") /\ SeqOnly

RnS3V12Timeout ==
    /\ cpc = "s3WaitV12" /\ "V12" \notin sig
    /\ Goto("S5G3") /\ UNCHANGED out /\ SeqRecord("0x46")

(* S3S0: rail check, then the ALL_CORE wait.                               *)
RnS3S0 ==
    /\ ChipsetReady /\ pstate = "S3S0"
    /\ IF ~Alw
       THEN ShutdownCauseRecord("0x45") /\ Goto("S5G3")
       ELSE /\ IF "ALL_CORE" \in sig THEN Park("s3s0Sleep1")
                                     ELSE Park("s3s0WaitCore")
            /\ UNCHANGED logVars
    /\ UNCHANGED <<btnOnly, power_button_pulse_enabled, want_g3_exit, sig, out,
                   forcing_shutdown, wdtVars>>

RnS3S0CoreUp ==
    /\ cpc = "s3s0WaitCore" /\ "ALL_CORE" \in sig
    /\ Park("s3s0Sleep1") /\ UNCHANGED out /\ SeqOnly

RnS3S0CoreTimeout ==
    /\ cpc = "s3s0WaitCore" /\ "ALL_CORE" \notin sig
    /\ Goto("S5G3") /\ UNCHANGED out /\ SeqRecord("0x47")

(* After msleep(10): EC_FCH_PWRGD high.                                    *)
RnS3S0Sleep1 ==
    /\ cpc = "s3s0Sleep1"
    /\ out' = out \cup {"FCH_PWRGD"} /\ Park("s3s0Sleep2") /\ SeqOnly

(* After msleep(140): PWRGD_140MS, g_abnormal_shutdown cleared,            *)
(* HOOK_CHIPSET_RESUME, S0.                                                *)
RnS3S0Sleep2 ==
    /\ cpc = "s3s0Sleep2"
    /\ out' = out \cup {"PWRGD_140MS"}
    /\ g_abnormal_shutdown' = FALSE
    /\ PulseReset
    /\ Goto("S0")
    /\ UNCHANGED <<btnOnly, want_g3_exit, sig, causes, forcing_shutdown,
                   wdtVars>>

(* Mutant: S0 without its rail check.                                     *)
RnS0IgnoresRail ==
    /\ ChipsetReady /\ pstate = "S0"
    /\ CASE "SLP_S3" \notin sig ->
              Goto("S0S3") /\ UNCHANGED logVars
         [] OTHER ->
              chipWake' = FALSE /\ UNCHANGED <<pstate, cpc, logVars>>
    /\ UNCHANGED <<btnOnly, power_button_pulse_enabled, want_g3_exit, sig, out,
                   forcing_shutdown, wdtVars>>

(* S0: rail check (0x08), or SLP_S3 low starts the way down.               *)
RnS0 ==
    /\ ChipsetReady /\ pstate = "S0"
    /\ CASE ~Alw ->
              ShutdownCauseRecord("0x08") /\ Goto("S5G3")
         [] "SLP_S3" \notin sig ->
              Goto("S0S3") /\ UNCHANGED logVars
         [] OTHER ->
              chipWake' = FALSE /\ UNCHANGED <<pstate, cpc, logVars>>
    /\ UNCHANGED <<btnOnly, power_button_pulse_enabled, want_g3_exit, sig, out,
                   forcing_shutdown, wdtVars>>

(* Mutant: S0S3 leaves the SLP_S3 pass-through on.                        *)
RnS0S3KeepsSlpS3 ==
    /\ ChipsetReady /\ pstate = "S0S3"
    /\ out' = out \ {"PWRGD_140MS", "FCH_PWRGD", "PSON"}
    /\ PulseReset /\ Goto("S3")
    /\ UNCHANGED <<btnOnly, want_g3_exit, sig, logVars, forcing_shutdown,
                   wdtVars>>

(* S0S3: PWRGD_140MS, EC_FCH_PWRGD, the SLP_S3 pass-through and PSON       *)
(* withdrawn, HOOK_CHIPSET_SUSPEND, S3.                                    *)
RnS0S3 ==
    /\ ChipsetReady /\ pstate = "S0S3"
    /\ out' = out \ {"PWRGD_140MS", "FCH_PWRGD", "SLP_S3", "PSON"}
    /\ PulseReset /\ Goto("S3")
    /\ UNCHANGED <<btnOnly, want_g3_exit, sig, logVars, forcing_shutdown,
                   wdtVars>>

(* S3S5: HOOK_CHIPSET_SHUTDOWN, USB-A off, the SLP_S5 pass-through off.    *)
RnS3S5 ==
    /\ ChipsetReady /\ pstate = "S3S5"
    /\ out' = out \ {"SLP_S5"}
    /\ PulseReset /\ Goto("S5")
    /\ UNCHANGED <<btnOnly, want_g3_exit, sig, logVars, forcing_shutdown,
                   wdtVars>>

RnS5G3 ==
    /\ ChipsetReady /\ pstate = "S5G3"
    /\ ChipsetForceG3 /\ Goto("G3")
    /\ UNCHANGED <<physPressed, hostLock, simulate_power_pressed,
                   debounced_power_pressed, power_button_is_stable, deferT,
                   kbScan, sinceEdge, consoleKick, pwrbtn_state, tnext_state,
                   pbWake, pbPc, hookPc, power_button_pulse_enabled,
                   want_g3_exit, sig, logVars, forcing_shutdown, wdtVars>>

ChipsetTask ==
    \/ RnG3 \/ RnG3S5 \/ RnG3S5Sleep1 \/ RnG3S5PgUp \/ RnG3S5PgTimeout
    \/ RnG3S5Sleep2 \/ RnS5 \/ RnS5S3 \/ RnS3 \/ RnS3V12Up \/ RnS3V12Timeout
    \/ RnS3S0 \/ RnS3S0CoreUp \/ RnS3S0CoreTimeout \/ RnS3S0Sleep1
    \/ RnS3S0Sleep2 \/ RnS0 \/ RnS0S3 \/ RnS3S5 \/ RnS5G3


-----------------------------------------------------------------------------
(* The hook task: the software watchdogs' second, the deferred power-on,   *)
(* and the button's deferred calls.  Each runs only while the task is not  *)
(* parked inside board_pwrbtn_to_pch().                                    *)

(* The button and the line only: what a watchdog step may leave alone.     *)
wdtFrame ==
    UNCHANGED <<physPressed, hostLock, simulate_power_pressed,
                debounced_power_pressed, power_button_is_stable, deferT,
                kbScan, sinceEdge, consoleKick, pwrbtn_state, tnext_state,
                pbWake, pbPc, power_button_pulse_enabled, pstate,
                want_g3_exit, chipWake, sig, out, cpc>>

(* HOOK_SECOND system_sw_wdt_service().  When the wake-up watchdog fires,  *)
(* chipset_force_shutdown(0x09) (the chipset is on, so not ANY_OFF) marks  *)
(* the forced shutdown and presses the PCH button; if that blocks, the     *)
(* rest of the service waits for RnPressResume.                            *)
RnWdtSecond ==
    /\ hookPc = "idle"
    /\ IF WakeFires
       THEN /\ forcing_shutdown' = TRUE
            /\ Btn!PowerButtonPchPress
            /\ IF hookPc' = "idle"
               THEN ServiceTail(ServiceHead, TRUE, <<"0x09">>)
               ELSE /\ SetWake(ServiceHead)
                    /\ UNCHANGED <<shutEn, shutTime, countTime, logVars>>
       ELSE /\ ServiceTail(ServiceHead, wakeEn, <<>>)
            /\ UNCHANGED <<forcing_shutdown, pchLow, hookPc>>
    /\ wdtFrame

(* The forced press returns from board_pwrbtn_to_pch(): the line is        *)
(* asserted, 0x09 recorded, and the service goes on.                       *)
RnPressResume ==
    /\ hookPc = "pressWait"
    /\ pchLow' = TRUE /\ hookPc' = "idle"
    /\ ServiceTail(Wake, TRUE, <<"0x09">>)
    /\ UNCHANGED forcing_shutdown
    /\ wdtFrame

(* power_On_Machine_deferred(), five seconds after WakeUpWdtPowerOn().     *)
PowerOnMachineDeferred ==
    /\ hookPc = "idle" /\ powerOnPending
    /\ powerOnPending' = FALSE
    /\ Btn!PowerButtonPchPulse("LID_OPEN")
    /\ UNCHANGED <<physPressed, hostLock, simulate_power_pressed,
                   debounced_power_pressed, power_button_is_stable, deferT,
                   kbScan, sinceEdge, consoleKick, pbPc,
                   power_button_pulse_enabled, pstate, sig, logVars, rnVars,
                   wakeEn, wakeTime, timeoutNum, g_WdtForceingShutdown,
                   shutEn, shutTime, countTime>>

BtnHook ==
    /\ Btn!HookPowerButtonChange \/ Btn!HookResume
    /\ UNCHANGED <<rnVars, wdtVars>>

-----------------------------------------------------------------------------
(* The power-button task.  HELD_1 resets the EC: RAM, with the watchdogs   *)
(* and the forced-shutdown flag, and every output are lost with it.        *)

PbSteps ==
    \/ Btn!StateMachineEarly \/ Btn!StatePressed \/ Btn!StateT1
    \/ Btn!StateEndPulse \/ Btn!StateInitOn \/ Btn!StateBootKbReset
    \/ Btn!StateWasOff \/ Btn!StateNothing \/ Btn!StateHeld \/ Btn!PbResume

RnHeld1 ==
    /\ Btn!StateHeld1
    /\ out' = {} /\ cpc' = "top" /\ forcing_shutdown' = FALSE
    /\ WdtCleared

PbTask == (PbSteps /\ UNCHANGED <<rnVars, wdtVars>>) \/ RnHeld1

Tick == Btn!Tick /\ UNCHANGED <<rnVars, wdtVars>>

-----------------------------------------------------------------------------
(* The host, while it runs: EC_CMD_EXTERNAL_WDT and the button's pulse    *)
(* setting.                                                                *)
HostWdt ==
    /\ pstate = "S0"
    /\ \E type \in {1, 2}, flag1 \in {1, 2}, t \in HostTimes :
          HostCommandWDT(type, flag1, t)
    /\ UNCHANGED <<btnOnly, power_button_pulse_enabled, pstate, want_g3_exit,
                   chipWake, sig, logVars, rnVars>>

HostConfig == Btn!HostConfigPowerButton /\ UNCHANGED <<rnVars, wdtVars>>

-----------------------------------------------------------------------------
(* The platform.  An input can be high only while the outputs it depends  *)
(* on are driven; the PCH's SLP_S3 also needs its SLP_S5.                  *)
NeedsOut == [s \in RnSignals |->
                CASE s = "ALW_PG"   -> {"ALW"}
                  [] s = "SLP_S5"   -> {"RSMRST"}
                  [] s = "SLP_S3"   -> {"RSMRST"}
                  [] s = "V12"      -> {"PSON"}
                  [] s = "ALL_CORE" -> {"PSON", "SLP_S3"}]

Powered(s) ==
    /\ NeedsOut[s] \subseteq out
    /\ s = "SLP_S3" => "SLP_S5" \in sig

(* The 12 V rail is only polled; the other inputs interrupt the chipset    *)
(* task.                                                                   *)
SetSig(new, s) ==
    /\ sig' = new
    /\ chipWake' = (chipWake \/ s # "V12")

PlatformOnly == UNCHANGED <<btnOnly, power_button_pulse_enabled, pstate,
                            want_g3_exit, logVars, rnVars, wdtVars>>

PchSleepStates == {"SLP_S5", "SLP_S3"}

(* The PCH asleep (SLP_S3 low with RSMRST released) wakes up to S0.      *)
PchAsleep == "SLP_S3" \notin sig /\ "RSMRST" \in out
PchResume == SetSig(sig \cup PchSleepStates, "SLP_S3")

(* A wake event of the PCH's own.                                          *)
PchWake == PchAsleep /\ PchResume /\ PlatformOnly /\ UNCHANGED pchAnswered

(* The PCH wakes up once on an assertion of the line while asleep (SLP_S3 *)
(* low, RSMRST released), then waits for its release.  A line held while  *)
(* it is awake is its power-button override, down to S5.                  *)
PchPressWake ==
    /\ pchLow /\ ~pchAnswered /\ PchAsleep
    /\ PchResume /\ pchAnswered' = TRUE
    /\ PlatformOnly

PchOverride ==
    /\ pchLow /\ "SLP_S3" \in sig
    /\ SetSig(sig \ PchSleepStates, "SLP_S3") /\ pchAnswered' = TRUE
    /\ PlatformOnly

(* The PCH latches the line: its release ends the assertion answered.    *)
PchLatch == pchAnswered' = (pchAnswered /\ pchLow')

RailRise ==
    /\ \E s \in RnSignals \ (sig \cup PchSleepStates) :
          Powered(s) /\ SetSig(sig \cup {s}, s)
    /\ PlatformOnly

SignalFall ==
    /\ \E s \in sig : SetSig(sig \ {s}, s)
    /\ PlatformOnly

RailDecay ==
    /\ \E s \in sig : ~Powered(s) /\ SetSig(sig \ {s}, s)
    /\ PlatformOnly

ButtonEnv == Btn!ButtonEnv /\ UNCHANGED <<rnVars, wdtVars>>
LanWake == Btn!HookLanWake /\ UNCHANGED <<rnVars, wdtVars>>

-----------------------------------------------------------------------------
(* power_chipset_init(): G3 (the RO image, or a jump with nothing up), or  *)
(* S0 after a jump with the system on; lan_wake_init_exit_G3() may ask to  *)
(* leave G3.  The watchdogs start zeroed.                                  *)
Init ==
    /\ \E jumpedOn \in BOOLEAN :
          /\ Btn!ButtonInit(jumpedOn)
          /\ hostLock = FALSE
          /\ pstate = IF jumpedOn THEN "S0" ELSE "G3"
          /\ sig = IF jumpedOn THEN RnSignals ELSE {}
          /\ out = IF jumpedOn THEN RnOutputs ELSE {}
          /\ want_g3_exit \in IF jumpedOn THEN {FALSE} ELSE BOOLEAN
    /\ chipWake = TRUE /\ cpc = "top"
    /\ g_abnormal_shutdown = FALSE /\ causes = <<>>
    /\ forcing_shutdown = FALSE /\ pchAnswered = FALSE
    /\ WdtInit

HookTask ==
    \/ RnWdtSecond \/ RnPressResume \/ PowerOnMachineDeferred \/ BtnHook

(* What the user, the host, the PCH and a failing rail may do at any time. *)
EnvStep ==
    \/ ButtonEnv \/ LanWake \/ HostConfig \/ HostWdt \/ PchWake \/ SignalFall

Next ==
    \/ /\ \/ ChipsetTask \/ HookTask \/ PbTask \/ Tick \/ RailRise \/ RailDecay
          \/ EnvStep
       /\ PchLatch
    \/ PchOverride \/ PchPressWake

(* Every task runs when it is ready; each hook-task callback is called    *)
(* once it is due (the hook task runs HOOK_SECOND and every deferred call *)
(* in turn); a withdrawn rail decays; the PCH honours a held button; and   *)
(* time passes.                                                            *)
Spec ==
    /\ Init /\ [][Next]_vars
    /\ WF_vars(ChipsetTask /\ PchLatch) /\ WF_vars(PbTask /\ PchLatch)
    /\ WF_vars(RnWdtSecond /\ PchLatch) /\ WF_vars(RnPressResume /\ PchLatch)
    /\ WF_vars(PowerOnMachineDeferred /\ PchLatch)
    /\ WF_vars(BtnHook /\ PchLatch) /\ WF_vars(RailDecay /\ PchLatch)
    /\ WF_vars(PchOverride) /\ WF_vars(PchPressWake)
    /\ SF_vars(Tick /\ PchLatch)

-----------------------------------------------------------------------------
(* Properties *)

TypeOK ==
    /\ Btn!ButtonTypeOK /\ WdtTypeOK
    /\ sig \subseteq RnSignals /\ out \subseteq RnOutputs /\ cpc \in RnPcs
    /\ forcing_shutdown \in BOOLEAN /\ pchAnswered \in BOOLEAN

(* The outputs power_handle_state() drives stay in the order of the rails *)
(* they feed: each is on only while the one it depends on is on, through  *)
(* every way up and down, the forced shutdowns and the rail-loss exits    *)
(* to G3 included.                                                         *)
RnDependsOn == {<<"RSMRST", "ALW">>, <<"PSON", "RSMRST">>,
                <<"SLP_S5", "RSMRST">>, <<"SLP_S3", "PSON">>,
                <<"SLP_S3", "SLP_S5">>, <<"FCH_PWRGD", "SLP_S3">>,
                <<"PWRGD_140MS", "FCH_PWRGD">>}

RnSequenceOrder == \A d \in RnDependsOn : d[1] \in out => d[2] \in out

(* A lost always-on rail (ALW_PG low while the EC drives ALW) is never     *)
(* ignored: whatever state or wait the chipset task is in, its rail check *)
(* or a timed-out wait takes it to G3, unless the rail comes back.         *)
RnRailLossReachesG3 == ("ALW" \in out /\ ~Alw) ~> (pstate = "G3" \/ Alw)


=============================================================================
