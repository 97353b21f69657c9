---------------------------- MODULE PowerButtonX86 ----------------------------
(***************************************************************************)
(* The x86 power-button state machine, common/power_button_x86.c, and the *)
(* board hook it drives the PCH through (board_pwrbtn_to_pch() in          *)
(* board/pangub/board.c).                                                 *)
(*                                                                         *)
(* Three EC tasks touch it.  The power-button task runs state_machine()   *)
(* when it is woken or its deadline tnext_state has passed.  The hook     *)
(* task runs the debounced change (powerbtn_x86_changed(), after          *)
(* power_button_change_deferred()) and the LAN-wake pulse.  The chipset   *)
(* task, modelled elsewhere, releases a forced press and resets the pulse *)
(* setting.  Tasks run cooperatively between their blocking points, as    *)
(* spec.md section 5 describes; the blocking point inside this component  *)
(* is the wait for S5_PGOOD in board_pwrbtn_to_pch(), taken whenever the  *)
(* line is asserted while S5_PGOOD is low.                                *)
(*                                                                         *)
(* Time is counted in ticks.  tnext_state is the number of ticks left      *)
(* until the task's deadline, or NoTimer where the code stores 0.          *)
(***************************************************************************)
EXTENDS PowerCommon, ShutdownLog

CONSTANTS
    Debounce, NoTimer,
    DelayT0,       \* PWRBTN_DELAY_T0, 32 ms
    DelayT1,       \* PWRBTN_DELAY_T1, 64 ms - T0
    DelayT2,       \* PWRBTN_DELAY_T2, 3.7 s
    DelayT3,       \* PWRBTN_DELAY_T3, 6.3 s
    DelayInitial   \* PWRBTN_INITIAL_US, 200 ms

ASSUME {DelayT0, DelayT1, DelayT2, DelayT3, DelayInitial} \subseteq Nat \ {0}

VARIABLES
    physPressed, hostLock, simulate_power_pressed, debounced_power_pressed,
    power_button_is_stable, deferT, kbScan, sinceEdge, consoleKick,
    pwrbtn_state,                \* enum power_button_state
    tnext_state,                 \* ticks to the task's next deadline
    power_button_pulse_enabled,
    pchLow,                      \* GPIO_PCH_PWRBTN_L driven low (asserted)
    pbWake,                      \* task_wake(TASK_ID_POWERBTN) pending
    pbPc,                        \* where the power-button task is
    hookPc                       \* where the hook task is

Deb == INSTANCE PowerButton

MaxDelay == DelayT2 + DelayT3 + DelayInitial + DelayT0 + DelayT1 + Debounce

ButtonStates == {"IDLE", "PRESSED", "T0", "T1", "HELD", "HELD_1", "LID_OPEN",
                 "LAN_WAKE", "RELEASED", "EAT_RELEASE", "INIT_ON",
                 "BOOT_KB_RESET", "WAS_OFF"}

(* The power-button task: ready in its loop, or blocked inside            *)
(* board_pwrbtn_to_pch() in the PRESSED, T1 or INIT_ON case.              *)
PbPcs == {"ready", "pressedWait", "t1Wait", "initWait"}

(* The hook task: free, or blocked inside board_pwrbtn_to_pch() in         *)
(* power_button_pch_pulse() (for a LAN-wake or a LID_OPEN pulse) or in     *)
(* power_button_pch_press().                                               *)
HookPcs == {"idle", "pulseWait", "lidPulseWait", "pressWait"}

debVars == <<physPressed, hostLock, simulate_power_pressed,
             debounced_power_pressed, power_button_is_stable, deferT, kbScan,
             sinceEdge, consoleKick>>
btnVars == <<pwrbtn_state, tnext_state, power_button_pulse_enabled, pchLow,
             pbWake, pbPc, hookPc>>
comVars == <<pstate, want_g3_exit, chipWake, sig>>
logVars == <<g_abnormal_shutdown, causes>>

-----------------------------------------------------------------------------
(* The PCH power-button line *)

(* board_pwrbtn_to_pch() waits (msleep) for S5_PGOOD before asserting.    *)
WouldBlock(high) == ~high /\ "ALW_PG" \notin sig

(* set_pwrbtn_to_pch(high) when it does not block.  CONFIG_CHARGER is not *)
(* set on this desktop board, so no battery gating.                       *)
SetPwrbtnToPch(high) == pchLow' = ~high

(* power_button_pch_release(): deassert, then eat the release of a button *)
(* that is really down.  tnext_state is left as it was.                   *)
PowerButtonPchRelease ==
    /\ pchLow' = FALSE
    /\ pwrbtn_state' = IF debounced_power_pressed THEN "EAT_RELEASE" ELSE "IDLE"

-----------------------------------------------------------------------------
(* Initial state: set_initial_pwrbtn_state() at HOOK_INIT *)

(* auto_power_on_control(): manufacturing mode, AC-recovery policy and the *)
(* last power state saved in the MFG data.  CONFIG_SYSTEM_RESET_DELAY is   *)
(* a second source of the same two outcomes.                               *)
MfgModes == {"MFG", "RELEASE"}
AcRecovery == {1, 2, 3, 0}
LastStates == {"OFF", "ON"}   \* 0x55 is "OFF"
AutoPowerOnControl(mfg, ac, last) ==
    CASE mfg = "MFG"                 -> "INIT_ON"
      [] ac = 1                      -> "INIT_ON"
      [] ac = 2                      -> "IDLE"
      [] ac = 3 /\ last = "OFF"      -> "IDLE"
      [] ac = 3                      -> "INIT_ON"
      [] OTHER                       -> "INIT_ON"

(* jumped: the image was entered by a sysjump with the chipset on.         *)
(* apOff: reset flags ask for the AP to stay off (or the down-arrow boot   *)
(* key); apIdle: EC_RESET_FLAG_AP_IDLE.                                    *)
SetInitialPwrbtnState(jumpedOn) ==
    \/ /\ jumpedOn
       /\ pwrbtn_state = "IDLE"
       /\ pchLow = (debounced_power_pressed /\ power_button_pulse_enabled)
    \/ /\ ~jumpedOn
       /\ pchLow = FALSE
       /\ \/ pwrbtn_state = IF debounced_power_pressed THEN "EAT_RELEASE"
                                                       ELSE "IDLE"
          \/ pwrbtn_state = "IDLE"
          \/ \E mfg \in MfgModes, ac \in AcRecovery, last \in LastStates :
                pwrbtn_state = AutoPowerOnControl(mfg, ac, last)

ButtonInit(jumpedOn) ==
    /\ Deb!DebounceInit
    /\ power_button_pulse_enabled \in (IF jumpedOn THEN BOOLEAN ELSE {TRUE})
    /\ SetInitialPwrbtnState(jumpedOn)
    /\ tnext_state = NoTimer
    /\ pbWake = TRUE           \* the task's first pass through its loop
    /\ pbPc = "ready"
    /\ hookPc = "idle"

-----------------------------------------------------------------------------
(* The power-button task: state_machine(), one action per case *)

PbDue == pbPc = "ready" /\ (pbWake \/ tnext_state = 0)

(* Woken before the deadline: "if (tnow < tnext_state) return".            *)
StateMachineEarly ==
    /\ PbDue /\ tnext_state \in 1..MaxDelay
    /\ pbWake' = FALSE
    /\ UNCHANGED <<pwrbtn_state, tnext_state, power_button_pulse_enabled,
                   pchLow, pbPc, hookPc>>
    /\ UNCHANGED <<debVars, comVars, logVars>>

(* The deadline has passed (or there is none): the switch runs with       *)
(* tnext_state reset to 0 unless the case sets it again.                  *)
Runs(st) ==
    /\ PbDue /\ tnext_state \notin 1..MaxDelay
    /\ pwrbtn_state = st

StepOf(st) == Runs(st) /\ pbWake' = FALSE

(* Assert the line from the task, blocking at pc w if S5_PGOOD is low.     *)
PbAssert(w) ==
    IF WouldBlock(FALSE)
    THEN pbPc' = w /\ UNCHANGED pchLow
    ELSE pbPc' = "ready" /\ SetPwrbtnToPch(FALSE)

StatePressed ==
    /\ StepOf("PRESSED")
    /\ IF ChipsetInState(ANY_OFF)
       THEN /\ ChipsetExitHardOff
            /\ tnext_state' = DelayInitial
            /\ pwrbtn_state' = "WAS_OFF"
            /\ PbAssert("pressedWait")
       ELSE /\ UNCHANGED <<want_g3_exit, chipWake>>
            /\ pwrbtn_state' = "T1"
            /\ IF power_button_pulse_enabled
               THEN tnext_state' = DelayT0 /\ PbAssert("pressedWait")
               ELSE tnext_state' = DelayT1 /\ UNCHANGED <<pchLow, pbPc>>
    /\ UNCHANGED <<power_button_pulse_enabled, hookPc, pstate, sig>>
    /\ UNCHANGED <<debVars, logVars>>

(* The rest of the T1 case, after the line is (or is not) asserted.       *)
T1Rest ==
    /\ tnext_state' = DelayT2
    /\ pwrbtn_state' = "HELD"

StateT1 ==
    /\ StepOf("T1")
    /\ IF ChipsetInState(ANY_OFF)
       THEN T1Rest /\ UNCHANGED <<pchLow, pbPc>>
       ELSE IF WouldBlock(FALSE)
            THEN pbPc' = "t1Wait" /\ UNCHANGED <<pchLow, pwrbtn_state, tnext_state>>
            ELSE SetPwrbtnToPch(FALSE) /\ T1Rest /\ UNCHANGED pbPc
    /\ UNCHANGED <<power_button_pulse_enabled, hookPc>>
    /\ UNCHANGED <<debVars, comVars, logVars>>

(* RELEASED, LID_OPEN and LAN_WAKE: end the pulse and go idle.             *)
StateEndPulse ==
    /\ \E st \in {"RELEASED", "LID_OPEN", "LAN_WAKE"} : StepOf(st)
    /\ SetPwrbtnToPch(TRUE)
    /\ pwrbtn_state' = "IDLE"
    /\ tnext_state' = NoTimer
    /\ UNCHANGED <<power_button_pulse_enabled, pbPc, hookPc>>
    /\ UNCHANGED <<debVars, comVars, logVars>>

(* INIT_ON.  Without CONFIG_CHARGER the give-up branch is taken only when *)
(* the task first runs more than CONFIG_POWER_BUTTON_INIT_TIMEOUT after   *)
(* it started; INIT_ON is only ever set before the task starts and the    *)
(* task's first pass runs it, so that branch is not reachable.            *)
InitOnRest ==
    /\ tnext_state' = DelayInitial
    /\ pwrbtn_state' = "BOOT_KB_RESET"

StateInitOn ==
    /\ StepOf("INIT_ON")
    /\ ChipsetExitHardOff
    /\ IF WouldBlock(FALSE)
       THEN pbPc' = "initWait" /\ UNCHANGED <<pchLow, pwrbtn_state, tnext_state>>
       ELSE SetPwrbtnToPch(FALSE) /\ InitOnRest /\ UNCHANGED pbPc
    /\ UNCHANGED <<power_button_pulse_enabled, hookPc, pstate, sig>>
    /\ UNCHANGED <<debVars, logVars>>

(* Mutant: the boot keyboard-reset stretch ends without releasing the     *)
(* line.                                                                   *)
StateBootKbResetKeepsLine ==
    /\ StepOf("BOOT_KB_RESET")
    /\ UNCHANGED pchLow
    /\ pwrbtn_state' = IF debounced_power_pressed THEN "EAT_RELEASE" ELSE "IDLE"
    /\ tnext_state' = NoTimer
    /\ UNCHANGED <<power_button_pulse_enabled, pbPc, hookPc>>
    /\ UNCHANGED <<debVars, comVars, logVars>>

StateBootKbReset ==
    /\ StepOf("BOOT_KB_RESET")
    /\ SetPwrbtnToPch(TRUE)
    /\ pwrbtn_state' = IF debounced_power_pressed THEN "EAT_RELEASE" ELSE "IDLE"
    /\ tnext_state' = NoTimer
    /\ UNCHANGED <<power_button_pulse_enabled, pbPc, hookPc>>
    /\ UNCHANGED <<debVars, comVars, logVars>>

(* WAS_OFF: still held -> HELD with no deadline; else power_button_released *)
StateWasOff ==
    /\ StepOf("WAS_OFF")
    /\ IF debounced_power_pressed
       THEN pwrbtn_state' = "HELD" /\ tnext_state' = NoTimer
       ELSE pwrbtn_state' = "RELEASED" /\ tnext_state' = 0
    /\ UNCHANGED <<power_button_pulse_enabled, pchLow, pbPc, hookPc>>
    /\ UNCHANGED <<debVars, comVars, logVars>>

(* IDLE and EAT_RELEASE do nothing.                                        *)
StateNothing ==
    /\ \E st \in {"IDLE", "EAT_RELEASE"} : StepOf(st)
    /\ tnext_state' = NoTimer
    /\ UNCHANGED <<pwrbtn_state, power_button_pulse_enabled, pchLow, pbPc,
                   hookPc>>
    /\ UNCHANGED <<debVars, comVars, logVars>>

(* HELD: "tnow > tnext_state" compares with the 0 just stored, so it       *)
(* always holds: log the 4 s press and arm the 10 s stage.                 *)
StateHeld ==
    /\ StepOf("HELD")
    /\ ShutdownCauseRecord("0x06")
    /\ tnext_state' = DelayT3
    /\ pwrbtn_state' = "HELD_1"
    /\ UNCHANGED <<power_button_pulse_enabled, pchLow, pbPc, hookPc>>
    /\ UNCHANGED <<debVars, comVars>>

(* HELD_1: log the 10 s press and reset the EC, system_reset(), which does *)
(* not return.  The reset reinitialises the EC: RAM, the tasks and the     *)
(* GPIO outputs (so the chipset drops to G3); the button stays as the user *)
(* holds it and the log survives in flash.                                 *)
EcReset ==
    /\ physPressed' = physPressed
    /\ hostLock' = FALSE
    /\ simulate_power_pressed' = FALSE
    /\ debounced_power_pressed' = physPressed
    /\ power_button_is_stable' = TRUE
    /\ deferT' = NoTimer
    /\ kbScan' = TRUE
    /\ sinceEdge' = Debounce
    /\ consoleKick' = FALSE
    /\ pchLow' = FALSE
    /\ \/ pwrbtn_state' = IF physPressed THEN "EAT_RELEASE" ELSE "IDLE"
       \/ \E mfg \in MfgModes, ac \in AcRecovery, last \in LastStates :
             pwrbtn_state' = AutoPowerOnControl(mfg, ac, last)
    /\ power_button_pulse_enabled' = TRUE
    /\ tnext_state' = NoTimer
    /\ pbWake' = TRUE
    /\ pbPc' = "ready"
    /\ hookPc' = "idle"
    /\ pstate' = "G3"
    /\ want_g3_exit' = FALSE
    /\ chipWake' = FALSE
    /\ g_abnormal_shutdown' = FALSE

StateHeld1 ==
    /\ Runs("HELD_1")
    /\ causes' = Cause("0x07")
    /\ EcReset
    /\ UNCHANGED sig

(* The task returns from board_pwrbtn_to_pch(): S5_PGOOD came up, or the  *)
(* 80 polls ran out; either way the line is asserted and the case goes on. *)
PbResume ==
    /\ pbPc # "ready"
    /\ SetPwrbtnToPch(FALSE)
    /\ pbPc' = "ready"
    /\ CASE pbPc = "t1Wait"   -> T1Rest
         [] pbPc = "initWait" -> InitOnRest
         [] OTHER             -> UNCHANGED <<pwrbtn_state, tnext_state>>
    /\ UNCHANGED <<power_button_pulse_enabled, pbWake, hookPc>>
    /\ UNCHANGED <<debVars, comVars, logVars>>

-----------------------------------------------------------------------------
(* The hook task *)

IgnoredStates == {"BOOT_KB_RESET", "INIT_ON", "LID_OPEN", "LAN_WAKE",
                  "WAS_OFF"}

(* powerbtn_x86_changed(), with the newly debounced level.                 *)
PowerbtnX86Changed(pressed) ==
    CASE pwrbtn_state \in IgnoredStates ->
            UNCHANGED <<pwrbtn_state, tnext_state, pbWake>>
      [] pressed ->
            pwrbtn_state' = "PRESSED" /\ tnext_state' = 0 /\ pbWake' = TRUE
      [] pwrbtn_state = "EAT_RELEASE" ->
            pwrbtn_state' = "IDLE" /\ UNCHANGED <<tnext_state, pbWake>>
      [] OTHER ->
            pwrbtn_state' = "RELEASED" /\ tnext_state' = 0 /\ pbWake' = TRUE

(* power_button_change_deferred() and, on a change, HOOK_POWER_BUTTON_CHANGE *)
HookPowerButtonChange ==
    /\ hookPc = "idle"
    /\ Deb!ChangeDeferred
    /\ IF Deb!AcceptedChange
       THEN PowerbtnX86Changed(debounced_power_pressed')
       ELSE UNCHANGED <<pwrbtn_state, tnext_state, pbWake>>
    /\ UNCHANGED <<power_button_pulse_enabled, pchLow, pbPc, hookPc>>
    /\ UNCHANGED <<comVars, logVars>>

(* The rest of power_button_pch_pulse(st) after the line is asserted.      *)
PulseRest(st) ==
    /\ pwrbtn_state' = st
    /\ tnext_state' = DelayInitial
    /\ pbWake' = TRUE

PulseWaitPc(st) == IF st = "LID_OPEN" THEN "lidPulseWait" ELSE "pulseWait"

(* power_button_pch_pulse(st), on the hook task: leave G3, assert the line *)
(* (blocking while S5_PGOOD is low), start the pulse in state st.          *)
PowerButtonPchPulse(st) ==
    /\ ChipsetExitHardOff
    /\ IF WouldBlock(FALSE)
       THEN /\ hookPc' = PulseWaitPc(st)
            /\ UNCHANGED <<pchLow, pwrbtn_state, tnext_state, pbWake>>
       ELSE SetPwrbtnToPch(FALSE) /\ PulseRest(st) /\ UNCHANGED hookPc

(* power_lan_wake_change_deferred() found EC_LAN_WAKE_L low and notified   *)
(* HOOK_LAN_WAKE: powerbtn_x86_lan_wake().  lan_is_wake() is true when the *)
(* host enabled LAN/WLAN wake in the memory map.                           *)
HookLanWake ==
    /\ hookPc = "idle"
    /\ \E lanIsWake \in BOOLEAN :
         IF /\ lanIsWake
            /\ pwrbtn_state # "INIT_ON"
            /\ ChipsetInState(SUSPEND) \/ ChipsetInState(SOFT_OFF)
         THEN PowerButtonPchPulse("LAN_WAKE")
         ELSE UNCHANGED <<want_g3_exit, chipWake, pchLow, pwrbtn_state,
                          tnext_state, pbWake, hookPc>>
    /\ UNCHANGED <<power_button_pulse_enabled, pbPc, pstate, sig>>
    /\ UNCHANGED <<debVars, logVars>>

(* power_button_pch_press(), called by chipset_force_shutdown().           *)
PowerButtonPchPress ==
    IF ~debounced_power_pressed
    THEN IF WouldBlock(FALSE)
         THEN hookPc' = "pressWait" /\ UNCHANGED pchLow
         ELSE SetPwrbtnToPch(FALSE) /\ UNCHANGED hookPc
    ELSE UNCHANGED <<pchLow, hookPc>>

(* A pulse returns from board_pwrbtn_to_pch(): S5_PGOOD came up or the    *)
(* polls ran out; the line is asserted and the pulse goes on.              *)
HookResume ==
    /\ hookPc \in {"pulseWait", "lidPulseWait"}
    /\ SetPwrbtnToPch(FALSE)
    /\ hookPc' = "idle"
    /\ PulseRest(IF hookPc = "lidPulseWait" THEN "LID_OPEN" ELSE "LAN_WAKE")
    /\ UNCHANGED <<power_button_pulse_enabled, pbPc>>
    /\ UNCHANGED <<debVars, comVars, logVars>>

(* hc_config_powerbtn_x86(), on the host-command task.                     *)
HostConfigPowerButton ==
    /\ \E enable \in BOOLEAN : power_button_pulse_enabled' = enable
    /\ UNCHANGED <<pwrbtn_state, tnext_state, pchLow, pbWake, pbPc, hookPc>>
    /\ UNCHANGED <<debVars, comVars, logVars>>

(* power_button_pulse_setting_reset(), run by the chipset task's           *)
(* STARTUP, SHUTDOWN, SUSPEND and RESUME hooks.                             *)
PowerButtonPulseSettingReset == power_button_pulse_enabled' = TRUE

-----------------------------------------------------------------------------
(* Time *)

HookDue == hookPc = "idle" /\ deferT = 0

(* A tick passes only when no task has work that is already due: tasks    *)
(* run in microseconds, the delays here are tens of milliseconds or more. *)
(* Mutant: the state machine's deadline counts down past zero.            *)
TickBtnUnderflow ==
    /\ ~PbDue /\ ~HookDue
    /\ tnext_state \in 1..MaxDelay \/ deferT \in 1..Debounce
    /\ tnext_state' = IF tnext_state \in 0..MaxDelay THEN tnext_state - 1
                                                     ELSE tnext_state
    /\ Deb!DebounceTickOf

TickBtn ==
    /\ ~PbDue /\ ~HookDue
    /\ tnext_state \in 1..MaxDelay \/ deferT \in 1..Debounce
    /\ tnext_state' = IF tnext_state \in 1..MaxDelay THEN tnext_state - 1
                                                     ELSE tnext_state
    /\ Deb!DebounceTickOf

Tick ==
    /\ TickBtn
    /\ UNCHANGED <<pwrbtn_state, power_button_pulse_enabled, pchLow, pbWake,
                   pbPc, hookPc>>
    /\ UNCHANGED <<physPressed, hostLock, simulate_power_pressed,
                   debounced_power_pressed, power_button_is_stable, kbScan,
                   consoleKick>>
    /\ UNCHANGED <<comVars, logVars>>

-----------------------------------------------------------------------------
(* The component on its own.  The chipset task is replaced by the steps of *)
(* power_handle_state() it can take (power/rocketlake.c), leaving G3 only  *)
(* on a request and resetting the pulse setting on the hooked transitions; *)
(* S5_PGOOD rises and falls at will.                                       *)

ChipsetSteps ==
    [s \in PowerStates |->
        CASE s = "G3"   -> {"G3S5"}
          [] s = "G3S5" -> {"G3", "S5", "S5G3"}
          [] s = "S5"   -> {"S5G3", "S5S3"}
          [] s = "S5S3" -> {"S5G3", "S3"}
          [] s = "S3"   -> {"S5G3", "S3S0", "S3S5"}
          [] s = "S3S0" -> {"S5G3", "S0"}
          [] s = "S0"   -> {"S5G3", "S0S3"}
          [] s = "S0S3" -> {"S3"}
          [] s = "S3S5" -> {"S5"}
          [] s = "S5G3" -> {"G3"}]

(* Transitions whose handler notifies STARTUP, SUSPEND, RESUME or SHUTDOWN *)
HookedSteps == {<<"S5S3", "S3">>, <<"S0S3", "S3">>, <<"S3S0", "S0">>,
                <<"S3S5", "S5">>}

ChipsetEnv ==
    /\ \E s \in ChipsetSteps[pstate] :
          /\ pstate = "G3" => want_g3_exit
          /\ pstate' = s
          /\ want_g3_exit' = (want_g3_exit /\ pstate # "G3")
          /\ IF <<pstate, s>> \in HookedSteps
             THEN PowerButtonPulseSettingReset
             ELSE UNCHANGED power_button_pulse_enabled
    /\ chipWake' = FALSE
    /\ UNCHANGED <<pwrbtn_state, tnext_state, pchLow, pbWake, pbPc, hookPc>>
    /\ UNCHANGED <<sig, debVars, logVars>>

SignalEnv ==
    /\ sig' = IF "ALW_PG" \in sig THEN sig \ {"ALW_PG"} ELSE sig \cup {"ALW_PG"}
    /\ UNCHANGED <<pstate, want_g3_exit, chipWake, btnVars, debVars, logVars>>

(* The user and the console act on the button.  The host lock masks the  *)
(* raw level without an interrupt; it is checked with the debouncer alone *)
(* (PowerButton.tla) and held clear here.                                 *)
ButtonEnv ==
    /\ \/ Deb!PowerButtonInterrupt
       \/ Deb!ConsoleSimulatePress
       \/ Deb!ConsoleSimulateRelease
    /\ UNCHANGED <<btnVars, comVars, logVars>>

vars == <<debVars, btnVars, comVars, logVars>>

Init ==
    /\ \E jumpedOn \in BOOLEAN :
          /\ ButtonInit(jumpedOn)
          /\ hostLock = FALSE
          /\ pstate = IF jumpedOn THEN "S0" ELSE "G3"
          /\ sig = IF jumpedOn THEN {"ALW_PG"} ELSE {}
    /\ want_g3_exit = FALSE
    /\ chipWake = FALSE
    /\ g_abnormal_shutdown = FALSE
    /\ causes = <<>>

PbTask ==
    \/ StateMachineEarly
    \/ StatePressed
    \/ StateT1
    \/ StateEndPulse
    \/ StateInitOn
    \/ StateBootKbReset
    \/ StateWasOff
    \/ StateNothing
    \/ StateHeld
    \/ StateHeld1
    \/ PbResume

HookTask ==
    \/ HookPowerButtonChange
    \/ HookResume

Next ==
    \/ PbTask
    \/ HookTask
    \/ HookLanWake
    \/ HostConfigPowerButton
    \/ Tick
    \/ ChipsetEnv
    \/ SignalEnv
    \/ ButtonEnv

(* The EC tasks are scheduled whenever they are ready.  Time is not held  *)
(* up by the environment: however often the user, the host or the console *)
(* act, a tick that keeps becoming possible happens (strong fairness;     *)
(* the environment cannot act infinitely often in finite time).  The      *)
(* user, the host, the PCH and the rails owe nothing.                     *)
Spec ==
    /\ Init /\ [][Next]_vars
    /\ WF_vars(PbTask) /\ WF_vars(HookTask) /\ SF_vars(Tick)

-----------------------------------------------------------------------------
(* Properties *)

(* The types of the button's variables and of the shared ones but the     *)
(* power-signal inputs, which each chipset names for itself.              *)
ButtonTypeOK ==
    /\ Deb!DebounceTypeOK
    /\ pwrbtn_state \in ButtonStates
    /\ tnext_state \in {NoTimer} \cup 0..MaxDelay
    /\ power_button_pulse_enabled \in BOOLEAN
    /\ pchLow \in BOOLEAN /\ pbWake \in BOOLEAN
    /\ pbPc \in PbPcs /\ hookPc \in HookPcs
    /\ pstate \in PowerStates /\ want_g3_exit \in BOOLEAN
    /\ chipWake \in BOOLEAN
    /\ g_abnormal_shutdown \in BOOLEAN
    /\ causes \in Seq(ShutdownIds) /\ Len(causes) <= MaxCauses

TypeOK == ButtonTypeOK /\ sig \subseteq Signals

(* A LAN wake restarts the pulse (powerbtn_x86_lan_wake() writes LAN_WAKE  *)
(* and a new deadline whatever the pulse was doing), so the line is only   *)
(* owed a release once the wake line stops firing.                         *)
LanWakeQuiet == <>[][~HookLanWake]_vars

(* Once the button is up (debounced), the power-button line to the PCH is  *)
(* eventually deasserted unless the button goes down again: every path    *)
(* that asserts it (the chipset-off stretch, the pulse, T1, the LAN-wake   *)
(* pulse, INIT_ON, a blocked assertion resuming late) ends in a case of    *)
(* state_machine() that drives it high.                                    *)
PchReleased ==
    LanWakeQuiet =>
        (~debounced_power_pressed ~> (~pchLow \/ debounced_power_pressed))

(* The long-press states HELD and HELD_1, whose deadlines log a forced    *)
(* shutdown and then reset the EC, are only occupied while the button is  *)
(* down: a release reaches powerbtn_x86_changed(), which leaves them.     *)
HeldMeansPressed ==
    pwrbtn_state \in {"HELD", "HELD_1"} => debounced_power_pressed

(* Holding the button in HELD leads to the 4 s long-press record          *)
(* (spec.md 8.6): the task is due again PWRBTN_DELAY_T2 after entering    *)
(* HELD, unless the button is released first.                              *)
HeldEscalates ==
    (pwrbtn_state = "HELD" /\ debounced_power_pressed)
        ~> (pwrbtn_state # "HELD" \/ ~debounced_power_pressed)


(* The debouncer's properties (PowerButton), with the x86 machine         *)
(* consuming its output: keyboard scanning comes back once the button is  *)
(* up, and power_button_change_deferred() accepts a physical level only   *)
(* after a whole stable interval.  The EC reset of HELD_1 re-reads the    *)
(* level without debouncing and is not a deferred check.                  *)
KbScanRestored == Deb!KbScanRestored

DebounceSettled ==
    [][Deb!ChangeDeferred /\ Deb!AcceptedChange /\ ~consoleKick
         => sinceEdge >= Debounce]_vars

=============================================================================
