----------------------------- MODULE PowerButton -----------------------------
(***************************************************************************)
(* Power-button debouncing, common/power_button.c.                         *)
(*                                                                         *)
(* An edge of GPIO_POWER_BUTTON_L runs power_button_interrupt(), which     *)
(* (re)schedules power_button_change_deferred() one debounce interval      *)
(* later on the hook task; the deferred routine samples the raw level and, *)
(* if it differs from the debounced level, accepts it and notifies         *)
(* HOOK_POWER_BUTTON_CHANGE.  The raw level is forced to "pressed" by the  *)
(* console's simulated press and to "released" by the host lock            *)
(* (CONFIG_POWER_BUTTON_LOCK_HOST); the only board configuration in the    *)
(* repository sets CONFIG_POWER_BUTTON_IGNORE_LID, so the lid does not     *)
(* mask it.                                                                *)
(*                                                                         *)
(* Time is counted in ticks: deferT is the number of ticks until the       *)
(* deferred call is due, or NoTimer.                                        *)
(***************************************************************************)
EXTENDS Naturals

CONSTANTS
    Debounce,   \* BUTTON_DEBOUNCE_US, in ticks
    NoTimer     \* no deferred call pending (a model value)

ASSUME Debounce \in Nat \ {0}

VARIABLES
    physPressed,              \* the button is held down (GPIO asserted)
    hostLock,                 \* EC_MEMMAP_POWER_LOCK set by the host
    simulate_power_pressed,   \* console "powerbtn" holds a simulated press
    debounced_power_pressed,  \* accepted level, power_button_is_pressed()
    power_button_is_stable,
    deferT,                   \* ticks until power_button_change_deferred runs
    kbScan,                   \* keyboard scan not disabled for the power button
    sinceEdge,                \* ghost: ticks since the last button edge, capped
    consoleKick               \* ghost: the pending deferred call was scheduled
                              \* by the console, not by an interrupt

debVars == <<physPressed, hostLock, simulate_power_pressed,
             debounced_power_pressed, power_button_is_stable, deferT, kbScan,
             sinceEdge, consoleKick>>

TimerValues == {NoTimer} \cup (0..Debounce)

(* raw_power_button_pressed() *)
RawPressed ==
    \/ simulate_power_pressed
    \/ (~hostLock /\ physPressed)

PowerButtonIsPressed == debounced_power_pressed

(* power_button_init(), a HOOK_INIT before the interrupt is enabled *)
DebounceInit ==
    /\ physPressed \in BOOLEAN
    /\ hostLock \in BOOLEAN
    /\ simulate_power_pressed = FALSE
    /\ debounced_power_pressed = RawPressed
    /\ power_button_is_stable = TRUE
    /\ deferT = NoTimer
    /\ kbScan = TRUE
    /\ sinceEdge = Debounce
    /\ consoleKick = FALSE

(* Mutant of power_button_interrupt(): a rescheduling that leaves a       *)
(* pending call where it was.                                              *)
PowerButtonInterruptKeepsPending ==
    /\ physPressed' = ~physPressed
    /\ kbScan' = IF simulate_power_pressed \/ (~hostLock /\ physPressed')
                 THEN FALSE ELSE kbScan
    /\ power_button_is_stable' = FALSE
    /\ deferT' = IF deferT = NoTimer THEN Debounce ELSE deferT
    /\ sinceEdge' = 0
    /\ consoleKick' = FALSE
    /\ UNCHANGED <<hostLock, simulate_power_pressed, debounced_power_pressed>>

(* A GPIO edge and the interrupt it raises, power_button_interrupt().     *)
(* The interrupt handler runs before any task can observe the new level. *)
PowerButtonInterrupt ==
    /\ physPressed' = ~physPressed
    /\ kbScan' = IF simulate_power_pressed \/ (~hostLock /\ physPressed')
                 THEN FALSE ELSE kbScan
    /\ power_button_is_stable' = FALSE
    /\ deferT' = Debounce
    /\ sinceEdge' = 0
    /\ consoleKick' = FALSE
    /\ UNCHANGED <<hostLock, simulate_power_pressed, debounced_power_pressed>>

(* The host sets or clears the lock bit in the memory map; no interrupt.  *)
HostLockChange ==
    /\ hostLock' = ~hostLock
    /\ UNCHANGED <<physPressed, simulate_power_pressed,
                   debounced_power_pressed, power_button_is_stable, deferT,
                   kbScan, sinceEdge, consoleKick>>

(* command_powerbtn(): the press half, then (after its msleep) the        *)
(* release half; each schedules the deferred routine with no delay.       *)
ConsoleSimulatePress ==
    /\ ~simulate_power_pressed
    /\ simulate_power_pressed' = TRUE
    /\ power_button_is_stable' = FALSE
    /\ deferT' = 0
    /\ consoleKick' = TRUE
    /\ UNCHANGED <<physPressed, hostLock, debounced_power_pressed, kbScan,
                   sinceEdge>>

ConsoleSimulateRelease ==
    /\ simulate_power_pressed
    /\ simulate_power_pressed' = FALSE
    /\ power_button_is_stable' = FALSE
    /\ deferT' = 0
    /\ consoleKick' = TRUE
    /\ UNCHANGED <<physPressed, hostLock, debounced_power_pressed, kbScan,
                   sinceEdge>>

(* Mutant: keyboard scanning re-enabled only when the level changed.     *)
ChangeDeferredKbOnChange ==
    /\ deferT = 0
    /\ deferT' = NoTimer
    /\ kbScan' = IF RawPressed # debounced_power_pressed
                 THEN kbScan \/ ~RawPressed ELSE kbScan
    /\ debounced_power_pressed' = RawPressed
    /\ power_button_is_stable' = TRUE
    /\ UNCHANGED <<physPressed, hostLock, simulate_power_pressed, sinceEdge,
                   consoleKick>>

(* power_button_change_deferred(), when its delay has run out.  Whether   *)
(* it accepted a change (and so notifies HOOK_POWER_BUTTON_CHANGE) is     *)
(* debounced_power_pressed' # debounced_power_pressed.                    *)
ChangeDeferred ==
    /\ deferT = 0
    /\ deferT' = NoTimer
    /\ kbScan' = (kbScan \/ ~RawPressed)
    /\ debounced_power_pressed' = RawPressed
    /\ power_button_is_stable' = TRUE
    /\ UNCHANGED <<physPressed, hostLock, simulate_power_pressed, sinceEdge,
                   consoleKick>>

AcceptedChange == debounced_power_pressed' # debounced_power_pressed

(* One tick of time: the deferred delay and the ghost edge age advance.   *)
DebounceTickOf ==
    /\ deferT' = IF deferT \in 1..Debounce THEN deferT - 1 ELSE deferT
    /\ sinceEdge' = IF sinceEdge < Debounce THEN sinceEdge + 1 ELSE sinceEdge

DebounceTick ==
    /\ deferT \in 1..Debounce
    /\ DebounceTickOf
    /\ UNCHANGED <<physPressed, hostLock, simulate_power_pressed,
                   debounced_power_pressed, power_button_is_stable, kbScan,
                   consoleKick>>

DebounceNext ==
    \/ PowerButtonInterrupt
    \/ HostLockChange
    \/ ConsoleSimulatePress
    \/ ConsoleSimulateRelease
    \/ ChangeDeferred
    \/ DebounceTick

(* The hook task runs a due deferred call and time advances while one is  *)
(* pending; the user, the host and the console act when they like.        *)
DebounceSpec ==
    /\ DebounceInit /\ [][DebounceNext]_debVars
    /\ WF_debVars(ChangeDeferred) /\ WF_debVars(DebounceTick)

-----------------------------------------------------------------------------
(* Properties *)

DebounceTypeOK ==
    /\ physPressed \in BOOLEAN /\ hostLock \in BOOLEAN
    /\ simulate_power_pressed \in BOOLEAN
    /\ debounced_power_pressed \in BOOLEAN
    /\ power_button_is_stable \in BOOLEAN
    /\ deferT \in TimerValues
    /\ kbScan \in BOOLEAN
    /\ sinceEdge \in 0..Debounce
    /\ consoleKick \in BOOLEAN

(* Keyboard scanning, disabled by power_button_interrupt() when the       *)
(* button goes down, is never left disabled once the button (real or      *)
(* simulated) is up and no deferred check is pending:                     *)
(* power_button_change_deferred() re-enables it whatever the debounced    *)
(* level was, including when the level did not change.                    *)
KbScanRestored ==
    (~kbScan) => (physPressed \/ simulate_power_pressed \/ deferT # NoTimer)

=============================================================================
