--------------------------- MODULE SoftwareWatchdog ---------------------------
(***************************************************************************)
(* The BIOS/OS software watchdogs of common/softwareWatchdog.c.            *)
(*                                                                         *)
(*  - The wake-up watchdog is armed by the BIOS at the start of POST and   *)
(*    cleared at its end (host command EC_CMD_EXTERNAL_WDT, type 1).  If  *)
(*    it runs out in S0 the EC forces a shutdown (id 0x09) and, once the   *)
(*    chipset is off, pulses the power button to start the machine again, *)
(*    giving up after TIMEOUT_NUM1 consecutive timeouts.                  *)
(*  - The shutdown watchdog is armed by the OS (type 2) and counts while   *)
(*    the system runs; this board's development build (no                  *)
(*    CONFIG_FINAL_RELEASE) answers a timeout in S0 with an SMI pulse and  *)
(*    the record 0xD0.                                                     *)
(*                                                                         *)
(* Both run from system_sw_wdt_service(), a HOOK_SECOND callback on the   *)
(* hook task.  chipset_force_shutdown() belongs to the chipset module      *)
(* that extends this one: it may block in board_pwrbtn_to_pch(), so the    *)
(* service is split at that call (ServiceHead, ServiceTail).               *)
(*                                                                         *)
(* The uint16_t time and countTime fields keep their wrap-around, with     *)
(* WdtBits bits instead of 16.                                             *)
(***************************************************************************)
EXTENDS PowerCommon, ShutdownLog

CONSTANTS
    WdtBits,       \* width of the time and countTime fields (16 in the code)
    MinTime,       \* the minTime of setWakeupWDtdata(), 0x0F
    TIMEOUT_NUM1,  \* consecutive wake-up timeouts before giving up, 5
    HostTimes      \* times the host may send

WdtWord == 2 ^ WdtBits

ASSUME /\ WdtBits \in Nat \ {0} /\ MinTime \in 0..(WdtWord - 1)
       /\ TIMEOUT_NUM1 \in Nat \ {0} /\ HostTimes \subseteq 0..(WdtWord - 1)

VARIABLES
    wakeEn,                 \* g_wakeupWDT.wdtEn = SW_WDT_ENABLE
    wakeTime,               \* g_wakeupWDT.time, seconds left
    timeoutNum,             \* g_wakeupWDT.timeoutNum
    g_WdtForceingShutdown,  \* a wake-up timeout's power-on is owed
    powerOnPending,         \* power_On_Machine_deferred() is scheduled
    shutEn,                 \* g_shutdownWDT.wdtEn = SW_WDT_ENABLE
    shutTime,               \* g_shutdownWDT.time
    countTime               \* g_shutdownWDT.countTime

wdtVars == <<wakeEn, wakeTime, timeoutNum, g_WdtForceingShutdown,
             powerOnPending, shutEn, shutTime, countTime>>

(* uint16_t arithmetic *)
U16(x) == x % WdtWord

(* Both structures are zero-initialised RAM, at boot and after an EC      *)
(* reset.                                                                  *)
WdtInit ==
    /\ wakeEn = FALSE /\ wakeTime = 0 /\ timeoutNum = 0
    /\ g_WdtForceingShutdown = FALSE /\ powerOnPending = FALSE
    /\ shutEn = FALSE /\ shutTime = 0 /\ countTime = 0

WdtCleared ==
    /\ wakeEn' = FALSE /\ wakeTime' = 0 /\ timeoutNum' = 0
    /\ g_WdtForceingShutdown' = FALSE /\ powerOnPending' = FALSE
    /\ shutEn' = FALSE /\ shutTime' = 0 /\ countTime' = 0

-----------------------------------------------------------------------------
(* The host command *)

ClearWakeupWdtdata ==
    IF g_WdtForceingShutdown
    THEN UNCHANGED <<wakeEn, timeoutNum>>
    ELSE wakeEn' = FALSE /\ timeoutNum' = 0

setWakeupWDtdata(t) ==
    IF g_WdtForceingShutdown
    THEN UNCHANGED <<wakeEn, wakeTime>>
    ELSE wakeEn' = TRUE /\ wakeTime' = IF t < MinTime THEN MinTime ELSE t

clearShutdownWDtdata == shutEn' = FALSE

(* host_command_WDT(): type 1 is the wake-up watchdog, type 2 the shutdown *)
(* watchdog; flag1 1 arms, 2 clears.  Arming the shutdown watchdog writes  *)
(* only wdtEn and time: countTime is left as it is.                        *)
HostCommandWDT(type, flag1, t) ==
    /\ CASE type = 1 /\ flag1 = 1 ->
              setWakeupWDtdata(t) /\ UNCHANGED <<timeoutNum, shutEn, shutTime>>
         [] type = 1 /\ flag1 = 2 ->
              ClearWakeupWdtdata /\ UNCHANGED <<wakeTime, shutEn, shutTime>>
         [] type = 2 /\ flag1 = 1 ->
              /\ shutEn' = TRUE /\ shutTime' = t
              /\ UNCHANGED <<wakeEn, wakeTime, timeoutNum>>
         [] type = 2 /\ flag1 = 2 ->
              /\ clearShutdownWDtdata
              /\ UNCHANGED <<wakeEn, wakeTime, timeoutNum, shutTime>>
    /\ UNCHANGED <<g_WdtForceingShutdown, powerOnPending, countTime>>

-----------------------------------------------------------------------------
(* system_sw_wdt_service(), on the wake-up watchdog's fields as a record. *)

Wake == [en |-> wakeEn, time |-> wakeTime, num |-> timeoutNum,
         flag |-> g_WdtForceingShutdown, pending |-> powerOnPending]

SetWake(w) ==
    /\ wakeEn' = w.en /\ wakeTime' = w.time /\ timeoutNum' = w.num
    /\ g_WdtForceingShutdown' = w.flag /\ powerOnPending' = w.pending

(* The wake-up watchdog runs out in S0: chipset_force_shutdown(0x09).      *)
WakeFires == wakeEn /\ wakeTime = 0 /\ ChipsetInState(ON)

(* WakeUpWDtService() up to the chipset_force_shutdown() call; otherwise   *)
(* the count goes down, past zero too when the system is not on.           *)
WakeUpWDtServiceHead ==
    IF WakeFires
    THEN [Wake EXCEPT !.en = FALSE, !.num = timeoutNum + 1, !.flag = TRUE]
    ELSE [Wake EXCEPT !.en = wakeEn /\ ~ChipsetInState(ANY_OFF),
                      !.time = U16(wakeTime + WdtWord - 1)]

ServiceHead == IF wakeEn THEN WakeUpWDtServiceHead ELSE Wake

(* The end of WakeUpWDtService(): after TIMEOUT_NUM1 timeouts give up.     *)
WakeUpWDtServiceEnd(w) ==
    IF w.num >= TIMEOUT_NUM1
    THEN [w EXCEPT !.en = FALSE, !.num = 0, !.flag = FALSE]
    ELSE w

(* WakeUpWdtPowerOn(): once the chipset is off, schedule the power-on.     *)
WakeUpWdtPowerOn(w) ==
    IF ChipsetInState(ANY_OFF)
    THEN [w EXCEPT !.flag = FALSE, !.pending = TRUE]
    ELSE w

(* ShutdownWDtService(): count, disable when suspended or off, and on      *)
(* expiry restart the count and, in S0, disable and report 0xD0.           *)
ShutdownWDtService ==
    LET c == U16(countTime + 1)
        expired == c >= shutTime
        bsod == expired /\ ChipsetInState(ON)
    IN [en |-> shutEn /\ ~ChipsetInState(SUSPEND) /\ ~ChipsetInState(ANY_OFF)
                      /\ ~bsod,
        count |-> IF expired THEN 0 ELSE c,
        bsod |-> bsod]

(* The service from where chipset_force_shutdown() returns: w is the       *)
(* wake-up watchdog so far, inWake whether WakeUpWDtService() ran, ids the *)
(* causes chipset_force_shutdown() recorded.                               *)
ServiceTail(w, inWake, ids) ==
    LET w2 == IF inWake THEN WakeUpWDtServiceEnd(w) ELSE w
        w3 == IF w2.flag THEN WakeUpWdtPowerOn(w2) ELSE w2
        s == IF shutEn THEN ShutdownWDtService
             ELSE [en |-> FALSE, count |-> countTime, bsod |-> FALSE]
    IN /\ SetWake(w3)
       /\ shutEn' = s.en /\ countTime' = s.count /\ UNCHANGED shutTime
       /\ ShutdownCauseRecords(ids \o (IF s.bsod THEN <<"0xD0">> ELSE <<>>))

WdtTypeOK ==
    /\ wakeEn \in BOOLEAN /\ wakeTime \in 0..(WdtWord - 1)
    /\ timeoutNum \in 0..TIMEOUT_NUM1
    /\ g_WdtForceingShutdown \in BOOLEAN /\ powerOnPending \in BOOLEAN
    /\ shutEn \in BOOLEAN /\ shutTime \in 0..(WdtWord - 1)
    /\ countTime \in 0..(WdtWord - 1)

=============================================================================
