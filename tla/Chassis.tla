------------------------------- MODULE Chassis --------------------------------
(***************************************************************************)
(* Chassis intrusion, common/softwareWatchdog.c, composed with the MFG    *)
(* data block of FlashLog that keeps its byte across EC resets.           *)
(*                                                                         *)
(* Opening the case sets a hardware latch that GPIO_EC_GPIO0_CASE_OPEN_L  *)
(* reads high until the EC pulses GPIO_EC_CASE_OPEN_CLR.  The latch is    *)
(* outside the EC and keeps its level across EC resets.  The BIOS reads   *)
(* pdata.chassisIntrusionData, and asks for a clear, with the 0x0B        *)
(* command of oem_bios_to_ec_command(); the clear is done by the 1 ms     *)
(* hook.  Every change of the data goes to the MFG block through          *)
(* mfg_data_write(), i.e. into mfg_data_map and, one sync later, flash.   *)
(***************************************************************************)
EXTENDS FlashLog

VARIABLES
    latch,        \* the case-open latch: CASE_OPEN_L reads high
    chassisData,  \* pdata.chassisIntrusionData
    writeFlash,   \* pdata.chassisWriteFlashData
    crisisClear   \* EC_MEMMAP_CRISIS_CLEAR in EC_MEMMAP_POWER_FLAG1

chassisVars == <<latch, chassisData, writeFlash, crisisClear>>
allVars == <<vars, chassisVars>>

(* pdata's static initializer; the latch is set or not at first power-up.*)
ChassisInit(latched) ==
    /\ Init
    /\ latch \in latched
    /\ chassisData = 0 /\ writeFlash = 0 /\ crisisClear = FALSE

(* HOOK_INIT: FlashLog's init, and mfg_data_init() handing the MFG byte  *)
(* to set_chassisIntrusion_data().                                        *)
ChassisBoot ==
    /\ EflashDebugInit
    /\ chassisData' = mfgFlash["chassis"]
    /\ UNCHANGED <<latch, writeFlash, crisisClear>>

(* The case is opened: the latch is set.                                  *)
CaseOpen ==
    /\ latch' = TRUE
    /\ UNCHANGED <<vars, chassisData, writeFlash, crisisClear>>

(* oem_bios_to_ec_command() with command 0x0B, as the BIOS writes it    *)
(* through acpi_ap_to_ec(): a byte 0x0F that is not 0xFF - 0x0B fails the *)
(* check and only the status is set; sub-command 0x02 sets the clear     *)
(* request bit, 0x01 reads the data into the reply, others are unknown.   *)
(* The status and reply bytes are not modelled.                           *)
HostChassisCommand(sub, sumOk) ==
    /\ booted
    /\ crisisClear' = (crisisClear \/ (sumOk /\ sub = 2))
    /\ UNCHANGED <<vars, latch, chassisData, writeFlash>>

(* Mutant: the latch read only while the data is the erased 0xFF of a    *)
(* first boot.                                                            *)
ReadsLatchErasedOnly == chassisData = 255

(* Chassis_Intrusion_service() takes the data from the latch unless it is *)
(* already 0x01.                                                          *)
ReadsLatch == chassisData # 1

(* Chassis_Intrusion_service(), HOOK_MSEC: unless the data is already    *)
(* 0x01, take it from the latch and mfg_data_write() it when it differs  *)
(* from the last value written; then clear_chassisIntrusion(): on a clear *)
(* request, drop the bit and, if the latch is set, set the data to 0,     *)
(* mfg_data_write() it and pulse the latch's clear line.                  *)
ChassisIntrusionService ==
    /\ booted
    /\ LET read == ReadsLatch
           d == IF read THEN IF latch THEN 1 ELSE 0 ELSE chassisData
           wr == read /\ writeFlash # d
           clr == crisisClear /\ latch
       IN  /\ chassisData' = IF clr THEN 0 ELSE d
           /\ writeFlash' = IF wr THEN d ELSE writeFlash
           /\ mfgMap' = IF clr \/ wr
                        THEN [mfgMap EXCEPT !["chassis"] = chassisData']
                        ELSE mfgMap
           /\ syncPending' = (syncPending \/ clr \/ wr)
           /\ crisisClear' = FALSE
           /\ latch' = (latch /\ ~clr)
    /\ UNCHANGED <<mem, hdr, widx, pc, recId, buf, booted, report,
                   abnormalTimes, mfgFlash, flashFailed>>

(* An EC reset loses pdata and the memory map; the latch stays.           *)
ChassisReset ==
    /\ chassisData' = 0 /\ writeFlash' = 0 /\ crisisClear' = FALSE
    /\ UNCHANGED latch

(* The EC's own steps with the chassis service: HOOK_INIT, the log's     *)
(* continuation steps and the MFG sync, and the 1 ms hook.                *)
ChassisEcStep ==
    \/ ChassisBoot
    \/ /\ \/ MfgDataSyncDeferred \/ RecordWrite \/ RecordPageFull
          \/ RecordErase \/ RecordRewrite
       /\ UNCHANGED chassisVars
    \/ ChassisIntrusionService

-----------------------------------------------------------------------------
(* Properties *)

(* An opened case is reported to the BIOS (chassisIntrusionData 0x01)    *)
(* until the BIOS clears it, through EC resets at any point: also when the *)
(* reset comes before mfg_data_sync_deferred() has stored the 0x01, or    *)
(* between its erase and its write, and mfg_data_init() hands the service *)
(* a stale 0x00 or an erased 0xFF.                                        *)
IntrusionReported ==
    latch ~> (chassisData = 1 \/ ~latch)

(* The BIOS can always clear a reported intrusion: clear_chassisIntrusion() *)
(* acts only while the latch reads set, so chassisIntrusionData 0x01 with *)
(* the latch already cleared could never be cleared again.  The data must *)
(* be 0x01 only while the latch is set, once the service has run.          *)
IntrusionClearable ==
    (booted /\ chassisData = 1) => latch

=============================================================================
