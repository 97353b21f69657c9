# TLA+ models of the pangub/pangun EC power path

This directory holds TLC-checkable models of the embedded controller
firmware under `src/ec/`. They cover the power button, the x86 power-button
state machine, the Rocket Lake (pangub) and Renoir (pangun) power
sequencing, the software watchdogs, the shutdown-cause log that these
components write, and the thermal control of both boards (fan tables, the
over-temperature protection and the fan service).

## The system and how its parts interact

The EC runs cooperative tasks. Three of them matter here.

* **HOOKS task.** It runs these routines one at a time:
  * deferred calls: `power_button_change_deferred`, `shutdown_ID_deferred`;
  * hooks: `powerbtn_x86_changed` on HOOK_POWER_BUTTON_CHANGE, the LAN-wake notification, `acpiModeEnableClear`;
  * the 1 s services: `thermal_control` (`common/thermal.c`, with the board's `thermalInfo.c`) and the software watchdogs;
  * the tick service `thermal_control_service` (`common/fan.c`), which hands fans to thermal control and switches faulted ones off.
* **POWERBTN task** (`common/power_button_x86.c: power_button_task`). It runs `state_machine()` whenever its timer expires or it is woken.
* **CHIPSET task** (`power/common.c`, not in this repository). It calls `power_handle_state()` of `power/rocketlake.c` (or `power/renoir.c` on pangun) until a steady state is reached, then sleeps until a power signal changes or `chipset_exit_hard_off()` wakes it.

`power_handle_state()` blocks in `msleep`, `power_wait_signals_timeout` and
`power_wait_voltage`, and other tasks run meanwhile.
`board_pwrbtn_to_pch()` (`board/pangub/board.c`) polls S5_PGOOD for up to
1.6 s in 20 ms steps. It runs inside whichever task asserts the PCH power
button: the POWERBTN task, or the HOOKS task for a pulse or a forced
shutdown. Both tasks write `pwrbtn_state`.

The shutdown-cause log (`shutdown_cause_record`, `common/flash.c`) is written
from all three tasks:

* the chipset task, on wait timeouts and rail loss;
* the button task, on 4 s and 10 s holds;
* the hooks, for a thermal shutdown (0x30), a watchdog shutdown (0x44/0x09),
  a normal shutdown (0x01, deferred 3 s), an S3 failure (0x02) and an S3
  entry (0x03).

## Modules

| module | models | state |
|---|---|---|
| `PowerCommon` | the x86 chipset framework: state names, `chipset_in_state` masks, `chipset_exit_hard_off` (from spec.md; the file is not in this repository) | `pstate`, `want_g3_exit`, `chipWake`, `sig` |
| `ShutdownLog` | `shutdown_cause_record` as its callers see it: the exception bit sets `g_abnormal_shutdown`, and the id is appended to a ghost log of the current session | `g_abnormal_shutdown`, `causes` |
| `PowerButton` | `common/power_button.c`: edge interrupt, rescheduled debounce, console press and release, host lock, keyboard-scan disable | the debouncer's globals, plus the ghosts `sinceEdge` and `consoleKick` |
| `PowerButtonX86` | `common/power_button_x86.c` and `board_pwrbtn_to_pch` | see below |
| `MCPowerButtonX86` | `PowerButtonX86` with an abstract chipset: rails come and go and the PCH moves between states, all under a step budget | |
| `Rocketlake` | `power/rocketlake.c`, the pangub board chipset hooks, the thermal and watchdog forced power-offs, and the ACPI S3 flag; it composes `PowerButtonX86` | see below |
| `MCRocketlake` | `Rocketlake` with a budget of environment steps and a chosen set of environment actors | |
| `SoftwareWatchdog` | `common/softwareWatchdog.c`: `host_command_WDT`, the wake-up and shutdown watchdogs and their 1 s service, with `uint16_t` wrap at `WdtBits` bits | the two watchdog structs, `g_WdtForceingShutdown`, `powerOnPending` |
| `Renoir` | `power/renoir.c` with `chipset_force_shutdown`/`_g3`, composing `PowerButtonX86`, `SoftwareWatchdog` and a PCH | `out`, `cpc`, `forcing_shutdown`, `pchAnswered` |
| `MCRenoir` | `Renoir` with budgets of environment steps and host commands and a set of environment actors | `envLeft`, `hostLeft` |
| `CauseLog` | the abstract cause log: what a reader of the shutdown log may see over time | `log` |
| `FlashLog` | the flash side of the shutdown-cause log in `common/flash.c`: `shutdown_cause_record`, `shutdown_eflash_debug_init`, `update_cause_ram` and `update_cause_ram_ags`, `abnormalPowerDownTimes` and the MFG count | see below |
| `Chassis` | the chassis intrusion of `common/softwareWatchdog.c` (`Chassis_Intrusion_service` on HOOK_MSEC, `clear_chassisIntrusion`) and the BIOS command 0x0B, composed with `FlashLog`, whose MFG block keeps the chassis byte | `latch`, `chassisData`, `writeFlash`, `crisisClear` |
| `MCFlashLog` | `Chassis` (and so `FlashLog`) with callers, host resumes, the case, the BIOS and EC resets under a step budget | `envLeft` |
| `ThermalTable` | what the two `thermalInfo.c` files share: the table rows, `get_fan_RPM`, the per-sensor check of `*_fan_check_RPM`, the start offset and `temperature_protection_mechanism` | (operators only) |
| `ThermalPangub` / `ThermalPangul` | each board's tables (26 and 10, copied row by row from the source), `LEVEL_COUNT`, `get_fan_level`, and the choice of tables by mode (and, on pangub, CPU model) | (operators only) |
| `Thermal` | `thermal_control` (HOOK_SECOND), `thermal_control_service` (HOOK_TICK), `pwm_fan_start`/`pwm_fan_stop`, and the host commands 0x0A, 0x0F and 0x12 and the fan-fault reads, for either board | see below |
| `MCThermal` | `Thermal` with budgets of host commands and environment steps, and the readings the runs use | `envLeft`, `hostLeft` |

### PowerButtonX86

This module INSTANCEs `PowerButton` as `Deb`.

* Each case of `state_machine()` is an action (`StatePressed`,
  `StateT1`, … `StateHeld1`).
* A call to `set_pwrbtn_to_pch(1)` that would block in `board_pwrbtn_to_pch`
  is split in two. The case parks in `pbPc = "pulseWait"` or
  `"assertWait"`, and `PbResume` finishes it once S5_PGOOD rises or the poll
  runs out. The rest of the case runs only after that.
* `powerbtn_x86_changed` (`PowerbtnX86Changed`) runs on the hook task. It
  may therefore interleave with a parked case, which is how the code
  behaves.
* Time is in ticks. `tnext_state` and the debounce deadline count down in
  `Tick`.

### Rocketlake

`power_handle_state()` is split at each yield.

* `cpc` names the point where the chipset task is parked, for example
  `"g3s5_sus"`, which waits for SLP_SUS.
* Each action is one run from one yield to the next:
  * the wait succeeds: `RlG3S5SusUp`;
  * the wait times out: `RlG3S5SusTimeout`, whose record and next state come
    from the code;
  * a plain `msleep` resumes: `RlG3S5Sleep1`.
* `out` is the set of EC outputs that are driven on: ALW, DSW, AUX, RSMRST,
  PSON, SLP_S3, PQ9309, VCCST, PCH_PWRGD, PWRGD_140MS, and SLP_S4 where the
  board passes it through.
* Rails (`sig`) follow the outputs:
  * `RailRise` raises one whose enabling outputs are on;
  * `RailDecay` drops one whose outputs were withdrawn;
  * `SignalFall` is a fault that drops any rail.

The hook-task actions are:

* `ThermalForceOff`: thermal_control's `update_cause_flag(THERMAL)`, then
  record 0x30, then `chipset_force_power_off`;
* `WdtForceShutdown`: `chipset_force_shutdown`, which presses the PCH button
  and records;
* `Deferred01`: `shutdown_ID_deferred`.

The board hooks `board_chipset_suspend` and `board_chipset_shutdown` run
inside the S0S3 and S3S5 steps that fire them.

`HostEnterS3` and `HostAcpiEnable` model the BIOS command that sets
ENTER_S3 and the ACPI-enable hook that clears it.

### SoftwareWatchdog and Renoir

`SoftwareWatchdog` holds the watchdog state and the pure parts of
`system_sw_wdt_service()` as record-valued operators: `ServiceHead` is
`WakeUpWDtService()` up to its `chipset_force_shutdown()` call, and
`ServiceTail` the rest (the give-up after `TIMEOUT_NUM1` timeouts,
`WakeUpWdtPowerOn()`, `ShutdownWDtService()` with its 0xD0 record).
`HostCommandWDT` is the host command; arming the shutdown watchdog leaves
`countTime` alone, as the code does.

`Renoir` extends it and instantiates `PowerButtonX86` as `Btn`, sharing
its variables.

* The chipset task is split at every yield as in Rocketlake (`cpc`): one
  action per stretch between `msleep`/`power_wait_*` calls, each wait with
  its success and its timeout (0x45, 0x46, 0x47).
* `RnS5` includes the head of `power_handle_state()`: in S5 a pending
  forced shutdown releases the PCH line (`power_button_pch_release`).
* `RnWdtSecond` is the HOOK_SECOND callback. When the wake-up watchdog
  fires it runs `chipset_force_shutdown(0x09)`, whose press may park the
  hook task in `board_pwrbtn_to_pch()`; `RnPressResume` finishes the
  service. `PowerOnMachineDeferred` is the pulse 5 s later.
* `HostWdt` is the BIOS/OS sending `EC_CMD_EXTERNAL_WDT` in S0.
* The PCH: `PchPressWake` wakes it from sleep once per assertion of the
  line; `PchOverride` is its power-button override, dropping SLP_S3 and
  SLP_S5 while the line is held in S0; `PchWake` is a wake of its own.
  `pchAnswered` remembers that the current assertion was answered;
  `PchLatch`, conjoined to every other step, clears it when the line is
  released.
* `RnHeld1` is the 10 s hold's EC reset: every output and the watchdogs'
  RAM are lost.

### FlashLog

The log range is modelled in 4-byte words counted from
`SHUTDOWN_RANGE_START`.

* Layout:
  * page 0 is the header, reduced to one full flag per data page (`hdr`);
  * the data pages follow, each holding `Cells` 8-byte entries `{log_id, log_timestamp}`;
  * `mem` holds the data words and the two words after `SHUTDOWN_RANGE_END`, which are the start of the wakeup log's header page.
* Words are 17 bits wide, which is enough for `union32bit(1, id)`. An erased word is all ones (`ERASED`).
* Programming a word ANDs the new value into it (`Program`), as NOR flash does.
* `widx` is `shutdown_write_index`. Its value 0 (outside the range) is `NoIndex`.

`shutdown_cause_record` is split at each flash operation, because an EC
reset can fall between any two. `pc` names the next operation:

| action | code |
|---|---|
| `RecordOutOfRange` | the range check, `eflash_debug_init` and the return |
| `RecordAligned` / `RecordAdjust` | the range check, and the 0x08 written over a half-written entry when the index is not 8-byte aligned |
| `RecordWrite` | the entry write, then `+= LOG_SIZE` |
| `RecordPageFull` | the 0xAA page-full flag |
| `RecordErase` | read the last `Keep` entries, erase the range; on failure the index becomes 0 |
| `RecordRewrite` | write the kept entries back |

The other actions:

* `UpdateCauseRam` is `update_cause_ram`'s shutdown part, together with `update_cause_ram_ags` and `abnormalPowerDownTimes`. It covers:
  * the full window and the partial window near the data start, which leaves the memory-map words past it from the previous report;
  * the 0x08 patch of a torn entry;
  * the reordering, which counts non-zero ids.
* `EflashDebugInit` is HOOK_INIT after a reset (`eflash_debug_init`, `mfg_data_init`).
* The MFG block holds two bytes: the abnormal count and the chassis byte (`MfgOffsets`). Two variables keep it:
  * `mfgMap` is `mfg_data_map` in RAM, which `mfg_data_write` updates and which the sync flag `syncPending` (the 30 ms debounced deferred) marks as unsaved;
  * `mfgFlash` is the block in flash.
* `MfgDataSyncDeferred` erases the block and writes `mfgMap` back.
* Faults:
  * `Reset` loses RAM;
  * `ResetMidWrite` is a reset during the entry write, leaving the id programmed and the timestamp erased;
  * `ResetMidSync` is a reset inside `mfg_data_sync_deferred`, after its erase and before its write, so that every MFG byte reads 0xFF at the next boot;
  * with `FlashFails`, every flash operation may instead take its error path (`Failed`, recorded in the ghost `flashFailed`).

`Readout` is what a reader of the flash sees, oldest first. While the kept
entries exist only in RAM (between erase and rewrite), it is those entries.
It is the refinement mapping to `CauseLog`.

EC tasks are cooperative: the spec says no task is preempted by another.
Each step of a record therefore runs without interference from another
record or from `update_cause_ram`. Only resets cut a record short.

### Chassis

`Chassis` extends `FlashLog`. It adds the case-open latch (`latch`), which is
outside the EC and keeps its level over EC resets, and `pdata`'s two bytes.

* `ChassisBoot` is `FlashLog`'s HOOK_INIT together with `mfg_data_init`
  handing the MFG byte to `set_chassisIntrusion_data`. That byte is 0xFF on
  a first boot.
* `ChassisIntrusionService` is the whole 1 ms hook:
  * unless the data is 0x01 (`ReadsLatch`), it takes the data from the latch and calls `mfg_data_write` when the data differs from `chassisWriteFlashData`;
  * then `clear_chassisIntrusion` runs: on a clear request, the request bit is dropped, and if the latch is set the data becomes 0, is written to the MFG map, and the latch is pulsed clear.
* `HostChassisCommand(sub, sumOk)` is `oem_bios_to_ec_command` with command 0x0B. A bad checksum byte, or a sub-command other than 0x02, changes no state the model keeps.
* `CaseOpen` sets the latch. `ChassisReset` is the RAM side of every EC reset.

`ChassisEcStep` is the EC's own steps of the composition: HOOK_INIT, the
log's continuation steps, the MFG sync and the 1 ms hook.

### Thermal

The two boards share `common/thermal.c` and `common/fan.c` and differ in
`thermalInfo.c`. `Thermal` takes the board as a constant, and each step
calls that board's operators.

* **State.** It holds:
  * the averaged readings `temps`;
  * `g_thermalMode` and `cpu_model`;
  * the memmap bits `acpiMode` and `rebootBit`;
  * `chipsetOn`;
  * `g_fanLevel` per sensor. Each sensor belongs to one fan, so the code's `g_fanLevel[fan].sensor` is one entry per sensor;
  * `g_fanProtect`;
  * `forceOff`, the power-offs the protection has issued;
  * per fan: `thermal_control_enabled`, `fan_fault`, `fanEnabled` and `rpm_target`;
  * the bit sets `g_fanThermalStart` and `g_fanRebootFlag`.
* **Ghost state.** `ticked` orders the hooks: HOOK_TICK comes before each HOOK_SECOND of the same task. `hotRun` counts a sensor's consecutive hot protection passes.
* **`thermal_control`** runs in S0 only. In one step it does:
  * the protection pass (ACPI mode only);
  * the CPU-fan check, then the system-fan check;
  * `fan_set_rpm_target` for every fan under thermal control.
* **Abstractions.**
  * pangub's `chipset_force_power_off` and pangul's `chipset_force_shutdown` become a pending power-off. `ForcedPowerDown` carries it out. Their effect on the power sequence is the business of the `Rocketlake` and `Renoir` models.
  * A table's bytes past its last row are the constant `Beyond`.
* **`thermal_control_service`** runs the loop over both fans. For each fan, in order:
  * the reboot re-check (`Reboot_pwm_fan_control`: 1200 rpm, thermal control off);
  * a faulted fan is switched off and skipped;
  * in ACPI mode, the start bit hands the fan to thermal control.
* **Power transitions.** `PowerUp` is `pwm_fan_start` on HOOK_CHIPSET_12V_ENABLE. It clears the faults and sets 50 % duty, which takes both fans off thermal control. `PowerDown` is `pwm_fan_stop` with `FanRebootFlag`.

## Runs

| run | cfg | result | what it shows |
|---|---|---|---|
| `x86_button` | `MCPowerButtonX86.cfg` | pass | `PchReleased`: every path that asserts the PCH line releases it once the button is up. This includes the blocking poll, LAN-wake pulses and INIT_ON. `DebounceSettled`: `power_button_change_deferred` accepts a physical level only after it has been stable for a whole interval. `KbScanRestored`: keyboard scanning is re-enabled once the button is up. |
| `x86_held_pressed` | `MCPowerButtonX86_HeldMeansPressed.cfg` | violation | A release during T1's blocked assertion is overwritten by HELD. A short press is then treated as a 4 s hold, followed by a 10 s EC reset. |
| `x86_held_escalates` | `MCPowerButtonX86_HeldEscalates.cfg` | violation | WAS_OFF enters HELD with no deadline, so a continued hold never escalates. |
| `rl_sequence` | `MCRocketlake.cfg` | pass | `SequenceOrder`: under rail faults, timeouts, thermal and watchdog shutdowns, S3 and EC resets, no sequencing output is on while one it depends on is off. `ForcedOffReachesG3`: a thermal power-off from S0 always ends in G3. |
| `rl_rail_loss` | `MCRocketlake_RailLossLogged.cfg` | violation | The thermal cause bit is ORed in instead of cleared. After one thermal power-off, no later rail loss is recorded. |
| `fl_refinement` | `MCFlashLog.cfg` | pass | `ImplementsCauseLog`: under resets at every point of a record and torn entry writes, the flash log refines `CauseLog`. Entries are added at the newest end and dropped only from the oldest end. The only change to an entry is a torn newest one repaired as 0x08. `IntrusionReported`: an opened case is reported to the BIOS until the BIOS clears it. This holds through resets that lose the MFG sync of the 0x01 or tear the sync between erase and write, because the 1 ms hook re-reads the latch whenever the restored byte is not 0x01. `TypeOK` holds too. |
| `fl_report` | `MCFlashLog_Report.cfg` | violation | `ReportNewestFirst`: a reset tears the write of a 0x01 cause; after boot, the alignment adjust programs 0x10008 over that entry and flash ANDs the id to 0. Once the page is full, `update_cause_ram_ags` counts one non-zero id and reverses one entry, so the memory map's first cause is that 0 while the newest stored cause is 0x01. |
| `fl_log_writable` | `MCFlashLog_LogStaysWritable.cfg` | violation | A reset between the write that fills a page and its full flag leaves an unflagged full page. `shutdown_eflash_debug_init` finds no erased word, so the index stays 0 and no record is written again. |
| `fl_in_range` | `MCFlashLog_WritesStayInRange.cfg` | violation | A torn write of the range's last entry is followed, after boot, by an alignment adjust that moves the index to `SHUTDOWN_RANGE_END`. The next entry is then written into the wakeup log's header page. |
| `renoir` | `MCRenoir.cfg` | pass | `RnSequenceOrder`: with watchdog forced shutdowns, the PCH waking and overriding, host commands and rail faults, no Renoir output is on while one it depends on is off. `RnRailLossReachesG3`: a lost always-on rail always takes the chipset task to G3, from any state or wait. |
| `thermal` | `MCThermal.cfg` | pass | Both boards, under host commands, power cycles, fan faults and moving readings. `TripWithinCount`: a sensor hot for five protection passes in a row is powered off by the fifth. `TripOnlyWhenHot`: no power-off is issued for a sensor that reads below its limit that second, whatever counts earlier spells, sessions or ACPI-off time left behind. `LevelsSettle`: under steady readings, mode and CPU model, every fan level stops moving, including after a table switch. `ThermalControlResumes`: in S0 with ACPI mode on, a fan that is not faulted always comes back under thermal control. |
| `th_level_overrun` | `MCThermal_LevelInTable.cfg` | violation | On pangub, `get_fan_level` allows level 6 (LEVEL_COUNT 7), but the GFX tables have six rows. A UMA level 6 kept over a graphics-card notification, or a GFX sensor at HowTri of level 5, makes the code read `data[6]` past the array. |

Each property of a passing run has a mutant in `PROJECT.json`: a plausible
bug in the mapped code that TLC shows breaks it.

Spec §4.1 also says every bounded-wait timeout records a cause. The
SLP_SUS timeout in G3S5 (`rocketlake.c:288-291`) returns `POWER_S5G3`
without a record. The model has this path (`RlG3S5SusTimeout`), but no run
is spent on it; it is listed as a hazard.

Spec §4.1 also asks that a rail loss in S0 be distinguished from a rail loss
while suspended. The code records 0x08 for both. The model follows the code,
and no run is spent on this wording difference.

**No passing FlashLog run enables failing flash operations.** With
`FlashFails` the refinement fails: a failed adjust write, followed by two
resets, leaves a damaged entry in the middle of the log. That is the code
ignoring `flash_write` errors. The error paths stay in the model (`Failed`),
but no run checks a property under them.

Three properties stay in their modules without a run, because the twelve run
slots went to other questions. TLC finds all three violated by what the code does:

* `EntriesKnown` (`FlashLog`). The adjust programs 0x10008 over a half-written entry. Flash ANDs, so 0x01 reads back as 0 and 0x30 as 0x10000. The `fl_report` run shows what this does to the memory map.
* `IntrusionClearable` (`Chassis`), on the `fl_refinement` configuration without the fairness. The trace runs as follows:
  1. the case is open, and the service writes 0x01, which is synced;
  2. the BIOS sends a clear, and the service sets the data to 0 and pulses the latch clear;
  3. a reset comes before the 30 ms sync has stored the 0;
  4. the boot restores 0x01 with the latch clear.
  `clear_chassisIntrusion` acts only while the latch reads set, so this intrusion can never be cleared by the BIOS.
* `S3FailureLoggedOnlyAfterS3` (`Rocketlake`). ENTER_S3 is cleared in the wrong memmap byte, so an ordinary shutdown after a resume is logged as the S3 failure 0x02.

All three are listed as hazards in `PROJECT.json`.

### What the Renoir model showed without a run

Candidate properties checked on `MCRenoir` during modelling were violated
by what the code does. The project has no run left for them; they are
listed as hazards in `PROJECT.json`:

* a wake-up watchdog firing while the debounced button reads pressed:
  `power_button_pch_press()` does nothing, the shutdown never happens and
  `g_WdtForceingShutdown` stays set, so the BIOS can no longer arm or
  clear the watchdog;
* a user release right after the forced press raises the line again and
  undoes the forced shutdown;
* a PCH wake within the second after a watchdog shutdown reaches S5 keeps
  `WakeUpWdtPowerOn()` from ever seeing ANY_OFF: the flag stays set, and
  the next ordinary shutdown is followed by an automatic power-on;
* the power-on pulse 5 s after the ANY_OFF check acts as a shutdown
  press if the user powered on in between.

Read directly off the code: `POWER_S3S5` does not withdraw PSON, so after
S5S3 -> S3 -> S3S5 the 12 V enable stays on in S5.

## Bounds

* **Delays.** All delays (T0–T3, the initial delay, the debounce interval)
  are 1 tick in the Rocketlake runs. Debounce is 2 ticks in `MCPowerButtonX86.cfg`,
  so that edges inside one interval are possible. What the properties depend
  on is the order of expiry relative to other events, not the lengths.
* **Environment budget.**
  * `EnvBudget` bounds the number of environment steps: button edges,
    console presses, host writes, PCH moves, rail faults, thermal and watchdog
    events. It is 6 for the button model, 2 for the passing Rocketlake run (3 makes its liveness check run past ten minutes), and 2–4 for the Rocketlake violation runs.
  * It is 1 for `renoir`, and the host's watchdog commands have a
    separate `HostBudget` of 1, so that an arm followed by a fault (the
    forced press parked in `board_pwrbtn_to_pch()`) is reached. The user
    acts on the physical button only; the console's simulated presses are
    exercised by `x86_button`. One environment step still lets a rail fail
    at any point of the way up or down, or a press land at any point. It
    does not reach two watchdog timeouts in a row (the `TIMEOUT_NUM1`
    give-up needs a second arm). `WdtBits` = 1 keeps the wrap of the
    counters, and `HostTimes` = {0} arms at `MinTime`. A budget of 2 with
    the full watchdog width checks the safety invariants too (1.5 M
    distinct states) but its liveness check does not finish in minutes.
  * Every violation was found within these budgets.
  * Three steps are enough for a fault followed by a recovery attempt and a
    second fault, which is what the stale-state hazards need.
* **Actors.** `Actors` selects which environment actors take part in a run.
  The violation runs use only the actors the trace needs, which keeps them
  fast.
* **Log length.** `MaxCauses` = 3 caps the ghost log per session.
* **Flash log.** `Pages` = 2 data pages of `Cells` = 2 entries, and `Keep` = 2 entries kept over an erase. The code has 31 pages of 16 entries and keeps 4.
  * What the properties depend on is the same at this size:
    * whether a page or the range is full;
    * the index crossing a page end;
    * the window of the last `Keep` entries, versus the partial window.
  * `EnvBudget` = 7 records, resumes and resets (6 in `fl_refinement`, which also has the case and the BIOS) is enough to fill the range, erase it, and reset inside the write, the flag and the erase. In `fl_refinement`, a case opening, a BIOS clear and a reset fit in it together with records. There the latch starts clear, so the case is opened only by a step of the budget; this keeps the refinement check within its time.
  * The latch starts clear. Only runs that include the case (`"case"` in `Faults`) open it, at any point, before the first boot included. Elsewhere the chassis service only settles the data to 0 once.

* **Thermal.**
  * Readings come from small per-sensor sets (`MCTempValues`). They are chosen to make the interesting steps happen:
    * a CPU die and an SSD that climb several levels;
    * an ambient sensor below the fan start temperatures;
    * an ambient sensor above its 70 C protection limit, so a trip happens after five seconds in ACPI mode.
  * `HostBudget` = 2 and `EnvBudget` = 2. With these, every action and both modes are reached, and so are ACPI enable followed by a trip, and a fault followed by power-up or a reboot re-check. The hook task itself is unbounded.
  * Budgets of 3 and 2 reach 377 k states and take 2.5 minutes with the same result.
  * The violation run needs only pangub, a hot SSD (`MCHotSsdValues`) and one host command.

## Fairness

These actions are weakly fair:

* the chipset task, the hook task and the button task, because the EC
  scheduler runs every ready task;
* a decaying rail, because a withdrawn output discharges;
* in `Renoir`'s `Spec`, each hook-task callback (the watchdog second, the resumed
  press, the deferred power-on, the button hooks), because the hook task
  calls each one that is due; and the PCH's wake on a press and its
  override on a held line, which is what the PCH does with the line.
  The `renoir` run checks `RnRailLossReachesG3` under the chipset task's
  weak fairness alone (`MCSpec`), a weaker assumption than `Spec`'s, so
  the property holds whatever the other tasks, the PCH and time do.

In `Thermal`, HOOK_TICK is weakly fair and so is HOOK_SECOND once a tick has
run. The hook task's timer raises both for as long as the EC runs. A pending
protection power-off is weakly fair too, because the power sequence carries
it out.

In `MCFlashLog`, `MCFairSpec` (used by `fl_refinement`) makes two steps weakly fair:

* HOOK_INIT, because it runs after every reset;
* the 1 ms chassis hook, because HOOK_MSEC runs for as long as the EC is up.

The records, resumes, resets, the case and the BIOS are not fair.

Tick is strongly fair, because time advances. Environment actions are not
fair. `CHECK_DEADLOCK FALSE` is used for the composed models, because an
idle EC with no pending timer legitimately stops.

## Not modelled (yet)

* The 0xAA reboot-flag path of `board_chipset_shutdown` (`system_reset`).
* The S5 case of `power_chipset_init`.
* The wakeup log (`wakeup_cause_record`, `wakeup_eflash_debug_init`). It uses the same ring algorithm as the shutdown log, without the alignment adjust.
* The other MFG bytes: MFG mode, AC recovery, last power state and LAN/WLAN wake. Each is data written by one host command and read at boot.
* `mfg_data_init` points `mfgMode` at EC_MEMMAP_AC_RECOVERY and then writes the chassis byte and the abnormal count through it. The host therefore reads the abnormal count as the AC-recovery byte. This is a plain memmap value, and no model state depends on it.
* The ACPI port protocol of `acpi_ap_to_ec`: the command, address and data bytes, burst mode with its read cache, and the query queue. A stale cached read in burst mode is listed as a hazard.
* The flash_log host and console commands, which are data accessors.
* A failing `flash_read` in `shutdown_eflash_debug_init`, which leaves the index unchanged, just as a page with no erased word does.
* pangun's own `board.c` is not in this repository; `board_pwrbtn_to_pch()`
  of pangub is assumed for it.
* The Renoir china 3V/5V, fingerprint and USB enables, which drive outputs
  no input depends on.
* `temp_sensor.c` (sensor polling and the ten-sample average). The models
  take the average as a reading from a small set. The error sentinels
  (0xFD-0xFF) enter the average as temperatures.
* Fans are modelled by enabled, fault and target rpm. Not modelled:
  * duty cycles and the rpm/percent conversions;
  * the manual fan console and host commands (`fanset`, `fanduty`, `hc_pwm_*`, auto fan);
  * the thermal console commands, including `Sensorauto`, which freezes the readings;
  * the PROCHOT block, which is `#if 0`.
* The LED, WMI, audio and USB-PD code, which is I/O.

`PROJECT.json` lists every component with its status and reason.

## Plan for later work

1. Instantiate the ring for the wakeup log. Its torn last entry aligns the
   index onto the MFG block (a listed hazard); with the MFG block already
   modelled, this would show the effect on the chassis byte and the count.
2. Model the S5 init case and the 0xAA reboot flag.
3. Write an abstract power-state specification that `Rocketlake` and
   `Renoir` refine.
