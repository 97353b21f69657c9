------------------------------- MODULE Thermal -------------------------------
(***************************************************************************)
(* The thermal loop of the desktop boards and the fan glue around it:      *)
(*   - common/thermal.c thermal_control() (HOOK_SECOND): while the chipset *)
(*     is ON, the protection counters (in ACPI mode) and the fan levels of *)
(*     the board's thermalInfo.c, then the RPM targets of the fans under   *)
(*     thermal control;                                                    *)
(*   - common/fan.c: thermal_control_service() (HOOK_TICK), which hands a  *)
(*     fan to thermal control once per S0 session and turns a faulted fan *)
(*     off, pwm_fan_start()/pwm_fan_stop() at power-up and power-down,     *)
(*     the fan-fault checks the host reads, and acpiModeEnableClear();    *)
(*   - the host commands of common/acpi.c that steer them: 0x0A (graphics  *)
(*     card), 0x0F/0x01 (reboot), 0x0F/0x05 (ACPI mode), 0x12 (CPU model). *)
(* The board is chosen once, at Init; the temperatures are the averaged    *)
(* readings of the memory map and change as the environment pleases.      *)
(***************************************************************************)
EXTENDS Integers, Sequences, FiniteSets, TLC

CONSTANTS
    Boards,       \* the boards this thermalInfo.c is built for
    Beyond,       \* the row read past a six-row table (ThermalTable)
    TempValues    \* [TempSensors -> SUBSET Nat]: what each reading may be

PB == INSTANCE ThermalPangub
PL == INSTANCE ThermalPangul

TempSensors == PB!TempSensors
Channels    == TempSensors \ {"AMBIENCE_NTC"}
Watched     == DOMAIN PB!ProtectionLimit
Fans        == {"CPU", "SYS"}
FAN_SET_RPM_TARGET == 1200

VARIABLES
    board,                    \* "pangub" (Rocket Lake) or "pangul" (Renoir)
    temps,                    \* EC_MEMMAP_TEMP_SENSOR_AVG, per sensor
    g_thermalMode,            \* "UMA" or "GFX" (enum thermal_mode)
    cpu_model,                \* pangub: 0 until the BIOS sends 0x12
    acpiMode,                 \* EC_MEMMAP_ACPI_MODE in EC_MEMMAP_SYS_MISC1
    rebootBit,                \* EC_MEMMAP_SYSTEM_REBOOT in the same byte
    chipsetOn,                \* chipset_in_state(CHIPSET_STATE_ON)
    g_fanLevel,               \* [Channels -> level]
    g_fanProtect,             \* [Watched -> .time]
    forceOff,                 \* power-off ids issued and not yet carried out
    thermal_control_enabled,  \* [Fans -> BOOLEAN]
    g_fanThermalStart,        \* fans still to be handed to thermal control
    g_fanRebootFlag,          \* fans whose reboot re-check is still due
    fan_fault,                \* g_fan_parameter.fan_fault, FAULT or not
    fanEnabled,               \* the last fan_set_enabled() of each fan
    rpm_target,               \* the last fan_set_rpm_target() of each fan
    ticked,                   \* a HOOK_TICK ran since the last HOOK_SECOND
    hotRun                    \* ghost: protection passes in a row at or
                              \* above the limit without a power-off

thermalVars == <<g_thermalMode, cpu_model, g_fanLevel, g_fanProtect, forceOff,
                 hotRun>>
fanVars     == <<thermal_control_enabled, g_fanThermalStart, g_fanRebootFlag,
                 fan_fault, fanEnabled, rpm_target>>
vars == <<board, temps, acpiMode, rebootBit, chipsetOn, ticked, thermalVars,
          fanVars>>

\* The board's enum thermal_level bound and the tables the fans now read.
LevelCount == IF board = "pangub" THEN PB!LEVEL_COUNT ELSE PL!LEVEL_COUNT
Tables ==
    IF board = "pangub"
    THEN PB!cpu_tables(g_thermalMode, cpu_model)
         @@ PB!sys_tables(g_thermalMode, cpu_model)
    ELSE PL!cpu_tables(g_thermalMode) @@ PL!sys_tables(g_thermalMode)
FanLevel(temp, level, table) ==
    IF board = "pangub" THEN PB!get_fan_level(temp, level, table)
                        ELSE PL!get_fan_level(temp, level, table)
CpuCheck(level) ==
    IF board = "pangub"
    THEN PB!cpu_fan_check_RPM(g_thermalMode, cpu_model, temps, level)
    ELSE PL!cpu_fan_check_RPM(g_thermalMode, temps, level)
SysCheck(level) ==
    IF board = "pangub"
    THEN PB!sys_fan_check_RPM(g_thermalMode, cpu_model, temps, level)
    ELSE PL!sys_fan_check_RPM(g_thermalMode, temps, level)

Init ==
    /\ board \in Boards
    /\ temps \in [TempSensors -> UNION {TempValues[s] : s \in TempSensors}]
    /\ \A s \in TempSensors : temps[s] \in TempValues[s]
    /\ g_thermalMode = "UMA"
    /\ cpu_model = 0
    /\ acpiMode = FALSE /\ rebootBit = FALSE
    /\ chipsetOn = FALSE
    /\ g_fanLevel = [c \in Channels |-> 0]
    /\ g_fanProtect = [s \in Watched |-> 0]
    /\ forceOff = {}
    /\ thermal_control_enabled = [f \in Fans |-> FALSE]
    /\ g_fanThermalStart = Fans /\ g_fanRebootFlag = Fans
    /\ fan_fault = [f \in Fans |-> FALSE]
    /\ fanEnabled = [f \in Fans |-> FALSE]
    /\ rpm_target = [f \in Fans |-> 0]
    /\ ticked = FALSE
    /\ hotRun = [s \in Watched |-> 0]

\* Mutant: the fan loop breaks at a faulted fan instead of continuing, so
\* the system fan is skipped while the CPU fan is faulted.
thermal_control_service_break ==
    /\ ticked' = TRUE
    /\ IF ~chipsetOn
       THEN /\ g_fanThermalStart' = Fans
            /\ UNCHANGED <<thermal_control_enabled, g_fanRebootFlag,
                           fan_fault, fanEnabled, rpm_target>>
       ELSE LET reboot0 == IF rebootBit THEN g_fanRebootFlag ELSE {}
                stop    == fan_fault["CPU"] /\ "CPU" \notin reboot0
                loop    == IF stop THEN {"CPU"} ELSE Fans
                reboot  == reboot0 \cap loop
                faulty  == {f \in loop \ reboot : fan_fault[f]}
                start   == IF acpiMode THEN (g_fanThermalStart \cap loop) \ faulty
                           ELSE {}
            IN  /\ fan_fault' = [f \in Fans |->
                                    IF f \in loop THEN f \in faulty ELSE fan_fault[f]]
                /\ g_fanRebootFlag' = g_fanRebootFlag \ reboot
                /\ g_fanThermalStart' = g_fanThermalStart \ start
                /\ thermal_control_enabled' =
                       [f \in Fans |-> IF f \in start THEN TRUE
                                       ELSE IF f \in faulty \cup reboot
                                            THEN FALSE
                                            ELSE thermal_control_enabled[f]]
                /\ rpm_target' =
                       [f \in Fans |-> IF f \in faulty THEN 0
                                       ELSE IF f \in reboot
                                            THEN FAN_SET_RPM_TARGET
                                            ELSE rpm_target[f]]
                /\ fanEnabled' = [f \in Fans |-> fanEnabled[f] /\ f \notin faulty]
    /\ UNCHANGED <<board, temps, acpiMode, rebootBit, chipsetOn, thermalVars>>

(***************************************************************************)
(* HOOK_TICK: thermal_control_service().  Outside S0 it re-arms both      *)
(* start bits.  In S0, fan by fan: a due reboot re-check clears the fault *)
(* and sets 1200 rpm with thermal control off (Reboot_pwm_fan_control);   *)
(* a faulted fan is turned off (pwm_fan_control(ch, 0)) and skipped; in   *)
(* ACPI mode a fan whose start bit is set is handed to thermal control.   *)
(***************************************************************************)
thermal_control_service ==
    /\ ticked' = TRUE
    /\ IF ~chipsetOn
       THEN /\ g_fanThermalStart' = Fans
            /\ UNCHANGED <<thermal_control_enabled, g_fanRebootFlag,
                           fan_fault, fanEnabled, rpm_target>>
       ELSE LET reboot == IF rebootBit THEN g_fanRebootFlag ELSE {}
                faulty == {f \in Fans \ reboot : fan_fault[f]}
                start  == IF acpiMode THEN g_fanThermalStart \ faulty ELSE {}
            IN  /\ fan_fault' = [f \in Fans |-> f \in faulty]
                /\ g_fanRebootFlag' = g_fanRebootFlag \ reboot
                /\ g_fanThermalStart' = g_fanThermalStart \ start
                /\ thermal_control_enabled' =
                       [f \in Fans |-> IF f \in start THEN TRUE
                                       ELSE IF f \in faulty \cup reboot
                                            THEN FALSE
                                            ELSE thermal_control_enabled[f]]
                /\ rpm_target' =
                       [f \in Fans |-> IF f \in faulty THEN 0
                                       ELSE IF f \in reboot
                                            THEN FAN_SET_RPM_TARGET
                                            ELSE rpm_target[f]]
                /\ fanEnabled' = [f \in Fans |-> fanEnabled[f] /\ f \notin faulty]
    /\ UNCHANGED <<board, temps, acpiMode, rebootBit, chipsetOn, thermalVars>>

\* One protection pass as the counters and the ghost run see it.
Protect ==
    IF acpiMode THEN PB!ProtectionStep(temps, g_fanProtect)
                ELSE [time |-> g_fanProtect, off |-> {}]
HotRunAfter(prot) ==
    [s \in Watched |->
        IF ~acpiMode THEN hotRun[s]
        ELSE IF temps[s] >= PB!ProtectionLimit[s]
                /\ PB!ShutdownId[s] \notin prot.off
             THEN IF hotRun[s] < PB!TEMP_PROTECTION_COUNT
                  THEN hotRun[s] + 1 ELSE hotRun[s]
             ELSE 0]

(***************************************************************************)
(* HOOK_SECOND: thermal_control(), run after at least one HOOK_TICK.  It  *)
(* returns unless the chipset is ON; otherwise the protection pass (ACPI  *)
(* mode only; pangub's update_cause_flag + chipset_force_power_off and    *)
(* pangul's chipset_force_shutdown both become a pending power-off), the  *)
(* CPU fan's then the system fan's levels, and each fan's rpm_target      *)
(* where thermal control is enabled.                                      *)
(***************************************************************************)
thermal_control ==
    /\ ticked /\ ticked' = FALSE
    /\ IF ~chipsetOn
       THEN UNCHANGED <<thermalVars, rpm_target>>
       ELSE LET prot == Protect
                cpu  == CpuCheck(g_fanLevel)
                sys  == SysCheck(cpu.level)
            IN  /\ g_fanProtect' = prot.time
                /\ forceOff' = forceOff \cup prot.off
                /\ hotRun' = HotRunAfter(prot)
                /\ g_fanLevel' = sys.level
                /\ rpm_target' =
                       [f \in Fans |->
                           IF thermal_control_enabled[f]
                           THEN IF f = "CPU" THEN cpu.rpm ELSE sys.rpm
                           ELSE rpm_target[f]]
                /\ UNCHANGED <<g_thermalMode, cpu_model>>
    /\ UNCHANGED <<board, temps, acpiMode, rebootBit, chipsetOn,
                   thermal_control_enabled, g_fanThermalStart,
                   g_fanRebootFlag, fan_fault, fanEnabled>>

(***************************************************************************)
(* The chipset, abstracted to ON or not (the power sequences are their    *)
(* own modules).  Power-up passes HOOK_CHIPSET_12V_ENABLE: pwm_fan_start() *)
(* clears the faults and puts both fans on 50% duty, which takes them off *)
(* thermal control.  Power-down (suspend or shutdown-complete, a forced   *)
(* one included) runs pwm_fan_stop(): both fans off, then FanRebootFlag(). *)
(***************************************************************************)
PowerUp ==
    /\ ~chipsetOn /\ chipsetOn' = TRUE
    /\ fan_fault' = [f \in Fans |-> FALSE]
    /\ fanEnabled' = [f \in Fans |-> TRUE]
    /\ thermal_control_enabled' = [f \in Fans |-> FALSE]
    /\ UNCHANGED <<board, temps, acpiMode, rebootBit, ticked, thermalVars,
                   g_fanThermalStart, g_fanRebootFlag, rpm_target>>

PowerDown ==
    /\ chipsetOn /\ chipsetOn' = FALSE
    /\ forceOff' = {}
    /\ thermal_control_enabled' = [f \in Fans |-> FALSE]
    /\ rpm_target' = [f \in Fans |-> 0]
    /\ fanEnabled' = [f \in Fans |-> FALSE]
    /\ g_fanRebootFlag' = Fans /\ g_fanThermalStart' = Fans
    /\ UNCHANGED <<board, temps, acpiMode, rebootBit, ticked, fan_fault,
                   g_thermalMode, cpu_model, g_fanLevel, g_fanProtect, hotRun>>

\* A power-off the protection pass issued is carried out.
ForcedPowerDown == forceOff # {} /\ PowerDown

(***************************************************************************)
(* Host commands, which the host sends only while it runs (S0).           *)
(***************************************************************************)
\* 0x0A: 0x01 a graphics card is present, 0x02 none; thermal_type().
NotifyGraphicCard(mode) ==
    /\ chipsetOn /\ g_thermalMode' = mode
    /\ UNCHANGED <<board, temps, acpiMode, rebootBit, chipsetOn, ticked,
                   cpu_model, g_fanLevel, g_fanProtect, forceOff, hotRun,
                   fanVars>>

\* 0x12 (NPCX_FAMILY_DT03, the pangub build): set_cpu_model(1..3).
NotifyCpuModel(model) ==
    /\ chipsetOn /\ board = "pangub" /\ cpu_model' = model
    /\ UNCHANGED <<board, temps, acpiMode, rebootBit, chipsetOn, ticked,
                   g_thermalMode, g_fanLevel, g_fanProtect, forceOff, hotRun,
                   fanVars>>

\* 0x0F/0x01: EC_MEMMAP_SYSTEM_REBOOT, then FanRebootFlag().
SystemReboot ==
    /\ chipsetOn /\ rebootBit' = TRUE
    /\ g_fanRebootFlag' = Fans /\ g_fanThermalStart' = Fans
    /\ UNCHANGED <<board, temps, acpiMode, chipsetOn, ticked, thermalVars,
                   thermal_control_enabled, fan_fault, fanEnabled, rpm_target>>

\* 0x0F/0x05/0x01: set EC_MEMMAP_ACPI_MODE and notify HOOK_CHIPSET_ACPI_MODE,
\* whose acpiModeEnableClear() clears the reboot and sleep bits and re-arms
\* the reboot re-check; 0x0F/0x05/0x02 clears the ACPI mode bit.
AcpiEnable ==
    /\ chipsetOn /\ acpiMode' = TRUE
    /\ rebootBit' = FALSE /\ g_fanRebootFlag' = Fans
    /\ UNCHANGED <<board, temps, chipsetOn, ticked, thermalVars,
                   thermal_control_enabled, g_fanThermalStart, fan_fault,
                   fanEnabled, rpm_target>>
AcpiDisable ==
    /\ chipsetOn /\ acpiMode' = FALSE
    /\ UNCHANGED <<board, temps, rebootBit, chipsetOn, ticked, thermalVars,
                   fanVars>>

\* The ACPI reads EC_ACPI_MEM_CPU_FAN_FAULT / _SYS_FAN_FAULT: check_*_fan_
\* fault() measures the fan and records a fault below FAN_DUTY_50_RPM.  A
\* disabled fan does not turn; a running one may read either way.
CheckFanFault(f) ==
    /\ chipsetOn
    /\ \E slow \in BOOLEAN :
          fan_fault' = [fan_fault EXCEPT ![f] = slow \/ ~fanEnabled[f]]
    /\ UNCHANGED <<board, temps, acpiMode, rebootBit, chipsetOn, ticked,
                   thermalVars, thermal_control_enabled, g_fanThermalStart,
                   g_fanRebootFlag, fanEnabled, rpm_target>>

\* The averaged reading of a sensor moves.
SetTemp(s, v) ==
    /\ v # temps[s] /\ temps' = [temps EXCEPT ![s] = v]
    /\ UNCHANGED <<board, acpiMode, rebootBit, chipsetOn, ticked, thermalVars,
                   fanVars>>

\* The hook task, which runs forever.
HookStep == thermal_control_service \/ thermal_control

\* The host and the environment.
HostStep ==
    \/ \E m \in {"UMA", "GFX"} : NotifyGraphicCard(m)
    \/ \E m \in 1..3 : NotifyCpuModel(m)
    \/ SystemReboot \/ AcpiEnable \/ AcpiDisable
    \/ \E f \in Fans : CheckFanFault(f)
EnvStep ==
    \/ PowerUp \/ PowerDown
    \/ \E s \in TempSensors, v \in UNION {TempValues[x] : x \in TempSensors} :
          v \in TempValues[s] /\ SetTemp(s, v)

Next == HookStep \/ ForcedPowerDown \/ HostStep \/ EnvStep

\* HOOK_TICK and HOOK_SECOND come from the hook task's timer for as long as
\* the EC runs; a forced power-off is carried out by the power sequence.
\* thermal_control is enabled exactly when ticked, so its weak fairness is
\* written with that condition in place of ENABLED.
Fairness ==
    /\ WF_vars(thermal_control_service)
    /\ (<>[]ticked => []<><<thermal_control>>_vars)
    /\ WF_vars(ForcedPowerDown)

Spec == Init /\ [][Next]_vars /\ Fairness

-----------------------------------------------------------------------------
TypeOK ==
    /\ board \in Boards
    /\ \A s \in TempSensors : temps[s] \in TempValues[s]
    /\ g_thermalMode \in {"UMA", "GFX"} /\ cpu_model \in 0..3
    /\ acpiMode \in BOOLEAN /\ rebootBit \in BOOLEAN /\ chipsetOn \in BOOLEAN
    /\ g_fanLevel \in [Channels -> 0..(LevelCount - 1)]
    /\ g_fanProtect \in [Watched -> 0..(PB!TEMP_PROTECTION_COUNT - 1)]
    /\ forceOff \subseteq {PB!ShutdownId[s] : s \in Watched}
    /\ thermal_control_enabled \in [Fans -> BOOLEAN]
    /\ g_fanThermalStart \subseteq Fans /\ g_fanRebootFlag \subseteq Fans
    /\ fan_fault \in [Fans -> BOOLEAN] /\ fanEnabled \in [Fans -> BOOLEAN]
    /\ rpm_target \in [Fans -> Nat] /\ ticked \in BOOLEAN
    /\ hotRun \in [Watched -> 0..PB!TEMP_PROTECTION_COUNT]

\* temperature_protection_mechanism(): a watched sensor that reads at or
\* above its limit in TEMP_PROTECTION_COUNT protection passes in a row is
\* powered off by the last of them, whatever its counter held before.
TripWithinCount ==
    \A s \in Watched : hotRun[s] < PB!TEMP_PROTECTION_COUNT

\* temperature_protection_mechanism(): a forced power-off for a sensor is
\* issued only in a second in which that sensor reads at or above its
\* limit -- a count left over from an earlier hot spell, an earlier S0
\* session or a time outside ACPI mode never powers off a cool machine.
TripOnlyWhenHot ==
    [][\A s \in Watched :
          PB!ShutdownId[s] \in forceOff' \ forceOff
             => temps[s] >= PB!ProtectionLimit[s]]_vars

\* get_fan_level() over the board's tables: the level of a sensor is
\* settled when one more second at the same reading leaves it where it is.
Settled(c) == FanLevel(temps[c], g_fanLevel[c], Tables[c]) = g_fanLevel[c]

\* thermal_control() with the tables' HowTri/lowTri hysteresis: once the
\* readings, the mode and the CPU model stop changing, every fan level the
\* loop updates settles and stays settled while the chipset is ON -- no
\* reading makes a level climb and fall back second after second, after
\* a graphics-card or CPU-model switch that kept the old levels too.
LevelsSettle ==
    <>[](chipsetOn => \A c \in DOMAIN Tables : Settled(c))

\* thermal_control_service(): in S0 with ACPI mode on, a fan that is not
\* faulted comes under thermal control -- after power-up, a suspend and
\* resume, a reboot re-check or the other fan's fault alike.
ThermalControlResumes ==
    \A f \in Fans :
        (chipsetOn /\ acpiMode /\ ~fan_fault[f])
            ~> (thermal_control_enabled[f] \/ ~chipsetOn \/ ~acpiMode
                \/ fan_fault[f])

\* get_fan_level()/get_fan_RPM() index data[] by the level alone: the
\* level of every sensor the loop consults is a row of the table it now
\* reads (num_pairs = ARRAY_SIZE of that table).
LevelInTable ==
    \A c \in DOMAIN Tables : g_fanLevel[c] < Len(Tables[c])
=============================================================================
