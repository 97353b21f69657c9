---------------------------- MODULE ThermalTable ----------------------------
(***************************************************************************)
(* The fan tables of board/pangub/thermalInfo.c and board/pangul/          *)
(* thermalInfo.c.  A table (struct thermal_level_s) points at an array of  *)
(* struct thermal_level_ags rows {level, RPM, HowTri, lowTri}; the level   *)
(* field is the row's index, so a table is the sequence of its rows with   *)
(* the index left implicit (row l + 1 holds level l).  num_pairs is set    *)
(* by every table and read by no code, so it is not a field here.         *)
(***************************************************************************)
EXTENDS Integers, Sequences, FiniteSetsExt

CONSTANT
    \* The row data[6] of a six-row array: get_fan_level and get_fan_RPM
    \* index data[] with the level alone, so on a six-row table at level 6
    \* they read the bytes that follow the array.  Those bytes are fixed by
    \* the build, so one record stands for them.
    Beyond

\* A const struct thermal_level_ags array, given as <<RPM, HowTri, lowTri>>.
Table(rows) ==
    [i \in 1..Len(rows) |-> [RPM |-> rows[i][1], HowTri |-> rows[i][2],
                             lowTri |-> rows[i][3]]]

\* data[fan_level]: the row at that level, or what lies past the array.
Row(fantable, fan_level) ==
    IF fan_level < Len(fantable) THEN fantable[fan_level + 1] ELSE Beyond

\* get_fan_RPM(): the RPM of the row at the level.
get_fan_RPM(fan_level, fantable) == Row(fantable, fan_level).RPM

\* enum temp_sensor_id: the sensors whose averaged temperatures
\* thermal_control() copies out of the memory map each second.
TempSensors ==
    {"CPU_DTS", "AMBIENCE_NTC", "SSD1_NTC", "PCIEX16_NTC", "CPU_NTC",
     "MEMORY_NTC", "SSD2_NTC"}

\* The sensors temperature_protection_mechanism() watches, each with its
\* TEMP_*_PROTECTION limit and the LOG_ID_SHUTDOWN_* id it powers off with.
ProtectionLimit ==
    [CPU_DTS |-> 105, CPU_NTC |-> 105, SSD1_NTC |-> 90, MEMORY_NTC |-> 90,
     AMBIENCE_NTC |-> 70, SSD2_NTC |-> 90]
ShutdownId ==
    [CPU_DTS |-> "0x30", CPU_NTC |-> "0x31", SSD1_NTC |-> "0x38",
     MEMORY_NTC |-> "0x35", AMBIENCE_NTC |-> "0x37", SSD2_NTC |-> "0x49"]
TEMP_PROTECTION_COUNT == 5

\* Mutant: the power-off fires one second past TEMP_PROTECTION_COUNT.
ProtectionStep_past_count(temps, time) ==
    LET t     == [s \in DOMAIN time |->
                    IF temps[s] >= ProtectionLimit[s] THEN time[s] + 1
                    ELSE IF time[s] > 0 THEN time[s] - 1 ELSE time[s]]
        fired == {s \in DOMAIN time : t[s] > TEMP_PROTECTION_COUNT}
    IN  [time |-> [s \in DOMAIN time |-> IF s \in fired THEN 0 ELSE t[s]],
         off  |-> {ShutdownId[s] : s \in fired}]

\* Mutant: the limit test is made on the count before this second's update.
ProtectionStep_count_late(temps, time) ==
    LET t     == [s \in DOMAIN time |->
                    IF temps[s] >= ProtectionLimit[s] THEN time[s] + 1
                    ELSE IF time[s] > 0 THEN time[s] - 1 ELSE time[s]]
        fired == {s \in DOMAIN time : time[s] + 1 >= TEMP_PROTECTION_COUNT}
    IN  [time |-> [s \in DOMAIN time |-> IF s \in fired THEN 0 ELSE t[s]],
         off  |-> {ShutdownId[s] : s \in fired}]

\* One call of temperature_protection_mechanism(): each watched sensor's
\* g_fanProtect[].time counts up in a second at or above its limit and
\* down (not below 0) in any other; reaching TEMP_PROTECTION_COUNT forces
\* the power off with the sensor's id and restarts the count.  The boards'
\* copies differ only in the power-off call, which the caller models.
ProtectionStep(temps, time) ==
    LET t     == [s \in DOMAIN time |->
                    IF temps[s] >= ProtectionLimit[s] THEN time[s] + 1
                    ELSE IF time[s] > 0 THEN time[s] - 1 ELSE time[s]]
        fired == {s \in DOMAIN time : t[s] >= TEMP_PROTECTION_COUNT}
    IN  [time |-> [s \in DOMAIN time |-> IF s \in fired THEN 0 ELSE t[s]],
         off  |-> {ShutdownId[s] : s \in fired}]

\* The per-sensor block of cpu_fan_check_RPM() and sys_fan_check_RPM():
\* given every consulted sensor's new level (from the board's
\* get_fan_level), the RPM of each is the row at that level; the target is
\* the largest RPM plus the ambient start offset.  Sensors the mode does
\* not consult keep their level.
FanCheck(new, tables, offset, level) ==
    [level |-> [c \in DOMAIN level |->
                   IF c \in DOMAIN tables THEN new[c] ELSE level[c]],
     rpm   |-> Max({get_fan_RPM(new[c], tables[c]) : c \in DOMAIN tables})
               + offset]

\* cpu_fan_start_temp() / sys_fan_start_temp(): TEMP_MULTIPLE rpm per
\* degree the ambient sensor is at or above the fan's start temperature.
StartOffset(start, ambient) ==
    IF ambient >= start THEN (ambient - start) * 100 ELSE 0
=============================================================================
