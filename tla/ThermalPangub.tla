---------------------------- MODULE ThermalPangub ----------------------------
(***************************************************************************)
(* board/pangub/thermalInfo.c: the fan tables of the Rocket Lake board and *)
(* the level/RPM computation thermal_control() calls each second.  The     *)
(* UMA tables (no graphics card) come in an i3, i5 and i7 set chosen by    *)
(* cpu_model; the GFX tables are shared.  The UMA tables have seven rows,  *)
(* LEVEL_COUNT; the GFX tables have six.                                   *)
(***************************************************************************)
EXTENDS ThermalTable

UMA_SYS_FAN_START_TEMP == 36
UMA_CPU_FAN_START_TEMP == 37
GFX_SYS_FAN_START_TEMP == 39
GFX_CPU_FAN_START_TEMP == 40

\* enum thermal_level: LEVEL1 .. LEVEL7, LEVEL_COUNT.
LEVEL_COUNT == 7

i3_uma_thermal_sys_fan_ssd1_ntc ==
    Table(<< <<800, 40, UMA_SYS_FAN_START_TEMP>>, <<900, 52, 39>>,
              <<1200, 55, 51>>, <<1500, 58, 54>>, <<1800, 61, 57>>,
              <<2000, 65, 60>>, <<2800, 65, 64>> >>)
i3_uma_thermal_sys_fan_ssd2_ntc ==
    Table(<< <<800, 40, UMA_SYS_FAN_START_TEMP>>, <<900, 52, 39>>,
              <<1200, 55, 51>>, <<1500, 58, 54>>, <<1800, 61, 57>>,
              <<2000, 65, 60>>, <<2800, 65, 64>> >>)
i3_uma_thermal_sys_fan_memory_ntc ==
    Table(<< <<800, 39, UMA_SYS_FAN_START_TEMP>>, <<900, 55, 38>>,
              <<1200, 58, 54>>, <<1500, 60, 57>>, <<1800, 62, 59>>,
              <<2000, 70, 61>>, <<2800, 70, 69>> >>)
i3_uma_thermal_cpu_fan_cpu_dts ==
    Table(<< <<800, 35, UMA_CPU_FAN_START_TEMP>>, <<1000, 65, 33>>,
              <<1200, 80, 63>>, <<1500, 84, 78>>, <<1700, 91, 82>>,
              <<1900, 97, 89>>, <<2800, 97, 95>> >>)
i3_uma_thermal_cpu_fan_cpu_ntc ==
    Table(<< <<800, 35, UMA_CPU_FAN_START_TEMP>>, <<1000, 60, 33>>,
              <<1200, 72, 58>>, <<1500, 76, 70>>, <<1700, 81, 74>>,
              <<1900, 88, 79>>, <<2800, 88, 86>> >>)
i5_uma_thermal_sys_fan_ssd1_ntc ==
    Table(<< <<700, 40, UMA_SYS_FAN_START_TEMP>>, <<900, 52, 39>>,
              <<1200, 55, 51>>, <<1500, 58, 54>>, <<1800, 61, 57>>,
              <<2000, 65, 60>>, <<2800, 65, 64>> >>)
i5_uma_thermal_sys_fan_ssd2_ntc ==
    Table(<< <<700, 40, UMA_SYS_FAN_START_TEMP>>, <<900, 52, 39>>,
              <<1200, 55, 51>>, <<1500, 58, 54>>, <<1800, 61, 57>>,
              <<2000, 65, 60>>, <<2800, 65, 64>> >>)
i5_uma_thermal_sys_fan_memory_ntc ==
    Table(<< <<700, 39, UMA_SYS_FAN_START_TEMP>>, <<900, 55, 38>>,
              <<1200, 58, 54>>, <<1500, 60, 57>>, <<1800, 62, 59>>,
              <<2000, 70, 61>>, <<2800, 70, 69>> >>)
i5_uma_thermal_cpu_fan_cpu_dts ==
    Table(<< <<800, 35, UMA_CPU_FAN_START_TEMP>>, <<1000, 68, 33>>,
              <<1200, 75, 66>>, <<1500, 83, 73>>, <<1700, 91, 81>>,
              <<1900, 97, 89>>, <<2800, 97, 95>> >>)
i5_uma_thermal_cpu_fan_cpu_ntc ==
    Table(<< <<800, 35, UMA_CPU_FAN_START_TEMP>>, <<1000, 62, 33>>,
              <<1200, 70, 60>>, <<1500, 77, 68>>, <<1700, 81, 75>>,
              <<1900, 88, 79>>, <<2800, 88, 86>> >>)
i7_uma_thermal_sys_fan_ssd1_ntc ==
    Table(<< <<700, 40, UMA_SYS_FAN_START_TEMP>>, <<900, 52, 39>>,
              <<1200, 55, 51>>, <<1500, 58, 54>>, <<1800, 61, 57>>,
              <<2000, 65, 60>>, <<2800, 65, 64>> >>)
i7_uma_thermal_sys_fan_ssd2_ntc ==
    Table(<< <<700, 40, UMA_SYS_FAN_START_TEMP>>, <<900, 52, 39>>,
              <<1200, 55, 51>>, <<1500, 58, 54>>, <<1800, 61, 57>>,
              <<2000, 65, 60>>, <<2800, 65, 64>> >>)
i7_uma_thermal_sys_fan_memory_ntc ==
    Table(<< <<700, 39, UMA_SYS_FAN_START_TEMP>>, <<900, 55, 38>>,
              <<1200, 58, 54>>, <<1500, 60, 57>>, <<1800, 62, 59>>,
              <<2000, 70, 61>>, <<2800, 70, 69>> >>)
i7_uma_thermal_cpu_fan_cpu_dts ==
    Table(<< <<700, 35, UMA_CPU_FAN_START_TEMP>>, <<1000, 70, 33>>,
              <<1200, 74, 68>>, <<1500, 80, 72>>, <<1700, 88, 78>>,
              <<1900, 95, 86>>, <<2800, 95, 93>> >>)
i7_uma_thermal_cpu_fan_cpu_ntc ==
    Table(<< <<700, 35, UMA_CPU_FAN_START_TEMP>>, <<1000, 60, 33>>,
              <<1200, 74, 58>>, <<1500, 80, 72>>, <<1700, 88, 78>>,
              <<1900, 95, 86>>, <<2800, 95, 93>> >>)
gfx_thermal_sys_fan_ssd1_ntc ==
    Table(<< <<500, 60, GFX_SYS_FAN_START_TEMP>>, <<800, 62, 52>>,
              <<1000, 65, 56>>, <<1300, 67, 59>>, <<1500, 71, 61>>,
              <<2800, 71, 64>> >>)
gfx_thermal_sys_fan_ssd2_ntc ==
    Table(<< <<500, 64, GFX_SYS_FAN_START_TEMP>>, <<800, 65, 62>>,
              <<1000, 66, 63>>, <<1300, 72, 64>>, <<1500, 78, 69>>,
              <<2800, 78, 76>> >>)
gfx_thermal_sys_fan_memory_ntc ==
    Table(<< <<500, 55, GFX_SYS_FAN_START_TEMP>>, <<800, 60, 53>>,
              <<1000, 65, 58>>, <<1300, 69, 63>>, <<1500, 72, 67>>,
              <<2800, 72, 70>> >>)
gfx_thermal_sys_fan_pciex16_ntc ==
    Table(<< <<500, 58, GFX_SYS_FAN_START_TEMP>>, <<800, 62, 54>>,
              <<1000, 65, 58>>, <<1300, 71, 62>>, <<1500, 75, 66>>,
              <<2800, 75, 73>> >>)
gfx_thermal_cpu_fan_cpu_dts ==
    Table(<< <<700, 60, GFX_CPU_FAN_START_TEMP>>, <<1000, 68, 57>>,
              <<1300, 77, 65>>, <<1600, 89, 71>>, <<1800, 96, 87>>,
              <<2800, 96, 95>> >>)
gfx_thermal_cpu_fan_cpu_ntc ==
    Table(<< <<700, 60, GFX_CPU_FAN_START_TEMP>>, <<1000, 69, 57>>,
              <<1300, 78, 65>>, <<1600, 82, 72>>, <<1800, 88, 79>>,
              <<2800, 88, 86>> >>)

\* get_fan_level() with the lower threshold read from the wrong column.
get_fan_level_low_uses_how(temp, fan_level, fantable) ==
    LET data == Row(fantable, fan_level)
        up   == IF fan_level < LEVEL_COUNT - 1 /\ temp >= data.HowTri
                THEN 1 ELSE 0
        down == IF fan_level > 0 /\ temp < data.HowTri THEN 1 ELSE 0
    IN  fan_level + up - down

\* get_fan_level(): one step of hysteresis.  Below the top level a reading
\* at or above the row's HowTri raises the level; above level 0 a reading
\* under the row's lowTri lowers it; both tests read the row of the level
\* the fan is at, data[fan_level], whatever the table's length.
get_fan_level(temp, fan_level, fantable) ==
    LET data == Row(fantable, fan_level)
        up   == IF fan_level < LEVEL_COUNT - 1 /\ temp >= data.HowTri
                THEN 1 ELSE 0
        down == IF fan_level > 0 /\ temp < data.lowTri THEN 1 ELSE 0
    IN  fan_level + up - down

\* The tables cpu_fan_check_RPM() reads: by cpu_model in UMA mode
\* (1: i3, 2: i5, anything else: i7), the GFX ones otherwise.
cpu_tables(thermalMode, cpu_model) ==
    IF thermalMode = "GFX"
    THEN [CPU_DTS |-> gfx_thermal_cpu_fan_cpu_dts,
          CPU_NTC |-> gfx_thermal_cpu_fan_cpu_ntc]
    ELSE CASE cpu_model = 1 -> [CPU_DTS |-> i3_uma_thermal_cpu_fan_cpu_dts,
                                CPU_NTC |-> i3_uma_thermal_cpu_fan_cpu_ntc]
           [] cpu_model = 2 -> [CPU_DTS |-> i5_uma_thermal_cpu_fan_cpu_dts,
                                CPU_NTC |-> i5_uma_thermal_cpu_fan_cpu_ntc]
           [] OTHER         -> [CPU_DTS |-> i7_uma_thermal_cpu_fan_cpu_dts,
                                CPU_NTC |-> i7_uma_thermal_cpu_fan_cpu_ntc]

\* The tables sys_fan_check_RPM() reads: SSD1, SSD2 and memory in UMA mode
\* (by cpu_model), and the PCIe x16 sensor as well with a graphics card.
sys_tables(thermalMode, cpu_model) ==
    IF thermalMode = "GFX"
    THEN [SSD1_NTC    |-> gfx_thermal_sys_fan_ssd1_ntc,
          SSD2_NTC    |-> gfx_thermal_sys_fan_ssd2_ntc,
          MEMORY_NTC  |-> gfx_thermal_sys_fan_memory_ntc,
          PCIEX16_NTC |-> gfx_thermal_sys_fan_pciex16_ntc]
    ELSE CASE cpu_model = 1 -> [SSD1_NTC |-> i3_uma_thermal_sys_fan_ssd1_ntc,
                                SSD2_NTC |-> i3_uma_thermal_sys_fan_ssd2_ntc,
                                MEMORY_NTC |-> i3_uma_thermal_sys_fan_memory_ntc]
           [] cpu_model = 2 -> [SSD1_NTC |-> i5_uma_thermal_sys_fan_ssd1_ntc,
                                SSD2_NTC |-> i5_uma_thermal_sys_fan_ssd2_ntc,
                                MEMORY_NTC |-> i5_uma_thermal_sys_fan_memory_ntc]
           [] OTHER         -> [SSD1_NTC |-> i7_uma_thermal_sys_fan_ssd1_ntc,
                                SSD2_NTC |-> i7_uma_thermal_sys_fan_ssd2_ntc,
                                MEMORY_NTC |-> i7_uma_thermal_sys_fan_memory_ntc]

cpu_fan_start_temp(thermalMode, ambient) ==
    StartOffset(IF thermalMode = "GFX" THEN GFX_CPU_FAN_START_TEMP
                                       ELSE UMA_CPU_FAN_START_TEMP, ambient)

sys_fan_start_temp(thermalMode, ambient) ==
    StartOffset(IF thermalMode = "GFX" THEN GFX_SYS_FAN_START_TEMP
                                       ELSE UMA_SYS_FAN_START_TEMP, ambient)

\* cpu_fan_check_RPM() / sys_fan_check_RPM(): the new g_fanLevel and the
\* fan's rpm_target.
cpu_fan_check_RPM(thermalMode, cpu_model, temps, level) ==
    LET tables == cpu_tables(thermalMode, cpu_model)
    IN  FanCheck([c \in DOMAIN tables |->
                     get_fan_level(temps[c], level[c], tables[c])],
                 tables,
                 cpu_fan_start_temp(thermalMode, temps["AMBIENCE_NTC"]),
                 level)

sys_fan_check_RPM(thermalMode, cpu_model, temps, level) ==
    LET tables == sys_tables(thermalMode, cpu_model)
    IN  FanCheck([c \in DOMAIN tables |->
                     get_fan_level(temps[c], level[c], tables[c])],
                 tables,
                 sys_fan_start_temp(thermalMode, temps["AMBIENCE_NTC"]),
                 level)
=============================================================================
