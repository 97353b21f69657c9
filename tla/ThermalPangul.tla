---------------------------- MODULE ThermalPangul ----------------------------
(***************************************************************************)
(* board/pangul/thermalInfo.c: the fan tables of the Renoir board and the  *)
(* level/RPM computation thermal_control() calls each second.  There is    *)
(* one UMA and one GFX set, every table has six rows, and LEVEL_COUNT is   *)
(* six.  With a graphics card the system fan does not consult SSD2.        *)
(***************************************************************************)
EXTENDS ThermalTable

UMA_SYS_FAN_START_TEMP == 36
UMA_CPU_FAN_START_TEMP == 39
GFX_SYS_FAN_START_TEMP == 39
GFX_CPU_FAN_START_TEMP == 40

\* enum thermal_level: LEVEL1 .. LEVEL6, LEVEL_COUNT.
LEVEL_COUNT == 6

uma_thermal_sys_fan_ssd1_ntc ==
    Table(<< <<600, 53, UMA_SYS_FAN_START_TEMP>>, <<800, 54, 51>>,
              <<1000, 55, 52>>, <<1300, 58, 53>>, <<1700, 62, 56>>,
              <<2800, 62, 60>> >>)
uma_thermal_sys_fan_ssd2_ntc ==
    Table(<< <<600, 64, UMA_SYS_FAN_START_TEMP>>, <<800, 65, 62>>,
              <<1000, 66, 63>>, <<1300, 72, 64>>, <<1700, 78, 69>>,
              <<2800, 78, 76>> >>)
uma_thermal_sys_fan_memory_ntc ==
    Table(<< <<600, 55, UMA_SYS_FAN_START_TEMP>>, <<800, 60, 53>>,
              <<1000, 65, 58>>, <<1300, 69, 63>>, <<1700, 72, 67>>,
              <<2800, 72, 70>> >>)
uma_thermal_cpu_fan_cpu_dts ==
    Table(<< <<700, 60, UMA_CPU_FAN_START_TEMP>>, <<900, 70, 57>>,
              <<1100, 78, 67>>, <<1300, 89, 75>>, <<1700, 96, 85>>,
              <<2800, 96, 95>> >>)
uma_thermal_cpu_fan_cpu_ntc ==
    Table(<< <<700, 60, UMA_CPU_FAN_START_TEMP>>, <<900, 68, 57>>,
              <<1100, 75, 65>>, <<1300, 82, 72>>, <<1700, 88, 79>>,
              <<2800, 88, 86>> >>)
gfx_thermal_sys_fan_ssd1_ntc ==
    Table(<< <<500, 60, GFX_SYS_FAN_START_TEMP>>, <<600, 62, 52>>,
              <<900, 65, 56>>, <<1300, 67, 59>>, <<1600, 71, 61>>,
              <<2800, 66, 64>> >>)
gfx_thermal_sys_fan_memory_ntc ==
    Table(<< <<500, 55, GFX_SYS_FAN_START_TEMP>>, <<600, 60, 53>>,
              <<900, 65, 58>>, <<1300, 69, 63>>, <<1500, 72, 67>>,
              <<2800, 72, 70>> >>)
gfx_thermal_sys_fan_pciex16_ntc ==
    Table(<< <<500, 54, GFX_SYS_FAN_START_TEMP>>, <<600, 57, 50>>,
              <<900, 60, 54>>, <<1300, 64, 58>>, <<1500, 71, 62>>,
              <<2800, 71, 69>> >>)
gfx_thermal_cpu_fan_cpu_dts ==
    Table(<< <<800, 60, GFX_CPU_FAN_START_TEMP>>, <<900, 70, 57>>,
              <<1100, 78, 67>>, <<1300, 89, 75>>, <<1600, 96, 87>>,
              <<2800, 96, 95>> >>)
gfx_thermal_cpu_fan_cpu_ntc ==
    Table(<< <<800, 60, GFX_CPU_FAN_START_TEMP>>, <<900, 68, 57>>,
              <<1100, 75, 65>>, <<1300, 82, 72>>, <<1600, 88, 79>>,
              <<2800, 87, 86>> >>)

\* get_fan_level() without the top-level test on the raise.
get_fan_level_no_top(temp, fan_level, fantable) ==
    LET data == Row(fantable, fan_level)
        up   == IF temp >= data.HowTri THEN 1 ELSE 0
        down == IF fan_level > 0 /\ temp < data.lowTri THEN 1 ELSE 0
    IN  fan_level + up - down

\* get_fan_level(): the same hysteresis step as the Rocket Lake board's,
\* bounded by this board's LEVEL_COUNT.
get_fan_level(temp, fan_level, fantable) ==
    LET data == Row(fantable, fan_level)
        up   == IF fan_level < LEVEL_COUNT - 1 /\ temp >= data.HowTri
                THEN 1 ELSE 0
        down == IF fan_level > 0 /\ temp < data.lowTri THEN 1 ELSE 0
    IN  fan_level + up - down

cpu_tables(thermalMode) ==
    IF thermalMode = "GFX"
    THEN [CPU_DTS |-> gfx_thermal_cpu_fan_cpu_dts,
          CPU_NTC |-> gfx_thermal_cpu_fan_cpu_ntc]
    ELSE [CPU_DTS |-> uma_thermal_cpu_fan_cpu_dts,
          CPU_NTC |-> uma_thermal_cpu_fan_cpu_ntc]

sys_tables(thermalMode) ==
    IF thermalMode = "GFX"
    THEN [SSD1_NTC    |-> gfx_thermal_sys_fan_ssd1_ntc,
          MEMORY_NTC  |-> gfx_thermal_sys_fan_memory_ntc,
          PCIEX16_NTC |-> gfx_thermal_sys_fan_pciex16_ntc]
    ELSE [SSD1_NTC    |-> uma_thermal_sys_fan_ssd1_ntc,
          SSD2_NTC    |-> uma_thermal_sys_fan_ssd2_ntc,
          MEMORY_NTC  |-> uma_thermal_sys_fan_memory_ntc]

cpu_fan_start_temp(thermalMode, ambient) ==
    StartOffset(IF thermalMode = "GFX" THEN GFX_CPU_FAN_START_TEMP
                                       ELSE UMA_CPU_FAN_START_TEMP, ambient)

sys_fan_start_temp(thermalMode, ambient) ==
    StartOffset(IF thermalMode = "GFX" THEN GFX_SYS_FAN_START_TEMP
                                       ELSE UMA_SYS_FAN_START_TEMP, ambient)

cpu_fan_check_RPM(thermalMode, temps, level) ==
    LET tables == cpu_tables(thermalMode)
    IN  FanCheck([c \in DOMAIN tables |->
                     get_fan_level(temps[c], level[c], tables[c])],
                 tables,
                 cpu_fan_start_temp(thermalMode, temps["AMBIENCE_NTC"]),
                 level)

sys_fan_check_RPM(thermalMode, temps, level) ==
    LET tables == sys_tables(thermalMode)
    IN  FanCheck([c \in DOMAIN tables |->
                     get_fan_level(temps[c], level[c], tables[c])],
                 tables,
                 sys_fan_start_temp(thermalMode, temps["AMBIENCE_NTC"]),
                 level)
=============================================================================
