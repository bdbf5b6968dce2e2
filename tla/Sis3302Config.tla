--------------------------- MODULE Sis3302Config ---------------------------
(* LoadConfig() of a Sis3302, for a configuration conf.                    *)
EXTENDS ConfigOps

(***************************************************************************)
(* The clock (rates in MHz).                                               *)
(***************************************************************************)
\* The highest rate that is not above the set point, or else the lowest.
ClockCode(clk) ==
  CASE clk >= 100 -> 0 [] clk \in 50..99 -> 1 [] clk \in 25..49 -> 2
    [] clk \in 10..24 -> 3 [] OTHER -> 4

(***************************************************************************)
(* The steps.                                                              *)
(***************************************************************************)
Sis3302Find ==
  << Read(R("CONTROL_STATUS"), TRUE),
     Write(R("KEY_RESET"), {0}, TRUE),
     Read(R("MODID"), TRUE) >>

\* The mask that is meant for the reserved bits leaves bits 0 and 16.
Sis3302Control(conf) ==
  LET msg == (IF "invert_ext_lemo" \in conf.opts THEN {4} ELSE {})
               \cup (IF "user_led_on" \in conf.opts THEN {0} ELSE {})
  IN  << Put(R("CONTROL_STATUS"), JK(msg) \cap {0, 16}, TRUE),
         Read(R("CONTROL_STATUS"), TRUE) >>

Sis3302Acquisition(conf) ==
  LET clock == IF "enable_ext_clk" \in conf.opts THEN 5 ELSE ClockCode(Numbers["int_clk_setting_MHz"])
      msg == (IF "enable_int_stop" \in conf.opts THEN {6} ELSE {})
               \cup (IF "enable_ext_lemo" \in conf.opts THEN {8} ELSE {})
               \cup Up(Bits(clock), 12)
  IN  << Put(R("ACQUISITION_CONTROL"),
               JK(msg) \cap (4..8 \cup 10..14 \cup 20..24 \cup 26..30), TRUE),
         Read(R("ACQUISITION_CONTROL"), TRUE) >>

Sis3302Event(conf) ==
  << Put(R("START_DELAY"), Bits(Numbers["start_delay"]), TRUE),
     Put(R("STOP_DELAY"), Bits(Numbers["stop_delay"]), TRUE),
     Read(R("EVENT_CONFIG_ADC12"), TRUE),
     PutMsg(R("EVENT_CONFIG_ALL_ADC"), {},
              IF "enable_event_length_stop" \in conf.opts THEN {5} ELSE {}, TRUE),
     Put(R("SAMPLE_LENGTH_ALL_ADC"),
           Bits(conf.trace_len - 4 + 512) \cap 2..23, TRUE),
     Put(R("PRETRIGGER_DELAY_ALL_ADC"), Bits(Numbers["pretrigger_samples"]), TRUE),
     Put(R("ADC_MEMORY_PAGE"), {}, TRUE) >>

Sis3302LoadConfig(conf) ==
  Sis3302Find \o Sis3302Control(conf) \o Sis3302Acquisition(conf) \o Sis3302Event(conf)
=============================================================================
