---------------------------- MODULE MCLoadConfig ----------------------------
(* LoadConfig for TLC: the sample configurations' numbers; every switch on, *)
(* every switch off, and the ones of the samples.                           *)
EXTENDS LoadConfig

MCNumbers ==
  [o \in {"start_delay", "stop_delay", "pretrigger_samples", "int_clk_setting_MHz",
          "channel_offset", "channel_gain", "iob_tap_delay", "dac_voltage_offset",
          "sampling_rate", "pretrigger_delay"} |->
     CASE o = "start_delay" -> 0 [] o = "stop_delay" -> 0
       [] o = "pretrigger_samples" -> 4095 [] o = "int_clk_setting_MHz" -> 40
       [] o = "channel_offset" -> 150 [] o = "channel_gain" -> 85
       [] o = "iob_tap_delay" -> 4128 [] o = "dac_voltage_offset" -> 32768
       [] o = "sampling_rate" -> 1000 [] o = "pretrigger_delay" -> 50]

AllOptions ==
  {"user_led_on", "invert_ext_lemo", "enable_ext_lemo", "enable_int_stop",
   "enable_ext_clk", "enable_event_length_stop", "enable_ext_trg", "invert_ext_trg",
   "enable_int_trg", "set_voltage_offset", "write_correction_data_csv", "running"}

MCOptionSets ==
  {{}, AllOptions,
   {"enable_ext_lemo", "enable_int_stop", "enable_event_length_stop",
    "enable_ext_trg", "set_voltage_offset"}}
=============================================================================
