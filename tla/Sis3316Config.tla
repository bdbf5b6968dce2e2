--------------------------- MODULE Sis3316Config ---------------------------
(* LoadConfig() of a Sis3316, for a configuration conf.                    *)
EXTENDS ConfigOps

Sis3316Find ==
  << Read(R("CONTROL_STATUS"), TRUE), Read(R("MODID"), TRUE),
     Read(R("HARDWARE_VERSION"), TRUE) >>
    \o EachGroup([gr \in Groups |-> << Read(<<"CH1_4_FIRMWARE", gr>>, TRUE) >>])
    \o << Read(R("INTERNAL_TEMPERATURE"), TRUE) >>

Sis3316Reset ==
  << Write(R("KEY_RESET"), {0}, TRUE), Write(R("KEY_DISARM"), {0}, TRUE) >>

AdcOutput(word) == EachGroup([gr \in Groups |-> << Write(<<"CH1_4_SPI_CTRL", gr>>, word, TRUE) >>])

AdcRegister(addr, value) == EachGroup([gr \in Groups |-> << AdcSpi(gr, addr, value) >>])

\* Off; reset, reference voltage, output mode, update; on.
Sis3316Adcs ==
  AdcOutput({}) \o AdcRegister(0, Bits(36)) \o AdcRegister(20, Bits(64))
    \o AdcRegister(24, Bits(192)) \o AdcRegister(255, {0}) \o AdcOutput({24})

NimInput(conf) ==
  << Put(R("NIM_INPUT_CONTROL"),
           (IF "enable_ext_trg" \in conf.opts THEN {4} ELSE {})
             \cup (IF "invert_ext_trg" \in conf.opts THEN {5} ELSE {})
             \cup (IF "enable_ext_clk" \in conf.opts THEN {0} ELSE {}), TRUE) >>

Disarm == << Write(R("KEY_DISARM"), {0}, TRUE) >>

Sis3316Clock(conf) ==
  Disarm
    \o (IF "enable_ext_clk" \in conf.opts
        THEN << Write(R("SAMPLE_CLOCK_DISTRIBUTION_CONTROL"), {0, 1}, TRUE) >>
               \o NimInput(conf)
               \o << Si5325(136, Bits(128)), Si5325(0, {1}), Si5325(11, {1}),
                     Si5325(136, Bits(64)) >>
        ELSE << Oscillator >>)
    \o << Write(R("KEY_ADC_CLOCK_DCM_RESET"), {}, TRUE) >>

\* The truncation of a tap delay of more than 16 bits never happens: != binds
\* tighter than & (line 339).
TapDelay ==
  EachGroup([gr \in Groups |-> << Write(<<"CH1_4_INPUT_TAP_DELAY", gr>>, 8..11, TRUE) >>])
    \o EachGroup([gr \in Groups |->
         << Write(<<"CH1_4_INPUT_TAP_DELAY", gr>>,
                  Bits(768 + Numbers["iob_tap_delay"]), TRUE) >>])

ChannelHeaders ==
  EachGroup([gr \in Groups |-> << Put(<<"CH1_4_CHANNEL_HEADER", gr>>, Bits(4194304 * gr), TRUE) >>])

\* Three commands to the same register: reference on, offset, load.
DacOffsets(conf) ==
  (IF "set_voltage_offset" \in conf.opts
   THEN EachGroup([gr \in Groups |->
     LET addr == <<"CH1_4_DAC_OFFSET_CTRL", gr>>
     IN  << Write(addr, {31, 27, 23, 22, 21, 20, 0}, TRUE),
            Put(addr, {31, 25} \cup 20..23
                          \cup Up(Low(Bits(Numbers["dac_voltage_offset"]), 16), 4), TRUE),
            Write(addr, {30, 31}, TRUE) >>])
   ELSE <<>>)
  \o EachGroup([gr \in Groups |-> << Read(<<"CH1_4_DAC_OFFSET_READBACK", gr>>, TRUE) >>])

\* A trace longer than 16 bits goes to the extended register as well.
BufferLengths(conf) ==
  EachGroup([gr \in Groups |->
    << Put(<<"CH1_4_TRIGGER_GATE_WINDOW_LENGTH", gr>>, Low(Bits(conf.trace_len - 2), 16), TRUE),
       Put(<<"CH1_4_RAW_DATA_BUFFER_CONFIG", gr>>, Up(Bits(conf.trace_len), 16), TRUE) >>
      \o (IF conf.trace_len > 65535
          THEN << Put(<<"CH1_4_EXTENDED_RAW_DATA_BUFFER_CONFIG", gr>>,
                        Low(Bits(conf.trace_len), 25), TRUE) >>
          ELSE <<>>)])

PreTrigger ==
  EachGroup([gr \in Groups |->
    << Put(<<"CH1_4_PRE_TRIGGER_DELAY", gr>>,
             Low(Bits(Numbers["pretrigger_samples"]), 14), TRUE) >>])

\* Seeded fault: a failed read of the event configuration is not counted.
EventConfig_Uncounted(conf) ==
  LET set == (IF "enable_ext_trg" \in conf.opts THEN {3, 11, 19, 27} ELSE {})
               \cup (IF "enable_int_trg" \in conf.opts THEN {2, 10, 18, 26} ELSE {})
  IN  EachGroup([gr \in Groups |->
        << Read(<<"CH1_4_EVENT_CONFIG", gr>>, FALSE),
           PutMsg(<<"CH1_4_EVENT_CONFIG", gr>>, {}, set, TRUE) >>])

EventConfig(conf) ==
  LET set == (IF "enable_ext_trg" \in conf.opts THEN {3, 11, 19, 27} ELSE {})
               \cup (IF "enable_int_trg" \in conf.opts THEN {2, 10, 18, 26} ELSE {})
  IN  EachGroup([gr \in Groups |->
        << Read(<<"CH1_4_EVENT_CONFIG", gr>>, TRUE),
           PutMsg(<<"CH1_4_EVENT_CONFIG", gr>>, {}, set, TRUE) >>])

DataFormat(conf) ==
  EachGroup([gr \in Groups |->
    << Write(<<"CH1_4_DATAFORMAT_CONFIG", gr>>, {}, TRUE),
       Write(<<"CH1_4_ADDRESS_THRESHOLD", gr>>, Bits(2 + conf.trace_len \div 2), TRUE) >>])

Sis3316Outputs(conf) ==
  << Put(R("ACQUISITION_CONTROL"),
           {10} \cup (IF "enable_ext_trg" \in conf.opts THEN {8} ELSE {}), TRUE),
     Write(R("LEMO_OUT_CO_SELECT"), {0}, TRUE),
     Write(R("LEMO_OUT_TO_SELECT"), {25}, TRUE),
     Write(R("KEY_TIMESTAMP_CLR"), {0}, TRUE) >>

Sis3316Arm == << Write(R("KEY_DISARM_AND_ARM_BANK1"), {0}, TRUE) >>

Sis3316LoadConfig(conf) ==
  Sis3316Find \o Sis3316Reset \o Sis3316Adcs \o NimInput(conf) \o Sis3316Clock(conf)
    \o AdcOutput({24}) \o TapDelay \o ChannelHeaders \o DacOffsets(conf)
    \o BufferLengths(conf) \o PreTrigger \o EventConfig(conf) \o DataFormat(conf)
    \o Sis3316Outputs(conf) \o Sis3316Arm
=============================================================================
