--------------------------- MODULE Sis3350Config ---------------------------
(* LoadConfig() of a Sis3350, for a configuration conf.  No failure counts: *)
(* every one is logged and the next step follows.                           *)
EXTENDS ConfigOps

Sis3350Find ==
  << Read(R("0x0"), FALSE), Write(R("0x400"), {0}, FALSE), Read(R("0x4"), FALSE) >>

Sis3350Control(conf) ==
  LET status == (IF "invert_ext_lemo" \in conf.opts THEN {4} ELSE {})
                  \cup (IF "user_led_on" \in conf.opts THEN {0} ELSE {})
      acquisition == {0} \cup (IF "enable_ext_lemo" \in conf.opts THEN {8} ELSE {})
      kept == {0, 1, 2, 5, 6, 8, 9, 12, 13}
  IN  << Put(R("0x0"), JK(status) \cap {0, 4, 16, 20}, FALSE),
         Read(R("0x0"), FALSE),
         Put(R("0x10"), JK(acquisition) \cap (kept \cup Up(kept, 16)), FALSE),
         Read(R("0x10"), FALSE) >>

Sis3350Clock ==
  << Put(R("0x1c"), Bits(20), FALSE),
     Put(R("0x34"), {}, FALSE),
     Put(R("0x38"), {0}, FALSE) >>

\* Seeded fault: the shift register is not waited for.
Dac_NoWait(reg, channel, value, data) ==
  << Put(data, value, FALSE),
     StartOf(reg, reg, channel \cup {0}),
     StartOf(reg, reg, channel \cup {1}), Poll(reg, reg) >>

\* A value for a DAC: into the shift register, then from there to the DAC, each
\* with a wait for the busy bit.
Dac(reg, channel, value, data) ==
  << Put(data, value, FALSE),
     StartOf(reg, reg, channel \cup {0}), Poll(reg, reg),
     StartOf(reg, reg, channel \cup {1}), Poll(reg, reg) >>

Sis3350Threshold ==
  Dac(R("0x50"), {4}, Bits(35000), R("0x54")) \o << Read(R("0x70"), FALSE) >>

Sis3350Buffer(conf) ==
  << Put(R("0x01000020"), Bits(conf.trace_len), FALSE),
     Put(R("0x01000024"), Bits(Numbers["pretrigger_samples"]), FALSE) >>

\* Of each channel; two channels share a register.  The offset is in mV.
Sis3350Offsets ==
  EachGroup([ch \in Groups |->
    Dac(<<"0x02000050", ch \div 2>>, IF ch % 2 = 1 THEN {4} ELSE {},
        Bits((3300050 + (337777 * Numbers["channel_offset"]) \div 1000) \div 100),
        <<"0x02000054", ch \div 2>>)])

Sis3350Gains ==
  EachGroup([ch \in Groups |->
    << Put(<<"0x02000048", ch>>, Bits(Numbers["channel_gain"]), FALSE) >>])

Sis3350Arm == << Put(R("0x410"), {0}, FALSE) >>

Sis3350LoadConfig(conf) ==
  Sis3350Find \o Sis3350Control(conf) \o Sis3350Clock \o Sis3350Threshold
    \o Sis3350Buffer(conf) \o Sis3350Offsets \o Sis3350Gains \o Sis3350Arm
=============================================================================
