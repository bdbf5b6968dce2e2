--------------------------- MODULE Caen1742Config ---------------------------
(* LoadConfig() of a Caen1742, for a configuration conf.  No failure counts: *)
(* every one is logged and the next step follows.                            *)
EXTENDS ConfigOps

Group(name, gr) == <<name, gr>>

CaenFind ==
  << Read(R("0xf034"), FALSE), Read(R("0xf080"), FALSE), Read(R("0xf084"), FALSE),
     Read(R("0xf040"), FALSE), Read(R("0xf044"), FALSE), Read(R("0xf048"), FALSE),
     Read(R("0xf04c"), FALSE) >>
    \o EachGroup([gr \in Groups |->
         << Read(Group("0x1088", gr), FALSE), Read(Group("0x10a0", gr), FALSE) >>])

\* After the reset, a board that is running is stopped.
CaenReset ==
  << Write(R("0xef24"), {}, FALSE),
     Read(R("0x8104"), FALSE), IfRunning(2),
     Read(R("0x8100"), FALSE), PutMsg(R("0x8100"), {2}, {}, FALSE) >>

\* Read, change and write, whether or not the read gave anything.
Change(reg, clear, set) == << Read(reg, FALSE), WriteMsg(reg, clear, set, FALSE) >>

Assign(reg, clear, set) == << Read(reg, FALSE), PutMsg(reg, clear, set, FALSE) >>

\* All groups on, their triggers digitized, the LVDS pins as inputs.
CaenGroups ==
  Change(R("0x8120"), {}, 0..3) \o Change(R("0x8000"), {}, {6, 8, 11})
    \o Change(R("0x811c"), {}, 2..5)

\* WaitForSpi(gr) before each of the two values of a group's trigger input.
CaenThresholds ==
  FlattenSeq([i \in 1..2 |->
    LET gr == 2 * (i - 1) IN
    << Poll(Group("spi", gr), Group("0x1088", gr)),
       StartOf(Group("spi", gr), Group("0x10d4", gr), Bits(20934)),
       Poll(Group("spi", gr), Group("0x1088", gr)),
       StartOf(Group("spi", gr), Group("0x10dc", gr), {15}) >>])
    \o << Read(R("0x8120"), FALSE) >>

\* sampling_setting_, from a rate in MHz.
SamplingSetting(rate) == IF rate < 1750 THEN 2 ELSE IF rate < 3750 THEN 1 ELSE 0

CaenTrace ==
  Change(R("0x8020"), {0, 1}, {})
    \o << Write(R("0x80d8"), Bits(SamplingSetting(Numbers["sampling_rate"])), FALSE) >>
    \o Assign(R("0x8114"), 0..8, Bits((1023 * Numbers["pretrigger_delay"]) \div 100))

\* A channel's offset, in mV; it waits for the board before the write.
Dac16(mv) ==
  LET dac == (65535 * mv) \div 1000 + 32768 IN IF dac > 65535 THEN 65535 ELSE dac

CaenOffsets ==
  EachGroup([gr \in Groups |->
    << Poll(Group("spi", gr), Group("0x1088", gr)),
       StartOf(Group("spi", gr), Group("0x1098", gr), Bits(Dac16(Numbers["channel_offset"]))) >>])

\* WriteCorrectionDataCsv reads the pages of every group's flash; what stays is
\* that the flash is deselected.  An access of the last page that fails leaves it
\* as it is (Caen1742Flash has the pages).
CaenFlash(conf) ==
  IF "write_correction_data_csv" \in conf.opts
  THEN EachGroup([gr \in Groups |-> << Write(Group("0x10cc", gr), {}, FALSE) >>])
  ELSE <<>>

CaenTriggers ==
  Change(R("0x810c"), {}, {30, 31})
    \o << Read(R("0xef1c"), FALSE), Write(R("0xef1c"), {0}, FALSE),
          Read(R("0xef00"), FALSE), Write(R("0xef00"), {4}, FALSE) >>

\* Once the board itself is ready, the run bit; and the data are cleared.
CaenRun ==
  << Poll(Board, R("0x8104")) >> \o Assign(R("0x8100"), {}, {2})
    \o << Write(R("0xef28"), {}, FALSE) >>

CaenLoadConfig(conf) ==
  CaenFind \o CaenReset \o CaenGroups \o CaenThresholds \o CaenTrace \o CaenOffsets
    \o CaenFlash(conf) \o CaenTriggers \o CaenRun
=============================================================================
