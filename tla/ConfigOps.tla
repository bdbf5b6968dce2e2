----------------------------- MODULE ConfigOps -----------------------------
(***************************************************************************)
(* The steps a LoadConfig() is made of.  A LoadConfig() is a sequence of   *)
(* register accesses that depends on the configuration file alone; the     *)
(* device's modules give the sequence, LoadConfig carries it out.          *)
(*                                                                         *)
(* A word is the set of its bits; a register is a name and an index.       *)
(***************************************************************************)
EXTENDS Integers, Sequences, FiniteSets, SequencesExt

CONSTANTS
  NumGroups,   \* groups of channels of a board (4 in the code)
  Numbers      \* the numbers of the configuration file, by option

Bits(v) == {b \in 0..30 : (v \div 2^b) % 2 = 1}
Up(word, k) == {b + k : b \in word} \cap 0..31
Low(word, n) == {b \in word : b < n}

R(name) == <<name, 0>>
Gr == [i \in 1..NumGroups |-> i - 1]

\* Seeded fault: nothing is switched off.
JK_OnlyOn(word) == word

\* Sets of bits that are switched on and off by separate halves of a register:
\* ((~msg & 0xffff) << 16) | msg.
JK(word) == word \cup {b + 16 : b \in (0..15) \ word}

\* "counts" is whether a failure is one of the errors that end the program.
Read(reg, counts) == [op |-> "read", reg |-> reg, counts |-> counts]
Write(reg, word, counts) == [op |-> "write", reg |-> reg, word |-> word, counts |-> counts]

\* The same by way of msg, the variable that reads use too.
Put(reg, word, counts) == [op |-> "put", reg |-> reg, word |-> word, counts |-> counts]

\* msg is written with some bits cleared and some set; it is changed itself or not.
PutMsg(reg, clear, set, counts) ==
  [op |-> "putMsg", reg |-> reg, clear |-> clear, set |-> set, counts |-> counts]
WriteMsg(reg, clear, set, counts) ==
  [op |-> "writeMsg", reg |-> reg, clear |-> clear, set |-> set, counts |-> counts]

\* A word that makes a unit of the board busy, and the poll for its end.
StartOf(unit, reg, word) ==
  [op |-> "start", unit |-> unit, reg |-> reg, word |-> word, counts |-> FALSE]
Poll(unit, reg) == [op |-> "poll", unit |-> unit, reg |-> reg, counts |-> FALSE]

\* The unit that nobody starts: the board itself, ready some time after its reset.
Board == R("ready")

AdcInterface == R("0xa4")

\* AdcSpiWrite for both chips of a group; a failure counts if both fail.
AdcSpi(gr, addr, value) ==
  [op |-> "spi", unit |-> AdcInterface, reg |-> <<"ADC_SPI", 256 * gr + addr>>,
   word |-> value, counts |-> TRUE]

\* The clock multiplier's registers, and Si5325Write.
Si5325Register(addr) == <<"SI5325", addr>>
Si5325(addr, value) ==
  [op |-> "si5325", reg |-> Si5325Register(addr), word |-> value, counts |-> TRUE]

\* SetOscFreqHSN1, whose result is not looked at.
Oscillator == [op |-> "write", reg |-> R("OSC"), word |-> {}, counts |-> FALSE]

\* The next n steps are for a board that was running.
IfRunning(n) == [op |-> "ifRunning", reg |-> R("0x8104"), n |-> n, counts |-> FALSE]

Groups == 0..(NumGroups - 1)
EachGroup(steps) == FlattenSeq([i \in 1..NumGroups |-> steps[i - 1]])
=============================================================================
