----------------------------- MODULE LoadConfig -----------------------------
(***************************************************************************)
(* LoadConfig() of the four digitizers, carried out on a bus on which any  *)
(* access may fail.  The Sis3302 and the Sis3316 count the failures and    *)
(* end the program if there were any; the Sis3350 and the Caen1742 log     *)
(* them.  A failed read leaves msg as it was.                              *)
(***************************************************************************)
EXTENDS Sis3302Config, Sis3350Config, Sis3316Config, Caen1742Config

CONSTANTS
  OptionSets,    \* the sets of switches that are on in the configuration file
  TraceLens,     \* trace_len_
  MaxPoll,       \* kMaxPoll, pollmax: reads of a poll
  MaxFails       \* bound: failures of bus accesses

ASSUME LoadConfigAssumption ==
  /\ NumGroups \in Nat \ {0}
  /\ TraceLens \subseteq Nat /\ MaxPoll \in Nat /\ MaxFails \in Nat

VARIABLES
  device, conf,     \* which LoadConfig() and its configuration
  program,          \* its steps
  pc,               \* the step that comes next, 0: returned, -1: exited
  msg, nerrors, count,
  regs,             \* board: what its registers hold
  busy,             \* board: units that are busy
  selected,         \* board: the clock multiplier's register that takes data
  early,            \* history: units started while busy, though no poll failed
  failed,           \* history: steps of which an access, or a poll that counts, failed
  slow              \* history: a poll gave up

vars == <<device, conf, program, pc, msg, nerrors, count, regs, busy, selected, early, failed, slow>>

Devices == {"Sis3302", "Sis3350", "Sis3316", "Caen1742"}
Counting == {"Sis3302", "Sis3316"}

Configurations == [opts : OptionSets, trace_len : TraceLens]

ProgramOf(d, c) ==
  CASE d = "Sis3302" -> Sis3302LoadConfig(c)
    [] d = "Sis3350" -> Sis3350LoadConfig(c)
    [] d = "Sis3316" -> Sis3316LoadConfig(c)
    [] d = "Caen1742" -> CaenLoadConfig(c)

Step == program[pc]
At(kind) == pc > 0 /\ Step.op = kind

\* The board (external).  A register holds a bit of its own until it is
\* written; the status 0x8104 says that the board is ready, and if it runs.
Foreign == {17}

Untouched ==
  [r \in {program[i].reg : i \in DOMAIN program} |->
     IF r # R("0x8104") THEN Foreign
     ELSE IF "running" \in conf.opts THEN {2, 8} ELSE {8}]

\* The end: the program is killed if errors were counted.
GoOn(errors) ==
  IF pc < Len(program) THEN pc' = pc + 1
  ELSE pc' = IF device \in Counting /\ errors > 0 THEN -1 ELSE 0

Set(r, word) == regs' = [regs EXCEPT ![r] = word]

Fail == Cardinality(failed) < MaxFails /\ failed' = failed \cup {pc}

\* Seeded fault: errors are not counted.
Failed_Uncounted(errors) == nerrors' = nerrors /\ GoOn(nerrors')

\* A failed access counts, if the device counts it, and the next step follows.
Failed(errors) == nerrors' = nerrors + errors /\ GoOn(nerrors')

Counts == IF Step.counts THEN 1 ELSE 0

ReadStep ==
  /\ At("read")
  /\ \/ msg' = regs[Step.reg] /\ GoOn(nerrors) /\ UNCHANGED <<nerrors, failed>>
     \/ Fail /\ Failed(Counts) /\ UNCHANGED msg
  /\ UNCHANGED <<device, conf, program, count, regs, busy, selected, early, slow>>

\* The word a step writes: given, or made of what was read last.
Word(s, read) ==
  IF s.op \in {"putMsg", "writeMsg"} THEN (read \ s.clear) \cup s.set ELSE s.word

WriteStep ==
  /\ At("write") \/ At("put") \/ At("putMsg") \/ At("writeMsg")
  /\ msg' = IF At("put") \/ At("putMsg") THEN Word(Step, msg) ELSE msg
  /\ \/ Set(Step.reg, Word(Step, msg)) /\ GoOn(nerrors) /\ UNCHANGED <<nerrors, failed>>
     \/ Fail /\ Failed(Counts) /\ UNCHANGED regs
  /\ UNCHANGED <<device, conf, program, count, busy, selected, early, slow>>

\* A unit that is still busy may not take the word.
Early ==
  early' = IF Step.unit \in busy /\ ~slow /\ failed = {} THEN early \cup {Step.unit}
           ELSE early

Start ==
  /\ At("start")
  /\ Early
  /\ \/ Set(Step.reg, Step.word) /\ busy' = busy \cup {Step.unit} /\ UNCHANGED failed
     \/ Fail /\ UNCHANGED <<regs, busy>>
  /\ count' = 0 /\ GoOn(nerrors)
  /\ UNCHANGED <<device, conf, program, msg, nerrors, selected, slow>>

\* AdcSpiWrite for the two chips of a group.  The poll ends with its first read
\* that succeeds, busy or not (line 1333), so the next may find the unit busy.
\* If it fails for both it is an error, for one it is not (rc &=).
AdcSpiWrites ==
  /\ At("spi")
  /\ Early
  /\ busy' \in {busy \ {Step.unit}, busy \cup {Step.unit}}
  /\ \/ Set(Step.reg, Step.word) /\ GoOn(nerrors) /\ UNCHANGED <<nerrors, failed>>
     \/ Fail /\ Failed(0) /\ UNCHANGED regs
     \/ Fail /\ Failed(1) /\ UNCHANGED regs
  /\ UNCHANGED <<device, conf, program, msg, count, selected, slow>>

\* Si5325Write: the register is selected, its word written, and each waited for.
\* A select that fails is only logged (line 1445): the word goes to the register
\* selected before.  Any other failure is an error, with or without the word.
Si5325Writes ==
  /\ At("si5325")
  /\ \/ /\ selected' = Step.reg[2] /\ Set(Step.reg, Step.word)
        /\ GoOn(nerrors) /\ UNCHANGED <<nerrors, failed>>
     \/ /\ Fail /\ Failed(0)
        /\ UNCHANGED selected /\ Set(Si5325Register(selected), Step.word)
     \/ /\ Fail /\ Failed(1)
        /\ selected' \in {selected, Step.reg[2]}
        /\ UNCHANGED regs \/ Set(Si5325Register(selected'), Step.word)
  /\ UNCHANGED <<device, conf, program, msg, count, busy, early, slow>>

\* The board itself may be busy at any time.
MayBeBusy == Step.unit \in busy \cup {Board}

\* Seeded fault: a poll goes on as long as the unit is busy.
PollStep_Forever ==
  /\ At("poll")
  /\ \/ Step.unit \notin busy /\ GoOn(nerrors)
     \/ MayBeBusy /\ UNCHANGED pc
  /\ UNCHANGED <<device, conf, program, msg, nerrors, count, regs, busy, selected, early, failed, slow>>

\* Each read finds the unit busy or done.  A failed one shows what was read or
\* written last: the poll ends as if the unit were done, or goes on.
PollStep ==
  /\ At("poll")
  /\ \/ Step.unit \notin busy /\ GoOn(nerrors) /\ count' = 0 /\ UNCHANGED <<slow, failed>>
     \/ /\ MayBeBusy /\ UNCHANGED failed
        /\ IF count < MaxPoll THEN count' = count + 1 /\ UNCHANGED <<pc, slow>>
           ELSE count' = 0 /\ slow' = TRUE /\ GoOn(nerrors)
     \/ /\ Fail /\ UNCHANGED slow
        /\ \/ GoOn(nerrors) /\ count' = 0
           \/ count < MaxPoll /\ count' = count + 1 /\ UNCHANGED pc
  /\ UNCHANGED <<device, conf, program, msg, nerrors, regs, busy, selected, early>>

BoardDone ==
  /\ pc > 0 /\ \E u \in busy : busy' = busy \ {u}
  /\ UNCHANGED <<device, conf, program, pc, msg, nerrors, count, regs, selected, early, failed, slow>>

\* The steps for a board that runs, by what was read last.
IfRunningStep ==
  /\ At("ifRunning")
  /\ pc' = IF 2 \in msg THEN pc + 1 ELSE pc + 1 + Step.n
  /\ UNCHANGED <<device, conf, program, msg, nerrors, count, regs, busy, selected, early, failed, slow>>

Init ==
  /\ device \in Devices /\ conf \in Configurations
  /\ program = ProgramOf(device, conf)
  /\ pc = 1 /\ msg = {} /\ nerrors = 0 /\ count = 0
  /\ regs = Untouched
  /\ selected \in {r[2] : r \in {s \in DOMAIN regs : s[1] = "SI5325"}} \cup {0}
  /\ busy = {} /\ early = {} /\ failed = {} /\ slow = FALSE

Next ==
  \/ ReadStep \/ WriteStep \/ Start \/ AdcSpiWrites \/ Si5325Writes \/ PollStep
  \/ IfRunningStep \/ BoardDone

Spec == Init /\ [][Next]_vars

FairSpec ==
  /\ Spec
  /\ WF_vars(\/ ReadStep \/ WriteStep \/ Start \/ AdcSpiWrites \/ Si5325Writes
             \/ PollStep \/ IfRunningStep)

(***************************************************************************)
(* Properties.                                                             *)
(***************************************************************************)
Returned == pc = 0

\* The registers, and what was read last, after the first n steps of the
\* program, were every step to succeed.
Writing == {"write", "put", "putMsg", "writeMsg", "start", "spi", "si5325"}

Succeed(state, s) ==
  CASE s.op = "read" -> [regs |-> state.regs, read |-> state.regs[s.reg]]
    [] s.op \in Writing ->
         [regs |-> [state.regs EXCEPT ![s.reg] = Word(s, state.read)], read |-> state.read]
    [] OTHER -> state

After[n \in 0..Len(program)] ==
  IF n = 0 THEN [regs |-> Untouched, read |-> {}]
  ELSE Succeed(After[n - 1], program[n])

\* The register a step writes, or that the next step makes of what it reads.
Touches(i, r) ==
  \/ program[i].reg = r
  \/ /\ program[i].op = "read" /\ i < Len(program)
     /\ program[i + 1].op \in {"putMsg", "writeMsg"} /\ program[i + 1].reg = r

\* A failed step of the clock multiplier may have changed any of its registers.
Misdirects(i, r) == program[i].op = "si5325" /\ r[1] = "SI5325"

\* A LoadConfig() that returns has configured the board: a register that is not
\* as it would be without failures is one at whose own steps an access failed.
\* In the two boards that count errors, that is only an ADC register of which
\* one chip's write failed (rc &=, line 137), the oscillator, or a register of
\* the clock multiplier, whose failed select does not count (line 1445).
ReturnedConfigured ==
  Returned =>
    /\ LET whole == After[Len(program)].regs IN
         \A r \in DOMAIN regs :
           regs[r] # whole[r] => \E i \in failed : Touches(i, r) \/ Misdirects(i, r)
    /\ device \in Counting =>
         \A i \in failed : program[i].op \in {"spi", "si5325"} \/ program[i].reg = R("OSC")

\* "Program the clock multiplier", and a Si5325Write that returns an error is a
\* "failure to select address" (sis3316.cxx:260-262): a LoadConfig() that returns
\* has written the clock multiplier's registers.
ClockMultiplierProgrammed ==
  Returned => \A r \in DOMAIN regs :
    r[1] = "SI5325" => regs[r] = After[Len(program)].regs[r]

\* A DAC or a threshold is loaded when the board has taken the one before, unless
\* a poll failed or gave up.
LoadsWait == early \subseteq {AdcInterface}

\* So is a register of an ADC: "Check busy register, bit 31 to make sure it
\* finishes before returning." (sis3316.cxx:1329)
AdcsWait == AdcInterface \notin early

\* The switches of the configuration file: device, option, register, bit, and
\* how much higher the bit that switches it off is, where there is one.
Switches == {
  <<"Sis3302", "user_led_on", R("CONTROL_STATUS"), 0, {16}>>,
  <<"Sis3302", "enable_int_stop", R("ACQUISITION_CONTROL"), 6, {16}>>,
  <<"Sis3302", "enable_ext_lemo", R("ACQUISITION_CONTROL"), 8, {16}>>,
  <<"Sis3302", "enable_event_length_stop", R("EVENT_CONFIG_ALL_ADC"), 5, {}>>,
  <<"Sis3350", "user_led_on", R("0x0"), 0, {16}>>,
  <<"Sis3350", "invert_ext_lemo", R("0x0"), 4, {16}>>,
  <<"Sis3350", "enable_ext_lemo", R("0x10"), 8, {16}>>,
  <<"Sis3316", "enable_ext_trg", R("NIM_INPUT_CONTROL"), 4, {}>>,
  <<"Sis3316", "enable_ext_trg", R("ACQUISITION_CONTROL"), 8, {}>>,
  <<"Sis3316", "enable_ext_trg", <<"CH1_4_EVENT_CONFIG", 0>>, 27, {}>>,
  <<"Sis3316", "enable_int_trg", <<"CH1_4_EVENT_CONFIG", 0>>, 2, {}>>,
  <<"Sis3316", "invert_ext_trg", R("NIM_INPUT_CONTROL"), 5, {}>>,
  <<"Sis3316", "enable_ext_clk", R("NIM_INPUT_CONTROL"), 0, {}>> }

\* Without failures every switch has the effect it says, on and off (except the
\* Sis3302's invert_ext_lemo, whose bit the mask of line 83 takes away).
SwitchesTakeEffect ==
  Returned /\ failed = {} => \A s \in Switches :
    s[1] = device =>
      /\ s[4] \in regs[s[3]] <=> s[2] \in conf.opts
      /\ \A k \in s[5] : s[4] + k \in regs[s[3]] <=> s[2] \notin conf.opts

\* Whatever the board answers, LoadConfig() comes to an end.
Ends == <>(pc <= 0)
=============================================================================
