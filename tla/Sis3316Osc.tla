----------------------------- MODULE Sis3316Osc -----------------------------
(***************************************************************************)
(* SetOscFreqHSN1() of a Sis3316: the sample clock's oscillator, a Si570   *)
(* behind an I2C master of the board, read and written byte by byte.       *)
(*                                                                         *)
(* Each I2C operation is a register write that starts it and a poll of the *)
(* same register until the busy bit falls.  No error ends the function: it *)
(* sends a stop and goes on with the next byte, and returns 0 at the end.  *)
(***************************************************************************)
EXTENDS Integers, Sequences, FiniteSets

CONSTANTS
  HighSpeed, N1,   \* the dividers asked for (the configuration's, unsigned char)
  Reference,       \* what the six frequency registers hold at the start
  MaxFails         \* bound: failures of bus accesses

VARIABLES
  hs, n1,      \* the arguments
  pc,          \* the operation that comes next
  stopping,    \* an error is being answered with a stop first
  rd,          \* freq_high_speed_rd: an array that is not initialised
  bus, pointer, reg,   \* the oscillator: its bus, its register pointer, its registers
  failed       \* history: the operations at which an access failed

oscillator == <<bus, pointer, reg>>
vars == <<hs, n1, pc, stopping, rd, oscillator, failed>>

(***************************************************************************)
(* The program.                                                            *)
(***************************************************************************)
HsBits == CASE hs = 5 -> 1 [] hs = 6 -> 2 [] hs \in {7, 9, 11} -> 3 [] OTHER -> 0

N1Bits == IF n1 < 1 THEN 0 ELSE IF n1 > 127 THEN 126 ELSE n1 - 1

\* Seeded fault: the old low bits of n1 are not cleared.
FreqHighSpeedWr_Kept ==
  [i \in 1..6 |-> IF i = 1 THEN HsBits * 32 + N1Bits \div 4 ELSE rd[i]]

\* Line 1157: "+" binds tighter than "&", so the low bits of n1 are masked away.
FreqHighSpeedWr ==
  [i \in 1..6 |-> CASE i = 1 -> HsBits * 32 + N1Bits \div 4
                    [] i = 2 -> ((N1Bits % 4) * 64 + rd[2]) % 64
                    [] OTHER -> rd[i]]

Start == [op |-> "start"]
Stop == [op |-> "stop"]
Byte(b) == [op |-> "write", byte |-> b]
WrByte(i) == [op |-> "wr", i |-> i]
RdByte(i) == [op |-> "rd", i |-> i]

Chip == 170                \* 0x55 << 1
Freq == 13                 \* 0x0d, the first of the six registers
FreezeDCO == 137           \* 0x89
NewFreq == 135             \* 0x87

Written(bytes) == <<Start, Byte(Chip)>> \o bytes \o <<Stop>>

ReadOut ==
  <<Start, Byte(Chip), Byte(Freq), Start, Byte(Chip + 1)>>
    \o [i \in 1..6 |-> RdByte(i)] \o <<Stop>>

Freeze == Written(<<Byte(FreezeDCO), Byte(16)>>)
Divider == Written(<<Byte(Freq)>> \o [i \in 1..6 |-> WrByte(i)])
Unfreeze == Written(<<Byte(FreezeDCO), Byte(0)>>)
TakeOver == Written(<<Byte(NewFreq), Byte(64)>>)

\* Seeded fault: the divider is written after the oscillator runs again.
SetOscFreqHSN1_Late == ReadOut \o Freeze \o Unfreeze \o Divider \o TakeOver

SetOscFreqHSN1 == ReadOut \o Freeze \o Divider \o Unfreeze \o TakeOver

Last == Len(SetOscFreqHSN1)
Done == pc = Last + 1

(***************************************************************************)
(* The oscillator (external): a start is followed by its address, a write  *)
(* by the register's number, and the number moves on with every byte.      *)
(***************************************************************************)
Registers == Freq..(Freq + 5) \cup {FreezeDCO, NewFreq}

Takes(b) ==
  CASE bus = "address" -> /\ bus' = (IF b = Chip THEN "pointer"
                                     ELSE IF b = Chip + 1 THEN "read" ELSE "idle")
                          /\ UNCHANGED <<pointer, reg>>
    [] bus = "pointer" -> bus' = "write" /\ pointer' = b /\ UNCHANGED reg
    [] bus = "write" -> /\ reg' = [r \in Registers |-> IF r = pointer THEN b ELSE reg[r]]
                        /\ pointer' = (pointer + 1) % 256 /\ UNCHANGED bus
    [] OTHER -> UNCHANGED oscillator

Acknowledges == bus \in {"address", "pointer", "write"}

Gives == IF bus = "read" /\ pointer \in Registers THEN reg[pointer] ELSE 255

(***************************************************************************)
(* The I2C operations.  Of an operation that fails the board may have      *)
(* done nothing (the starting write failed, line 917 and its like, which   *)
(* is only logged) or all of it (the poll failed or was too slow).         *)
(***************************************************************************)
ValueOf(o) == IF o.op = "wr" THEN FreqHighSpeedWr[o.i] ELSE o.byte

Effect(o) ==
  CASE o.op = "start" -> bus' = "address" /\ UNCHANGED <<pointer, reg, rd>>
    [] o.op = "stop" -> bus' = "idle" /\ UNCHANGED <<pointer, reg, rd>>
    [] o.op = "rd" -> /\ rd' = [rd EXCEPT ![o.i] = Gives]
                      /\ pointer' = (pointer + 1) % 256 /\ UNCHANGED <<bus, reg>>
    [] OTHER -> Takes(ValueOf(o)) /\ UNCHANGED rd

GoOn == pc' = pc + 1 /\ stopping' = FALSE

\* A stop that answers an error, if the operation is not one itself.
StopFirst(o) == IF o.op = "stop" THEN GoOn ELSE pc' = pc /\ stopping' = TRUE

Operation ==
  LET o == SetOscFreqHSN1[pc]
  IN  /\ ~stopping /\ pc <= Last
      /\ Effect(o)
      /\ IF o.op \in {"write", "wr"} /\ ~Acknowledges THEN StopFirst(o) ELSE GoOn
      /\ UNCHANGED <<hs, n1, failed>>

Fail == Cardinality(failed) < MaxFails /\ failed' = failed \cup {pc}

\* Nothing was started, and the poll finds the register idle: success, the
\* acknowledge and the data being the ones of the operation before.
OperationLost ==
  LET o == SetOscFreqHSN1[pc]
  IN  /\ ~stopping /\ pc <= Last /\ Fail
      /\ rd' \in IF o.op = "rd" THEN {[rd EXCEPT ![o.i] = b] : b \in {0, 255}} ELSE {rd}
      /\ \/ GoOn
         \/ o.op \in {"write", "wr"} /\ StopFirst(o)
      /\ UNCHANGED <<hs, n1, oscillator>>

\* It was done, but the poll read nothing (then the word that was written is
\* taken for the answer: an idle bus, a byte 0, no acknowledge) or timed out.
PollFails ==
  LET o == SetOscFreqHSN1[pc]
  IN  /\ ~stopping /\ pc <= Last /\ Fail
      /\ IF o.op = "rd"
         THEN /\ rd' \in {rd, [rd EXCEPT ![o.i] = 0]}
              /\ pointer' = (pointer + 1) % 256 /\ UNCHANGED <<bus, reg>>
         ELSE Effect(o)
      /\ \/ StopFirst(o)
         \/ o.op \in {"start", "rd"} /\ GoOn
      /\ UNCHANGED <<hs, n1>>

\* The stop that answers an error; its own result is not looked at.
StopAfterError ==
  /\ stopping /\ GoOn
  /\ \/ bus' = "idle" /\ UNCHANGED failed
     \/ Fail /\ UNCHANGED bus
  /\ UNCHANGED <<hs, n1, rd, pointer, reg>>

Init ==
  /\ hs \in HighSpeed /\ n1 \in N1
  /\ pc = 1 /\ stopping = FALSE
  /\ rd \in {[i \in 1..6 |-> b] : b \in {0, 255}}
  /\ bus = "idle" /\ pointer = 0
  /\ reg = [r \in Registers |-> IF r < Freq + 6 THEN Reference[r - Freq + 1] ELSE 0]
  /\ failed = {}

Next == Operation \/ OperationLost \/ PollFails \/ StopAfterError

Spec == Init /\ [][Next]_vars

(***************************************************************************)
(* Properties.                                                             *)
(***************************************************************************)
Frozen == reg[FreezeDCO] = 16

\* What the Si570 divides by (its data sheet, not the program's table): a field
\* of three bits for the high-speed divider, 4 and 6 having no meaning, and one of
\* seven bits, over two registers, for the output divider less one.
HighSpeedDivider ==
  LET code == reg[Freq] \div 32
  IN  CASE code = 0 -> 4 [] code = 1 -> 5 [] code = 2 -> 6 [] code = 3 -> 7
        [] code = 5 -> 9 [] code = 7 -> 11 [] OTHER -> 0

OutputDivider == 4 * (reg[Freq] % 32) + reg[Freq + 1] \div 64 + 1

\* Whatever failed, the bus is released at the end, if the last stop got through.
\* Without failures a high-speed divider from 4 to 7 is the one asked for, the
\* output divider is the one asked for or the next lower of 1, 5, 9 and so on, the
\* reference frequency is kept, and the oscillator runs and takes them over.
FrequencySet ==
  /\ Done /\ bus # "idle" => Last \in failed
  /\ Done /\ failed = {} =>
       /\ hs \in 4..7 => HighSpeedDivider = hs
       /\ n1 \in 1..127 => OutputDivider = 4 * ((n1 - 1) \div 4) + 1
       /\ reg[Freq + 1] % 64 = Reference[2] % 64
       /\ \A i \in 3..6 : reg[Freq + i - 1] = Reference[i]
       /\ ~Frozen /\ reg[NewFreq] = 64

\* sis3316.cxx:1053: "Manipulate the input bits to conform to the clock bits.", for
\* each divider of the switch below it (lines 1056-1079).
HighSpeedAsAsked ==
  Done /\ failed = {} /\ hs \in {4, 5, 6, 7, 9, 11} => HighSpeedDivider = hs

\* sis3316.hh:152: "Set two frequency divider variables to control speed."
OutputAsAsked ==
  Done /\ failed = {} /\ n1 \in 1..127 => OutputDivider = n1

\* The frequency is changed while the oscillator is frozen, unless an access
\* failed before: nothing checks that the freeze was done.
ChangedWhileFrozen ==
  [][\A r \in Freq..(Freq + 5) : reg'[r] # reg[r] => Frozen \/ failed # {}]_vars

=============================================================================
