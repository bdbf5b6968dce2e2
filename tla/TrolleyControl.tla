-------------------------- MODULE TrolleyControl ---------------------------
(***************************************************************************)
(* The slow control of the trolley interface (TrolleyInterface.cxx): the   *)
(* Device... functions send one control packet and read one back with      *)
(* SendReceive().  Who asked for what is told from the address alone.      *)
(*                                                                         *)
(* Commands are records of what the code looks at.  An answer is counted   *)
(* in bytes: the words of its header, <<length, address, command, size,    *)
(* status>>, and the data.  A read may stop anywhere in it, and then what  *)
(* the next packet takes for a length or an address is made of other       *)
(* bytes, which may read as anything.                                      *)
(***************************************************************************)
EXTENDS TcpLink

CONSTANTS
  NMRWords,    \* writes of a DeviceLoadNMRSetting: 9 in the code
  Fields,      \* values of the header's other words: command, size, status
  Anything     \* values of data words and of words put together by a split

VARIABLES
  todo,      \* packets the running call has still to send, with the first
             \* of them on its way
  phase,     \* "idle", "send", "length", "rest"
  ask,       \* number of the command SendReceive() waits for, 0: not sent
  rest,      \* bytes it still has to read after the length
  rx,        \* the length received: bytes, or Junk where nothing was stored
  last,      \* what the last packet of a call returned
  torn       \* history: since the connection, what a packet took for the
             \* length was not a length, all of it

ctrl == <<todo, phase, ask, rest, rx, last, torn>>
vars == <<link, ctrl>>

HeaderBytes == 20
PacketBytes == 1044          \* sizeof(Ctrl_Packet): the header and MAX_CTRL_DATA words
Junk == [to |-> 0, byte |-> 0]

\* The i-th word of a packet of which only the bytes p came, and the one of
\* the answer to command n.
Word(p, i) ==
  [j \in 1..4 |-> IF 4*i - 4 + j <= Len(p) THEN p[4*i - 4 + j] ELSE Junk]
AnswerWord(n, i) == [j \in 1..4 |-> [to |-> n, byte |-> 4*i - 4 + j]]
NoData == Word(<<>>, 6)
Arrived(w) == \A j \in 1..4 : w[j] # Junk

(***************************************************************************)
(* The commands.                                                           *)
(***************************************************************************)
\* What is kept of a command: its register, its kind ("read": the caller gets
\* the data, "flash": it changes the flash memory), and the bytes of the answer.
Packet(address, kind, data) ==
  [address |-> address, kind |-> kind, answer |-> HeaderBytes + 4*data]

DeviceRead(x)          == <<Packet(x, "read", 1)>>
DeviceWrite(x)         == <<Packet(x, "write", 0)>>
DeviceReadMask(x)      == <<Packet(x, "read", 1)>>
DeviceWriteMask(x)     == <<Packet(x, "write", 1)>>
DeviceArrayRead(x, n)  == <<Packet(x, "read", n)>>
DeviceArrayWrite(x, n) == <<Packet(x, "write", 0)>>

\* The test before a flash command is address & (0xF0000000 != 0x20000000),
\* which is address & 1: it stops the odd addresses.
NVRefused(x) == x % 2 = 1

NVCommand(x) == IF NVRefused(x) THEN <<>> ELSE <<Packet(x, "flash", 0)>>
DeviceNVWrite(x)         == NVCommand(x)
DeviceNVArrayWrite(x, n) == NVCommand(x)
DeviceNVEraseSector(x)   == NVCommand(x)
DeviceNVEraseBlock(x)    == NVCommand(x)
DeviceNVEraseChip(x)     == NVCommand(x)

\* The words of a sequencer setting, and no look at what any of the writes says.
DeviceLoadNMRSetting(fifo) == [i \in 1..NMRWords |-> DeviceWrite(fifo)[1]]

Programs ==
  UNION { {DeviceRead(x), DeviceWrite(x), DeviceReadMask(x), DeviceWriteMask(x),
           DeviceArrayRead(x, 2), DeviceArrayWrite(x, 2),
           DeviceNVWrite(x), DeviceNVArrayWrite(x, 2), DeviceNVEraseSector(x),
           DeviceNVEraseBlock(x), DeviceNVEraseChip(x),
           DeviceLoadNMRSetting(x)} : x \in Addresses }

(***************************************************************************)
(* SendReceive.                                                            *)
(***************************************************************************)
NoResult == [ok |-> FALSE, of |-> 0, from |-> 0, data |-> NoData]

\* A packet is done: the next one of the call, or the end of the call.
Done(result) ==
  /\ last' = result
  /\ todo' = Tail(todo)
  /\ phase' = IF Len(todo) = 1 THEN "idle" ELSE "send"
  /\ ask' = 0 /\ rest' = 0 /\ rx' = <<>>

Call ==
  /\ phase = "idle" /\ NewCall
  /\ \E p \in Programs \ {<<>>} : todo' = p /\ phase' = "send"
  /\ last' = NoResult
  /\ UNCHANGED <<up, commands, unanswered, wire, slipped, ask, rest, rx, torn>>

Send ==
  /\ phase = "send" /\ UNCHANGED torn
  /\ \E ok \in BOOLEAN :
       /\ ClientTCPWrite(Head(todo), ok)
       /\ IF ok THEN /\ phase' = "length" /\ ask' = Len(commands')
                     /\ UNCHANGED <<todo, rest, rx, last>>
          ELSE Done(NoResult)

\* The value of four bytes that are taken for a length or an address.
IsWord(w, i) == \E n \in DOMAIN commands : w = AnswerWord(n, i)
Values(w) ==
  IF IsWord(w, 1) THEN {commands[w[1].to].answer}
  ELSE IF IsWord(w, 2) THEN {commands[w[1].to].address}
  ELSE IF \E i \in 3..5 : IsWord(w, i) THEN Fields
  ELSE Anything

ReadLength ==
  /\ phase = "length"
  /\ \E got \in Portions(4) :
       LET w == Word(SubSeq(wire, 1, got), 1) IN
       /\ ClientTCPRead(4, got, 4)
       /\ torn' = (torn \/ (got > 0 /\ ~IsWord(w, 1)))
       /\ \/ got = 0 /\ Done(NoResult)
          \/ /\ got > 0
             /\ \E n \in Values(w) :
                  IF n \in HeaderBytes..PacketBytes
                  THEN /\ rest' = n - 4 /\ phase' = "rest" /\ rx' = w
                       /\ UNCHANGED <<todo, ask, last>>
                  ELSE Done(NoResult)

\* Seeded fault: the answer is not compared with the command.
SameAddress_Any(w) == {Head(todo).address \in Addresses}

\* The command functions compare the addresses, by their values.
SameAddress(w) == {v = Head(todo).address : v \in Values(w)}

\* One read for the rest; its count is compared with nothing.
ReadRest ==
  /\ phase = "rest" /\ UNCHANGED torn
  /\ \E got \in Portions(rest) :
       LET p == rx \o SubSeq(wire, 1, got) IN
       /\ ClientTCPRead(rest, got, rest)
       /\ \/ got = 0 /\ Done(NoResult)
          \/ /\ got > 0
             /\ \E same \in SameAddress(Word(p, 2)) :
                  Done([ok |-> same, of |-> ask, from |-> p[5].to,
                        data |-> IF Head(todo).kind = "read" THEN Word(p, 6) ELSE NoData])

(***************************************************************************)
(* The connection.                                                         *)
(***************************************************************************)

\* After both connections are up the interface is set up with a write and a
\* masked write, the results of which are not looked at.
DeviceConnect ==
  /\ phase = "idle" /\ ~up /\ NewCall
  /\ ConnectToTCPServer
  /\ \E x \in Addresses :
       LET setup == DeviceWrite(x) \o DeviceWriteMask(x) IN
       IF up'
       THEN todo' = setup /\ phase' = "send"
       ELSE UNCHANGED <<todo, phase>>      \* errorCommConnect
  /\ last' = NoResult /\ torn' = FALSE /\ UNCHANGED <<ask, rest, rx>>

\* Seeded fault: the old connection is kept.
DevicePurgeComm_Keeps ==
  /\ phase = "idle" /\ up
  /\ up' \in BOOLEAN /\ slipped' = FALSE
  /\ UNCHANGED <<commands, unanswered, wire, calls>>
  /\ last' = NoResult /\ torn' = FALSE /\ UNCHANGED <<todo, phase, ask, rest, rx>>

DevicePurgeComm ==
  /\ phase = "idle" /\ up
  /\ ConnectToTCPServer        \* the old socket is closed first
  /\ UNCHANGED calls
  /\ last' = NoResult /\ torn' = FALSE /\ UNCHANGED <<todo, phase, ask, rest, rx>>

DeviceDisconnect ==
  /\ phase = "idle" /\ up
  /\ DisconnectFromTCPServer
  /\ last' = NoResult /\ UNCHANGED <<todo, phase, ask, rest, rx, torn>>

AnswerSize(c) == c.answer
DeviceAnswers ==
  /\ unanswered # <<>>
  /\ Answer(AnswerSize(commands[Head(unanswered)])) /\ UNCHANGED ctrl

Init ==
  /\ LinkInit
  /\ todo = <<>> /\ phase = "idle" /\ ask = 0 /\ rest = 0 /\ rx = <<>>
  /\ last = NoResult /\ torn = FALSE

Next ==
  \/ Call \/ Send \/ ReadLength \/ ReadRest
  \/ DeviceConnect \/ DevicePurgeComm \/ DeviceDisconnect \/ DeviceAnswers

Spec == Init /\ [][Next]_vars

(***************************************************************************)
(* Properties.                                                             *)
(***************************************************************************)

\* A call that reports success, on a connection on which every read brought
\* what it was for, has got the answer to its own command, data included.
OwnAnswerInStep ==
  last.ok /\ ~slipped =>
     /\ last.from = last.of
     /\ commands[last.of].kind = "read" => last.data = AnswerWord(last.of, 6)

\* What the code can promise, which compares addresses and no lengths: however
\* late answers are, as long as every packet began with the length of an answer,
\* a value handed to the caller as good was read from the register it asked for,
\* by this command or by an earlier one.
OnlyOfTheRegister ==
  last.ok /\ ~torn /\ Arrived(last.data) =>
     \E n \in DOMAIN commands :
        /\ last.data = AnswerWord(n, 6)
        /\ commands[n].address = commands[last.of].address

\* "No Error, return data" (TrolleyInterface.cxx:799): a value handed over with
\* no error was read from the register the caller asked for.  An answer that was
\* cut within its data breaks it: what is left of it is the next packet's length
\* and address.
GoodValueIsOfTheRegister ==
  last.ok /\ Arrived(last.data) =>
     \E n \in DOMAIN commands :
        /\ last.data = AnswerWord(n, 6)
        /\ commands[n].address = commands[last.of].address

\* TrolleyInterface.cxx:1016 "Prevent writes to Trolley Interface Firmware
\* (for now)": a flash command reaches the device only for the region 2.
FirmwareKept ==
  \A i \in DOMAIN commands : commands[i].kind = "flash" => commands[i].address \div 2^28 = 2

=============================================================================
