---------------------------- MODULE TrolleyData ----------------------------
(***************************************************************************)
(* The data path of the trolley interface (TrolleyInterface.cxx): one      *)
(* thread calls DataReceive() again and again, and every call reads one    *)
(* event from the data connection, or from a file.                         *)
(*                                                                         *)
(* The connection is a stream of bytes; a read returns the whole piece it  *)
(* asked for, a part of it, or a timeout.  DataReceive() finds the start   *)
(* of an event with a state machine over the preamble (data_sync_state),   *)
(* first word by word, then, once a word is wrong, byte by byte, and reads *)
(* the A frame (if there is one) and the B frame by their lengths.         *)
(*                                                                         *)
(* Bytes are numbers.  What the events carry besides preambles and lengths *)
(* is one filler byte: only where a frame begins and ends matters.         *)
(***************************************************************************)
EXTENDS Integers, Sequences, FiniteSets, SequencesExt

CONSTANTS
  Traffic,     \* what a trolley may send: a sequence of sequences of events
  Seams,       \* where the network may cut it, from the start of an event
  MaxFaults    \* bound: purges, split reads and timeouts at such a seam

VARIABLES
  k,           \* which traffic this trolley sends
  source,      \* "none", "socket" or "file" (ReadFromFile)
  pos,         \* bytes taken from the stream
  step,        \* where DataReceive is: a data_sync_state or a loop
  need,        \* dataExpected of the loop that is running
  a, b,        \* [from, len]: what a_frame and b_frame hold
  delivered,   \* history: the events returned with errorNoError
  start,       \* history: where the stream began for this connection
  hurt,        \* history: positions of split sync words and lost reads
  faults       \* bound: faults so far

vars == <<k, source, pos, step, need, a, b, delivered, start, hurt, faults>>

EVENT_HEADER_SIZE == 128
MAX_PAYLOAD_DATA == 1048576
BHeaderSize == 72           \* packetLength of a B frame without samples

(***************************************************************************)
(* The trolley (external): the bytes of its events.                        *)
(* An event is [noise, hasA, length, payload, flash, samples]; length is   *)
(* the size its A header reports, two more than it is with flash data.     *)
(***************************************************************************)
Mark == <<255, 127, 0, 128>>
U16(n) == <<n % 256, n \div 256>>
Low(n) == n % 65536
High(n) == n \div 65536

\* The byte at offset o of the A frame and of the B frame of an event.
AByte(e, o) ==
  CASE o \in 0..11    -> Mark[1 + (o % 4)]
    [] o \in {12, 13} -> 170
    [] o \in {14, 15} -> U16(Low(e.length))[o - 13]
    [] o \in {16, 17} -> U16(High(e.length))[o - 15]
    [] o \in {28, 29} -> U16(e.flash)[o - 27]
    [] OTHER          -> 17

BByte(e, o) ==
  CASE o \in 0..5   -> Mark[1 + ((o + 2) % 4)]
    [] o \in {6, 7} -> 187
    [] o \in {8, 9} -> U16(e.samples)[o - 7]
    [] OTHER        -> 17

LenA(e) == IF e.hasA THEN EVENT_HEADER_SIZE + e.payload ELSE 0
LenB(e) == BHeaderSize + 4 * e.samples

ABytes(e) == [q \in 1..LenA(e) |-> AByte(e, q - 1)]
BBytes(e) == [q \in 1..LenB(e) |-> BByte(e, q - 1)]
Bytes(e) == e.noise \o ABytes(e) \o BBytes(e)

Stream == [t \in DOMAIN Traffic |->
             FlattenSeq([i \in DOMAIN Traffic[t] |-> Bytes(Traffic[t][i])])]

\* Where event i of traffic t begins, without and with its noise.
From == [t \in DOMAIN Traffic |-> [i \in DOMAIN Traffic[t] |->
           Len(FlattenSeq([j \in 1..(i - 1) |-> Bytes(Traffic[t][j])]))
           + Len(Traffic[t][i].noise)]]

\* The assumption on the traffic.  Nothing in an event says that it is one but its
\* words 0xAAAA and 0xBBBB, so no bytes may read as one of them, at any place,
\* that are not the end of a preamble; and a length that the check lets pass is
\* the frame's.
Fields16 == {n \in Nat : n < 65536}
Fields32 == {n \in Nat : High(n) \in Fields16}

EventRecords ==
  [noise : Seq(0..255), hasA : BOOLEAN, length : Fields32, payload : Nat,
   flash : Fields16, samples : Fields16]

Reported(e) == e.length - (IF e.flash > 0 THEN 2 ELSE 0)

LengthTrue(e) ==
  Reported(e) \in EVENT_HEADER_SIZE..(EVENT_HEADER_SIZE + MAX_PAYLOAD_DATA)
    => Reported(e) = EVENT_HEADER_SIZE + e.payload

WordAt(t, p) == Stream[t][p + 1] + 256 * Stream[t][p + 2]

ASSUME TrafficAssumption ==
  /\ Traffic \in Seq(Seq(EventRecords))
  /\ \A t \in DOMAIN Traffic :
       /\ \A i \in DOMAIN Traffic[t] : Traffic[t][i].hasA => LengthTrue(Traffic[t][i])
       /\ \A p \in 0..(Len(Stream[t]) - 2) :
            /\ WordAt(t, p) = 43690 => \E i \in DOMAIN Traffic[t] :
                 Traffic[t][i].hasA /\ p = From[t][i] + 12
            /\ WordAt(t, p) = 48059 => \E i \in DOMAIN Traffic[t] :
                 p = From[t][i] + LenA(Traffic[t][i]) + 6

Seam(p) == \E i \in DOMAIN Traffic[k] : p - From[k][i] \in Seams

Byte(p) == Stream[k][p + 1]
Word(p) == Byte(p) + 256 * Byte(p + 1)
Long(low, high) == low + 65536 * high
Word32(p) == Long(Word(p), Word(p + 2))
Available == Len(Stream[k]) - pos

(***************************************************************************)
(* DataReceive: the search for the preamble.                               *)
(***************************************************************************)
ByteStates == {"BYTE_0", "BYTE_1"}
WordStates == {"WORD_TEST", "WORD_7FFF", "WORD_8000", "WORD_AAAA"}
SyncStates == ByteStates \cup WordStates

\* Seeded fault: the repetition of the pattern is not waited for.
Accepts_NoRepeat ==
  [BYTE_0    |-> {<<0, "BYTE_1">>},
   BYTE_1    |-> {<<128, "WORD_7FFF">>},
   WORD_TEST |-> {<<32767, "WORD_8000">>, <<32768, "WORD_AAAA">>},
   WORD_7FFF |-> {<<32767, "WORD_8000">>},
   WORD_8000 |-> {<<32768, "WORD_AAAA">>},
   WORD_AAAA |-> {<<43690, "A_HEADER">>, <<48059, "B_HEADER">>}]

\* What each state accepts and where that leads; all else is thrown away and
\* the search goes on byte by byte.
Accepts ==
  [BYTE_0    |-> {<<0, "BYTE_1">>},
   BYTE_1    |-> {<<128, "WORD_7FFF">>},
   WORD_TEST |-> {<<32767, "WORD_8000">>, <<32768, "WORD_AAAA">>},
   WORD_7FFF |-> {<<32767, "WORD_8000">>},
   WORD_8000 |-> {<<32768, "WORD_AAAA">>},
   WORD_AAAA |-> {<<43690, "A_HEADER">>, <<48059, "B_HEADER">>,
                  <<32767, "WORD_8000">>}]

AfterSync(s, v) ==
  LET next == {r[2] : r \in {r \in Accepts[s] : r[1] = v}}
  IN  IF next = {} THEN "BYTE_0" ELSE CHOOSE n \in next : TRUE

SyncSize(s) == IF s \in ByteStates THEN 1 ELSE 2

Empty == [from |-> 0, len |-> 0]

Call ==
  /\ step = "idle" /\ source # "none"
  /\ step' = "WORD_TEST" /\ a' = Empty /\ b' = Empty
  /\ UNCHANGED <<k, source, pos, need, delivered, start, hurt, faults>>

\* Once a frame is found its preamble is put into the buffer, read or not:
\* "from" is where the frame then begins in the stream.
Sync ==
  /\ step \in SyncStates
  /\ Available >= SyncSize(step)
  /\ pos' = pos + SyncSize(step)
  /\ step' = AfterSync(step, IF step \in ByteStates THEN Byte(pos) ELSE Word(pos))
  /\ CASE step' = "A_HEADER" -> /\ a' = [from |-> pos' - 14, len |-> 14]
                                /\ need' = EVENT_HEADER_SIZE - 14
                                /\ UNCHANGED b
       [] step' = "B_HEADER" -> /\ b' = [from |-> pos' - 8, len |-> 8]
                                /\ need' = BHeaderSize - 8
                                /\ UNCHANGED a
       [] OTHER              -> UNCHANGED <<a, b, need>>
  /\ UNCHANGED <<k, source, delivered, start, hurt, faults>>

\* One byte of a word arrives alone: the next read asks for a whole word and
\* stores it over that byte.
SyncSplit ==
  /\ step \in WordStates /\ source = "socket"
  /\ \/ Available = 1 /\ UNCHANGED faults
     \/ Available > 1 /\ Seam(pos + 1) /\ faults < MaxFaults /\ faults' = faults + 1
  /\ pos' = pos + 1 /\ hurt' = hurt \cup {pos}
  /\ UNCHANGED <<k, source, step, need, a, b, delivered, start>>

(***************************************************************************)
(* DataReceive: the loops that read a header or a payload.                 *)
(***************************************************************************)
Loops == {"A_HEADER", "A_PAYLOAD", "B_HEADER", "B_SAMPLES"}

\* Seeded fault: flash data do not count.
PacketLength_Flash(p) ==
  IF Word32(p + 14) \in EVENT_HEADER_SIZE..(EVENT_HEADER_SIZE + MAX_PAYLOAD_DATA)
  THEN Word32(p + 14) ELSE 0

\* The size of the A frame that begins at p, or 0 when the check refuses it.
PacketLength(p) ==
  LET size == Word32(p + 14) - (IF Word(p + 28) > 0 THEN 2 ELSE 0)
  IN  IF size \in EVENT_HEADER_SIZE..(EVENT_HEADER_SIZE + MAX_PAYLOAD_DATA)
      THEN size ELSE 0

\* What DataReceive does when a loop is complete, and how much that reads.
\* The preamble of a B frame that follows an A frame is not looked at.
AfterLoop(s, a1, b1) ==
  CASE s = "A_HEADER"  -> IF PacketLength(a1.from) = 0 THEN <<"idle", 0>>
                          ELSE <<"A_PAYLOAD",
                                 PacketLength(a1.from) - EVENT_HEADER_SIZE>>
    [] s = "A_PAYLOAD" -> <<"B_HEADER", BHeaderSize>>
    [] s = "B_HEADER"  -> IF Word(b1.from + 8) = 0 THEN <<"return", 0>>
                          ELSE <<"B_SAMPLES", 4 * Word(b1.from + 8)>>
    [] s = "B_SAMPLES" -> <<"return", 0>>

Grown(buf, n) ==
  [from |-> IF buf.len = 0 THEN pos ELSE buf.from, len |-> buf.len + n]

\* Seeded fault: it is not counted down.
Missing_Again(n) == IF n < need THEN need ELSE 0

\* What is still missing after n more bytes.
Missing(n) == need - n

\* A read that brings n bytes.
Take(n) ==
  /\ pos' = pos + n
  /\ a' = IF step \in {"A_HEADER", "A_PAYLOAD"} THEN Grown(a, n) ELSE a
  /\ b' = IF step \in {"B_HEADER", "B_SAMPLES"} THEN Grown(b, n) ELSE b
  /\ LET after == IF Missing(n) > 0 THEN <<step, Missing(n)>>
                  ELSE AfterLoop(step, a', b')
     IN  step' = after[1] /\ need' = after[2]
  /\ UNCHANGED <<k, source, delivered, start, hurt>>

LoopFull ==
  /\ step \in Loops /\ Available >= need
  /\ need > 0 \/ source = "file"
  /\ Take(need) /\ UNCHANGED faults

LoopPart ==
  /\ step \in Loops /\ source = "socket" /\ faults < MaxFaults
  /\ \E n \in 1..(need - 1) : n <= Available /\ Seam(pos + n) /\ Take(n)
  /\ faults' = faults + 1

\* The end of the stream: what is left of it arrives.
LoopLast ==
  /\ step \in Loops /\ source = "socket"
  /\ Available \in 1..(need - 1) /\ Take(Available)
  /\ UNCHANGED faults

(***************************************************************************)
(* DataReceive: how a call ends.                                           *)
(***************************************************************************)
Busy == step \in SyncStates \cup Loops

\* A read of no bytes from a socket returns 0: errorCommReceiveZero.
ReceiveZero ==
  /\ step \in Loops /\ need = 0 /\ source = "socket"
  /\ step' = "idle"
  /\ UNCHANGED <<k, source, pos, need, a, b, delivered, start, hurt, faults>>

\* errorCommReceiveTimeout, for want of bytes or because they came late.
ReceiveTimeout ==
  /\ Busy /\ source = "socket" /\ (need > 0 \/ step \in SyncStates)
  /\ \/ Available = 0 /\ UNCHANGED <<faults, hurt>>
     \/ /\ Available > 0 /\ Seam(pos) /\ faults < MaxFaults
        /\ faults' = faults + 1 /\ hurt' = hurt \cup {pos - 1}
  /\ step' = "idle"
  /\ UNCHANGED <<k, source, pos, need, a, b, delivered, start>>

\* errorEOF: what was left of the file is gone.
EndOfFile ==
  /\ Busy /\ source = "file"
  /\ Available < (IF step \in SyncStates THEN SyncSize(step) ELSE need)
  /\ step' = "idle" /\ pos' = Len(Stream[k])
  /\ UNCHANGED <<k, source, need, a, b, delivered, start, hurt, faults>>

Return ==
  /\ step = "return"
  /\ step' = "idle" /\ delivered' = Append(delivered, [a |-> a, b |-> b])
  /\ UNCHANGED <<k, source, pos, need, a, b, start, hurt, faults>>

(***************************************************************************)
(* Connecting and opening.                                                 *)
(***************************************************************************)

\* DevicePurgeData: blocks are read until none comes within half a second;
\* the trolley goes on, so what is kept begins anywhere.
DevicePurgeData ==
  \/ pos' = pos /\ UNCHANGED faults
  \/ /\ faults < MaxFaults /\ faults' = faults + 1
     /\ \E p \in pos..Len(Stream[k]) : Seam(p) /\ pos' = p

DeviceConnect ==
  /\ source = "none" /\ source' = "socket"
  /\ DevicePurgeData /\ start' = pos'
  /\ delivered' = <<>>
  /\ UNCHANGED <<k, step, need, a, b, hurt>>

FileOpen ==
  /\ source = "none" /\ source' = "file"
  /\ pos' = 0 /\ start' = 0 /\ delivered' = <<>> /\ hurt' = {}
  /\ UNCHANGED <<k, step, need, a, b, faults>>

DeviceDisconnect ==
  /\ source = "socket" /\ step = "idle" /\ source' = "none"
  /\ UNCHANGED <<k, pos, step, need, a, b, delivered, start, hurt, faults>>

FileClose ==
  /\ source = "file" /\ step = "idle" /\ source' = "none"
  /\ UNCHANGED <<k, pos, step, need, a, b, delivered, start, hurt, faults>>

Init ==
  /\ k \in DOMAIN Traffic
  /\ source = "none" /\ pos = 0 /\ start = 0
  /\ step = "idle" /\ need = 0 /\ a = Empty /\ b = Empty
  /\ delivered = <<>> /\ hurt = {} /\ faults = 0

DataReceive ==
  \/ Call \/ Sync \/ SyncSplit \/ LoopFull \/ LoopPart \/ LoopLast
  \/ ReceiveZero \/ ReceiveTimeout \/ EndOfFile \/ Return

Next ==
  \/ DataReceive
  \/ DeviceConnect \/ DeviceDisconnect \/ FileOpen \/ FileClose

Spec == Init /\ [][Next]_vars

(***************************************************************************)
(* Properties.                                                             *)
(***************************************************************************)
Events == DOMAIN Traffic[k]
AFrame(i) == IF Traffic[k][i].hasA
             THEN [from |-> From[k][i], len |-> LenA(Traffic[k][i])]
             ELSE Empty
BFrame(i) == [from |-> From[k][i] + LenA(Traffic[k][i]),
              len  |-> LenB(Traffic[k][i])]
EndOf(i) == BFrame(i).from + BFrame(i).len

\* An event that is handed to the caller is one the trolley sent, from its
\* first byte to its last, or the B frame of one whose A frame was lost:
\* never a part of a frame, and never the pieces of two.
DeliveredWhole ==
  \A d \in ToSet(delivered) : \E i \in Events :
     d.b = BFrame(i) /\ d.a \in {AFrame(i), Empty}

Unhurt(i) == From[k][i] >= start /\ hurt \cap (From[k][i])..(EndOf(i) - 1) = {}

\* An A frame whose reported length is refused is not read, and one of a
\* header alone cannot be read from a socket: its payload is a read of no
\* bytes.
Readable(i) ==
  Traffic[k][i].hasA =>
     /\ PacketLength(From[k][i]) > 0
     /\ Traffic[k][i].payload > 0 \/ source = "file"

Delivered(i) == [a |-> AFrame(i), b |-> BFrame(i)] \in ToSet(delivered)

\* An event with an A frame, no read of which was split in the preamble or
\* timed out, is delivered whatever came before it: noise, the rest of an
\* event that was cut, an A frame refused for its length.  A B frame alone
\* has a shorter preamble: it is found when the event before it was.
IntactEventsCome ==
  \A i \in Events :
     /\ step = "idle" /\ source # "none" /\ pos >= EndOf(i)
     /\ Unhurt(i) /\ Readable(i)
     /\ Traffic[k][i].hasA \/ (i > 1 /\ Unhurt(i - 1) /\ Delivered(i - 1)
                                     /\ Traffic[k][i].noise = <<>>)
     => Delivered(i)

=============================================================================
