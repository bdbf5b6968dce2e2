--------------------------- MODULE NetworkProofs ----------------------------
(***************************************************************************)
(* Proofs about the network clients: the trolley's control and the         *)
(* generator over the links of TCPDrivers.cxx, the instruments of          *)
(* vxi11_user.cc, and the trolley's data.                                  *)
(*                                                                         *)
(* Nothing in a stream says where an answer begins.  What is proved rests  *)
(* on what the device promises: whole answers, in order.  From any byte of *)
(* the wire on, the rest of its answer is there; so a packet that begins   *)
(* with a length continues with the answer's other words.                  *)
(*                                                                         *)
(* The trolley's data rest on TrafficAssumption.  The frames are located   *)
(* in the stream first; then every read is within the frames of one event, *)
(* and every state of the search has its place in the next preamble.       *)
(***************************************************************************)
EXTENDS MCNetwork, FiniteSetTheorems, SequenceTheorems, WellFoundedInduction, TLAPS

Packets == {c \in [address : Addresses, kind : {"read", "write", "flash"},
                   answer : 20..1044] : c.kind = "read" => c.answer >= 24}
Pieces == [to : Nat, byte : Nat]

(***************************************************************************)
(* Streams of answers to the commands cs.                                  *)
(***************************************************************************)
OfAnswer(cs, w) == w.to \in 1..Len(cs) /\ w.byte \in 1..cs[w.to].answer

\* From any byte of an answer on, the rest of the answer follows: the first
\* answer may have lost its beginning, and all are whole from there.
AnswerStream(cs, s) ==
  /\ s \in Seq(Pieces)
  /\ \A i \in 1..Len(s) : OfAnswer(cs, s[i])
  /\ \A i \in 1..Len(s) : \A h \in 0..(cs[s[i].to].answer - s[i].byte) :
        i + h <= Len(s) /\ s[i + h] = [to |-> s[i].to, byte |-> s[i].byte + h]

\* The answers of the device fit a packet.
CommandsOK(cs) == cs \in Seq(Packets)

LEMMA CommandFacts ==
  ASSUME NEW cs, CommandsOK(cs)
  PROVE  /\ Len(cs) \in Nat /\ DOMAIN cs = 1..Len(cs)
         /\ \A n \in 1..Len(cs) : /\ cs[n].answer \in 20..1044
                                  /\ cs[n].kind = "read" => cs[n].answer >= 24
<1>1. ASSUME NEW n \in 1..Len(cs)
      PROVE  cs[n].answer \in 20..1044 /\ (cs[n].kind = "read" => cs[n].answer >= 24)
  <2>1. cs[n] \in Packets
    BY ElementOfSeq DEF CommandsOK
  <2> QED
    BY <2>1 DEF Packets
<1>2. Len(cs) \in Nat /\ DOMAIN cs = 1..Len(cs)
  BY LenProperties DEF CommandsOK
<1> QED
  BY <1>1, <1>2

\* Another command changes nothing about the answers to the earlier ones.
LEMMA StreamGrow ==
  ASSUME NEW cs \in Seq(Packets), NEW c \in Packets, NEW s, AnswerStream(cs, s)
  PROVE  AnswerStream(Append(cs, c), s)
<1> DEFINE ds == Append(cs, c)
<1>1. Len(cs) \in Nat /\ Len(ds) = Len(cs) + 1 /\ \A i \in 1..Len(cs) : ds[i] = cs[i]
  OBVIOUS
<1>2. s \in Seq(Pieces) /\ \A i \in 1..Len(s) : s[i].to \in 1..Len(cs)
  BY DEF AnswerStream, OfAnswer
<1> HIDE DEF ds
<1>3. \A i \in 1..Len(s) : ds[s[i].to] = cs[s[i].to] /\ OfAnswer(ds, s[i])
  BY <1>1, <1>2 DEF AnswerStream, OfAnswer
<1>4. \A i \in 1..Len(s) : \A h \in 0..(ds[s[i].to].answer - s[i].byte) :
        i + h <= Len(s) /\ s[i + h] = [to |-> s[i].to, byte |-> s[i].byte + h]
  BY <1>3 DEF AnswerStream
<1> QED
  BY <1>2, <1>3, <1>4 DEF AnswerStream, ds

\* What is left after some of it was read.
LEMMA StreamDrop ==
  ASSUME NEW cs, NEW s, NEW n \in Nat, AnswerStream(cs, s), n <= Len(s)
  PROVE  AnswerStream(cs, SubSeq(s, n + 1, Len(s)))
<1> DEFINE t == SubSeq(s, n + 1, Len(s))
           len == Len(s)
<1>1. s \in Seq(Pieces) /\ len \in Nat
  BY DEF AnswerStream
<1>2. /\ t \in Seq(Pieces) /\ Len(t) = len - n
      /\ \A i \in 1..Len(t) : t[i] = s[n + i]
  BY <1>1
<1> HIDE DEF t
<1>3. \A i \in 1..Len(t) : n + i \in 1..len /\ OfAnswer(cs, t[i])
  BY <1>1, <1>2 DEF AnswerStream
<1>4. ASSUME NEW i \in 1..Len(t), NEW h \in 0..(cs[t[i].to].answer - t[i].byte)
      PROVE  i + h <= Len(t) /\ t[i + h] = [to |-> t[i].to, byte |-> t[i].byte + h]
  <2>1. /\ (n + i) + h <= len
        /\ s[(n + i) + h] = [to |-> s[n + i].to, byte |-> s[n + i].byte + h]
    BY <1>2, <1>3 DEF AnswerStream
  <2>2. h \in Nat
    BY <1>4
  <2>3. (n + i) + h = n + (i + h) /\ i + h \in 1..Len(t)
    BY <1>1, <1>2, <2>1, <2>2
  <2>4. t[i + h] = s[(n + i) + h] /\ t[i] = s[n + i]
    BY <1>2, <2>3
  <2> QED
    BY <2>1, <2>3, <2>4
<1> QED
  BY <1>2, <1>3, <1>4 DEF AnswerStream, t

\* A whole answer behind a stream.
LEMMA StreamAppend ==
  ASSUME NEW cs, NEW s, AnswerStream(cs, s), Len(cs) \in Nat, NEW n \in 1..Len(cs),
         NEW size \in Nat, size = cs[n].answer
  PROVE  AnswerStream(cs, s \o [i \in 1..size |-> [to |-> n, byte |-> i]])
<1> DEFINE ans == [i \in 1..size |-> [to |-> n, byte |-> i]]
           t == s \o ans
           len == Len(s)
<1>1. s \in Seq(Pieces) /\ len \in Nat
  BY DEF AnswerStream
<1>2. \A i \in 1..size : [to |-> n, byte |-> i] \in Pieces
  BY DEF Pieces
<1>3. /\ ans \in Seq(Pieces) /\ Len(ans) = size
      /\ \A i \in 1..size : ans[i] = [to |-> n, byte |-> i]
  BY <1>2
<1> HIDE DEF ans
<1>4. /\ t \in Seq(Pieces) /\ Len(t) = len + size
      /\ \A i \in 1..(len + size) : t[i] = IF i <= len THEN s[i] ELSE ans[i - len]
  <2>1. \A u, v \in Seq(Pieces) : /\ u \o v \in Seq(Pieces) /\ Len(u \o v) = Len(u) + Len(v)
                                  /\ \A i \in 1..(Len(u) + Len(v)) :
                                        (u \o v)[i] = IF i <= Len(u) THEN u[i] ELSE v[i - Len(u)]
    BY ConcatProperties
  <2>2. /\ t \in Seq(Pieces) /\ Len(t) = Len(s) + Len(ans)
        /\ \A i \in 1..(Len(s) + Len(ans)) :
              t[i] = IF i <= Len(s) THEN s[i] ELSE ans[i - Len(s)]
    BY <1>1, <1>3, <2>1, Zenon
  <2> QED
    BY <2>2, <1>3
<1>5. \A i \in 1..len : t[i] = s[i]
  BY <1>1, <1>4
<1>6. ASSUME NEW i \in (len + 1)..(len + size) PROVE t[i] = [to |-> n, byte |-> i - len]
  <2>1. i - len \in 1..size /\ i \in 1..(len + size) /\ ~(i <= len)
    BY <1>1
  <2>2. t[i] = ans[i - len]
    BY <2>1, <1>4
  <2> QED
    BY <2>1, <2>2, <1>3
<1> HIDE DEF t
<1>7. ASSUME NEW i \in 1..(len + size)
      PROVE  /\ OfAnswer(cs, t[i])
             /\ \A h \in 0..(cs[t[i].to].answer - t[i].byte) :
                  /\ i + h <= len + size
                  /\ t[i + h] = [to |-> t[i].to, byte |-> t[i].byte + h]
  <2>1. CASE i \in 1..len
    <3>1. OfAnswer(cs, s[i]) /\ t[i] = s[i]
      BY <2>1, <1>5 DEF AnswerStream
    <3>2. ASSUME NEW h \in 0..(cs[s[i].to].answer - s[i].byte)
          PROVE  /\ i + h <= len + size
                 /\ t[i + h] = [to |-> s[i].to, byte |-> s[i].byte + h]
      <4>1. i + h <= len /\ s[i + h] = [to |-> s[i].to, byte |-> s[i].byte + h]
        BY <2>1 DEF AnswerStream
      <4>2. i + h \in 1..len /\ h \in Nat
        BY <1>1, <2>1, <4>1, <3>2
      <4> QED
        BY <1>1, <1>5, <4>1, <4>2
    <3> QED
      BY <3>1, <3>2
  <2>2. CASE i \notin 1..len
    <3>1. i \in (len + 1)..(len + size) /\ i - len \in 1..size
      BY <2>2, <1>1
    <3>2. t[i] = [to |-> n, byte |-> i - len]
      BY <3>1, <1>6
    <3>3. ASSUME NEW h \in 0..(size - (i - len))
          PROVE  /\ i + h <= len + size
                 /\ t[i + h] = [to |-> n, byte |-> (i - len) + h]
      <4>1. i + h \in (len + 1)..(len + size) /\ (i + h) - len = (i - len) + h
        BY <1>1, <3>1, <3>3
      <4> QED
        BY <1>1, <1>6, <4>1
    <3> QED
      BY <3>1, <3>2, <3>3 DEF OfAnswer
  <2> QED
    BY <2>1, <2>2
<1> QED
  <2>1. t \in Seq(Pieces) /\ Len(t) = len + size
    BY <1>4
  <2>2. AnswerStream(cs, t)
    BY <1>7, <2>1, Zenon DEF AnswerStream
  <2> QED
    BY <2>2 DEF t, ans

LEMMA EmptyStream == \A cs : AnswerStream(cs, <<>>)
BY DEF AnswerStream

(***************************************************************************)
(* The trolley's control.                                                  *)
(***************************************************************************)
\* The running packet was written, and its answer is not complete.
Waiting == phase \in {"length", "rest"} /\ up

LinkOK ==
  /\ up \in BOOLEAN /\ slipped \in BOOLEAN
  /\ CommandsOK(commands) /\ unanswered \in Seq(Nat)
  /\ \A i \in 1..Len(unanswered) : unanswered[i] \in 1..Len(commands)
  /\ AnswerStream(commands, wire)
  /\ ~up => wire = <<>> /\ unanswered = <<>>

\* The command that waits is the packet that is sent.
ControlOK ==
  /\ phase \in {"idle", "send", "length", "rest"}
  /\ CommandsOK(todo)
  /\ phase # "idle" => todo # <<>>
  /\ rest \in Nat /\ ask \in Nat /\ torn \in BOOLEAN
  /\ phase = "rest" => up /\ rx \in Seq(Pieces) /\ Len(rx) = 4
  /\ Waiting => ask \in 1..Len(commands) /\ commands[ask] = Head(todo)

LastOK ==
  /\ last.ok \in BOOLEAN
  /\ last.ok => last.of \in 1..Len(commands)
  /\ Trolley!OnlyOfTheRegister

\* A packet that began with the length of an answer has the rest of this answer
\* before it, and asks for as much.
Continues ==
  phase = "rest" /\ ~torn =>
    \E n \in 1..Len(commands) :
      /\ wire # <<>> /\ wire[1] = [to |-> n, byte |-> 5]
      /\ rest = commands[n].answer - 4

\* On the wire is the answer to the running command from its byte first on, and
\* no other is to come.
OwnWire(first) ==
  /\ unanswered = <<>> /\ wire # <<>> /\ wire[1] = [to |-> ask, byte |-> first]
  /\ Len(wire) = commands[ask].answer - first + 1

\* Before the first slip the stream holds the answer to the running command and
\* nothing else.
InStep ==
  ~slipped =>
    /\ phase \in {"idle", "send"} => wire = <<>> /\ unanswered = <<>>
    /\ Waiting => \/ phase = "length" /\ unanswered = <<ask>> /\ wire = <<>>
                  \/ phase = "length" /\ OwnWire(1)
                  \/ phase = "rest" /\ OwnWire(5) /\ rest = Len(wire)

TrolleyInv ==
  LinkOK /\ ControlOK /\ LastOK /\ Continues /\ InStep /\ Trolley!OwnAnswerInStep

\* Another client of the run leaves the trolley's result alone.
ControlInv ==
  IF part = "control" THEN TrolleyInv ELSE last = Trolley!NoResult

LEMMA PacketTyped ==
  ASSUME NEW x \in Addresses
  PROVE  /\ Trolley!Packet(x, "write", 0) \in Packets /\ Trolley!Packet(x, "read", 1) \in Packets
         /\ Trolley!Packet(x, "read", 2) \in Packets /\ Trolley!Packet(x, "write", 1) \in Packets
         /\ Trolley!Packet(x, "flash", 0) \in Packets
<1>1. "read" # "write" /\ "read" # "flash"
  OBVIOUS
<1>2. 20 + 4*0 = 20 /\ 20 + 4*1 = 24 /\ 20 + 4*2 = 28
  OBVIOUS
<1> QED
  BY <1>1, <1>2 DEF Packets, Trolley!Packet, Trolley!HeaderBytes

LEMMA OnePacket == \A c \in Packets : CommandsOK(<<c>>)
BY DEF CommandsOK

\* The packets of every call.
LEMMA ProgramsTyped == \A p \in Trolley!Programs : CommandsOK(p)
<1> SUFFICES ASSUME NEW x \in Addresses, NEW p,
                    p \in {Trolley!DeviceRead(x), Trolley!DeviceWrite(x),
                           Trolley!DeviceReadMask(x), Trolley!DeviceWriteMask(x),
                           Trolley!DeviceArrayRead(x, 2), Trolley!DeviceArrayWrite(x, 2),
                           Trolley!DeviceNVWrite(x), Trolley!DeviceNVArrayWrite(x, 2),
                           Trolley!DeviceNVEraseSector(x), Trolley!DeviceNVEraseBlock(x),
                           Trolley!DeviceNVEraseChip(x), Trolley!DeviceLoadNMRSetting(x)}
             PROVE  CommandsOK(p)
  BY DEF Trolley!Programs
<1>1. /\ Trolley!Packet(x, "write", 0) \in Packets /\ Trolley!Packet(x, "read", 1) \in Packets
      /\ Trolley!Packet(x, "read", 2) \in Packets /\ Trolley!Packet(x, "write", 1) \in Packets
      /\ Trolley!Packet(x, "flash", 0) \in Packets
  BY PacketTyped, Zenon
<1>2. /\ CommandsOK(<<Trolley!Packet(x, "write", 0)>>) /\ CommandsOK(<<Trolley!Packet(x, "read", 1)>>)
      /\ CommandsOK(<<Trolley!Packet(x, "read", 2)>>) /\ CommandsOK(<<Trolley!Packet(x, "write", 1)>>)
      /\ CommandsOK(<<Trolley!Packet(x, "flash", 0)>>)
  BY <1>1, OnePacket, Zenon
<1>3. CommandsOK(Trolley!NVCommand(x))
  <2>1. CommandsOK(<<>>)
    BY DEF CommandsOK
  <2> QED
    BY <1>2, <2>1, Zenon DEF Trolley!NVCommand
<1>4. CommandsOK(Trolley!DeviceLoadNMRSetting(x))
  <2>1. ASSUME NEW c \in Packets PROVE [i \in 1..NMRWords |-> c] \in Seq(Packets)
    BY NetworkAssumption, IsASeq
  <2>2. Trolley!Packet(x, "write", 0) \in Packets
    BY <1>1, Zenon
  <2>3. Trolley!DeviceLoadNMRSetting(x) = [i \in 1..NMRWords |-> Trolley!Packet(x, "write", 0)]
    BY DEF Trolley!DeviceLoadNMRSetting, Trolley!DeviceWrite
  <2> QED
    BY <2>1, <2>2, <2>3, Zenon DEF CommandsOK
<1>5. /\ CommandsOK(Trolley!DeviceRead(x)) /\ CommandsOK(Trolley!DeviceWrite(x))
      /\ CommandsOK(Trolley!DeviceReadMask(x)) /\ CommandsOK(Trolley!DeviceWriteMask(x))
      /\ CommandsOK(Trolley!DeviceArrayRead(x, 2)) /\ CommandsOK(Trolley!DeviceArrayWrite(x, 2))
  BY <1>2 DEF Trolley!DeviceRead, Trolley!DeviceWrite, Trolley!DeviceReadMask,
    Trolley!DeviceWriteMask, Trolley!DeviceArrayRead, Trolley!DeviceArrayWrite
<1>6. /\ CommandsOK(Trolley!DeviceNVWrite(x)) /\ CommandsOK(Trolley!DeviceNVArrayWrite(x, 2))
      /\ CommandsOK(Trolley!DeviceNVEraseSector(x)) /\ CommandsOK(Trolley!DeviceNVEraseBlock(x))
      /\ CommandsOK(Trolley!DeviceNVEraseChip(x))
  BY <1>3 DEF Trolley!DeviceNVWrite, Trolley!DeviceNVArrayWrite,
    Trolley!DeviceNVEraseSector, Trolley!DeviceNVEraseBlock, Trolley!DeviceNVEraseChip
<1> QED
  BY <1>4, <1>5, <1>6

\* What a read brings and leaves.
LEMMA ReadFacts ==
  ASSUME NEW n \in Nat, NEW got, NEW enough, wire \in Seq(Pieces),
         got \in Trolley!Portions(n), slipped \in BOOLEAN, Trolley!ClientTCPRead(n, got, enough)
  PROVE  /\ got \in Nat /\ got <= Len(wire) /\ got <= n /\ Len(wire) \in Nat
         /\ wire' = SubSeq(wire, got + 1, Len(wire)) /\ slipped' \in BOOLEAN
         /\ slipped' <=> slipped \/ got < enough
         /\ wire' \in Seq(Pieces) /\ Len(wire') = Len(wire) - got
         /\ \A i \in 1..(Len(wire) - got) : wire'[i] = wire[got + i]
         /\ UNCHANGED <<up, commands, unanswered, calls>>
<1>1. Len(wire) \in Nat
  OBVIOUS
<1>2. wire' = SubSeq(wire, got + 1, Len(wire))
  BY DEF Trolley!ClientTCPRead
<1>3. got \in Nat /\ got <= Len(wire) /\ got <= n
  BY <1>1, <1>2, NetworkAssumption DEF Trolley!Portions
<1>4. /\ wire' \in Seq(Pieces) /\ Len(wire') = Len(wire) - got
      /\ \A i \in 1..(Len(wire) - got) : wire'[i] = wire[got + i]
  BY <1>1, <1>2, <1>3
<1>5. slipped' = (slipped \/ got < enough)
  BY DEF Trolley!ClientTCPRead
<1>6. slipped' \in BOOLEAN /\ (slipped' <=> slipped \/ got < enough)
  BY <1>5, Zenon
<1> QED
  BY <1>1, <1>2, <1>3, <1>4, <1>6 DEF Trolley!ClientTCPRead

\* The words of a packet of which some bytes came.
LEMMA WordFacts ==
  ASSUME NEW p \in Seq(Pieces), NEW i \in {1, 2, 6}
  PROVE  /\ \A j \in 1..4 : /\ 4*i - 4 + j <= Len(p) => Trolley!Word(p, i)[j] = p[4*i - 4 + j]
                            /\ ~(4*i - 4 + j <= Len(p)) => Trolley!Word(p, i)[j] = Trolley!Junk
         /\ Trolley!Word(p, i) \in Seq(Pieces) /\ Len(Trolley!Word(p, i)) = 4
<1> DEFINE e(j) == IF 4*i - 4 + j <= Len(p) THEN p[4*i - 4 + j] ELSE Trolley!Junk
<1>1. Trolley!Word(p, i) = [j \in 1..4 |-> e(j)]
  BY DEF Trolley!Word
<1>2. ASSUME NEW j \in 1..4 PROVE e(j) \in Pieces
  <2>1. CASE 4*i - 4 + j <= Len(p)
    <3>1. 4*i - 4 + j \in 1..Len(p)
      BY <2>1
    <3> QED
      BY <2>1, <3>1, ElementOfSeq
  <2>2. CASE ~(4*i - 4 + j <= Len(p))
    BY <2>2 DEF Trolley!Junk, Pieces
  <2> QED
    BY <2>1, <2>2
<1> HIDE DEF e
<1>3. [j \in 1..4 |-> e(j)] \in Seq(Pieces) /\ Len([j \in 1..4 |-> e(j)]) = 4
  BY <1>2, IsASeq
<1>4. \A j \in 1..4 : Trolley!Word(p, i)[j] = e(j)
  BY <1>1
<1> QED
  BY <1>1, <1>3, <1>4 DEF e

\* What the bytes of an answer read as.
LEMMA Readings ==
  ASSUME CommandsOK(commands), NEW n \in 1..Len(commands)
  PROVE  /\ Trolley!IsWord(Trolley!AnswerWord(n, 1), 1)
         /\ Trolley!Values(Trolley!AnswerWord(n, 1)) = {commands[n].answer}
         /\ Trolley!Values(Trolley!AnswerWord(n, 2)) = {commands[n].address}
<1>1. DOMAIN commands = 1..Len(commands)
  BY CommandFacts
<1>2. \A m, i : Trolley!AnswerWord(m, i)[1] = [to |-> m, byte |-> 4*i - 4 + 1]
  BY DEF Trolley!AnswerWord
<1>3. \A m : /\ Trolley!AnswerWord(m, 1)[1] = [to |-> m, byte |-> 1]
             /\ Trolley!AnswerWord(m, 2)[1] = [to |-> m, byte |-> 5]
  BY <1>2
<1>4. Trolley!IsWord(Trolley!AnswerWord(n, 1), 1) /\ Trolley!IsWord(Trolley!AnswerWord(n, 2), 2)
  BY <1>1 DEF Trolley!IsWord
<1>5. ~Trolley!IsWord(Trolley!AnswerWord(n, 2), 1)
  <2>1. SUFFICES ASSUME NEW m, Trolley!AnswerWord(n, 2) = Trolley!AnswerWord(m, 1) PROVE FALSE
    BY DEF Trolley!IsWord
  <2>2. [to |-> n, byte |-> 5] = [to |-> m, byte |-> 1]
    BY <1>3, <2>1
  <2>3. [to |-> n, byte |-> 5].byte = [to |-> m, byte |-> 1].byte
    BY <2>2
  <2> QED
    BY <2>3
<1>6. Trolley!Values(Trolley!AnswerWord(n, 1)) = {commands[n].answer}
  <2>1. Trolley!AnswerWord(n, 1)[1].to = n
    <3>1. Trolley!AnswerWord(n, 1)[1] = [to |-> n, byte |-> 1]
      BY <1>3
    <3> QED
      BY <3>1
  <2> DEFINE w == Trolley!AnswerWord(n, 1)
  <2>2. Trolley!IsWord(w, 1) /\ w[1].to = n
    BY <1>4, <2>1
  <2> HIDE DEF w
  <2>3. Trolley!Values(w) = {commands[n].answer}
    BY <2>2 DEF Trolley!Values
  <2> QED
    BY <2>3 DEF w
<1>7. Trolley!Values(Trolley!AnswerWord(n, 2)) = {commands[n].address}
  <2>1. Trolley!AnswerWord(n, 2)[1].to = n
    <3>1. Trolley!AnswerWord(n, 2)[1] = [to |-> n, byte |-> 5]
      BY <1>3
    <3> QED
      BY <3>1
  <2> DEFINE w == Trolley!AnswerWord(n, 2)
  <2>2. ~Trolley!IsWord(w, 1) /\ Trolley!IsWord(w, 2) /\ w[1].to = n
    BY <1>4, <1>5, <2>1
  <2> HIDE DEF w
  <2>3. Trolley!Values(w) = {commands[n].address}
    BY <2>2 DEF Trolley!Values
  <2> QED
    BY <2>3 DEF w
<1> QED
  BY <1>4, <1>6, <1>7

\* Four bytes that are equal to those of an answer's word are this word.
LEMMA SameWord ==
  ASSUME NEW w, NEW n, NEW i \in {1, 2, 6}, w \in Seq(Pieces), Len(w) = 4,
         \A j \in 1..4 : w[j] = [to |-> n, byte |-> 4*i - 4 + j]
  PROVE  w = Trolley!AnswerWord(n, i)
<1>1. DOMAIN w = 1..4 /\ w = [j \in DOMAIN w |-> w[j]]
  BY LenProperties
<1>2. Trolley!AnswerWord(n, i) = [j \in 1..4 |-> [to |-> n, byte |-> 4*i - 4 + j]]
  BY DEF Trolley!AnswerWord
<1>3. [j \in 1..4 |-> w[j]] = [j \in 1..4 |-> [to |-> n, byte |-> 4*i - 4 + j]]
  OBVIOUS
<1> QED
  BY <1>1, <1>2, <1>3

\* A word of the packet whose answer continues on the wire.
LEMMA PacketWord ==
  ASSUME AnswerStream(commands, wire), wire # <<>>, CommandsOK(commands),
         NEW n \in 1..Len(commands), wire[1] = [to |-> n, byte |-> 5],
         rx \in Seq(Pieces), Len(rx) = 4,
         NEW got \in Nat, got <= Len(wire), got <= commands[n].answer - 4,
         NEW i \in {2, 6}
  PROVE  LET p == rx \o SubSeq(wire, 1, got) IN
         /\ p \in Seq(Pieces) /\ Len(p) = 4 + got /\ (got > 0 => p[5] = wire[1])
         /\ 4*i <= 4 + got => Trolley!Word(p, i) = Trolley!AnswerWord(n, i)
<1> DEFINE q == SubSeq(wire, 1, got)
           p == rx \o q
           all == commands[n].answer
<1>1. wire \in Seq(Pieces) /\ Len(wire) \in Nat /\ all \in 20..1044
  BY CommandFacts DEF AnswerStream
<1>2. q \in Seq(Pieces) /\ Len(q) = got /\ \A h \in 1..got : q[h] = wire[h]
  BY <1>1
<1>0. got <= all - 4
  OBVIOUS
<1> HIDE DEF q, all
<1>3. /\ p \in Seq(Pieces) /\ Len(p) = 4 + got
      /\ \A h \in 1..(4 + got) : p[h] = IF h <= 4 THEN rx[h] ELSE q[h - 4]
  <2>1. /\ p \in Seq(Pieces) /\ Len(p) = Len(rx) + Len(q)
        /\ \A h \in 1..(Len(rx) + Len(q)) :
              p[h] = IF h <= Len(rx) THEN rx[h] ELSE q[h - Len(rx)]
    BY <1>2, ConcatProperties
  <2> QED
    BY <1>2, <2>1
<1> HIDE DEF p
<1>4. ASSUME NEW h \in 1..got PROVE p[4 + h] = [to |-> n, byte |-> 4 + h]
  <2>1. 1 \in 1..Len(wire) /\ wire[1].to = n /\ wire[1].byte = 5
        /\ h - 1 \in 0..(commands[wire[1].to].answer - wire[1].byte)
    <3>1. h - 1 \in 0..(all - 5)
      BY <1>0, <1>1, <1>4
    <3>2. wire[1].to = n /\ wire[1].byte = 5 /\ 1 \in 1..Len(wire)
      BY <1>1, EmptySeq
    <3> QED
      BY <3>1, <3>2, Zenon DEF all
  <2>2. wire[1 + (h - 1)] = [to |-> n, byte |-> 5 + (h - 1)]
    BY <2>1 DEF AnswerStream
  <2>3. 1 + (h - 1) = h /\ 5 + (h - 1) = 4 + h /\ 4 + h \in 1..(4 + got) /\ ~(4 + h <= 4)
        /\ (4 + h) - 4 = h
    BY <1>4
  <2> QED
    BY <1>2, <1>3, <2>2, <2>3
<1>5. ASSUME 4*i <= 4 + got PROVE Trolley!Word(p, i) = Trolley!AnswerWord(n, i)
  <2> DEFINE w == Trolley!Word(p, i)
  <2>1. /\ \A j \in 1..4 : 4*i - 4 + j <= Len(p) => w[j] = p[4*i - 4 + j]
        /\ w \in Seq(Pieces) /\ Len(w) = 4
    <3>1. i \in {1, 2, 6} /\ p \in Seq(Pieces)
      BY <1>3
    <3> QED
      BY <3>1, WordFacts, Zenon
  <2> HIDE DEF w
  <2>2. ASSUME NEW j \in 1..4 PROVE w[j] = [to |-> n, byte |-> 4*i - 4 + j]
    <3>1. /\ (4*i - 8) + j \in 1..got /\ 4 + ((4*i - 8) + j) = 4*i - 4 + j
          /\ 4*i - 4 + j <= 4 + got
      <4>1. CASE i = 2
        BY <1>5, <4>1
      <4>2. CASE i = 6
        BY <1>5, <4>2
      <4> QED
        BY <4>1, <4>2
    <3>2. 4*i - 4 + j <= Len(p)
      BY <1>3, <3>1
    <3> QED
      BY <1>4, <2>1, <3>1, <3>2
  <2>3. w = Trolley!AnswerWord(n, i)
    BY <2>1, <2>2, SameWord
  <2> QED
    BY <2>3 DEF w
<1>6. got > 0 => p[5] = wire[1]
  BY <1>2, <1>3
<1> QED
  BY <1>3, <1>5, <1>6 DEF p, q

\* The end of a packet: nothing of it is kept.
LEMMA DoneControl ==
  ASSUME CommandsOK(todo), todo # <<>>, torn' \in BOOLEAN, NEW r, Trolley!Done(r)
  PROVE  /\ ControlOK' /\ Continues' /\ phase' \in {"idle", "send"} /\ last' = r
<1>1. /\ todo' = Tail(todo) /\ phase' = IF Len(todo) = 1 THEN "idle" ELSE "send"
      /\ ask' = 0 /\ rest' = 0 /\ rx' = <<>> /\ last' = r
  BY DEF Trolley!Done
<1>2. todo \in Seq(Packets)
  BY DEF CommandsOK
<1>3. /\ Tail(todo) \in Seq(Packets) /\ Len(todo) \in Nat /\ Len(todo) > 0
      /\ Len(todo) # 1 => Tail(todo) # <<>>
  <2>1. Tail(todo) \in Seq(Packets) /\ Len(Tail(todo)) = Len(todo) - 1
    BY <1>2, HeadTailProperties
  <2>2. Len(todo) \in Nat /\ Len(todo) > 0
    BY <1>2, EmptySeq
  <2> QED
    <3>1. ASSUME Tail(todo) = <<>> PROVE Len(todo) = 1
      <4>1. Len(Tail(todo)) = 0
        BY <2>1, <3>1, EmptySeq, Zenon
      <4> DEFINE l == Len(todo)
      <4>2. l \in Nat /\ l - 1 = 0
        BY <2>1, <2>2, <4>1, Zenon
      <4> HIDE DEF l
      <4>3. l = 1
        BY <4>2
      <4> QED
        BY <4>3 DEF l
    <3> QED
      BY <2>1, <2>2, <3>1, Zenon
<1> QED
  BY <1>1, <1>3, Zenon DEF ControlOK, Continues, Waiting, CommandsOK

\* No result to say anything about.
LEMMA NoLast ==
  ASSUME last' = Trolley!NoResult
  PROVE  LastOK' /\ Trolley!OwnAnswerInStep'
<1>1. last'.ok = FALSE
  BY DEF Trolley!NoResult
<1> QED
  BY <1>1, Zenon DEF LastOK, Trolley!OnlyOfTheRegister, Trolley!OwnAnswerInStep

\* The last result stays true while commands and answers come.
LEMMA KeepLast ==
  ASSUME LastOK, Trolley!OwnAnswerInStep, CommandsOK(commands), last' = last,
         slipped => slipped', torn => torn', CommandsOK(commands'),
         commands' = commands \/ \E c : commands' = Append(commands, c)
  PROVE  LastOK' /\ Trolley!OwnAnswerInStep'
<1>1. /\ Len(commands) \in Nat /\ Len(commands') \in Nat
      /\ DOMAIN commands = 1..Len(commands) /\ DOMAIN commands' = 1..Len(commands')
  BY CommandFacts
<1>2. Len(commands) <= Len(commands') /\ \A i \in 1..Len(commands) : commands'[i] = commands[i]
  <2> DEFINE cs == commands
             ds == commands'
  <2>1. cs \in Seq(Packets) /\ (ds = cs \/ \E c : ds = Append(cs, c))
    BY DEF CommandsOK
  <2> HIDE DEF cs, ds
  <2>2. Len(cs) <= Len(ds) /\ \A i \in 1..Len(cs) : ds[i] = cs[i]
    <3>1. Len(cs) \in Nat
      BY <2>1
    <3>2. CASE ds = cs
      BY <3>1, <3>2
    <3>3. CASE \E c : ds = Append(cs, c)
      <4>1. PICK c : ds = Append(cs, c)
        BY <3>3
      <4>2. Len(ds) = Len(cs) + 1 /\ \A i \in 1..Len(cs) : ds[i] = cs[i]
        BY <2>1, <4>1
      <4> QED
        BY <3>1, <4>2
    <3> QED
      BY <2>1, <3>2, <3>3
  <2> QED
    BY <2>2 DEF cs, ds
<1>2a. \A i \in 1..Len(commands) : i \in 1..Len(commands')
  <2> DEFINE l == Len(commands)
             m == Len(commands')
  <2>1. l \in Nat /\ m \in Nat /\ l <= m
    BY <1>1, <1>2, Zenon
  <2> HIDE DEF l, m
  <2>2. \A i \in 1..l : i \in 1..m
    BY <2>1
  <2> QED
    BY <2>2 DEF l, m
<1>3. last.ok => last.of \in 1..Len(commands') /\ commands'[last.of] = commands[last.of]
  BY <1>2, <1>2a, Zenon DEF LastOK
<1>4. \A i \in DOMAIN commands : i \in DOMAIN commands' /\ commands'[i] = commands[i]
  BY <1>1, <1>2, <1>2a, Zenon
<1>5. Trolley!OnlyOfTheRegister'
  BY <1>3, <1>4 DEF LastOK, Trolley!OnlyOfTheRegister, Trolley!Arrived, Trolley!Junk,
    Trolley!AnswerWord
<1>6. LastOK'
  BY <1>3, <1>5 DEF LastOK
<1>7. Trolley!OwnAnswerInStep'
  BY <1>3 DEF Trolley!OwnAnswerInStep, Trolley!AnswerWord
<1> QED
  BY <1>6, <1>7

LEMMA NothingReceived ==
  ASSUME NEW w \in Seq(Pieces)
  PROVE  <<>> \o w = w
BY ConcatEmptySeq

(***************************************************************************)
(* The steps.                                                              *)
(***************************************************************************)
\* Between two packets nothing is received.
LEMMA CallStep == ASSUME TrolleyInv, Trolley!Call PROVE TrolleyInv'
<1>1. /\ phase = "idle" /\ phase' = "send" /\ last' = Trolley!NoResult
      /\ \E p \in Trolley!Programs \ {<<>>} : todo' = p
      /\ UNCHANGED <<up, commands, unanswered, wire, slipped, ask, rest, rx, torn>>
  BY DEF Trolley!Call
<1>2. CommandsOK(todo') /\ todo' # <<>>
  BY <1>1, ProgramsTyped
<1>3. LinkOK'
  BY <1>1 DEF TrolleyInv, LinkOK
<1>4. ControlOK' /\ Continues'
  BY <1>1, <1>2 DEF TrolleyInv, ControlOK, Continues, Waiting
<1>5. InStep'
  BY <1>1 DEF TrolleyInv, InStep, Waiting
<1> QED
  BY <1>1, <1>3, <1>4, <1>5, NoLast DEF TrolleyInv

LEMMA FreshLink ==
  ASSUME TrolleyInv, commands' = commands,
         up' \in BOOLEAN, slipped' \in BOOLEAN, wire' = <<>>, unanswered' = <<>>
  PROVE  LinkOK'
<1>1. <<>> \in Seq(Nat)
  OBVIOUS
<1> QED
  BY <1>1, EmptyStream DEF TrolleyInv, LinkOK

LEMMA ConnectStep ==
  ASSUME TrolleyInv,
         Trolley!DeviceConnect \/ Trolley!DevicePurgeComm \/ Trolley!DeviceDisconnect
  PROVE  TrolleyInv'
<1>1. /\ phase = "idle" /\ last' = Trolley!NoResult /\ up' \in BOOLEAN
      /\ unanswered' = <<>> /\ wire' = <<>> /\ slipped' \in BOOLEAN /\ torn' \in BOOLEAN
      /\ UNCHANGED <<commands, ask, rest, rx>>
  BY DEF TrolleyInv, LinkOK, ControlOK, Trolley!DeviceConnect, Trolley!DevicePurgeComm,
    Trolley!DeviceDisconnect, Trolley!ConnectToTCPServer, Trolley!DisconnectFromTCPServer
<1>2. \/ UNCHANGED <<todo, phase>>
      \/ phase' = "send" /\ CommandsOK(todo') /\ todo' # <<>>
  <2>1. CASE Trolley!DeviceConnect
    <3>1. PICK x \in Addresses :
            \/ todo' = Trolley!DeviceWrite(x) \o Trolley!DeviceWriteMask(x) /\ phase' = "send"
            \/ UNCHANGED <<todo, phase>>
      BY <2>1 DEF Trolley!DeviceConnect
    <3>2. ASSUME NEW c \in Packets, NEW d \in Packets
          PROVE  CommandsOK(<<c>> \o <<d>>) /\ <<c>> \o <<d>> # <<>>
      BY DEF CommandsOK
    <3>3. Trolley!Packet(x, "write", 0) \in Packets /\ Trolley!Packet(x, "write", 1) \in Packets
      BY PacketTyped, Zenon
    <3> QED
      BY <3>1, <3>2, <3>3, Zenon DEF Trolley!DeviceWrite, Trolley!DeviceWriteMask
  <2> QED
    BY <2>1 DEF Trolley!DevicePurgeComm, Trolley!DeviceDisconnect
<1>3. LinkOK'
  BY <1>1, FreshLink
<1>4. ControlOK' /\ Continues'
  BY <1>1, <1>2 DEF TrolleyInv, ControlOK, Continues, Waiting
<1>5. InStep'
  BY <1>1, <1>2 DEF InStep, Waiting
<1> QED
  BY <1>1, <1>3, <1>4, <1>5, NoLast DEF TrolleyInv

LEMMA SendStep == ASSUME TrolleyInv, Trolley!Send PROVE TrolleyInv'
<1> DEFINE c == Head(todo)
<1>1. PICK ok \in BOOLEAN :
        /\ Trolley!ClientTCPWrite(c, ok)
        /\ IF ok THEN /\ phase' = "length" /\ ask' = Len(commands')
                      /\ UNCHANGED <<todo, rest, rx, last>>
           ELSE Trolley!Done(Trolley!NoResult)
  BY DEF Trolley!Send
<1>2. /\ phase = "send" /\ todo # <<>> /\ CommandsOK(todo) /\ CommandsOK(commands)
      /\ torn' = torn /\ torn \in BOOLEAN
  BY DEF Trolley!Send, TrolleyInv, ControlOK, LinkOK
<1>3. c \in Packets
  BY <1>2 DEF CommandsOK
<1> HIDE DEF c
<1>4. CASE ok /\ up
  <2>1. /\ commands' = Append(commands, c) /\ unanswered' = Append(unanswered, Len(commands) + 1)
        /\ UNCHANGED <<up, wire, slipped>>
        /\ phase' = "length" /\ ask' = Len(commands') /\ UNCHANGED <<todo, rest, rx, last>>
    BY <1>1, <1>4 DEF Trolley!ClientTCPWrite
  <2>2. /\ CommandsOK(commands') /\ Len(commands) \in Nat /\ Len(commands') = Len(commands) + 1
        /\ commands'[Len(commands')] = c
    BY <1>2, <1>3, <2>1 DEF CommandsOK
  <2>3. /\ unanswered' \in Seq(Nat)
        /\ \A i \in 1..Len(unanswered') : unanswered'[i] \in 1..Len(commands')
    <3>1. /\ unanswered \in Seq(Nat)
          /\ \A i \in 1..Len(unanswered) : unanswered[i] \in 1..Len(commands)
      BY DEF TrolleyInv, LinkOK
    <3> QED
      BY <2>1, <2>2, <3>1
  <2>4. AnswerStream(commands', wire')
    <3>1. AnswerStream(commands, wire)
      BY DEF TrolleyInv, LinkOK
    <3> QED
      BY <1>2, <1>3, <2>1, <3>1, StreamGrow DEF CommandsOK
  <2>5. LinkOK'
    BY <1>4, <2>1, <2>2, <2>3, <2>4 DEF TrolleyInv, LinkOK
  <2>6. ControlOK' /\ Continues'
    BY <1>2, <2>1, <2>2 DEF TrolleyInv, ControlOK, Continues, Waiting, c
  <2>7. InStep'
    <3>1. ~slipped => wire = <<>> /\ unanswered = <<>>
      BY <1>2 DEF TrolleyInv, InStep
    <3>2. Append(<<>>, Len(commands) + 1) = <<Len(commands) + 1>>
      OBVIOUS
    <3> QED
      BY <2>1, <2>2, <3>1, <3>2 DEF InStep, Waiting
  <2>8. LastOK' /\ Trolley!OwnAnswerInStep'
    BY <1>2, <2>1, <2>2, KeepLast DEF TrolleyInv
  <2> QED
    BY <2>5, <2>6, <2>7, <2>8 DEF TrolleyInv
<1>5. CASE ~(ok /\ up)
  <2>1. UNCHANGED <<up, commands, unanswered, wire, slipped>>
    BY <1>1, <1>5 DEF Trolley!ClientTCPWrite, Trolley!link
  <2>2. LinkOK'
    BY <2>1 DEF TrolleyInv, LinkOK
  <2>3. CASE ok
    <3>1. /\ ~up /\ phase' = "length" /\ ask' = Len(commands) /\ UNCHANGED <<todo, rest, rx, last>>
      BY <1>1, <1>5, <2>1, <2>3
    <3>2. Len(commands) \in Nat
      BY <1>2 DEF CommandsOK
    <3>4. ControlOK' /\ Continues'
      BY <1>2, <2>1, <3>1, <3>2 DEF TrolleyInv, ControlOK, Continues, Waiting
    <3>5. InStep'
      BY <2>1, <3>1 DEF InStep, Waiting
    <3>6. LastOK' /\ Trolley!OwnAnswerInStep'
      BY <1>2, <2>1, <3>1, KeepLast DEF TrolleyInv
    <3> QED
      BY <2>2, <3>4, <3>5, <3>6 DEF TrolleyInv
  <2>4. CASE ~ok
    <3>1. /\ ControlOK' /\ Continues' /\ phase' \in {"idle", "send"}
          /\ last' = Trolley!NoResult
      BY <1>1, <1>2, <2>4, DoneControl
    <3>3. InStep'
      BY <1>2, <2>1, <3>1 DEF TrolleyInv, InStep, Waiting
    <3> QED
      BY <2>2, <3>1, <3>3, NoLast DEF TrolleyInv
  <2> QED
    BY <2>3, <2>4
<1> QED
  BY <1>4, <1>5

\* What a read leaves on the wire is a stream again.
LEMMA WireDropped ==
  ASSUME TrolleyInv, NEW got \in Nat, got <= Len(wire),
         wire' = SubSeq(wire, got + 1, Len(wire)),
         slipped' \in BOOLEAN, UNCHANGED <<up, commands, unanswered>>
  PROVE  LinkOK'
<1>1. AnswerStream(commands, wire) /\ wire \in Seq(Pieces)
  BY DEF TrolleyInv, LinkOK, AnswerStream
<1>2. AnswerStream(commands', wire')
  BY <1>1, StreamDrop
<1>3. ~up => wire' = <<>>
  <2>1. ASSUME ~up PROVE Len(wire) = 0 /\ wire = <<>>
    BY <2>1 DEF TrolleyInv, LinkOK
  <2> QED
    BY <2>1, SubSeqEmpty
<1> QED
  BY <1>2, <1>3 DEF TrolleyInv, LinkOK

\* A length that was read from the beginning of an answer: the wire continues with it.
LEMMA LengthRead ==
  ASSUME AnswerStream(commands, wire), CommandsOK(commands), NEW n \in 1..Len(commands),
         NEW got \in 0..4, got <= Len(wire),
         Trolley!Word(SubSeq(wire, 1, got), 1) = Trolley!AnswerWord(n, 1)
  PROVE  /\ got = 4 /\ Len(wire) > 4 /\ wire[5] = [to |-> n, byte |-> 5]
<1> DEFINE q == SubSeq(wire, 1, got)
           w == Trolley!Word(q, 1)
<1>1. wire \in Seq(Pieces) /\ Len(wire) \in Nat /\ commands[n].answer \in 20..1044
  BY CommandFacts DEF AnswerStream
<1>2. q \in Seq(Pieces) /\ Len(q) = got /\ \A h \in 1..got : q[h] = wire[h]
  BY <1>1
<1> HIDE DEF q
<1>3. \A j \in 1..4 : /\ 4*1 - 4 + j <= Len(q) => w[j] = q[4*1 - 4 + j]
                      /\ ~(4*1 - 4 + j <= Len(q)) => w[j] = Trolley!Junk
  BY <1>2, WordFacts
<1> HIDE DEF w
<1>4. w[4] = [to |-> n, byte |-> 4]
  <2>1. w = Trolley!AnswerWord(n, 1)
    BY DEF w, q
  <2> QED
    BY <2>1 DEF Trolley!AnswerWord
<1>5. got = 4
  <2>1. SUFFICES ASSUME ~(4 <= got) PROVE FALSE
    BY <1>1
  <2>2. w[4] = Trolley!Junk
    BY <1>2, <1>3, <2>1
  <2> QED
    BY <1>4, <2>2 DEF Trolley!Junk
<1>6. wire[4] = [to |-> n, byte |-> 4] /\ 4 \in 1..Len(wire)
  BY <1>1, <1>2, <1>3, <1>4, <1>5
<1>7. 4 + 1 <= Len(wire) /\ wire[4 + 1] = [to |-> n, byte |-> 4 + 1]
  <2>1. 1 \in 0..(commands[wire[4].to].answer - wire[4].byte)
    <3> DEFINE all == commands[n].answer
    <3>1. all \in 20..1044
      BY <1>1
    <3>2. wire[4].to = n /\ wire[4].byte = 4
      BY <1>6
    <3> HIDE DEF all
    <3>3. 1 \in 0..(all - 4)
      BY <3>1
    <3> QED
      BY <3>2, <3>3, Zenon DEF all
  <2>2. /\ 4 + 1 <= Len(wire)
        /\ wire[4 + 1] = [to |-> wire[4].to, byte |-> wire[4].byte + 1]
    BY <1>6, <2>1 DEF AnswerStream
  <2> QED
    BY <1>6, <2>2
<1> QED
  BY <1>1, <1>5, <1>7

\* In step, the first word is the length of the answer to the command.
LEMMA LengthInStep ==
  ASSUME AnswerStream(commands, wire), CommandsOK(commands), ask \in 1..Len(commands),
         OwnWire(1), Len(wire) \in Nat
  PROVE  Trolley!Word(SubSeq(wire, 1, 4), 1) = Trolley!AnswerWord(ask, 1)
<1> DEFINE q == SubSeq(wire, 1, 4)
           w == Trolley!Word(q, 1)
           all == commands[ask].answer
<1>1. /\ wire \in Seq(Pieces) /\ all \in 20..1044 /\ Len(wire) = all
      /\ wire[1].to = ask /\ wire[1].byte = 1
  <2>1. all \in 20..1044
    BY CommandFacts
  <2>2. Len(wire) = all - 1 + 1 /\ wire[1] = [to |-> ask, byte |-> 1]
    BY DEF OwnWire
  <2> HIDE DEF all
  <2>3. Len(wire) = all /\ wire[1].to = ask /\ wire[1].byte = 1
    BY <2>1, <2>2
  <2> QED
    BY <2>1, <2>3 DEF AnswerStream
<1>2. q \in Seq(Pieces) /\ Len(q) = 4 /\ \A h \in 1..4 : q[h] = wire[h]
  <2> HIDE DEF all
  <2>1. wire \in Seq(Pieces) /\ Len(wire) \in Nat /\ 4 <= Len(wire)
    BY <1>1
  <2> QED
    BY <2>1
<1> HIDE DEF q, all
<1>3. /\ \A j \in 1..4 : 4*1 - 4 + j <= Len(q) => w[j] = q[4*1 - 4 + j]
      /\ w \in Seq(Pieces) /\ Len(w) = 4
  BY <1>2, WordFacts
<1> HIDE DEF w
<1>4. ASSUME NEW j \in 1..4 PROVE w[j] = [to |-> ask, byte |-> 4*1 - 4 + j]
  <2>1. j - 1 \in 0..(commands[wire[1].to].answer - wire[1].byte)
    <3>1. j - 1 \in 0..(all - 1)
      BY <1>1
    <3> QED
      BY <1>1, <3>1, Zenon DEF all
  <2>2. wire[1 + (j - 1)] = [to |-> ask, byte |-> 1 + (j - 1)]
    BY <1>1, <2>1 DEF AnswerStream
  <2>3. 1 + (j - 1) = j /\ 4*1 - 4 + j = j
    BY <1>4
  <2> QED
    BY <1>2, <1>3, <2>2, <2>3
<1>5. w = Trolley!AnswerWord(ask, 1)
  BY <1>3, <1>4, SameWord
<1> QED
  BY <1>5 DEF w, q

\* The first word of the answer is its length, as long as the connection is in step.
LEMMA ReadLengthStep == ASSUME TrolleyInv, Trolley!ReadLength PROVE TrolleyInv'
<1>1. /\ phase = "length" /\ todo # <<>> /\ CommandsOK(todo) /\ slipped \in BOOLEAN
      /\ CommandsOK(commands) /\ wire \in Seq(Pieces) /\ Len(wire) \in Nat
      /\ AnswerStream(commands, wire) /\ torn \in BOOLEAN
  BY DEF TrolleyInv, LinkOK, ControlOK, AnswerStream, Trolley!ReadLength
<1> DEFINE W(got) == Trolley!Word(SubSeq(wire, 1, got), 1)
<1>2. PICK got \in Trolley!Portions(4) :
        /\ Trolley!ClientTCPRead(4, got, 4)
        /\ torn' = (torn \/ (got > 0 /\ ~Trolley!IsWord(W(got), 1)))
        /\ \/ got = 0 /\ Trolley!Done(Trolley!NoResult)
           \/ /\ got > 0
              /\ \E n \in Trolley!Values(W(got)) :
                   IF n \in Trolley!HeaderBytes..Trolley!PacketBytes
                   THEN /\ rest' = n - 4 /\ phase' = "rest" /\ rx' = W(got)
                        /\ UNCHANGED <<todo, ask, last>>
                   ELSE Trolley!Done(Trolley!NoResult)
  BY DEF Trolley!ReadLength
<1> DEFINE w == W(got)
<1>3. /\ got \in Nat /\ got <= Len(wire) /\ got <= 4
      /\ wire' = SubSeq(wire, got + 1, Len(wire)) /\ slipped' \in BOOLEAN
      /\ slipped' <=> slipped \/ got < 4
      /\ Len(wire') = Len(wire) - got
      /\ \A i \in 1..(Len(wire) - got) : wire'[i] = wire[got + i]
      /\ UNCHANGED <<up, commands, unanswered>>
  BY <1>1, <1>2, ReadFacts
<1>4. LinkOK'
  BY <1>3, WireDropped
<1>5. /\ torn' \in BOOLEAN /\ (torn => torn')
      /\ ~torn' /\ got > 0 => Trolley!IsWord(w, 1)
  <2>1. torn' = (torn \/ (got > 0 /\ ~Trolley!IsWord(w, 1)))
    BY <1>2
  <2> QED
    BY <1>1, <2>1, Zenon
<1>6. ASSUME ~slipped'
      PROVE  /\ got = 4 /\ Waiting /\ OwnWire(1) /\ unanswered = <<>>
             /\ w = Trolley!AnswerWord(ask, 1) /\ ask \in 1..Len(commands)
             /\ commands[ask].answer \in 20..1044 /\ Len(wire) = commands[ask].answer
             /\ Trolley!Values(w) = {commands[ask].answer}
  <2>1. got = 4 /\ ~slipped /\ wire # <<>> /\ up
    <3>1. got = 4 /\ ~slipped
      BY <1>3, <1>6
    <3> QED
      BY <1>1, <1>3, <3>1 DEF TrolleyInv, LinkOK
  <2>2. Waiting /\ OwnWire(1) /\ ask \in 1..Len(commands)
    BY <1>1, <2>1 DEF TrolleyInv, InStep, ControlOK, Waiting
  <2>3. w = Trolley!AnswerWord(ask, 1)
    BY <1>1, <2>1, <2>2, LengthInStep
  <2>4. commands[ask].answer \in 20..1044
    BY <1>1, <2>2, CommandFacts
  <2>5. Len(wire) = commands[ask].answer /\ unanswered = <<>>
    <3> DEFINE all == commands[ask].answer
    <3>1. all \in 20..1044 /\ Len(wire) = all - 1 + 1 /\ unanswered = <<>>
      BY <2>2, <2>4 DEF OwnWire
    <3> HIDE DEF all
    <3>2. Len(wire) = all
      BY <3>1
    <3> QED
      BY <3>1, <3>2 DEF all
  <2>6. Trolley!Values(Trolley!AnswerWord(ask, 1)) = {commands[ask].answer}
    BY <1>1, <2>2, Readings
  <2> HIDE DEF w
  <2> QED
    BY <2>1, <2>2, <2>3, <2>4, <2>5, <2>6
<1>7. CASE Trolley!Done(Trolley!NoResult) /\ slipped'
  <2>1. /\ ControlOK' /\ Continues' /\ last' = Trolley!NoResult
    BY <1>1, <1>5, <1>7, DoneControl
  <2>2. InStep'
    BY <1>7 DEF InStep
  <2> QED
    BY <1>4, <2>1, <2>2, NoLast DEF TrolleyInv
<1>8. CASE got = 0
  <2>1. slipped' /\ Trolley!Done(Trolley!NoResult)
    BY <1>2, <1>3, <1>8
  <2> QED
    BY <1>7, <2>1
<1>9. CASE got > 0
  <2>1. PICK n \in Trolley!Values(w) :
          IF n \in Trolley!HeaderBytes..Trolley!PacketBytes
          THEN /\ rest' = n - 4 /\ phase' = "rest" /\ rx' = w
               /\ UNCHANGED <<todo, ask, last>>
          ELSE Trolley!Done(Trolley!NoResult)
    BY <1>2, <1>9
  <2>2. w \in Seq(Pieces) /\ Len(w) = 4
    <3>1. SubSeq(wire, 1, got) \in Seq(Pieces)
      BY <1>1, <1>3
    <3> QED
      BY <3>1, WordFacts
  <2>3. up
    <3>1. wire # <<>>
      BY <1>1, <1>3, <1>9
    <3> QED
      BY <3>1 DEF TrolleyInv, LinkOK
  <2>4. ASSUME NEW m \in 1..Len(commands), w = Trolley!AnswerWord(m, 1)
        PROVE  /\ got = 4 /\ Len(wire) > 4 /\ wire[5] = [to |-> m, byte |-> 5]
               /\ Trolley!Values(w) = {commands[m].answer}
    <3>1. got \in 0..4
      BY <1>3
    <3>2. got = 4 /\ Len(wire) > 4 /\ wire[5] = [to |-> m, byte |-> 5]
      BY <1>1, <1>3, <2>4, <3>1, LengthRead
    <3>3. Trolley!Values(Trolley!AnswerWord(m, 1)) = {commands[m].answer}
      BY <1>1, <2>4, Readings
    <3> HIDE DEF w
    <3> QED
      BY <2>4, <3>2, <3>3
  <2> HIDE DEF w
  <2>5. CASE n \in Trolley!HeaderBytes..Trolley!PacketBytes
    <3>1. /\ rest' = n - 4 /\ phase' = "rest" /\ rx' = w
          /\ UNCHANGED <<todo, ask, last>>
      BY <2>1, <2>5
    <3>2. n \in Nat /\ n >= 20 /\ rest' \in Nat
      BY <2>5, <3>1 DEF Trolley!HeaderBytes, Trolley!PacketBytes
    <3>3. ControlOK'
      BY <1>1, <1>3, <1>5, <2>2, <2>3, <3>1, <3>2 DEF TrolleyInv, ControlOK, Waiting
    <3>4. ASSUME NEW m \in 1..Len(commands), w = Trolley!AnswerWord(m, 1)
          PROVE  /\ wire' # <<>> /\ wire'[1] = [to |-> m, byte |-> 5]
                 /\ rest' = commands[m].answer - 4
      <4>1. got = 4 /\ Len(wire) > 4 /\ wire[5] = [to |-> m, byte |-> 5]
        BY <2>4, <3>4
      <4>2. n = commands[m].answer
        <5>1. Trolley!Values(w) = {commands[m].answer}
          BY <2>4, <3>4, Zenon
        <5> QED
          BY <2>1, <5>1, Zenon
      <4>3. wire'[1] = wire[4 + 1] /\ Len(wire') > 0
        BY <1>1, <1>3, <4>1
      <4> QED
        BY <3>1, <4>1, <4>2, <4>3
    <3>5. Continues'
      <4>1. SUFFICES ASSUME ~torn'
                     PROVE  \E m \in 1..Len(commands) :
                              /\ wire' # <<>> /\ wire'[1] = [to |-> m, byte |-> 5]
                              /\ rest' = commands[m].answer - 4
        BY <1>3 DEF Continues
      <4>2. PICK m \in 1..Len(commands) : w = Trolley!AnswerWord(m, 1)
        BY <1>1, <1>5, <1>9, <4>1, CommandFacts DEF Trolley!IsWord
      <4> QED
        BY <3>4, <4>2
    <3>6. InStep'
      <4>1. SUFFICES ASSUME ~slipped' PROVE OwnWire(5)' /\ rest' = Len(wire')
        BY <3>1 DEF InStep, Waiting
      <4>2. /\ got = 4 /\ unanswered = <<>> /\ w = Trolley!AnswerWord(ask, 1)
            /\ ask \in 1..Len(commands) /\ Len(wire) = commands[ask].answer
            /\ commands[ask].answer \in 20..1044
        BY <1>6, <4>1
      <4>3. /\ wire' # <<>> /\ wire'[1] = [to |-> ask, byte |-> 5]
            /\ rest' = commands[ask].answer - 4
        BY <3>4, <4>2
      <4>4. Len(wire') = commands[ask].answer - 4
            /\ commands[ask].answer - 4 = commands[ask].answer - 5 + 1
        BY <1>3, <4>2
      <4> QED
        BY <1>3, <3>1, <4>2, <4>3, <4>4 DEF OwnWire
    <3>7. LastOK' /\ Trolley!OwnAnswerInStep'
      BY <1>1, <1>3, <1>5, <3>1, KeepLast DEF TrolleyInv
    <3> QED
      BY <1>4, <3>3, <3>5, <3>6, <3>7 DEF TrolleyInv
  <2>6. CASE n \notin Trolley!HeaderBytes..Trolley!PacketBytes
    <3>1. Trolley!Done(Trolley!NoResult)
      BY <2>1, <2>6
    <3>2. slipped'
      <4>1. SUFFICES ASSUME ~slipped' PROVE FALSE
        OBVIOUS
      <4>2. commands[ask].answer \in 20..1044 /\ n = commands[ask].answer
        BY <1>6, <2>1, <4>1
      <4> QED
        BY <2>6, <4>2 DEF Trolley!HeaderBytes, Trolley!PacketBytes
    <3> QED
      BY <1>7, <3>1, <3>2
  <2> QED
    BY <2>5, <2>6
<1> QED
  BY <1>3, <1>8, <1>9

LEMMA AnswersStep == ASSUME TrolleyInv, Trolley!DeviceAnswers PROVE TrolleyInv'
<1> DEFINE n == Head(unanswered)
           size == commands[n].answer
           ans == [i \in 1..size |-> [to |-> n, byte |-> i]]
<1>1. /\ unanswered # <<>> /\ wire' = wire \o ans /\ unanswered' = Tail(unanswered)
      /\ UNCHANGED <<up, commands, slipped, todo, phase, ask, rest, rx, last, torn>>
  BY DEF Trolley!DeviceAnswers, Trolley!Answer, Trolley!AnswerSize, Trolley!ctrl
<1>2. /\ unanswered \in Seq(Nat) /\ CommandsOK(commands) /\ wire \in Seq(Pieces)
      /\ AnswerStream(commands, wire)
      /\ \A i \in 1..Len(unanswered) : unanswered[i] \in 1..Len(commands)
  BY DEF TrolleyInv, LinkOK, AnswerStream
<1>3. /\ n \in 1..Len(commands) /\ Tail(unanswered) \in Seq(Nat)
      /\ \A i \in 1..Len(Tail(unanswered)) : Tail(unanswered)[i] \in 1..Len(commands)
  <2>1. /\ Len(unanswered) \in Nat /\ Len(unanswered) > 0 /\ n = unanswered[1]
        /\ Tail(unanswered) \in Seq(Nat) /\ Len(Tail(unanswered)) = Len(unanswered) - 1
        /\ \A i \in 1..Len(Tail(unanswered)) : Tail(unanswered)[i] = unanswered[i + 1]
    BY <1>1, <1>2, HeadTailProperties, EmptySeq
  <2> QED
    BY <1>2, <2>1
<1>4. size \in 20..1044 /\ Len(commands) \in Nat
  <2>1. commands[n].answer \in 20..1044 /\ Len(commands) \in Nat
    <3> HIDE DEF n
    <3> QED
      BY <1>2, <1>3, CommandFacts
  <2> QED
    BY <2>1
<1> HIDE DEF n, size
<1>5. size \in Nat /\ size > 0 /\ n \in Nat /\ size = commands[n].answer
  <2>1. size = commands[n].answer
    BY DEF size
  <2>2. size \in Nat /\ size > 0
    BY <1>4
  <2>3. n \in Nat
    BY <1>3, <1>4
  <2> QED
    BY <2>1, <2>2, <2>3
<1>6. /\ ans \in Seq(Pieces) /\ Len(ans) = size
      /\ \A i \in 1..size : ans[i] = [to |-> n, byte |-> i]
  <2>1. \A i \in 1..size : [to |-> n, byte |-> i] \in Pieces
    BY <1>5 DEF Pieces
  <2> QED
    BY <1>5, <2>1
<1>7. AnswerStream(commands, wire \o ans)
  BY <1>2, <1>3, <1>4, <1>5, StreamAppend
<1> HIDE DEF ans
<1>8. up
  BY <1>1 DEF TrolleyInv, LinkOK
<1>9. LinkOK'
  BY <1>1, <1>2, <1>3, <1>7, <1>8 DEF TrolleyInv, LinkOK
<1>10. ControlOK'
  BY <1>1 DEF TrolleyInv, ControlOK, Waiting
<1>11. Continues'
  <2>1. ASSUME wire # <<>> PROVE wire' # <<>> /\ wire'[1] = wire[1]
    <3>1. Len(wire) \in Nat /\ Len(wire) > 0
      BY <1>2, <2>1, EmptySeq
    <3>2. /\ Len(wire \o ans) = Len(wire) + Len(ans)
          /\ \A i \in 1..(Len(wire) + Len(ans)) :
                (wire \o ans)[i] = IF i <= Len(wire) THEN wire[i] ELSE ans[i - Len(wire)]
      BY <1>2, <1>6, ConcatProperties
    <3>3. 1 \in 1..(Len(wire) + Len(ans)) /\ 1 <= Len(wire) /\ Len(wire) + Len(ans) > 0
      BY <1>5, <1>6, <3>1
    <3>4. (wire \o ans)[1] = wire[1] /\ Len(wire \o ans) > 0
      BY <3>2, <3>3
    <3>5. wire \o ans # <<>>
      BY <3>4
    <3> QED
      BY <1>1, <3>4, <3>5
  <2> QED
    BY <1>1, <2>1 DEF TrolleyInv, Continues
<1>12. InStep'
  <2>1. SUFFICES ASSUME ~slipped PROVE InStep'
    BY <1>1 DEF InStep
  <2>2. phase = "length" /\ unanswered = <<ask>> /\ wire = <<>>
    BY <1>1, <1>8, <2>1 DEF TrolleyInv, InStep, Waiting, ControlOK, OwnWire
  <2>3. n = ask /\ unanswered' = <<>>
    BY <1>1, <2>2 DEF n
  <2>4. wire' = ans
    BY <1>1, <1>6, <2>2, NothingReceived
  <2>5. ans # <<>> /\ ans[1] = [to |-> n, byte |-> 1]
    BY <1>4, <1>5, <1>6
  <2>6. Len(ans) = commands[n].answer - 1 + 1
    BY <1>4, <1>5, <1>6
  <2>7. OwnWire(1)'
    BY <1>1, <2>3, <2>4, <2>5, <2>6 DEF OwnWire
  <2> QED
    BY <1>1, <2>2, <2>7 DEF InStep, Waiting
<1>13. LastOK' /\ Trolley!OwnAnswerInStep'
  BY <1>1, <1>2, KeepLast DEF TrolleyInv
<1> QED
  BY <1>9, <1>10, <1>11, <1>12, <1>13 DEF TrolleyInv

\* What the second read of a whole answer brings.
LEMMA WholeAnswer ==
  \A all, n, got :
    all \in 20..1044 /\ n = all - 5 + 1 /\ got = n
      => got <= all - 4 /\ (all >= 24 => 24 <= 4 + got)
  OBVIOUS

\* A packet that began with a length has the answer's address and data in it.
LEMMA ReadRestStep == ASSUME TrolleyInv, Trolley!ReadRest PROVE TrolleyInv'
<1> DEFINE P(got) == rx \o SubSeq(wire, 1, got)
           R(got, same) == [ok |-> same, of |-> ask, from |-> P(got)[5].to,
                            data |-> IF Head(todo).kind = "read" THEN Trolley!Word(P(got), 6)
                                     ELSE Trolley!NoData]
<1>1. /\ phase = "rest" /\ todo # <<>> /\ CommandsOK(todo) /\ up
      /\ rest \in Nat /\ ask \in Nat /\ rx \in Seq(Pieces) /\ Len(rx) = 4
      /\ ask \in 1..Len(commands) /\ commands[ask] = Head(todo)
      /\ CommandsOK(commands) /\ wire \in Seq(Pieces)
      /\ AnswerStream(commands, wire) /\ slipped \in BOOLEAN /\ torn \in BOOLEAN
  BY DEF TrolleyInv, LinkOK, ControlOK, Waiting, AnswerStream, Trolley!ReadRest
<1>2. PICK got \in Trolley!Portions(rest) :
        /\ Trolley!ClientTCPRead(rest, got, rest)
        /\ \/ got = 0 /\ Trolley!Done(Trolley!NoResult)
           \/ /\ got > 0
              /\ \E same \in Trolley!SameAddress(Trolley!Word(P(got), 2)) :
                   Trolley!Done(R(got, same))
  BY DEF Trolley!ReadRest
<1>3. /\ got \in Nat /\ got <= Len(wire) /\ got <= rest /\ Len(wire) \in Nat
      /\ wire' = SubSeq(wire, got + 1, Len(wire)) /\ slipped' \in BOOLEAN
      /\ slipped' <=> slipped \/ got < rest
      /\ wire' \in Seq(Pieces) /\ Len(wire') = Len(wire) - got
      /\ UNCHANGED <<up, commands, unanswered>>
  BY <1>1, <1>2, ReadFacts
<1>4. torn' = torn /\ torn' \in BOOLEAN
  BY <1>1 DEF Trolley!ReadRest
<1>5. LinkOK'
  BY <1>3, WireDropped
<1>6. \E r : Trolley!Done(r)
  BY <1>2
<1>7. ControlOK' /\ Continues' /\ phase' \in {"idle", "send"}
  BY <1>1, <1>4, <1>6, DoneControl
<1>8. ASSUME ~slipped'
      PROVE  /\ got = rest /\ OwnWire(5) /\ rest = Len(wire) /\ wire' = <<>> /\ unanswered = <<>>
  <2>1. ~slipped /\ got = rest
    BY <1>1, <1>3, <1>8
  <2>2. OwnWire(5) /\ rest = Len(wire)
    BY <1>1, <2>1 DEF TrolleyInv, InStep, Waiting
  <2>3. wire' = <<>>
    BY <1>3, <2>1, <2>2, EmptySeq
  <2> QED
    BY <2>1, <2>2, <2>3 DEF OwnWire
<1>9. InStep'
  BY <1>3, <1>7, <1>8 DEF InStep, Waiting
<1>10. CASE Trolley!Done(Trolley!NoResult)
  <2>1. last' = Trolley!NoResult
    BY <1>10 DEF Trolley!Done
  <2> QED
    BY <1>5, <1>7, <1>9, <2>1, NoLast DEF TrolleyInv
<1>11. CASE got > 0 /\ \E same \in Trolley!SameAddress(Trolley!Word(P(got), 2)) :
                         Trolley!Done(R(got, same))
  <2> DEFINE p == P(got)
             d == IF Head(todo).kind = "read" THEN Trolley!Word(p, 6) ELSE Trolley!NoData
  <2>1. PICK same \in Trolley!SameAddress(Trolley!Word(p, 2)) : Trolley!Done(R(got, same))
    BY <1>11
  <2>2. last' = [ok |-> same, of |-> ask, from |-> p[5].to, data |-> d]
    BY <2>1 DEF Trolley!Done
  <2>3. last'.ok = same /\ last'.of = ask /\ last'.from = p[5].to /\ last'.data = d
    BY <2>2
  <2>4. same \in BOOLEAN
        /\ \E v \in Trolley!Values(Trolley!Word(p, 2)) : same = (v = Head(todo).address)
    BY <2>1 DEF Trolley!SameAddress
  \* The words of the packet when the wire continues an answer.
  <2>5. ASSUME NEW n \in 1..Len(commands), wire # <<>>, wire[1] = [to |-> n, byte |-> 5],
               got <= commands[n].answer - 4
        PROVE  /\ Len(p) = 4 + got /\ p \in Seq(Pieces) /\ p[5] = wire[1]
               /\ 8 <= 4 + got => Trolley!Word(p, 2) = Trolley!AnswerWord(n, 2)
               /\ 24 <= 4 + got => Trolley!Word(p, 6) = Trolley!AnswerWord(n, 6)
    <3>1. \A i \in {2, 6} :
            /\ p \in Seq(Pieces) /\ Len(p) = 4 + got /\ (got > 0 => p[5] = wire[1])
            /\ 4*i <= 4 + got => Trolley!Word(p, i) = Trolley!AnswerWord(n, i)
      BY <1>1, <1>3, <2>5, PacketWord
    <3> HIDE DEF p
    <3> QED
      BY <1>11, <3>1
  <2>6. p \in Seq(Pieces) /\ Len(p) = 4 + got
    <3>1. SubSeq(wire, 1, got) \in Seq(Pieces) /\ Len(SubSeq(wire, 1, got)) = got
      BY <1>1, <1>3
    <3>2. /\ p \in Seq(Pieces) /\ Len(p) = Len(rx) + Len(SubSeq(wire, 1, got))
      BY <1>1, <3>1, ConcatProperties, Zenon
    <3> QED
      BY <1>1, <3>1, <3>2
  <2> HIDE DEF p
  <2>7. ASSUME Trolley!Arrived(d) PROVE d = Trolley!Word(p, 6) /\ 24 <= 4 + got
    <3>1. \A j \in 1..4 : Trolley!NoData[j] = Trolley!Junk
      <4>1. <<>> \in Seq(Pieces) /\ Len(<<>>) = 0
        OBVIOUS
      <4>2. \A j \in 1..4 : ~(4*6 - 4 + j <= Len(<<>>)) => Trolley!Word(<<>>, 6)[j] = Trolley!Junk
        BY <4>1, WordFacts
      <4>3. \A j \in 1..4 : ~(4*6 - 4 + j <= Len(<<>>))
        BY <4>1
      <4> QED
        BY <4>2, <4>3 DEF Trolley!NoData
    <3>2. d = Trolley!Word(p, 6)
      <4>1. ~(d = Trolley!NoData)
        BY <2>7, <3>1 DEF Trolley!Arrived
      <4> QED
        BY <4>1
    <3>3. ~(4*6 - 4 + 4 <= Len(p)) => Trolley!Word(p, 6)[4] = Trolley!Junk
      BY <2>6, WordFacts
    <3>4. Trolley!Word(p, 6)[4] # Trolley!Junk
      BY <2>7, <3>2 DEF Trolley!Arrived
    <3> QED
      BY <2>6, <3>2, <3>3, <3>4
  <2> HIDE DEF d
  <2>8. LastOK'
    <3>1. ASSUME last'.ok, ~torn, Trolley!Arrived(d)
          PROVE  \E n \in DOMAIN commands : /\ d = Trolley!AnswerWord(n, 6)
                                            /\ commands[n].address = commands[ask].address
      <4>1. PICK n \in 1..Len(commands) : /\ wire # <<>> /\ wire[1] = [to |-> n, byte |-> 5]
                                          /\ rest = commands[n].answer - 4
        BY <1>1, <3>1 DEF TrolleyInv, Continues
      <4>2. /\ Trolley!Word(p, 2) = Trolley!AnswerWord(n, 2)
            /\ d = Trolley!AnswerWord(n, 6)
        <5>1. d = Trolley!Word(p, 6) /\ 24 <= 4 + got
          BY <2>7, <3>1
        <5>2. 8 <= 4 + got /\ got <= commands[n].answer - 4
          BY <1>3, <4>1, <5>1
        <5> QED
          BY <2>5, <4>1, <5>1, <5>2
      <4>3. Trolley!Values(Trolley!Word(p, 2)) = {commands[n].address}
        BY <1>1, <4>2, Readings
      <4>4. commands[n].address = Head(todo).address
        BY <2>3, <2>4, <3>1, <4>3
      <4>5. n \in DOMAIN commands
        BY <1>1, CommandFacts
      <4> QED
        BY <1>1, <4>2, <4>4, <4>5
    <3>2. Trolley!OnlyOfTheRegister'
      BY <1>3, <1>4, <2>3, <3>1
      DEF Trolley!OnlyOfTheRegister, Trolley!Arrived, Trolley!Junk, Trolley!AnswerWord
    <3> QED
      BY <1>1, <1>3, <2>3, <2>4, <3>2 DEF LastOK
  <2>9. Trolley!OwnAnswerInStep'
    <3>1. SUFFICES ASSUME last'.ok, ~slipped'
                   PROVE  /\ last'.from = ask
                          /\ commands[ask].kind = "read" => last'.data = Trolley!AnswerWord(ask, 6)
      BY <1>3, <2>3 DEF Trolley!OwnAnswerInStep, Trolley!AnswerWord
    <3>2. /\ got = rest /\ rest = Len(wire) /\ wire # <<>> /\ wire[1] = [to |-> ask, byte |-> 5]
          /\ Len(wire) = commands[ask].answer - 5 + 1
      BY <1>8, <3>1 DEF OwnWire
    <3>3. /\ commands[ask].answer \in 20..1044
          /\ commands[ask].kind = "read" => commands[ask].answer >= 24
      BY <1>1, CommandFacts
    <3>4. /\ got <= commands[ask].answer - 4
          /\ commands[ask].answer >= 24 => 24 <= 4 + got
      <4>1. got = Len(wire)
        BY <3>2
      <4> QED
        BY <3>2, <3>3, <4>1, WholeAnswer, Zenon
    <3>5. got <= commands[ask].answer - 4
      BY <3>4
    <3>6. p[5] = wire[1] /\ (24 <= 4 + got => Trolley!Word(p, 6) = Trolley!AnswerWord(ask, 6))
      BY <1>1, <2>5, <3>2, <3>5
    <3>7. ASSUME commands[ask].kind = "read" PROVE d = Trolley!AnswerWord(ask, 6)
      <4>1. 24 <= 4 + got
        BY <3>3, <3>4, <3>7
      <4> QED
        BY <1>1, <3>6, <3>7, <4>1 DEF d
    <3> QED
      BY <2>3, <3>2, <3>6, <3>7
  <2> QED
    BY <1>5, <1>7, <1>9, <2>8, <2>9 DEF TrolleyInv
<1> QED
  BY <1>2, <1>10, <1>11

LEMMA ControlInit == MCInit => ControlInv
<1> SUFFICES ASSUME MCInit PROVE ControlInv
  OBVIOUS
<1>1. /\ up = FALSE /\ commands = <<>> /\ unanswered = <<>> /\ wire = <<>> /\ slipped = FALSE
      /\ todo = <<>> /\ phase = "idle" /\ ask = 0 /\ rest = 0 /\ rx = <<>> /\ torn = FALSE
      /\ last = Trolley!NoResult
  BY DEF MCInit, Trolley!Init, Trolley!LinkInit
<1>2. LinkOK
  <2>1. /\ <<>> \in Seq(Nat) /\ <<>> \in Seq(Packets) /\ Len(<<>>) = 0
    OBVIOUS
  <2>2. AnswerStream(commands, wire)
    BY <1>1, EmptyStream
  <2>3. up \in BOOLEAN /\ slipped \in BOOLEAN
    BY <1>1, Zenon
  <2>4. \A i \in 1..Len(unanswered) : unanswered[i] \in 1..Len(commands)
    BY <1>1, <2>1
  <2> QED
    BY <1>1, <2>1, <2>2, <2>3, <2>4, Zenon DEF LinkOK, CommandsOK
<1>3. ControlOK /\ Continues
  <2>1. <<>> \in Seq(Packets)
    OBVIOUS
  <2>2. phase \in {"idle", "send", "length", "rest"} /\ rest \in Nat /\ ask \in Nat
        /\ torn \in BOOLEAN /\ phase = "idle"
    BY <1>1
  <2>3. phase # "length" /\ phase # "rest"
    BY <2>2
  <2> QED
    BY <1>1, <2>1, <2>2, <2>3, Zenon DEF ControlOK, Continues, Waiting, CommandsOK
<1>4. LastOK /\ Trolley!OwnAnswerInStep
  <2>1. last.ok = FALSE
    BY <1>1 DEF Trolley!NoResult
  <2> QED
    BY <2>1, Zenon DEF LastOK, Trolley!OnlyOfTheRegister, Trolley!OwnAnswerInStep
<1>5. InStep
  BY <1>1 DEF InStep, Waiting
<1> QED
  BY <1>1, <1>2, <1>3, <1>4, <1>5 DEF ControlInv, TrolleyInv

LEMMA ControlStep ==
  ControlInv /\ [MCNext]_<<part, vars, tcp, control, generator, library>> => ControlInv'
<1> SUFFICES ASSUME ControlInv, [MCNext]_<<part, vars, tcp, control, generator, library>>
             PROVE  ControlInv'
  OBVIOUS
<1>1. part' = part
  BY DEF MCNext
<1>2. CASE part = "control" /\ UNCHANGED <<tcp, control>>
  <2>1. TrolleyInv
    BY <1>2 DEF ControlInv
  <2>2. /\ UNCHANGED <<up, commands, unanswered, wire, slipped, phase>>
        /\ UNCHANGED <<todo, ask, rest, rx, last, torn>>
    BY <1>2 DEF tcp, control
  <2>3. LinkOK' /\ ControlOK' /\ Continues' /\ InStep'
    BY <2>1, <2>2 DEF TrolleyInv, LinkOK, ControlOK, Continues, InStep, OwnWire, Waiting
  <2>4. LastOK' /\ Trolley!OwnAnswerInStep'
    BY <2>1, <2>2, <2>3, KeepLast DEF TrolleyInv, LinkOK
  <2> QED
    BY <1>1, <1>2, <2>3, <2>4 DEF ControlInv, TrolleyInv
<1>3. CASE part = "control" /\ Trolley!Next
  <2>1. TrolleyInv
    BY <1>3 DEF ControlInv
  <2>2. TrolleyInv'
    BY <1>3, <2>1, CallStep, SendStep, ReadLengthStep, ReadRestStep, ConnectStep, AnswersStep
    DEF Trolley!Next
  <2> QED
    BY <1>1, <1>3, <2>2 DEF ControlInv
<1>4. CASE part # "control"
  <2>1. last' = last
    BY <1>4 DEF MCNext, control
  <2> QED
    BY <1>1, <1>4, <2>1 DEF ControlInv
<1> QED
  BY <1>2, <1>3, <1>4 DEF MCNext

\* However late the answers are, a value that the trolley hands to its caller as
\* good comes from the register it was asked for, as long as every packet began
\* with the length of an answer (the command functions of TrolleyInterface.cxx
\* compare addresses, and no lengths).
THEOREM OnlyOfTheRegisterCorrect == MCSpec => []OnlyOfTheRegister
<1>1. ControlInv => OnlyOfTheRegister
  <2>1. Trolley!NoResult.ok = FALSE
    BY DEF Trolley!NoResult
  <2> QED
    BY <2>1 DEF ControlInv, TrolleyInv, LastOK, OnlyOfTheRegister, Trolley!OnlyOfTheRegister
<1> QED
  BY ControlInit, ControlStep, <1>1, PTL DEF MCSpec

(***************************************************************************)
(* The generator: as long as no query came too early, the stream holds at  *)
(* most the answer to the running query.                                   *)
(***************************************************************************)
GenCommands == [what : {"FREQ", "AMPR", "ENBR"}, query : BOOLEAN]
Silent(i) == ~commands[unanswered[i]].query
Quiet == wire = <<>> /\ \A i \in 1..Len(unanswered) : Silent(i)

GenLinkOK ==
  /\ up \in BOOLEAN /\ slipped \in BOOLEAN
  /\ commands \in Seq(GenCommands) /\ unanswered \in Seq(Nat)
  /\ \A i \in 1..Len(unanswered) : unanswered[i] \in 1..Len(commands)
  /\ wire \in Seq(Pieces)
  /\ ~up => wire = <<>> /\ unanswered = <<>>

QueryOK ==
  /\ phase \in {"idle", "write", "read"} /\ running \in GenCommands /\ numbered \in Nat
  /\ value \in [of : Nat, from : Nat]

GenInStep ==
  ~slipped =>
    /\ phase # "read" => Quiet
    /\ phase = "read" =>
         \/ numbered = 0 /\ Quiet
         \/ /\ wire = <<>> /\ unanswered # <<>> /\ commands[numbered].query
            /\ unanswered[Len(unanswered)] = numbered
            /\ \A i \in 1..(Len(unanswered) - 1) : Silent(i)
         \/ unanswered = <<>> /\ Len(wire) = 2 /\ wire[1].to = numbered

GenClientInv == GenLinkOK /\ QueryOK /\ GenInStep /\ Generator!OwnAnswerInStep

GeneratorInv ==
  IF part = "generator" THEN GenClientInv ELSE value = Generator!NoValue

LEMMA NoValueTyped == Generator!NoValue \in [of : Nat, from : Nat] /\ Generator!NoValue.from = 0
BY DEF Generator!NoValue

LEMMA GenConnectStep ==
  ASSUME GenClientInv, Generator!Sg382Connect \/ Generator!Sg382Disconnect
  PROVE  GenClientInv'
<1>1. /\ phase = "idle" /\ up' \in BOOLEAN /\ slipped' \in BOOLEAN
      /\ wire' = <<>> /\ unanswered' = <<>> /\ value' = Generator!NoValue
      /\ UNCHANGED <<commands, phase, running, numbered>>
  BY DEF GenClientInv, GenLinkOK, Generator!Sg382Connect, Generator!Sg382Disconnect,
    Generator!ConnectToTCPServer, Generator!DisconnectFromTCPServer
<1>2. GenLinkOK'
  BY <1>1 DEF GenClientInv, GenLinkOK
<1>3. QueryOK' /\ Generator!OwnAnswerInStep'
  BY <1>1, NoValueTyped DEF GenClientInv, QueryOK, Generator!OwnAnswerInStep
<1>4. GenInStep'
  BY <1>1 DEF GenInStep, Quiet
<1> QED
  BY <1>2, <1>3, <1>4 DEF GenClientInv

LEMMA GenCallStep == ASSUME GenClientInv, Generator!Call PROVE GenClientInv'
<1>1. /\ phase = "idle" /\ phase' = "write" /\ running' \in Generator!Programs
      /\ value' = Generator!NoValue
      /\ UNCHANGED <<up, commands, unanswered, wire, slipped, numbered>>
  BY DEF Generator!Call
<1>2. running' \in GenCommands
  <2>1. /\ Generator!GetFrequency \in GenCommands /\ Generator!GetAmplitude \in GenCommands
        /\ Generator!GetStatus \in GenCommands /\ Generator!SetFrequency \in GenCommands
        /\ Generator!SetAmplitude \in GenCommands /\ Generator!SwitchRF \in GenCommands
    BY DEF GenCommands, Generator!GetFrequency, Generator!GetAmplitude, Generator!GetStatus,
      Generator!SetFrequency, Generator!SetAmplitude, Generator!SwitchRF
  <2> QED
    BY <1>1, <2>1, Zenon DEF Generator!Programs
<1>3. GenLinkOK'
  BY <1>1 DEF GenClientInv, GenLinkOK
<1>4. QueryOK' /\ Generator!OwnAnswerInStep'
  BY <1>1, <1>2, NoValueTyped DEF GenClientInv, QueryOK, Generator!OwnAnswerInStep
<1>5. GenInStep'
  BY <1>1 DEF GenClientInv, GenInStep, Quiet, Silent
<1> QED
  BY <1>3, <1>4, <1>5 DEF GenClientInv

LEMMA GenWriteStep == ASSUME GenClientInv, Generator!Write PROVE GenClientInv'
<1>1. PICK ok \in BOOLEAN : /\ Generator!ClientTCPWrite(running, ok)
                            /\ numbered' = IF ok /\ up THEN Len(commands') ELSE 0
  BY DEF Generator!Write
<1>2. /\ phase = "write" /\ phase' = IF running.query THEN "read" ELSE "idle"
      /\ UNCHANGED <<running, value>>
  BY DEF Generator!Write
<1>3. /\ running \in GenCommands /\ commands \in Seq(GenCommands) /\ unanswered \in Seq(Nat)
      /\ Len(commands) \in Nat /\ Len(unanswered) \in Nat
      /\ \A i \in 1..Len(unanswered) : unanswered[i] \in 1..Len(commands)
  BY DEF GenClientInv, GenLinkOK, QueryOK
<1>4. ~slipped => Quiet
  BY <1>2 DEF GenClientInv, GenInStep
<1>5. CASE ok /\ up
  <2> DEFINE n == Len(commands) + 1
             m == Len(unanswered) + 1
  <2>1. /\ commands' = Append(commands, running) /\ unanswered' = Append(unanswered, n)
        /\ UNCHANGED <<up, wire, slipped>> /\ numbered' = Len(commands')
    BY <1>1, <1>5 DEF Generator!ClientTCPWrite
  <2>2. /\ commands' \in Seq(GenCommands) /\ Len(commands') = n /\ commands'[n] = running
        /\ \A i \in 1..Len(commands) : commands'[i] = commands[i]
    BY <1>3, <2>1
  <2>3. /\ unanswered' \in Seq(Nat) /\ Len(unanswered') = m /\ unanswered'[m] = n
        /\ \A i \in 1..Len(unanswered) : unanswered'[i] = unanswered[i]
    BY <1>3, <2>1
  <2>4. GenLinkOK'
    BY <1>3, <1>5, <2>1, <2>2, <2>3 DEF GenClientInv, GenLinkOK
  <2>5. QueryOK' /\ Generator!OwnAnswerInStep'
    BY <1>2, <1>3, <2>1, <2>2 DEF GenClientInv, QueryOK, Generator!OwnAnswerInStep
  <2>6. GenInStep'
    <3>1. SUFFICES ASSUME ~slipped PROVE GenInStep'
      BY <2>1 DEF GenInStep
    <3>2. wire' = <<>> /\ \A i \in 1..Len(unanswered) : ~commands'[unanswered'[i]].query
      BY <1>3, <1>4, <2>1, <2>2, <2>3, <3>1 DEF Quiet, Silent
    <3>3. CASE running.query
      BY <1>2, <1>3, <2>1, <2>2, <2>3, <3>2, <3>3 DEF GenInStep, Silent
    <3>4. CASE ~running.query
      <4>1. \A i \in 1..Len(unanswered') : ~commands'[unanswered'[i]].query
        <5> SUFFICES ASSUME NEW i \in 1..m PROVE ~commands'[unanswered'[i]].query
          BY <2>3
        <5>1. CASE i = m
          BY <2>2, <2>3, <3>4, <5>1
        <5>2. CASE i # m
          <6>1. i \in 1..Len(unanswered)
            BY <1>3, <5>2
          <6> QED
            BY <2>3, <3>2, <6>1
        <5> QED
          BY <5>1, <5>2
      <4> QED
        BY <1>2, <3>2, <3>4, <4>1 DEF GenInStep, Quiet, Silent
    <3> QED
      BY <3>3, <3>4
  <2> QED
    BY <2>4, <2>5, <2>6 DEF GenClientInv
<1>6. CASE ~(ok /\ up)
  <2>1. UNCHANGED <<up, commands, unanswered, wire, slipped>> /\ numbered' = 0
    BY <1>1, <1>6 DEF Generator!ClientTCPWrite, Generator!link
  <2>2. GenLinkOK'
    BY <2>1 DEF GenClientInv, GenLinkOK
  <2>3. QueryOK' /\ Generator!OwnAnswerInStep'
    BY <1>2, <1>3, <2>1 DEF GenClientInv, QueryOK, Generator!OwnAnswerInStep
  <2>4. GenInStep'
    BY <1>4, <2>1 DEF GenInStep, Quiet, Silent
  <2> QED
    BY <2>2, <2>3, <2>4 DEF GenClientInv
<1> QED
  BY <1>5, <1>6

LEMMA GenReadStep == ASSUME GenClientInv, Generator!Read PROVE GenClientInv'
<1>1. /\ phase = "read" /\ phase' = "idle" /\ UNCHANGED <<running, numbered>>
  BY DEF Generator!Read
<1>2. PICK got \in Generator!Portions(256) :
        /\ Generator!ClientTCPRead(256, got, 2)
        /\ value' = [of |-> numbered, from |-> IF got = 0 THEN 0 ELSE Head(wire).to]
  BY DEF Generator!Read, Generator!Buffer, Generator!TextBytes
<1>3. /\ wire \in Seq(Pieces) /\ Len(wire) \in Nat /\ slipped \in BOOLEAN /\ numbered \in Nat
      /\ phase \in {"idle", "write", "read"} /\ running \in GenCommands
  BY DEF GenClientInv, GenLinkOK, QueryOK
<1>4. got \in Nat /\ got <= Len(wire)
  BY <1>2, <1>3, NetworkAssumption DEF Generator!Portions
<1>5. /\ wire' = SubSeq(wire, got + 1, Len(wire)) /\ UNCHANGED <<up, commands, unanswered>>
      /\ slipped' = (slipped \/ got < 2)
  BY <1>2 DEF Generator!ClientTCPRead
<1>6. slipped' \in BOOLEAN /\ (slipped' <=> slipped \/ got < 2)
  BY <1>5, Zenon
<1>7. wire' \in Seq(Pieces) /\ (~up => wire' = <<>>)
  <2>1. wire' \in Seq(Pieces)
    BY <1>3, <1>4, <1>5
  <2>2. ASSUME ~up PROVE wire' = <<>>
    <3>1. Len(wire) = 0
      BY <2>2 DEF GenClientInv, GenLinkOK
    <3> QED
      BY <1>4, <1>5, <3>1, SubSeqEmpty
  <2> QED
    BY <2>1, <2>2
<1>8. GenLinkOK'
  BY <1>5, <1>6, <1>7 DEF GenClientInv, GenLinkOK
<1>9. QueryOK'
  <2>1. ASSUME got # 0 PROVE Head(wire) \in Pieces
    <3>1. Len(wire) # 0
      BY <1>3, <1>4, <2>1
    <3> QED
      BY <1>3, <3>1
  <2>2. (IF got = 0 THEN 0 ELSE Head(wire).to) \in Nat
    BY <2>1 DEF Pieces
  <2> QED
    BY <1>1, <1>2, <1>3, <2>2 DEF QueryOK
<1>10. ASSUME ~slipped'
       PROVE  /\ unanswered = <<>> /\ Len(wire) = 2 /\ wire[1].to = numbered
              /\ wire' = <<>> /\ Head(wire).to = numbered /\ got # 0
  <2>1. ~slipped /\ got # 0 /\ wire # <<>>
    BY <1>4, <1>5, <1>6, <1>10
  <2>2. unanswered = <<>> /\ Len(wire) = 2 /\ wire[1].to = numbered
    BY <1>1, <2>1 DEF GenClientInv, GenInStep, Quiet
  <2>3. got + 1 = 3
    <3>1. ~(got < 2) /\ got <= 2
      BY <1>4, <1>6, <1>10, <2>2
    <3> QED
      BY <1>4, <3>1
  <2> QED
    BY <1>3, <1>4, <1>5, <2>1, <2>2, <2>3, SubSeqEmpty
<1>11. GenInStep'
  BY <1>1, <1>5, <1>10 DEF GenInStep, Quiet
<1>12. Generator!OwnAnswerInStep'
  BY <1>2, <1>10 DEF Generator!OwnAnswerInStep
<1> QED
  BY <1>8, <1>9, <1>11, <1>12 DEF GenClientInv

LEMMA GenAnswersStep == ASSUME GenClientInv, Generator!GeneratorAnswers PROVE GenClientInv'
<1> DEFINE n == Head(unanswered)
           size == IF commands[n].query THEN 2 ELSE 0
           ans == [i \in 1..size |-> [to |-> n, byte |-> i]]
           rem == Tail(unanswered)
<1>1. /\ unanswered # <<>> /\ wire' = wire \o ans /\ unanswered' = rem
      /\ UNCHANGED <<up, commands, slipped, phase, running, numbered, value>>
  BY DEF Generator!GeneratorAnswers, Generator!Answer, Generator!AnswerSize, Generator!TextBytes,
    Generator!ctrl
<1>2. /\ unanswered \in Seq(Nat) /\ wire \in Seq(Pieces)
      /\ \A i \in 1..Len(unanswered) : unanswered[i] \in 1..Len(commands)
  BY DEF GenClientInv, GenLinkOK
<1>3. /\ Len(unanswered) \in Nat /\ Len(unanswered) > 0 /\ n = unanswered[1] /\ n \in Nat
      /\ rem \in Seq(Nat) /\ Len(rem) = Len(unanswered) - 1
      /\ \A i \in 1..Len(rem) : rem[i] = unanswered[i + 1]
  BY <1>1, <1>2, HeadTailProperties, EmptySeq
<1>4. /\ ans \in Seq(Pieces) /\ size \in {0, 2} /\ Len(ans) = size
      /\ size = 2 => ans[1].to = n
  <2>1. \A i \in 1..size : [to |-> n, byte |-> i] \in Pieces
    BY <1>3 DEF Pieces
  <2> QED
    BY <2>1
<1>5. commands[n].query <=> size = 2
  OBVIOUS
<1> HIDE DEF n, size, ans, rem
<1>6. wire' \in Seq(Pieces) /\ up
  BY <1>1, <1>2, <1>4, ConcatProperties DEF GenClientInv, GenLinkOK
<1>7. ASSUME NEW i \in 1..Len(rem) PROVE rem[i] \in 1..Len(commands)
  <2>1. i + 1 \in 1..Len(unanswered)
    BY <1>3
  <2>2. unanswered[i + 1] \in 1..Len(commands)
    BY <1>2, <2>1, Zenon
  <2> QED
    BY <1>3, <2>2
<1>8. GenLinkOK'
  BY <1>1, <1>3, <1>6, <1>7 DEF GenClientInv, GenLinkOK
<1>9. QueryOK' /\ Generator!OwnAnswerInStep'
  BY <1>1 DEF GenClientInv, QueryOK, Generator!OwnAnswerInStep
<1>10. ASSUME wire = <<>> PROVE wire' = ans /\ (size = 0 => wire' = <<>>)
  BY <1>1, <1>4, <1>10, NothingReceived, EmptySeq
<1>11. ASSUME Quiet PROVE Quiet'
  <2>1. size = 0
    <3>1. 1 \in 1..Len(unanswered)
      BY <1>3
    <3>2. ~commands[n].query
      <4>1. ~commands[unanswered[1]].query
        BY <1>11, <3>1, Zenon DEF Quiet, Silent
      <4> QED
        BY <1>3, <4>1, Zenon
    <3> QED
      BY <1>4, <1>5, <3>2
  <2>2. ASSUME NEW i \in 1..Len(rem) PROVE ~commands[rem[i]].query
    <3>1. i + 1 \in 1..Len(unanswered) /\ rem[i] = unanswered[i + 1]
      BY <1>3
    <3> QED
      BY <1>11, <3>1, Zenon DEF Quiet, Silent
  <2> QED
    BY <1>1, <1>10, <1>11, <2>1, <2>2 DEF Quiet, Silent
<1>12. ASSUME wire = <<>>, commands[numbered].query, unanswered[Len(unanswered)] = numbered,
              \A i \in 1..(Len(unanswered) - 1) : Silent(i)
       PROVE  \/ /\ wire' = <<>> /\ unanswered' # <<>> /\ commands[numbered].query
                 /\ unanswered'[Len(unanswered')] = numbered
                 /\ \A i \in 1..(Len(unanswered') - 1) : ~commands[unanswered'[i]].query
              \/ unanswered' = <<>> /\ Len(wire') = 2 /\ wire'[1].to = numbered
  <2>1. CASE Len(unanswered) = 1
    <3>1. n = numbered /\ size = 2
      BY <1>3, <1>5, <1>12, <2>1
    <3>2. Len(rem) = 0
      BY <1>3, <2>1
    <3> QED
      BY <1>1, <1>3, <1>4, <1>10, <1>12, <3>1, <3>2, EmptySeq
  <2>2. CASE Len(unanswered) > 1
    <3>1. 1 \in 1..(Len(unanswered) - 1)
      BY <1>3, <2>2
    <3>2. size = 0
      BY <1>3, <1>4, <1>5, <1>12, <3>1 DEF Silent
    <3>3. /\ Len(rem) \in Nat /\ Len(rem) > 0 /\ rem # <<>>
          /\ rem[Len(rem)] = unanswered[Len(unanswered)]
      BY <1>3, <2>2
    <3>4. ASSUME NEW i \in 1..(Len(rem) - 1) PROVE ~commands[rem[i]].query
      <4>1. i \in 1..Len(rem) /\ i + 1 \in 1..(Len(unanswered) - 1)
        BY <1>3
      <4>2. rem[i] = unanswered[i + 1]
        BY <1>3, <4>1, Zenon
      <4>3. Silent(i + 1)
        BY <1>12, <4>1, Zenon
      <4> QED
        BY <4>2, <4>3 DEF Silent
    <3> QED
      BY <1>1, <1>10, <1>12, <3>2, <3>3, <3>4
  <2> QED
    BY <1>3, <2>1, <2>2
<1>13. GenInStep'
  <2>1. SUFFICES ASSUME ~slipped PROVE GenInStep'
    BY <1>1 DEF GenInStep
  <2>2. CASE phase # "read" \/ (numbered = 0 /\ Quiet)
    BY <1>1, <1>11, <2>1, <2>2 DEF GenClientInv, GenInStep
  <2>3. CASE phase = "read" /\ ~(numbered = 0 /\ Quiet)
    <3>1. /\ wire = <<>> /\ commands[numbered].query /\ unanswered[Len(unanswered)] = numbered
          /\ \A i \in 1..(Len(unanswered) - 1) : Silent(i)
      BY <1>1, <2>1, <2>3 DEF GenClientInv, GenInStep
    <3> QED
      BY <1>1, <1>12, <2>3, <3>1 DEF GenInStep, Silent
  <2> QED
    BY <2>2, <2>3
<1> QED
  BY <1>8, <1>9, <1>13 DEF GenClientInv

LEMMA GeneratorInit == MCInit => GeneratorInv
<1> SUFFICES ASSUME MCInit PROVE GeneratorInv
  OBVIOUS
<1>1. /\ up = FALSE /\ commands = <<>> /\ unanswered = <<>> /\ wire = <<>> /\ slipped = FALSE
      /\ phase = "idle" /\ running = Generator!GetFrequency /\ numbered = 0
      /\ value = Generator!NoValue
  BY DEF MCInit, Generator!Init, Generator!LinkInit
<1>2. GenLinkOK
  <2>1. /\ <<>> \in Seq(Pieces) /\ <<>> \in Seq(Nat) /\ <<>> \in Seq(GenCommands)
        /\ Len(<<>>) = 0
    OBVIOUS
  <2>2. up \in BOOLEAN /\ slipped \in BOOLEAN
    BY <1>1, Zenon
  <2>3. \A i \in 1..Len(unanswered) : unanswered[i] \in 1..Len(commands)
    BY <1>1, <2>1
  <2> QED
    BY <1>1, <2>1, <2>2, <2>3, Zenon DEF GenLinkOK
<1>3. QueryOK /\ Generator!OwnAnswerInStep
  BY <1>1, NoValueTyped
  DEF QueryOK, Generator!OwnAnswerInStep, GenCommands, Generator!GetFrequency
<1>4. GenInStep
  BY <1>1 DEF GenInStep, Quiet
<1> QED
  BY <1>1, <1>2, <1>3, <1>4 DEF GeneratorInv, GenClientInv

LEMMA GeneratorStep ==
  GeneratorInv /\ [MCNext]_<<part, vars, tcp, control, generator, library>> => GeneratorInv'
<1> SUFFICES ASSUME GeneratorInv, [MCNext]_<<part, vars, tcp, control, generator, library>>
             PROVE  GeneratorInv'
  OBVIOUS
<1>1. part' = part
  BY DEF MCNext
<1>2. CASE part = "generator" /\ UNCHANGED <<tcp, generator>>
  <2>1. GenClientInv
    BY <1>2 DEF GeneratorInv
  <2>2. GenClientInv'
    BY <1>2, <2>1 DEF GenClientInv, GenLinkOK, QueryOK, GenInStep, Quiet, Silent,
      Generator!OwnAnswerInStep, tcp, generator
  <2> QED
    BY <1>1, <1>2, <2>2 DEF GeneratorInv
<1>3. CASE part = "generator" /\ Generator!Next
  <2>1. GenClientInv
    BY <1>3 DEF GeneratorInv
  <2>2. GenClientInv'
    BY <1>3, <2>1, GenConnectStep, GenCallStep, GenWriteStep, GenReadStep, GenAnswersStep
    DEF Generator!Next
  <2> QED
    BY <1>1, <1>3, <2>2 DEF GeneratorInv
<1>4. CASE part # "generator"
  <2>1. value' = value
    BY <1>4 DEF MCNext, generator
  <2> QED
    BY <1>1, <1>4, <2>1 DEF GeneratorInv
<1> QED
  BY <1>2, <1>3, <1>4 DEF MCNext

\* A call that reports success on a connection on which no read came too early or
\* brought a part has got the answer to its own command, on either client of
\* TCPDrivers.
THEOREM OwnAnswerInStepCorrect == MCSpec => []OwnAnswerInStep
<1>0. Trolley!NoResult.ok = FALSE
  BY DEF Trolley!NoResult
<1>1. ControlInv /\ GeneratorInv => OwnAnswerInStep
  BY <1>0, NoValueTyped DEF ControlInv, TrolleyInv, GeneratorInv, GenClientInv,
    OwnAnswerInStep, Trolley!OwnAnswerInStep, Generator!OwnAnswerInStep
<1> QED
  BY ControlInit, ControlStep, GeneratorInit, GeneratorStep, <1>1, PTL DEF MCSpec

(***************************************************************************)
(* The instruments, any number of them, at any addresses: the queries.     *)
(***************************************************************************)
\* Once a write was acknowledged, the instrument has the query that was asked
\* last, or its answer, and no other one; so has the buffer in the end.
AnswerInv ==
  /\ stage \in {"idle", "send", "receive"} /\ asked \in Nat
  /\ output \in [Users -> [of : Nat, ready : BOOLEAN]]
  /\ stage # "idle" => user \in Users
  /\ stage = "receive" /\ lost = FALSE => output[user].of = asked
  /\ Instruments!AnswerOfTheQuery

LEMMA AnswerStep == AnswerInv /\ [Instruments!Next]_(Instruments!vars) => AnswerInv'
<1> SUFFICES ASSUME AnswerInv, [Instruments!Next]_(Instruments!vars) PROVE AnswerInv'
  OBVIOUS
<1> USE DEF AnswerInv, Instruments!AnswerOfTheQuery
<1>1. CASE Instruments!vxi11_send
  <2>1. CASE /\ Instruments!Reaches /\ stage = "send" /\ stage' = "receive"
             /\ UNCHANGED <<asked, user>>
    <3>1. output' = [output EXCEPT ![user] = [of |-> asked, ready |-> FALSE]]
      BY <2>1 DEF Instruments!Reaches
    <3>2. output' \in [Users -> [of : Nat, ready : BOOLEAN]] /\ output'[user].of = asked
      BY <2>1, <3>1
    <3> QED
      BY <2>1, <3>2
  <2>2. CASE /\ stage = "send" /\ stage' = "receive" /\ lost' = TRUE
             /\ UNCHANGED <<output, asked, user>>
    BY <2>2
  <2>3. CASE Instruments!Return(-1) /\ UNCHANGED <<output, asked, user>>
    BY <2>3 DEF Instruments!Return
  <2> QED
    BY <1>1, <2>1, <2>2, <2>3 DEF Instruments!vxi11_send
<1>2. CASE Instruments!vxi11_receive
  <2>0. stage = "receive" /\ user \in Users /\ UNCHANGED <<user, lost, asked>>
    BY <1>2 DEF Instruments!vxi11_receive
  <2>1. output' \in [Users -> [of : Nat, ready : BOOLEAN]]
    <3>1. \/ output' = [output EXCEPT ![user] = [of |-> 0, ready |-> FALSE]]
          \/ output' = output
      BY <1>2 DEF Instruments!vxi11_receive
    <3>2. [of |-> 0, ready |-> FALSE] \in [of : Nat, ready : BOOLEAN]
      OBVIOUS
    <3>3. CASE output' = [output EXCEPT ![user] = [of |-> 0, ready |-> FALSE]]
      BY <2>0, <3>2, <3>3
    <3>4. CASE output' = output
      BY <3>4
    <3> QED
      BY <3>1, <3>3, <3>4
  <2>2. CASE buffer' = output[user].of /\ Instruments!AfterReply
    <3>1. CASE lost = FALSE
      BY <2>0, <2>1, <2>2, <3>1 DEF Instruments!AfterReply, Instruments!Return
    <3>2. CASE lost # FALSE
      BY <2>0, <2>1, <2>2, <3>2 DEF Instruments!AfterReply, Instruments!Return
    <3> QED
      BY <3>1, <3>2
  <2>3. CASE Instruments!Return(-2)
    BY <2>0, <2>1, <2>3 DEF Instruments!Return
  <2>4. CASE stage' = "send"
    BY <2>0, <2>1, <2>4
  <2> QED
    BY <1>2, <2>2, <2>3, <2>4 DEF Instruments!vxi11_receive
<1>3. ASSUME NEW u \in Users, Instruments!vxi11_open_device(u) \/ Instruments!vxi11_close_device(u)
      PROVE  AnswerInv'
  <2>1. UNCHANGED <<stage, user, lost, buffer, rc, output, asked>>
    BY <1>3 DEF Instruments!vxi11_open_device, Instruments!vxi11_close_device, Instruments!query
  <2> QED
    BY <2>1
<1>4. ASSUME NEW u \in Users, Instruments!Query(u) PROVE AnswerInv'
  BY <1>4 DEF Instruments!Query
<1>5. ASSUME NEW u \in Users, Instruments!Ready(u) PROVE AnswerInv'
  <2>1. UNCHANGED <<stage, user, lost, buffer, rc, asked>>
    BY <1>5 DEF Instruments!Ready, Instruments!query
  <2>2. output' = [output EXCEPT ![u].ready = TRUE]
    BY <1>5 DEF Instruments!Ready
  <2>3. output' \in [Users -> [of : Nat, ready : BOOLEAN]]
    BY <2>2
  <2>4. \A v \in Users : output'[v].of = output[v].of
    BY <2>2
  <2> QED
    BY <2>1, <2>3, <2>4
<1>6. CASE UNCHANGED Instruments!vars
  BY <1>6 DEF Instruments!vars, Instruments!query
<1> QED
  BY <1>1, <1>2, <1>3, <1>4, <1>5, <1>6 DEF Instruments!Next

(***************************************************************************)
(* The instruments: the table of clients.                                  *)
(***************************************************************************)
InstrumentAddresses == {Instruments!NoAddress} \cup {Address[u] : u \in Users}

Used == {l \in Instruments!Slots : VXI11_IP_ADDRESS[l] # Instruments!NoAddress}

\* The users whose link is open and goes through slot l.
Sharers(l) == {u \in Users : clink[u].open /\ Address[u] = VXI11_IP_ADDRESS[l]}

TableOK ==
  /\ VXI11_IP_ADDRESS \in [Instruments!Slots -> InstrumentAddresses]
  /\ VXI11_CLIENT_ADDRESS \in [Instruments!Slots -> Nat]
  /\ VXI11_LINK_COUNT \in [Instruments!Slots -> Nat]
  /\ VXI11_DEVICE_NO \in Nat
  /\ clink \in [Users -> [client : Nat, open : BOOLEAN]]
  /\ opens \in Nat /\ fails \in Nat

\* Slots are taken in turn, each address in one of them, with a client of its
\* own; without a client only after a failure.
SlotsInv ==
  /\ \A l \in Used : l < VXI11_DEVICE_NO
  /\ \A l, j \in Used : l # j => VXI11_IP_ADDRESS[l] # VXI11_IP_ADDRESS[j]
  /\ \A l \in Used : VXI11_CLIENT_ADDRESS[l] <= opens
  /\ \A l, j \in Used : l # j /\ VXI11_CLIENT_ADDRESS[l] # Instruments!NULL
       => VXI11_CLIENT_ADDRESS[l] # VXI11_CLIENT_ADDRESS[j]
  /\ \A l \in Used : IF VXI11_CLIENT_ADDRESS[l] = Instruments!NULL THEN fails > 0
                     ELSE VXI11_CLIENT_ADDRESS[l] \in alive

\* A slot counts its open links at least, and they have its client.
LinksInv ==
  /\ \A l \in Used : Cardinality(Sharers(l)) <= VXI11_LINK_COUNT[l]
  /\ \A u \in Users : clink[u].open =>
       \E l \in Used : /\ VXI11_IP_ADDRESS[l] = Address[u]
                       /\ VXI11_CLIENT_ADDRESS[l] = clink[u].client
                       /\ VXI11_CLIENT_ADDRESS[l] # Instruments!NULL

TableInv == TableOK /\ SlotsInv /\ LinksInv /\ Instruments!CrashesOnlyAfterAFailure

\* The slot of an address is the only one with it.
LEMMA TheSlot ==
  ASSUME SlotsInv, NEW u \in Users, NEW l \in Instruments!Slots,
         VXI11_IP_ADDRESS[l] = Address[u]
  PROVE  l \in Used /\ Instruments!SlotsOf(Address[u]) = {l} /\ Instruments!SlotOf(Address[u]) = l
<1>1. l \in Used
  BY AddressAssumption DEF Used
<1>2. Instruments!SlotsOf(Address[u]) = {l}
  BY <1>1, AddressAssumption DEF Instruments!SlotsOf, SlotsInv, Used
<1>3. l \in Int
  BY NetworkAssumption DEF Instruments!Slots
<1>4. \A m \in {l} : (\A j \in {l} : j <= m) <=> m = l
  BY <1>3
<1>5. (CHOOSE m \in {l} : \A j \in {l} : j <= m) = l
  BY <1>4
<1> QED
  BY <1>1, <1>2, <1>5 DEF Instruments!SlotOf

LEMMA InitTable == Instruments!Init => TableInv
<1> SUFFICES ASSUME Instruments!Init PROVE TableInv
  OBVIOUS
<1>1. TableOK
  BY DEF Instruments!Init, TableOK, InstrumentAddresses, Instruments!NULL
<1>2. Used = {} /\ \A u \in Users : ~clink[u].open
  BY DEF Instruments!Init, Used
<1> QED
  BY <1>1, <1>2 DEF Instruments!Init, TableInv, SlotsInv, LinksInv,
    Instruments!CrashesOnlyAfterAFailure

\* What the invariant says of the links.
LEMMA TableLinks == TableInv => Instruments!LinksLive
<1> SUFFICES ASSUME TableInv, NEW u \in Users, clink[u].open
             PROVE  /\ clink[u].client \in alive
                    /\ Instruments!Cardinality(Instruments!SlotsOf(Address[u])) = 1
                    /\ VXI11_CLIENT_ADDRESS[Instruments!SlotOf(Address[u])] = clink[u].client
  BY DEF Instruments!LinksLive
<1>1. PICK l \in Used : /\ VXI11_IP_ADDRESS[l] = Address[u]
                        /\ VXI11_CLIENT_ADDRESS[l] = clink[u].client
                        /\ VXI11_CLIENT_ADDRESS[l] # Instruments!NULL
  BY DEF TableInv, LinksInv
<1>2. Instruments!SlotsOf(Address[u]) = {l} /\ Instruments!SlotOf(Address[u]) = l
  BY <1>1, TheSlot DEF TableInv, Used
<1>3. Instruments!Cardinality({l}) = 1
  <2>1. Cardinality({l}) = 1
    BY FS_Singleton
  <2> QED
    BY <2>1, Zenon DEF Cardinality, Instruments!Cardinality
<1> QED
  BY <1>1, <1>2, <1>3 DEF TableInv, SlotsInv

\* A step that leaves the table and the links alone.
LEMMA KeepTable ==
  ASSUME TableInv, UNCHANGED <<Instruments!table, clink, alive>>,
         opens' \in Nat, opens' >= opens, fails' \in Nat, fails' >= fails,
         crashed' => crashed
  PROVE  TableInv'
<1>1. Used' = Used /\ \A l : Sharers(l)' = Sharers(l)
  BY DEF Used, Sharers, Instruments!table
<1>2. TableOK'
  BY DEF TableInv, TableOK, Instruments!table
<1>3. \A l \in Used : VXI11_CLIENT_ADDRESS[l] \in Nat
  BY DEF TableInv, TableOK, Used
<1>4. opens \in Nat /\ fails \in Nat
  BY DEF TableInv, TableOK
<1>5. SlotsInv'
  BY <1>1, <1>3, <1>4 DEF TableInv, SlotsInv, Instruments!table
<1>6. LinksInv'
  BY <1>1 DEF TableInv, LinksInv, Instruments!table
<1>7. Instruments!CrashesOnlyAfterAFailure'
  BY <1>4 DEF TableInv, Instruments!CrashesOnlyAfterAFailure
<1> QED
  BY <1>2, <1>5, <1>6, <1>7 DEF TableInv

LEMMA SharersFinite == \A l : IsFiniteSet(Sharers(l))
BY FS_Subset, NetworkAssumption DEF Sharers

\* How a link is opened.
LEMMA OpenLinkFacts ==
  ASSUME TableOK, NEW u \in Users, NEW c \in Nat, Instruments!OpenLink(u, c)
  PROVE  /\ \A v \in Users : v # u => clink'[v] = clink[v]
         /\ clink' \in [Users -> [client : Nat, open : BOOLEAN]]
         /\ c # Instruments!NULL => clink'[u].client = c
         /\ c = Instruments!NULL => clink' = clink
         /\ fails' \in Nat /\ fails' >= fails
         /\ crashed' => crashed \/ c = Instruments!NULL
<1>1. CASE c # Instruments!NULL /\ clink' = [clink EXCEPT ![u] = [client |-> c, open |-> TRUE]]
           /\ UNCHANGED <<fails, crashed>>
  BY <1>1 DEF TableOK
<1>2. CASE /\ c # Instruments!NULL /\ Instruments!Fail
           /\ clink' = [clink EXCEPT ![u] = [client |-> c, open |-> FALSE]]
           /\ UNCHANGED crashed
  BY <1>2 DEF TableOK, Instruments!Fail
<1>3. CASE c = Instruments!NULL /\ UNCHANGED <<clink, fails>>
  BY <1>3 DEF TableOK
<1> QED
  BY <1>1, <1>2, <1>3 DEF Instruments!OpenLink

LEMMA OpenKnownStep ==
  ASSUME TableInv, NEW u \in Users, ~clink[u].open, opens' = opens + 1,
         Instruments!OpenKnown(u)
  PROVE  TableInv'
<1> DEFINE c == VXI11_CLIENT_ADDRESS[Instruments!SlotOf(Address[u])]
<1>1. PICK l \in Instruments!Slots : VXI11_IP_ADDRESS[l] = Address[u]
  BY DEF Instruments!OpenKnown, Instruments!SlotsOf
<1>2. l \in Used /\ Instruments!SlotOf(Address[u]) = l
  BY <1>1, TheSlot DEF TableInv
<1>3. c = VXI11_CLIENT_ADDRESS[l] /\ c \in Nat /\ Instruments!OpenLink(u, c)
  BY <1>2 DEF Instruments!OpenKnown, TableInv, TableOK, Used
<1>4. /\ UNCHANGED <<VXI11_IP_ADDRESS, VXI11_CLIENT_ADDRESS, VXI11_DEVICE_NO, alive>>
      /\ VXI11_LINK_COUNT' = [VXI11_LINK_COUNT EXCEPT ![l] = @ + 1]
  BY <1>2 DEF Instruments!OpenKnown
<1>5. /\ \A v \in Users : v # u => clink'[v] = clink[v]
      /\ clink' \in [Users -> [client : Nat, open : BOOLEAN]]
      /\ c # Instruments!NULL => clink'[u].client = c
      /\ c = Instruments!NULL => clink' = clink
      /\ fails' \in Nat /\ fails' >= fails
      /\ crashed' => crashed \/ c = Instruments!NULL
  <2> HIDE DEF c
  <2> QED
    BY <1>3, OpenLinkFacts DEF TableInv
<1> HIDE DEF c
<1>6. opens \in Nat /\ opens' \in Nat /\ opens' >= opens /\ fails \in Nat
  BY DEF TableInv, TableOK
<1>7. Used' = Used
  BY <1>4 DEF Used
<1>8. TableOK'
  <2>1. VXI11_LINK_COUNT' \in [Instruments!Slots -> Nat]
    BY <1>4 DEF TableInv, TableOK
  <2> QED
    BY <1>4, <1>5, <1>6, <2>1 DEF TableInv, TableOK
<1>9. SlotsInv'
  <2>1. \A j \in Used : VXI11_CLIENT_ADDRESS[j] \in Nat
    BY DEF TableInv, TableOK, Used
  <2> QED
    BY <1>4, <1>5, <1>6, <1>7, <2>1 DEF TableInv, SlotsInv
<1>10. LinksInv'
  <2>1. ASSUME NEW j \in Used PROVE Cardinality(Sharers(j)') <= VXI11_LINK_COUNT'[j]
    <3>0. /\ IsFiniteSet(Sharers(j)) /\ Cardinality(Sharers(j)) <= VXI11_LINK_COUNT[j]
          /\ VXI11_LINK_COUNT[j] \in Nat /\ j \in Instruments!Slots
      BY SharersFinite DEF TableInv, TableOK, LinksInv, Used
    <3>1. CASE j = l
      <4>1. Sharers(j)' \subseteq Sharers(j) \cup {u}
        BY <1>4, <1>5 DEF Sharers
      <4>2. u \notin Sharers(j)
        BY DEF Sharers
      <4>3. /\ IsFiniteSet(Sharers(j) \cup {u})
            /\ Cardinality(Sharers(j) \cup {u}) = Cardinality(Sharers(j)) + 1
        BY <3>0, <4>2, FS_AddElement
      <4>4. Cardinality(Sharers(j)') <= Cardinality(Sharers(j)) + 1
        BY <4>1, <4>3, FS_Subset
      <4>5. VXI11_LINK_COUNT'[j] = VXI11_LINK_COUNT[j] + 1
        BY <1>4, <3>0, <3>1 DEF TableInv, TableOK
      <4>6. Cardinality(Sharers(j)) \in Nat /\ Cardinality(Sharers(j)') \in Nat
        BY <3>0, <4>1, <4>3, FS_CardinalityType, FS_Subset
      <4> QED
        BY <3>0, <4>4, <4>5, <4>6
    <3>2. CASE j # l
      <4>1. Address[u] # VXI11_IP_ADDRESS[j]
        BY <1>1, <1>2, <3>2 DEF TableInv, SlotsInv
      <4>2. Sharers(j)' = Sharers(j)
        BY <1>4, <1>5, <4>1 DEF Sharers
      <4>3. VXI11_LINK_COUNT'[j] = VXI11_LINK_COUNT[j]
        BY <1>4, <3>0, <3>2 DEF TableInv, TableOK
      <4> QED
        BY <3>0, <4>2, <4>3
    <3> QED
      BY <3>1, <3>2
  <2>2. ASSUME NEW v \in Users, clink'[v].open
        PROVE  \E j \in Used : /\ VXI11_IP_ADDRESS[j] = Address[v]
                               /\ VXI11_CLIENT_ADDRESS[j] = clink'[v].client
                               /\ VXI11_CLIENT_ADDRESS[j] # Instruments!NULL
    <3>1. CASE v # u
      BY <1>5, <2>2, <3>1 DEF TableInv, LinksInv
    <3>2. CASE v = u
      <4>1. c # Instruments!NULL
        BY <1>5, <2>2, <3>2
      <4> QED
        BY <1>1, <1>2, <1>3, <1>5, <3>2, <4>1
    <3> QED
      BY <3>1, <3>2
  <2> QED
    BY <1>4, <1>7, <2>1, <2>2 DEF LinksInv
<1>11. Instruments!CrashesOnlyAfterAFailure'
  BY <1>2, <1>3, <1>5, <1>6 DEF TableInv, SlotsInv, Instruments!CrashesOnlyAfterAFailure
<1> QED
  BY <1>8, <1>9, <1>10, <1>11 DEF TableInv

LEMMA OpenNewStep ==
  ASSUME TableInv, NEW u \in Users, ~clink[u].open, opens' = opens + 1,
         Instruments!OpenNew(u)
  PROVE  TableInv'
<1>0. PICK n : n = VXI11_DEVICE_NO
  OBVIOUS
<1> DEFINE c == clink'[u].client
<1>1. /\ n \in Instruments!Slots /\ n \notin Used /\ opens \in Nat /\ fails \in Nat
      /\ \A l \in Used : VXI11_IP_ADDRESS[l] # Address[u]
  <2>1. n \in Nat /\ opens \in Nat /\ fails \in Nat
    BY <1>0 DEF TableInv, TableOK
  <2>2. n \in Instruments!Slots
    BY <1>0, <2>1, NetworkAssumption DEF Instruments!OpenNew, Instruments!Slots
  <2>3. n \notin Used
    BY <1>0, <2>1 DEF TableInv, SlotsInv
  <2>4. \A l \in Used : VXI11_IP_ADDRESS[l] # Address[u]
    BY DEF Instruments!OpenNew, Instruments!SlotsOf, Used
  <2> QED
    BY <2>1, <2>2, <2>3, <2>4
<1>2. /\ \A v \in Users : v # u => clink'[v] = clink[v]
      /\ clink' \in [Users -> [client : Nat, open : BOOLEAN]]
      /\ c \in {Instruments!NULL, opens + 1}
      /\ c = Instruments!NULL => fails' > 0 /\ ~clink'[u].open
      /\ alive \subseteq alive' /\ (c # Instruments!NULL => c \in alive')
      /\ fails' \in Nat /\ fails' >= fails /\ (crashed' => crashed)
  <2>1. CASE alive' = alive \cup {opens + 1} /\ Instruments!OpenLink(u, opens + 1)
    <3>1. opens + 1 \in Nat /\ opens + 1 # Instruments!NULL
      BY <1>1 DEF Instruments!NULL
    <3> QED
      BY <2>1, <3>1, OpenLinkFacts DEF TableInv
  <2>2. CASE /\ Instruments!Fail
             /\ clink' = [clink EXCEPT ![u] = [client |-> Instruments!NULL, open |-> FALSE]]
             /\ UNCHANGED <<alive, crashed>>
    BY <1>1, <2>2 DEF Instruments!Fail, TableInv, TableOK, Instruments!NULL
  <2> QED
    BY <2>1, <2>2 DEF Instruments!OpenNew
<1>3. /\ VXI11_IP_ADDRESS' = [VXI11_IP_ADDRESS EXCEPT ![n] = Address[u]]
      /\ VXI11_CLIENT_ADDRESS' = [VXI11_CLIENT_ADDRESS EXCEPT ![n] = c]
      /\ VXI11_LINK_COUNT' = [VXI11_LINK_COUNT EXCEPT ![n] = 1]
      /\ VXI11_DEVICE_NO' = n + 1
  BY <1>0 DEF Instruments!OpenNew
<1>4. c \in Nat
  BY <1>1, <1>2 DEF Instruments!NULL
<1> HIDE DEF c
<1>5. TableOK'
  <2>1. VXI11_IP_ADDRESS' \in [Instruments!Slots -> InstrumentAddresses]
    BY <1>1, <1>3 DEF TableInv, TableOK, InstrumentAddresses
  <2>2. /\ VXI11_CLIENT_ADDRESS' \in [Instruments!Slots -> Nat]
        /\ VXI11_LINK_COUNT' \in [Instruments!Slots -> Nat]
    BY <1>1, <1>3, <1>4 DEF TableInv, TableOK
  <2> QED
    BY <1>0, <1>1, <1>2, <1>3, <2>1, <2>2 DEF TableInv, TableOK
<1>6. /\ VXI11_IP_ADDRESS'[n] = Address[u] /\ VXI11_CLIENT_ADDRESS'[n] = c
      /\ VXI11_LINK_COUNT'[n] = 1
      /\ \A l \in Instruments!Slots : l # n => /\ VXI11_IP_ADDRESS'[l] = VXI11_IP_ADDRESS[l]
                                   /\ VXI11_CLIENT_ADDRESS'[l] = VXI11_CLIENT_ADDRESS[l]
                                   /\ VXI11_LINK_COUNT'[l] = VXI11_LINK_COUNT[l]
  BY <1>1, <1>3 DEF TableInv, TableOK
<1>7. Used' = Used \cup {n} /\ Used \subseteq Instruments!Slots
  BY <1>1, <1>6, AddressAssumption DEF Used
<1>8. \A l \in Used : /\ l # n /\ VXI11_IP_ADDRESS'[l] = VXI11_IP_ADDRESS[l]
                      /\ VXI11_CLIENT_ADDRESS'[l] = VXI11_CLIENT_ADDRESS[l]
                      /\ VXI11_LINK_COUNT'[l] = VXI11_LINK_COUNT[l]
                      /\ VXI11_CLIENT_ADDRESS[l] \in Nat
  BY <1>1, <1>6, <1>7 DEF TableInv, TableOK
<1>9. SlotsInv'
  <2>1. \A l \in Used' : l < VXI11_DEVICE_NO'
    <3>1. n \in Nat /\ \A l \in Used : l \in Int
      BY <1>0 DEF TableInv, TableOK, Used, Instruments!Slots
    <3> QED
      BY <1>0, <1>3, <1>7, <3>1 DEF TableInv, SlotsInv
  <2>2. \A l, j \in Used' : l # j => VXI11_IP_ADDRESS'[l] # VXI11_IP_ADDRESS'[j]
    BY <1>1, <1>6, <1>7, <1>8 DEF TableInv, SlotsInv
  <2>3. \A l \in Used' : VXI11_CLIENT_ADDRESS'[l] <= opens'
    BY <1>1, <1>2, <1>4, <1>6, <1>7, <1>8 DEF TableInv, SlotsInv, Instruments!NULL
  <2>4. \A l, j \in Used' : l # j /\ VXI11_CLIENT_ADDRESS'[l] # Instruments!NULL
          => VXI11_CLIENT_ADDRESS'[l] # VXI11_CLIENT_ADDRESS'[j]
    <3>1. \A l \in Used : VXI11_CLIENT_ADDRESS[l] # opens + 1
      BY <1>1, <1>8 DEF TableInv, SlotsInv
    <3> QED
      BY <1>1, <1>2, <1>6, <1>7, <1>8, <3>1 DEF TableInv, SlotsInv
  <2>5. \A l \in Used' : IF VXI11_CLIENT_ADDRESS'[l] = Instruments!NULL THEN fails' > 0
                         ELSE VXI11_CLIENT_ADDRESS'[l] \in alive'
    BY <1>1, <1>2, <1>6, <1>7, <1>8 DEF TableInv, SlotsInv
  <2> QED
    BY <2>1, <2>2, <2>3, <2>4, <2>5 DEF SlotsInv
<1>10. LinksInv'
  <2>1. ASSUME NEW j \in Used PROVE Cardinality(Sharers(j)') <= VXI11_LINK_COUNT'[j]
    <3>1. Sharers(j)' = Sharers(j)
      BY <1>1, <1>2, <1>8 DEF Sharers
    <3> QED
      BY <1>8, <3>1 DEF TableInv, LinksInv
  <2>2. Cardinality(Sharers(n)') <= VXI11_LINK_COUNT'[n]
    <3>1. \A v \in Users : clink[v].open => Address[v] # Address[u]
      BY <1>1 DEF TableInv, LinksInv
    <3>2. Sharers(n)' \subseteq {u}
      BY <1>2, <1>6, <3>1 DEF Sharers
    <3>3. IsFiniteSet({u}) /\ Cardinality({u}) = 1
      BY FS_Singleton
    <3> QED
      BY <1>6, <3>2, <3>3, FS_Subset
  <2>3. ASSUME NEW v \in Users, clink'[v].open
        PROVE  \E j \in Used' : /\ VXI11_IP_ADDRESS'[j] = Address[v]
                                /\ VXI11_CLIENT_ADDRESS'[j] = clink'[v].client
                                /\ VXI11_CLIENT_ADDRESS'[j] # Instruments!NULL
    <3>1. CASE v # u
      <4>1. PICK j \in Used : /\ VXI11_IP_ADDRESS[j] = Address[v]
                              /\ VXI11_CLIENT_ADDRESS[j] = clink[v].client
                              /\ VXI11_CLIENT_ADDRESS[j] # Instruments!NULL
        BY <1>2, <2>3, <3>1 DEF TableInv, LinksInv
      <4> QED
        BY <1>2, <1>7, <1>8, <3>1, <4>1
    <3>2. CASE v = u
      <4>1. c # Instruments!NULL /\ c = clink'[u].client
        BY <1>2, <2>3, <3>2 DEF c
      <4> QED
        BY <1>6, <1>7, <3>2, <4>1
    <3> QED
      BY <3>1, <3>2
  <2> QED
    BY <1>7, <2>1, <2>2, <2>3 DEF LinksInv
<1>11. Instruments!CrashesOnlyAfterAFailure'
  BY <1>1, <1>2 DEF TableInv, Instruments!CrashesOnlyAfterAFailure
<1> QED
  BY <1>5, <1>9, <1>10, <1>11 DEF TableInv

LEMMA CloseStep ==
  ASSUME TableInv, NEW u \in Users, Instruments!vxi11_close_device(u)
  PROVE  TableInv'
<1>1. PICK l \in Used : /\ VXI11_IP_ADDRESS[l] = Address[u]
                        /\ VXI11_CLIENT_ADDRESS[l] = clink[u].client
                        /\ VXI11_CLIENT_ADDRESS[l] # Instruments!NULL
  BY DEF Instruments!vxi11_close_device, TableInv, LinksInv
<1>2. l \in Instruments!Slots /\ Instruments!SlotOf(Address[u]) = l
  BY <1>1, TheSlot DEF TableInv, Used
<1>3. /\ UNCHANGED <<VXI11_CLIENT_ADDRESS, VXI11_DEVICE_NO, opens, fails, crashed>>
      /\ clink[u].open
      /\ clink' = [clink EXCEPT ![u] = [client |-> Instruments!NULL, open |-> FALSE]]
  BY DEF Instruments!vxi11_close_device
<1>4. /\ clink' \in [Users -> [client : Nat, open : BOOLEAN]] /\ ~clink'[u].open
      /\ \A v \in Users : v # u => clink'[v] = clink[v]
  BY <1>3 DEF TableInv, TableOK, Instruments!NULL
<1>5. /\ \A j \in Used : /\ j \in Instruments!Slots /\ IsFiniteSet(Sharers(j))
                         /\ VXI11_LINK_COUNT[j] \in Nat
                         /\ Cardinality(Sharers(j)) \in Nat
                         /\ Cardinality(Sharers(j)) <= VXI11_LINK_COUNT[j]
  BY SharersFinite, FS_CardinalityType DEF TableInv, TableOK, LinksInv, Used
<1>6. /\ u \in Sharers(l)
      /\ Cardinality(Sharers(l) \ {u}) = Cardinality(Sharers(l)) - 1
      /\ IsFiniteSet(Sharers(l) \ {u})
  <2>1. u \in Sharers(l)
    BY <1>1, <1>3 DEF Sharers
  <2> QED
    BY <1>5, <2>1, FS_RemoveElement
<1>7. \A j \in Used : j # l => Address[u] # VXI11_IP_ADDRESS[j]
  BY <1>1 DEF TableInv, SlotsInv
<1>8. CASE VXI11_LINK_COUNT[l] > 1
  <2>1. /\ VXI11_LINK_COUNT' = [VXI11_LINK_COUNT EXCEPT ![l] = @ - 1]
        /\ UNCHANGED <<alive, VXI11_IP_ADDRESS>>
    BY <1>2, <1>8 DEF Instruments!vxi11_close_device
  <2>2. Used' = Used
    BY <2>1 DEF Used
  <2>3. TableOK'
    <3>1. VXI11_LINK_COUNT[l] - 1 \in Nat
      BY <1>5, <1>8
    <3>2. VXI11_LINK_COUNT' \in [Instruments!Slots -> Nat]
      BY <2>1, <3>1 DEF TableInv, TableOK
    <3> QED
      BY <1>3, <1>4, <2>1, <3>2 DEF TableInv, TableOK
  <2>4. SlotsInv'
    BY <1>3, <2>1, <2>2 DEF TableInv, SlotsInv
  <2>5. ASSUME NEW j \in Used PROVE Cardinality(Sharers(j)') <= VXI11_LINK_COUNT'[j]
    <3>1. CASE j = l
      <4>1. Sharers(j)' = Sharers(j) \ {u}
        BY <1>4, <2>1 DEF Sharers
      <4>2. VXI11_LINK_COUNT'[l] = VXI11_LINK_COUNT[l] - 1
        BY <1>2, <2>1 DEF TableInv, TableOK
      <4> QED
        BY <1>5, <1>6, <3>1, <4>1, <4>2
    <3>2. CASE j # l
      <4>1. Sharers(j)' = Sharers(j)
        BY <1>4, <1>7, <2>1, <3>2 DEF Sharers
      <4>2. VXI11_LINK_COUNT'[j] = VXI11_LINK_COUNT[j]
        BY <1>5, <2>1, <3>2 DEF TableInv, TableOK
      <4> QED
        BY <1>5, <4>1, <4>2
    <3> QED
      BY <3>1, <3>2
  <2>6. LinksInv'
    BY <1>3, <1>4, <2>1, <2>2, <2>5 DEF TableInv, LinksInv
  <2>7. Instruments!CrashesOnlyAfterAFailure'
    BY <1>3 DEF TableInv, Instruments!CrashesOnlyAfterAFailure
  <2> QED
    BY <2>3, <2>4, <2>6, <2>7 DEF TableInv
<1>9. CASE ~(VXI11_LINK_COUNT[l] > 1)
  <2>1. /\ alive' = alive \ {clink[u].client} /\ UNCHANGED VXI11_LINK_COUNT
        /\ VXI11_IP_ADDRESS' = [VXI11_IP_ADDRESS EXCEPT ![l] = Instruments!NoAddress]
    BY <1>2, <1>9 DEF Instruments!vxi11_close_device
  <2>2. /\ VXI11_IP_ADDRESS'[l] = Instruments!NoAddress
        /\ \A j \in Instruments!Slots : j # l => VXI11_IP_ADDRESS'[j] = VXI11_IP_ADDRESS[j]
    BY <1>2, <2>1 DEF TableInv, TableOK
  <2>3. Used' = Used \ {l}
    BY <1>2, <2>2 DEF Used
  <2>4. TableOK'
    <3>1. VXI11_IP_ADDRESS' \in [Instruments!Slots -> InstrumentAddresses]
      BY <2>1 DEF TableInv, TableOK, InstrumentAddresses
    <3> QED
      BY <1>3, <1>4, <2>1, <3>1 DEF TableInv, TableOK
  <2>5. \A j \in Used' : j \in Used /\ j # l /\ VXI11_IP_ADDRESS'[j] = VXI11_IP_ADDRESS[j]
    BY <1>5, <2>2, <2>3
  <2>6. SlotsInv'
    <3>1. \A j \in Used' : VXI11_CLIENT_ADDRESS[j] # clink[u].client
      BY <1>1, <2>5 DEF TableInv, SlotsInv
    <3> QED
      BY <1>3, <2>1, <2>5, <3>1 DEF TableInv, SlotsInv
  <2>7. \A v \in Users : clink'[v].open => v # u /\ clink[v].open /\ Address[v] # Address[u]
    <3>1. Cardinality(Sharers(l) \ {u}) = 0
      <4>1. Cardinality(Sharers(l) \ {u}) \in Nat
        BY <1>6, FS_CardinalityType
      <4> QED
        BY <1>5, <1>6, <1>9, <4>1
    <3>2. Sharers(l) \ {u} = {}
      BY <1>6, <3>1, FS_EmptySet
    <3> QED
      BY <1>1, <1>4, <3>2 DEF Sharers
  <2>8. LinksInv'
    <3>1. ASSUME NEW j \in Used' PROVE Cardinality(Sharers(j)') <= VXI11_LINK_COUNT'[j]
      <4>1. Sharers(j)' = Sharers(j)
        BY <1>4, <1>7, <2>5 DEF Sharers
      <4> QED
        BY <1>5, <2>1, <2>5, <4>1
    <3>2. ASSUME NEW v \in Users, clink'[v].open
          PROVE  \E j \in Used' : /\ VXI11_IP_ADDRESS'[j] = Address[v]
                                  /\ VXI11_CLIENT_ADDRESS'[j] = clink'[v].client
                                  /\ VXI11_CLIENT_ADDRESS'[j] # Instruments!NULL
      <4>1. v # u /\ clink[v].open /\ Address[v] # Address[u] /\ clink'[v] = clink[v]
        BY <1>4, <2>7, <3>2
      <4>2. PICK j \in Used : /\ VXI11_IP_ADDRESS[j] = Address[v]
                              /\ VXI11_CLIENT_ADDRESS[j] = clink[v].client
                              /\ VXI11_CLIENT_ADDRESS[j] # Instruments!NULL
        BY <4>1 DEF TableInv, LinksInv
      <4>3. j # l /\ j \in Used'
        BY <1>1, <2>3, <4>1, <4>2
      <4> QED
        BY <1>3, <2>5, <4>1, <4>2, <4>3
    <3> QED
      BY <3>1, <3>2 DEF LinksInv
  <2>9. Instruments!CrashesOnlyAfterAFailure'
    BY <1>3 DEF TableInv, Instruments!CrashesOnlyAfterAFailure
  <2> QED
    BY <2>4, <2>6, <2>8, <2>9 DEF TableInv
<1> QED
  BY <1>8, <1>9

LEMMA TableStep == TableInv /\ [Instruments!Next]_(Instruments!vars) => TableInv'
<1> SUFFICES ASSUME TableInv, [Instruments!Next]_(Instruments!vars) PROVE TableInv'
  OBVIOUS
<1>0. opens \in Nat /\ fails \in Nat
  BY DEF TableInv, TableOK
<1>1. CASE Instruments!vxi11_send \/ Instruments!vxi11_receive \/ UNCHANGED Instruments!vars
  <2>1. UNCHANGED <<Instruments!table, clink, alive, opens, crashed>>
    BY <1>1 DEF Instruments!vxi11_send, Instruments!vxi11_receive, Instruments!vars
  <2>2. fails' = fails \/ fails' = fails + 1
    BY <1>1 DEF Instruments!vxi11_send, Instruments!vxi11_receive, Instruments!vars,
      Instruments!Fail
  <2> QED
    BY <1>0, <2>1, <2>2, KeepTable
<1>2. ASSUME NEW u \in Users, Instruments!vxi11_open_device(u) PROVE TableInv'
  <2>1. ~clink[u].open /\ opens' = opens + 1
    BY <1>2 DEF Instruments!vxi11_open_device
  <2>2. CASE Instruments!OpenRefused(u)
    BY <1>0, <2>1, <2>2, KeepTable DEF Instruments!OpenRefused
  <2> QED
    BY <1>2, <2>1, <2>2, OpenNewStep, OpenKnownStep DEF Instruments!vxi11_open_device
<1>3. ASSUME NEW u \in Users, Instruments!vxi11_close_device(u) PROVE TableInv'
  BY <1>3, CloseStep
<1>4. ASSUME NEW u \in Users, Instruments!Query(u) \/ Instruments!Ready(u) PROVE TableInv'
  <2>1. UNCHANGED <<Instruments!table, clink, alive, opens, fails, crashed>>
    BY <1>4 DEF Instruments!Query, Instruments!Ready
  <2> QED
    BY <1>0, <2>1, KeepTable
<1> QED
  BY <1>1, <1>2, <1>3, <1>4 DEF Instruments!Next

(***************************************************************************)
(* The instruments as a part of MCSpec.                                    *)
(***************************************************************************)
InstrumentsInv == AnswerInv /\ TableInv

LEMMA InstrumentsInit == MCInit => InstrumentsInv
<1>1. Instruments!Init => AnswerInv
  BY DEF Instruments!Init, AnswerInv, Instruments!AnswerOfTheQuery
<1> QED
  BY <1>1, InitTable DEF MCInit, InstrumentsInv

LEMMA InstrumentsStep ==
  InstrumentsInv /\ [MCNext]_<<part, vars, tcp, control, generator, library>> => InstrumentsInv'
<1>1. MCNext => Instruments!Next \/ UNCHANGED library
  BY DEF MCNext
<1>2. UNCHANGED library => UNCHANGED Instruments!vars
  BY DEF library, Instruments!vars, Instruments!table, Instruments!query
<1> QED
  BY <1>1, <1>2, AnswerStep, TableStep DEF InstrumentsInv

\* A query that reports success has its own answer, whatever calls were lost
\* and however often it was sent (vxi11_send_and_receive).
THEOREM AnswerOfTheQueryCorrect == MCSpec => []Instruments!AnswerOfTheQuery
BY InstrumentsInit, InstrumentsStep, PTL DEF MCSpec, InstrumentsInv, AnswerInv

\* Every open link has the client of its address's only slot, and the client is
\* not destroyed under it; a client that is not there is called only after an
\* opening failed (open_connection and close_connection).
THEOREM LinksCorrect ==
  MCSpec => [](Instruments!LinksLive /\ Instruments!CrashesOnlyAfterAFailure)
BY InstrumentsInit, InstrumentsStep, TableLinks, PTL DEF MCSpec, InstrumentsInv, TableInv

\* Of any number of instruments, whichever share an address, every open link has
\* the live client of its address, and a query that succeeds has its own answer.
THEOREM SharedClientsCorrect == MCSpec => []ClientsAndAnswers
BY LinksCorrect, AnswerOfTheQueryCorrect, PTL DEF ClientsAndAnswers, Instruments!ClientsAndAnswers

(***************************************************************************)
(* The trolley's data.  Sequences joined one after another: what           *)
(* FlattenSeq() returns, by the recursion it is defined with.              *)
(***************************************************************************)
\* What holds of 1 and is handed on from each number to the next holds up to n.
LEMMA OneAfterAnother ==
  ASSUME NEW n \in Nat \ {0}, NEW S \in SUBSET (1..n), 1 \in S,
         \A i \in 2..n : i - 1 \in S => i \in S
  PROVE  S = 1..n
<1> DEFINE T == (1..n) \ S
<1>1. CASE T = {}
  BY <1>1
<1>2. CASE T # {}
  <2> DEFINE R == OpToRel(<, Nat)
  <2>1. IsWellFoundedOn(R, Nat)
    BY NatLessThanWellFounded
  <2>2. \A i, j \in Nat : i < j => <<i, j>> \in R
    BY DEF OpToRel
  <2> HIDE DEF R
  <2>3. T \in SUBSET Nat
    OBVIOUS
  <2> HIDE DEF T
  <2>4. PICK c \in T : \A d \in T : <<d, c>> \notin R
    BY <1>2, <2>1, <2>3, WFMin, Zenon
  <2>5. c \in 2..n /\ c \notin S
    BY <2>4 DEF T
  <2>6. c - 1 \in 1..n /\ c - 1 \in Nat /\ c \in Nat /\ c - 1 < c
    BY <2>5
  <2>7. c - 1 \notin T
    BY <2>2, <2>4, <2>6, Zenon
  <2> QED
    BY <2>5, <2>6, <2>7 DEF T
<1> QED
  BY <1>1, <1>2

\* The recursion of FlattenSeq: f joins one sequence after another.
Joins(f, s, n) == f = [i \in 1..n |-> IF i = 1 THEN s[i] ELSE f[i - 1] \o s[i]]

LEMMA JoinsValues ==
  ASSUME NEW n \in Nat \ {0}, NEW s, NEW f, Joins(f, s, n)
  PROVE  f[1] = s[1] /\ \A i \in 2..n : f[i] = f[i - 1] \o s[i]
<1>1. \A i \in 1..n : f[i] = IF i = 1 THEN s[i] ELSE f[i - 1] \o s[i]
  BY DEF Joins
<1>2. 1 \in 1..n /\ \A i \in 2..n : i \in 1..n /\ i # 1
  OBVIOUS
<1> QED
  BY <1>1, <1>2, Zenon

LEMMA JoinsExists ==
  ASSUME NEW n \in Nat \ {0}, NEW s
  PROVE  \E f : Joins(f, s, n)
<1> DEFINE S == {m \in 1..n : \E f : Joins(f, s, m)}
<1>1. 1 \in S
  <2> DEFINE f == [i \in 1..1 |-> s[1]]
  <2>1. Joins(f, s, 1)
    BY DEF Joins
  <2> QED
    BY <2>1
<1>2. ASSUME NEW m \in 2..n, m - 1 \in S PROVE m \in S
  <2>1. PICK f : Joins(f, s, m - 1)
    BY <1>2
  <2> DEFINE g == [i \in 1..m |-> IF i = m THEN f[m - 1] \o s[m] ELSE f[i]]
  <2>2. \A i \in 1..m : g[i] = IF i = m THEN f[m - 1] \o s[m] ELSE f[i]
    OBVIOUS
  <2>3. DOMAIN g = 1..m /\ g = [i \in 1..m |-> g[i]]
    OBVIOUS
  <2> HIDE DEF g
  <2>4. \A i \in 1..(m - 1) : f[i] = IF i = 1 THEN s[i] ELSE f[i - 1] \o s[i]
    BY <2>1 DEF Joins
  <2>5. ASSUME NEW i \in 1..m
        PROVE  g[i] = IF i = 1 THEN s[i] ELSE g[i - 1] \o s[i]
    <3>1. CASE i = m
      <4>1. i # 1 /\ m - 1 \in 1..m /\ m - 1 # m
        BY <3>1
      <4>2. g[m - 1] = f[m - 1]
        BY <2>2, <4>1
      <4> QED
        BY <2>2, <3>1, <4>1, <4>2
    <3>2. CASE i # m
      <4>1. i \in 1..(m - 1) /\ g[i] = f[i]
        BY <2>2, <3>2
      <4>2. i # 1 => i - 1 \in 1..m /\ i - 1 # m
        BY <4>1
      <4>3. i # 1 => g[i - 1] = f[i - 1]
        BY <2>2, <4>2
      <4> QED
        BY <2>4, <4>1, <4>3
    <3> QED
      BY <3>1, <3>2
  <2>6. g = [i \in 1..m |-> IF i = 1 THEN s[i] ELSE g[i - 1] \o s[i]]
    BY <2>3, <2>5
  <2>7. Joins(g, s, m)
    BY <2>6, Zenon DEF Joins
  <2>8. m \in 1..n
    OBVIOUS
  <2> QED
    BY <2>7, <2>8
<1>3. S = 1..n
  <2>1. \A m \in 2..n : m - 1 \in S => m \in S
    BY <1>2
  <2>2. S \in SUBSET (1..n)
    OBVIOUS
  <2> HIDE DEF S
  <2> QED
    BY <1>1, <2>1, <2>2, OneAfterAnother
<1>4. n \in S
  <2>1. n \in 1..n
    OBVIOUS
  <2> HIDE DEF S
  <2> QED
    BY <1>3, <2>1
<1> QED
  BY <1>4

\* FlattenSeq is what that recursion gives.
LEMMA FlattenJoins ==
  ASSUME NEW n \in Nat \ {0}, NEW s, Len(s) = n
  PROVE  \E f : Joins(f, s, n) /\ FlattenSeq(s) = f[n]
<1> DEFINE f == CHOOSE g : g = [i \in 1..n |-> IF i = 1 THEN s[i] ELSE g[i - 1] \o s[i]]
<1>1. FlattenSeq(s) = f[n]
  BY DEF FlattenSeq
<1>2. \E g : g = [i \in 1..n |-> IF i = 1 THEN s[i] ELSE g[i - 1] \o s[i]]
  BY JoinsExists, Zenon DEF Joins
<1>3. f = [i \in 1..n |-> IF i = 1 THEN s[i] ELSE f[i - 1] \o s[i]]
  BY <1>2, Zenon
<1> QED
  BY <1>1, <1>3, Zenon DEF Joins

\* One sequence more is joined to what the others give.
LEMMA FlattenAppend ==
  ASSUME NEW X, NEW n \in Nat, NEW s, \A i \in 1..(n + 1) : s[i] \in Seq(X)
  PROVE  /\ FlattenSeq([i \in 1..n |-> s[i]]) \in Seq(X)
         /\ FlattenSeq([i \in 1..(n + 1) |-> s[i]])
              = FlattenSeq([i \in 1..n |-> s[i]]) \o s[n + 1]
<1> DEFINE u == [i \in 1..n |-> s[i]]
           v == [i \in 1..(n + 1) |-> s[i]]
<1>1. u \in Seq(Seq(X)) /\ Len(u) = n /\ v \in Seq(Seq(X)) /\ Len(v) = n + 1
  OBVIOUS
<1>2. (\A i \in 1..n : u[i] = s[i]) /\ (\A i \in 1..(n + 1) : v[i] = s[i])
  OBVIOUS
<1> HIDE DEF u, v
<1>3. PICK g : Joins(g, v, n + 1) /\ FlattenSeq(v) = g[n + 1]
  <2>1. n + 1 \in Nat \ {0}
    OBVIOUS
  <2> QED
    BY <1>1, <2>1, FlattenJoins
<1>4. /\ g[1] = s[1]
      /\ \A i \in 2..(n + 1) : g[i] = g[i - 1] \o s[i]
  <2>1. n + 1 \in Nat \ {0}
    OBVIOUS
  <2>2. g[1] = v[1] /\ \A i \in 2..(n + 1) : g[i] = g[i - 1] \o v[i]
    <3>1. ASSUME NEW w, Joins(g, w, n + 1)
          PROVE  g[1] = w[1] /\ \A i \in 2..(n + 1) : g[i] = g[i - 1] \o w[i]
      BY <2>1, <3>1, JoinsValues, Zenon
    <3>2. Joins(g, v, n + 1)
      BY <1>3, Zenon
    <3> QED
      BY <3>1, <3>2, Zenon
  <2>3. 1 \in 1..(n + 1) /\ \A i \in 2..(n + 1) : i \in 1..(n + 1)
    OBVIOUS
  <2>4. g[1] = s[1]
    BY <1>2, <2>2, <2>3, Zenon
  <2>5. ASSUME NEW i \in 2..(n + 1) PROVE g[i] = g[i - 1] \o s[i]
    <3>1. v[i] = s[i]
      BY <1>2, <2>3, Zenon
    <3>2. g[i] = g[i - 1] \o v[i]
      BY <2>2, Zenon
    <3> QED
      BY <3>1, <3>2, Zenon
  <2> QED
    BY <2>4, <2>5, Zenon
<1>5. CASE n = 0
  <2>1. u = <<>> /\ FlattenSeq(u) = u
    BY <1>1, <1>5 DEF FlattenSeq
  <2>2. s[1] \in Seq(X) /\ n + 1 = 1
    BY <1>5
  <2>3. <<>> \o s[1] = s[1]
    BY <2>2
  <2> QED
    BY <1>3, <1>4, <2>1, <2>2, <2>3 DEF u, v
<1>6. CASE n # 0
  <2>1. n \in Nat \ {0}
    BY <1>6
  <2>2. PICK f : Joins(f, u, n) /\ FlattenSeq(u) = f[n]
    BY <1>1, <2>1, FlattenJoins
  <2>3. f[1] = s[1] /\ \A i \in 2..n : f[i] = f[i - 1] \o s[i]
    <3>1. f[1] = u[1] /\ \A i \in 2..n : f[i] = f[i - 1] \o u[i]
      <4>1. ASSUME NEW w, Joins(f, w, n)
            PROVE  f[1] = w[1] /\ \A i \in 2..n : f[i] = f[i - 1] \o w[i]
        BY <2>1, <4>1, JoinsValues, Zenon
      <4>2. Joins(f, u, n)
        BY <2>2, Zenon
      <4> QED
        BY <4>1, <4>2, Zenon
    <3>2. 1 \in 1..n /\ \A i \in 2..n : i \in 1..n
      BY <2>1
    <3>3. f[1] = s[1]
      BY <1>2, <3>1, <3>2, Zenon
    <3>4. ASSUME NEW i \in 2..n PROVE f[i] = f[i - 1] \o s[i]
      <4>1. u[i] = s[i]
        BY <1>2, <3>2, Zenon
      <4>2. f[i] = f[i - 1] \o u[i]
        BY <3>1, Zenon
      <4> QED
        BY <4>1, <4>2, Zenon
    <3> QED
      BY <3>3, <3>4, Zenon
  <2> DEFINE S == {i \in 1..n : f[i] = g[i] /\ f[i] \in Seq(X)}
  <2>4. 1 \in S
    BY <1>4, <2>1, <2>3
  <2>5. ASSUME NEW i \in 2..n, i - 1 \in S PROVE i \in S
    <3>1. g[i] = g[i - 1] \o s[i] /\ f[i] = f[i - 1] \o s[i] /\ s[i] \in Seq(X)
      <4>1. i \in 2..(n + 1) /\ i \in 1..(n + 1)
        OBVIOUS
      <4> QED
        BY <1>4, <2>3, <4>1, Zenon
    <3>2. f[i - 1] = g[i - 1] /\ f[i - 1] \in Seq(X)
      BY <2>5
    <3>3. f[i] \in Seq(X)
      <4>1. \A x, y \in Seq(X) : x \o y \in Seq(X)
        OBVIOUS
      <4> QED
        BY <3>1, <3>2, <4>1, Zenon
    <3>4. f[i] = g[i]
      BY <3>1, <3>2, Zenon
    <3>5. i \in 1..n
      OBVIOUS
    <3> QED
      BY <3>3, <3>4, <3>5
  <2>6. S = 1..n
    <3>1. \A m \in 2..n : m - 1 \in S => m \in S
      BY <2>5
    <3>2. S \in SUBSET (1..n)
      OBVIOUS
    <3> HIDE DEF S
    <3> QED
      BY <2>1, <2>4, <3>1, <3>2, OneAfterAnother
  <2>7. n \in S
    BY <2>1, <2>6
  <2>8. g[n + 1] = g[n] \o s[n + 1]
    <3>1. n + 1 \in 2..(n + 1) /\ (n + 1) - 1 = n
      BY <2>1
    <3> QED
      BY <1>4, <3>1
  <2>9. FlattenSeq(u) \in Seq(X) /\ FlattenSeq(v) = FlattenSeq(u) \o s[n + 1]
    BY <1>3, <2>2, <2>7, <2>8
  <2> QED
    BY <2>9 DEF u, v
<1> QED
  BY <1>5, <1>6

(***************************************************************************)
(* The bytes of the frames.                                                *)
(***************************************************************************)
(***************************************************************************)
(* Where the frames lie in the stream of traffic t.                        *)
(***************************************************************************)
Octets == 0..255

LEMMA U16Octets ==
  ASSUME NEW n \in Fields16
  PROVE  /\ U16(n)[1] \in 0..255 /\ U16(n)[2] \in 0..255
         /\ U16(n)[1] + 256 * U16(n)[2] = n
<1> DEFINE x == n % 256
           y == n \div 256
<1>1. n \in Int /\ 0 <= n /\ n <= 65535
  BY DEF Fields16
<1>2. x \in Int /\ 0 <= x /\ x <= 255 /\ y \in Int
  BY <1>1, SMT
<1>3. x = n - 256 * y
  BY <1>1, Z3
<1>4. U16(n) = <<x, y>>
  BY DEF U16
<1> HIDE DEF x, y
<1>5. 0 <= y /\ y <= 255 /\ x + 256 * y = n
  BY <1>1, <1>2, <1>3, SMT
<1>6. <<x, y>>[1] = x /\ <<x, y>>[2] = y
  OBVIOUS
<1> QED
  BY <1>2, <1>4, <1>5, <1>6

\* The halves of a field of 32 bits.
LEMMA HalvesOf ==
  ASSUME NEW n \in Fields32
  PROVE  Low(n) \in Fields16 /\ High(n) \in Fields16 /\ Long(Low(n), High(n)) = n
<1>1. n \in Int /\ 0 <= n /\ High(n) \in Fields16
  BY SMT DEF Fields32
<1>2. n % 65536 \in Int /\ 0 <= n % 65536 /\ n % 65536 <= 65535 /\ n \div 65536 \in Int
  BY <1>1, SMT
<1>3. n % 65536 = n - 65536 * (n \div 65536)
  BY <1>1, Z3
<1>4. Low(n) = n % 65536 /\ High(n) = n \div 65536
  BY SMT DEF Low, High
<1>5. Low(n) \in Int /\ 0 <= Low(n) /\ Low(n) <= 65535 /\ High(n) \in Int
      /\ Low(n) = n - 65536 * High(n)
  BY <1>2, <1>3, <1>4, SMT
<1>6. Low(n) \in Fields16
  BY <1>5, SMT DEF Fields16
<1>7. Long(Low(n), High(n)) = n
  BY <1>1, <1>5, SMT DEF Long
<1> QED
  BY <1>1, <1>6, <1>7

LEMMA MarkAre == Mark[1] = 255 /\ Mark[2] = 127 /\ Mark[3] = 0 /\ Mark[4] = 128
BY DEF Mark

\* What an A frame holds: its preamble, its length and its flash word.
LEMMA ABytesAre ==
  ASSUME NEW e \in EventRecords
  PROVE  /\ \A o \in Nat : AByte(e, o) \in 0..255
         /\ \A o \in {0, 4, 8} : /\ AByte(e, o) = 255 /\ AByte(e, o + 1) = 127
                                 /\ AByte(e, o + 2) = 0 /\ AByte(e, o + 3) = 128
         /\ AByte(e, 12) = 170 /\ AByte(e, 13) = 170
         /\ Long(AByte(e, 14) + 256 * AByte(e, 15),
                 AByte(e, 16) + 256 * AByte(e, 17)) = e.length
         /\ AByte(e, 28) + 256 * AByte(e, 29) = e.flash
<1> DEFINE x == Low(e.length)
           y == High(e.length)
           z == e.flash
<1>1. x \in Fields16 /\ y \in Fields16 /\ z \in Fields16 /\ Long(x, y) = e.length
  <2>1. e.length \in Fields32 /\ e.flash \in Fields16
    BY DEF EventRecords
  <2> QED
    BY <2>1, HalvesOf, Zenon
<1>2. /\ U16(x)[1] \in 0..255 /\ U16(x)[2] \in 0..255 /\ U16(x)[1] + 256 * U16(x)[2] = x
      /\ U16(y)[1] \in 0..255 /\ U16(y)[2] \in 0..255 /\ U16(y)[1] + 256 * U16(y)[2] = y
      /\ U16(z)[1] \in 0..255 /\ U16(z)[2] \in 0..255 /\ U16(z)[1] + 256 * U16(z)[2] = z
  <2>1. ASSUME NEW w \in Fields16
        PROVE  U16(w)[1] \in 0..255 /\ U16(w)[2] \in 0..255 /\ U16(w)[1] + 256 * U16(w)[2] = w
    BY U16Octets, Zenon
  <2> HIDE DEF x, y, z
  <2>2. U16(x)[1] \in 0..255 /\ U16(x)[2] \in 0..255 /\ U16(x)[1] + 256 * U16(x)[2] = x
    BY <1>1, <2>1, Zenon
  <2>3. U16(y)[1] \in 0..255 /\ U16(y)[2] \in 0..255 /\ U16(y)[1] + 256 * U16(y)[2] = y
    BY <1>1, <2>1, Zenon
  <2>4. U16(z)[1] \in 0..255 /\ U16(z)[2] \in 0..255 /\ U16(z)[1] + 256 * U16(z)[2] = z
    BY <1>1, <2>1, Zenon
  <2> QED
    BY <2>2, <2>3, <2>4, Zenon
<1>3. \A o \in Nat : AByte(e, o) = CASE o \in 0..11    -> Mark[1 + (o % 4)]
                                     [] o \in {12, 13} -> 170
                                     [] o \in {14, 15} -> U16(x)[o - 13]
                                     [] o \in {16, 17} -> U16(y)[o - 15]
                                     [] o \in {28, 29} -> U16(z)[o - 27]
                                     [] OTHER          -> 17
  BY DEF AByte
<1>4. Long(x, y) = e.length /\ z = e.flash
  BY <1>1, Zenon
<1> HIDE DEF x, y, z
<1>6. \A o \in Nat : o % 4 \in {0, 1, 2, 3}
  OBVIOUS
<1>7. ASSUME NEW o \in Nat PROVE AByte(e, o) \in 0..255
  <2>1. CASE o \in 0..11
    <3>1. AByte(e, o) = Mark[1 + (o % 4)]
      BY <1>3, <2>1
    <3>2. 1 + (o % 4) \in {1, 2, 3, 4}
      BY <1>6
    <3> QED
      BY <3>1, <3>2, MarkAre
  <2>2. CASE o \in {14, 15}
    <3>1. AByte(e, o) = U16(x)[o - 13] /\ o - 13 \in {1, 2}
      BY <1>3, <2>2
    <3> QED
      BY <1>2, <3>1
  <2>3. CASE o \in {16, 17}
    <3>1. AByte(e, o) = U16(y)[o - 15] /\ o - 15 \in {1, 2}
      BY <1>3, <2>3
    <3> QED
      BY <1>2, <3>1
  <2>4. CASE o \in {28, 29}
    <3>1. AByte(e, o) = U16(z)[o - 27] /\ o - 27 \in {1, 2}
      BY <1>3, <2>4
    <3> QED
      BY <1>2, <3>1
  <2>5. CASE o \notin 0..11 /\ o \notin {14, 15, 16, 17, 28, 29}
    <3>1. AByte(e, o) \in {170, 17}
      BY <1>3, <2>5
    <3> QED
      BY <3>1
  <2> QED
    BY <2>1, <2>2, <2>3, <2>4, <2>5
<1>8. ASSUME NEW o \in {0, 4, 8}
      PROVE  /\ AByte(e, o) = 255 /\ AByte(e, o + 1) = 127
             /\ AByte(e, o + 2) = 0 /\ AByte(e, o + 3) = 128
  <2>1. AByte(e, o) = Mark[1] /\ AByte(e, o + 1) = Mark[2]
        /\ AByte(e, o + 2) = Mark[3] /\ AByte(e, o + 3) = Mark[4]
    <3>1. CASE o = 0
      BY <1>3, <3>1
    <3>2. CASE o = 4
      BY <1>3, <3>2
    <3>3. CASE o = 8
      BY <1>3, <3>3
    <3> QED
      BY <3>1, <3>2, <3>3
  <2> QED
    BY <2>1, MarkAre
<1>9. /\ AByte(e, 12) = 170 /\ AByte(e, 13) = 170
      /\ AByte(e, 14) = U16(x)[1] /\ AByte(e, 15) = U16(x)[2]
      /\ AByte(e, 16) = U16(y)[1] /\ AByte(e, 17) = U16(y)[2]
      /\ AByte(e, 28) = U16(z)[1] /\ AByte(e, 29) = U16(z)[2]
  BY <1>3
<1>10. AByte(e, 14) + 256 * AByte(e, 15) = x /\ AByte(e, 16) + 256 * AByte(e, 17) = y
       /\ AByte(e, 28) + 256 * AByte(e, 29) = z
  BY <1>2, <1>9, Zenon
<1>11. Long(AByte(e, 14) + 256 * AByte(e, 15), AByte(e, 16) + 256 * AByte(e, 17))
         = e.length
  BY <1>4, <1>10, Zenon
<1> QED
  BY <1>4, <1>7, <1>8, <1>9, <1>10, <1>11, Zenon

\* What a B frame holds: its preamble and its number of samples.
LEMMA BBytesAre ==
  ASSUME NEW e \in EventRecords
  PROVE  /\ \A o \in Nat : BByte(e, o) \in 0..255
         /\ BByte(e, 0) = 0 /\ BByte(e, 1) = 128 /\ BByte(e, 2) = 255 /\ BByte(e, 3) = 127
         /\ BByte(e, 4) = 0 /\ BByte(e, 5) = 128 /\ BByte(e, 6) = 187 /\ BByte(e, 7) = 187
         /\ BByte(e, 8) + 256 * BByte(e, 9) = e.samples
<1> DEFINE z == e.samples
<1>1. U16(z)[1] \in 0..255 /\ U16(z)[2] \in 0..255 /\ U16(z)[1] + 256 * U16(z)[2] = z
  <2>1. z \in Fields16
    BY DEF EventRecords
  <2> QED
    BY <2>1, U16Octets, Zenon
<1>2. \A o \in Nat : BByte(e, o) = CASE o \in 0..5   -> Mark[1 + ((o + 2) % 4)]
                                     [] o \in {6, 7} -> 187
                                     [] o \in {8, 9} -> U16(z)[o - 7]
                                     [] OTHER        -> 17
  BY DEF BByte
<1>3. z = e.samples
  OBVIOUS
<1> HIDE DEF z
<1>4. ASSUME NEW o \in Nat PROVE BByte(e, o) \in 0..255
  <2>1. CASE o \in 0..5
    <3>1. BByte(e, o) = Mark[1 + ((o + 2) % 4)]
      BY <1>2, <2>1
    <3>2. 1 + ((o + 2) % 4) \in {1, 2, 3, 4}
      OBVIOUS
    <3> QED
      BY <3>1, <3>2, MarkAre
  <2>2. CASE o \in {8, 9}
    <3>1. BByte(e, o) = U16(z)[o - 7] /\ o - 7 \in {1, 2}
      BY <1>2, <2>2
    <3> QED
      BY <1>1, <3>1
  <2>3. CASE o \notin 0..5 /\ o \notin {8, 9}
    <3>1. BByte(e, o) \in {187, 17}
      BY <1>2, <2>3
    <3> QED
      BY <3>1
  <2> QED
    BY <2>1, <2>2, <2>3
<1>5. /\ BByte(e, 0) = Mark[3] /\ BByte(e, 1) = Mark[4] /\ BByte(e, 2) = Mark[1]
      /\ BByte(e, 3) = Mark[2] /\ BByte(e, 4) = Mark[3] /\ BByte(e, 5) = Mark[4]
  BY <1>2
<1>6. /\ BByte(e, 6) = 187 /\ BByte(e, 7) = 187
      /\ BByte(e, 8) = U16(z)[1] /\ BByte(e, 9) = U16(z)[2]
  BY <1>2
<1>7. BByte(e, 8) + 256 * BByte(e, 9) = e.samples
  BY <1>1, <1>3, <1>6, Zenon
<1> QED
  BY <1>4, <1>5, <1>6, <1>7, MarkAre

\* The bytes of one event.
LEMMA BytesAre ==
  ASSUME NEW e \in EventRecords
  PROVE  /\ LenA(e) \in Nat /\ LenB(e) \in Nat /\ LenB(e) >= 72 /\ Len(e.noise) \in Nat
         /\ e.hasA => LenA(e) = 128 + e.payload
         /\ LenB(e) = 72 + 4 * e.samples /\ e.samples \in Nat /\ e.payload \in Nat
         /\ Bytes(e) \in Seq(Octets) /\ Len(Bytes(e)) = Len(e.noise) + LenA(e) + LenB(e)
         /\ \A o \in 0..(LenA(e) - 1) : Bytes(e)[Len(e.noise) + o + 1] = AByte(e, o)
         /\ \A o \in 0..(LenB(e) - 1) :
              Bytes(e)[Len(e.noise) + LenA(e) + o + 1] = BByte(e, o)
<1>1. /\ e.noise \in Seq(Octets) /\ e.hasA \in BOOLEAN /\ e.payload \in Nat
      /\ e.samples \in Nat
  BY SMT DEF EventRecords, Octets, Fields16
<1>2. LenA(e) \in Nat /\ LenB(e) \in Nat /\ LenB(e) >= 72 /\ Len(e.noise) \in Nat
      /\ (e.hasA => LenA(e) = 128 + e.payload) /\ LenB(e) = 72 + 4 * e.samples
  BY <1>1 DEF LenA, LenB, EVENT_HEADER_SIZE, BHeaderSize
<1> DEFINE n == e.noise
           x == ABytes(e)
           y == BBytes(e)
<1>3. x \in Seq(Octets) /\ Len(x) = LenA(e)
      /\ \A o \in 0..(LenA(e) - 1) : x[o + 1] = AByte(e, o)
  <2>1. \A q \in 1..LenA(e) : q - 1 \in Nat /\ AByte(e, q - 1) \in Octets
    <3>1. \A q \in 1..LenA(e) : q - 1 \in Nat
      BY <1>2
    <3> QED
      BY <3>1, ABytesAre DEF Octets
  <2>2. x = [q \in 1..LenA(e) |-> AByte(e, q - 1)]
    BY DEF ABytes
  <2>3. \A o \in 0..(LenA(e) - 1) : o + 1 \in 1..LenA(e) /\ (o + 1) - 1 = o
    BY <1>2
  <2> HIDE DEF x
  <2>4. x \in Seq(Octets) /\ Len(x) = LenA(e)
    BY <1>2, <2>1, <2>2
  <2> QED
    BY <2>2, <2>3, <2>4
<1>4. y \in Seq(Octets) /\ Len(y) = LenB(e)
      /\ \A o \in 0..(LenB(e) - 1) : y[o + 1] = BByte(e, o)
  <2>1. \A q \in 1..LenB(e) : q - 1 \in Nat /\ BByte(e, q - 1) \in Octets
    <3>1. \A q \in 1..LenB(e) : q - 1 \in Nat
      BY <1>2
    <3> QED
      BY <3>1, BBytesAre DEF Octets
  <2>2. y = [q \in 1..LenB(e) |-> BByte(e, q - 1)]
    BY DEF BBytes
  <2>3. \A o \in 0..(LenB(e) - 1) : o + 1 \in 1..LenB(e) /\ (o + 1) - 1 = o
    BY <1>2
  <2> HIDE DEF y
  <2>4. y \in Seq(Octets) /\ Len(y) = LenB(e)
    BY <1>2, <2>1, <2>2
  <2> QED
    BY <2>2, <2>3, <2>4
<1>5. Bytes(e) = (n \o x) \o y
  BY DEF Bytes
<1>6. n \in Seq(Octets)
  BY <1>1
<1> DEFINE m == n \o x
<1>7. /\ m \in Seq(Octets) /\ Len(m) = Len(n) + LenA(e)
      /\ \A q \in 1..LenA(e) : m[Len(n) + q] = x[q]
  <2>1. x \in Seq(Octets) /\ Len(x) = LenA(e) /\ n \in Seq(Octets)
    BY <1>3, <1>6
  <2> HIDE DEF n, x
  <2>2. /\ n \o x \in Seq(Octets) /\ Len(n \o x) = Len(n) + Len(x)
        /\ \A q \in 1..Len(x) : (n \o x)[Len(n) + q] = x[q]
    BY <2>1
  <2> QED
    BY <2>1, <2>2
<1>8. Bytes(e) = m \o y
  BY <1>5
<1>13. y \in Seq(Octets) /\ Len(y) = LenB(e)
  BY <1>4
<1>14. m \in Seq(Octets)
  BY <1>7
<1> HIDE DEF m, y, x
<1>9. /\ m \o y \in Seq(Octets) /\ Len(m \o y) = Len(m) + LenB(e)
      /\ \A q \in 1..Len(m) : (m \o y)[q] = m[q]
      /\ \A q \in 1..LenB(e) : (m \o y)[Len(m) + q] = y[q]
  <2>1. /\ m \o y \in Seq(Octets) /\ Len(m \o y) = Len(m) + Len(y)
        /\ \A q \in 1..Len(m) : (m \o y)[q] = m[q]
        /\ \A q \in 1..Len(y) : (m \o y)[Len(m) + q] = y[q]
    BY <1>13, <1>14
  <2> QED
    BY <1>13, <2>1
<1>15. /\ LenA(e) \in Nat /\ LenB(e) \in Nat /\ Len(n) \in Nat
       /\ Len(m) = Len(n) + LenA(e)
  BY <1>2, <1>7
<1>10. ASSUME NEW o \in 0..(LenA(e) - 1) PROVE Bytes(e)[Len(e.noise) + o + 1] = AByte(e, o)
  <2>4. ASSUME NEW x1 \in Nat, NEW x2 \in Nat, NEW x3 \in 0..(x2 - 1)
        PROVE  x3 + 1 \in 1..x2 /\ x1 + (x3 + 1) \in 1..(x1 + x2)
               /\ x1 + (x3 + 1) = x1 + x3 + 1
    OBVIOUS
  <2>1. o + 1 \in 1..LenA(e) /\ Len(n) + (o + 1) \in 1..Len(m)
        /\ Len(n) + (o + 1) = Len(n) + o + 1
    BY <1>15, <2>4, Zenon
  <2>2. (m \o y)[Len(n) + (o + 1)] = m[Len(n) + (o + 1)]
    BY <1>9, <2>1
  <2>3. m[Len(n) + (o + 1)] = x[o + 1]
    BY <1>7, <2>1
  <2> QED
    BY <1>3, <1>8, <2>1, <2>2, <2>3
<1>11. ASSUME NEW o \in 0..(LenB(e) - 1)
       PROVE  Bytes(e)[Len(e.noise) + LenA(e) + o + 1] = BByte(e, o)
  <2>1. o + 1 \in 1..LenB(e) /\ Len(m) + (o + 1) = Len(n) + LenA(e) + o + 1
    BY <1>15
  <2>2. (m \o y)[Len(m) + (o + 1)] = y[o + 1]
    BY <1>9, <2>1
  <2> QED
    BY <1>4, <1>8, <2>1, <2>2
<1>12. Bytes(e) \in Seq(Octets) /\ Len(Bytes(e)) = Len(e.noise) + LenA(e) + LenB(e)
  BY <1>7, <1>8, <1>9
<1> QED
  BY <1>1, <1>2, <1>10, <1>11, <1>12

\* The parts of a flattened sequence of sequences.
Joined(s, n) == FlattenSeq([i \in 1..n |-> s[i]])

LEMMA PartsOf ==
  ASSUME NEW X, NEW N \in Nat, NEW s, \A i \in 1..N : s[i] \in Seq(X)
  PROVE  /\ \A n \in 0..N : Joined(s, n) \in Seq(X)
         /\ \A n \in 1..N : Joined(s, n) = Joined(s, n - 1) \o s[n]
         /\ \A n \in 1..N :
              /\ Len(Joined(s, n)) = Len(Joined(s, n - 1)) + Len(s[n])
              /\ \A q \in 1..Len(Joined(s, n - 1)) : Joined(s, n)[q] = Joined(s, n - 1)[q]
              /\ \A q \in 1..Len(s[n]) : Joined(s, n)[Len(Joined(s, n - 1)) + q] = s[n][q]
         /\ Joined(s, 0) = <<>>
<1>1. ASSUME NEW n \in 1..N
      PROVE  Joined(s, n - 1) \in Seq(X) /\ Joined(s, n) = Joined(s, n - 1) \o s[n]
  <2>1. n - 1 \in Nat /\ (n - 1) + 1 = n /\ \A i \in 1..n : s[i] \in Seq(X)
    OBVIOUS
  <2>2. /\ FlattenSeq([i \in 1..(n - 1) |-> s[i]]) \in Seq(X)
        /\ FlattenSeq([i \in 1..((n - 1) + 1) |-> s[i]])
              = FlattenSeq([i \in 1..(n - 1) |-> s[i]]) \o s[(n - 1) + 1]
    <3>1. \A i \in 1..((n - 1) + 1) : s[i] \in Seq(X)
      BY <2>1
    <3> QED
      BY <2>1, <3>1, FlattenAppend, Zenon
  <2> QED
    BY <2>1, <2>2 DEF Joined
<1>2. Joined(s, 0) = <<>>
  <2>1. [i \in 1..0 |-> s[i]] = <<>>
    OBVIOUS
  <2>2. Len(<<>>) = 0
    OBVIOUS
  <2>3. FlattenSeq(<<>>) = <<>>
    BY <2>2 DEF FlattenSeq
  <2> QED
    BY <2>1, <2>3 DEF Joined
<1>3. ASSUME NEW n \in 0..N PROVE Joined(s, n) \in Seq(X)
  <2>1. CASE n = 0
    <3>1. <<>> \in Seq(X)
      OBVIOUS
    <3> QED
      BY <1>2, <2>1, <3>1
  <2>2. CASE n # 0
    <3>1. n \in 1..N
      BY <2>2
    <3>2. Joined(s, n - 1) \in Seq(X) /\ Joined(s, n) = Joined(s, n - 1) \o s[n] /\ s[n] \in Seq(X)
      BY <1>1, <3>1
    <3>3. \A x, y \in Seq(X) : x \o y \in Seq(X)
      OBVIOUS
    <3> QED
      BY <3>2, <3>3, Zenon
  <2> QED
    BY <2>1, <2>2
<1>4. ASSUME NEW n \in 1..N
      PROVE  /\ Len(Joined(s, n)) = Len(Joined(s, n - 1)) + Len(s[n])
             /\ \A q \in 1..Len(Joined(s, n - 1)) : Joined(s, n)[q] = Joined(s, n - 1)[q]
             /\ \A q \in 1..Len(s[n]) : Joined(s, n)[Len(Joined(s, n - 1)) + q] = s[n][q]
  <2> DEFINE x == Joined(s, n - 1)
             y == s[n]
  <2>1. x \in Seq(X) /\ y \in Seq(X) /\ Joined(s, n) = x \o y
    BY <1>1
  <2> HIDE DEF x, y
  <2>2. /\ Len(x \o y) = Len(x) + Len(y)
        /\ \A q \in 1..Len(x) : (x \o y)[q] = x[q]
        /\ \A q \in 1..Len(y) : (x \o y)[Len(x) + q] = y[q]
    BY <2>1
  <2>3. /\ Len(Joined(s, n)) = Len(x) + Len(y)
        /\ \A q \in 1..Len(x) : Joined(s, n)[q] = x[q]
        /\ \A q \in 1..Len(y) : Joined(s, n)[Len(x) + q] = y[q]
    BY <2>1, <2>2
  <2> QED
    BY <2>3 DEF x, y
<1> QED
  BY <1>1, <1>2, <1>3, <1>4, Zenon

\* A part is the beginning of every later one.
LEMMA PartsGrow ==
  ASSUME NEW X, NEW N \in Nat, NEW s, \A i \in 1..N : s[i] \in Seq(X)
  PROVE  /\ \A n \in 0..N : Joined(s, n) \in Seq(X)
         /\ \A m \in 0..N : \A n \in m..N :
              /\ Len(Joined(s, m)) <= Len(Joined(s, n))
              /\ \A q \in 1..Len(Joined(s, m)) : Joined(s, n)[q] = Joined(s, m)[q]
         /\ Joined(s, 0) = <<>>
<1>1. /\ \A n \in 0..N : Joined(s, n) \in Seq(X)
      /\ \A n \in 1..N : Joined(s, n) = Joined(s, n - 1) \o s[n]
      /\ \A n \in 1..N :
           /\ Len(Joined(s, n)) = Len(Joined(s, n - 1)) + Len(s[n])
           /\ \A q \in 1..Len(Joined(s, n - 1)) : Joined(s, n)[q] = Joined(s, n - 1)[q]
           /\ \A q \in 1..Len(s[n]) : Joined(s, n)[Len(Joined(s, n - 1)) + q] = s[n][q]
      /\ Joined(s, 0) = <<>>
  BY PartsOf, Zenon
<1> SUFFICES ASSUME NEW m \in 0..N, NEW n \in m..N
             PROVE  /\ Len(Joined(s, m)) <= Len(Joined(s, n))
                    /\ \A q \in 1..Len(Joined(s, m)) : Joined(s, n)[q] = Joined(s, m)[q]
  BY <1>1
<1> DEFINE M == N - m + 1
           Ext(j) == /\ Len(Joined(s, m)) <= Len(Joined(s, j))
                     /\ \A q \in 1..Len(Joined(s, m)) : Joined(s, j)[q] = Joined(s, m)[q]
           S == {d \in 1..M : Ext(m + d - 1)}
<1>2. \A j \in 0..N : Len(Joined(s, j)) \in Nat
  BY <1>1
<1>3. \A j \in 1..N : Len(s[j]) \in Nat
  <2>1. \A x \in Seq(X) : Len(x) \in Nat
    OBVIOUS
  <2> QED
    BY <2>1, Zenon
<1>4. M \in Nat \ {0} /\ 1 \in 1..M /\ m + 1 - 1 = m /\ S \in SUBSET (1..M)
  OBVIOUS
<1>5. 1 \in S
  <2>1. Ext(m)
    BY <1>2
  <2> QED
    BY <1>4, <2>1
<1>6. ASSUME NEW d \in 2..M, d - 1 \in S PROVE d \in S
  <2> DEFINE j == m + d - 1
  <2>1. j \in 1..N /\ j - 1 \in 0..N /\ j - 1 = m + (d - 1) - 1 /\ d \in 1..M
    OBVIOUS
  <2>2. Ext(j - 1)
    BY <1>6, <2>1
  <2> HIDE DEF j
  <2>3. Len(Joined(s, j)) = Len(Joined(s, j - 1)) + Len(s[j])
        /\ \A q \in 1..Len(Joined(s, j - 1)) : Joined(s, j)[q] = Joined(s, j - 1)[q]
    BY <1>1, <2>1
  <2>4. Len(Joined(s, j - 1)) \in Nat /\ Len(s[j]) \in Nat /\ Len(Joined(s, m)) \in Nat
    BY <1>2, <1>3, <2>1
  <2>5. Len(Joined(s, m)) <= Len(Joined(s, j - 1)) /\ Len(Joined(s, m)) <= Len(Joined(s, j))
    <3>1. ASSUME NEW x1 \in Nat, NEW x2 \in Nat, NEW x3 \in Nat, NEW x4, x4 = x2 + x3, x1 <= x2
          PROVE  x1 <= x2 /\ x1 <= x4
      BY <3>1
    <3>2. Len(Joined(s, j)) = Len(Joined(s, j - 1)) + Len(s[j])
          /\ Len(Joined(s, m)) <= Len(Joined(s, j - 1))
      BY <2>2, <2>3, Zenon
    <3> QED
      BY <2>4, <3>1, <3>2, Zenon
  <2>6. ASSUME NEW q \in 1..Len(Joined(s, m)) PROVE Joined(s, j)[q] = Joined(s, m)[q]
    <3>1. q \in 1..Len(Joined(s, j - 1))
      BY <2>4, <2>5
    <3>2. Joined(s, j)[q] = Joined(s, j - 1)[q]
      BY <2>3, <3>1
    <3>3. Joined(s, j - 1)[q] = Joined(s, m)[q]
      BY <2>2
    <3> QED
      BY <3>2, <3>3
  <2>7. Ext(j)
    BY <2>5, <2>6
  <2> QED
    BY <2>1, <2>7 DEF j
<1>7. S = 1..M
  <2>1. \A d \in 2..M : d - 1 \in S => d \in S
    BY <1>6
  <2> HIDE DEF S, M
  <2> QED
    BY <1>4, <1>5, <2>1, OneAfterAnother
<1>8. n - m + 1 \in 1..M /\ m + (n - m + 1) - 1 = n
  OBVIOUS
<1>9. Ext(m + (n - m + 1) - 1)
  BY <1>7, <1>8
<1> QED
  BY <1>8, <1>9

Parts(t) == [i \in DOMAIN Traffic[t] |-> Bytes(Traffic[t][i])]

LEMMA TrafficTypes ==
  ASSUME NEW t \in DOMAIN Traffic
  PROVE  /\ Len(Traffic[t]) \in Nat /\ DOMAIN Traffic[t] = 1..Len(Traffic[t])
         /\ \A i \in DOMAIN Traffic[t] : Traffic[t][i] \in EventRecords
<1>1. Traffic \in Seq(Seq(EventRecords))
  BY TrafficAssumption
<1>2. Traffic[t] \in Seq(EventRecords)
  BY <1>1
<1> QED
  BY <1>2

\* The stream and the beginnings of the events, by the parts of the stream.
LEMMA StreamParts ==
  ASSUME NEW t \in DOMAIN Traffic
  PROVE  /\ Stream[t] = Joined(Parts(t), Len(Traffic[t]))
         /\ \A i \in DOMAIN Traffic[t] :
              From[t][i] = Len(Joined(Parts(t), i - 1)) + Len(Traffic[t][i].noise)
         /\ \A i \in DOMAIN Traffic[t] : Parts(t)[i] = Bytes(Traffic[t][i])
<1> DEFINE N == Len(Traffic[t])
           s == Parts(t)
<1>1. N \in Nat /\ DOMAIN Traffic[t] = 1..N
  BY TrafficTypes
<1>2. \A i \in 1..N : s[i] = Bytes(Traffic[t][i])
  BY <1>1 DEF Parts
<1>3. Stream[t] = FlattenSeq([i \in 1..N |-> Bytes(Traffic[t][i])])
  BY <1>1 DEF Stream
<1>4. [i \in 1..N |-> Bytes(Traffic[t][i])] = [i \in 1..N |-> s[i]]
  BY <1>2
<1>5. Stream[t] = Joined(s, N)
  BY <1>3, <1>4 DEF Joined
<1>6. ASSUME NEW i \in 1..N
      PROVE  From[t][i] = Len(Joined(s, i - 1)) + Len(Traffic[t][i].noise)
  <2>1. From[t][i] = Len(FlattenSeq([j \in 1..(i - 1) |-> Bytes(Traffic[t][j])]))
                     + Len(Traffic[t][i].noise)
    BY <1>1 DEF From
  <2>2. [j \in 1..(i - 1) |-> Bytes(Traffic[t][j])] = [j \in 1..(i - 1) |-> s[j]]
    <3>1. \A j \in 1..(i - 1) : j \in 1..N
      BY <1>1
    <3> QED
      BY <1>2, <3>1
  <2> QED
    BY <2>1, <2>2 DEF Joined
<1> QED
  BY <1>1, <1>2, <1>5, <1>6

\* Where event i of traffic t begins and ends, its noise left aside.
Begin(t, i) == From[t][i]
Middle(t, i) == From[t][i] + LenA(Traffic[t][i])
End(t, i) == From[t][i] + LenA(Traffic[t][i]) + LenB(Traffic[t][i])

\* The parts of traffic t: one event after the other.
LEMMA PartsAre ==
  ASSUME NEW t \in DOMAIN Traffic
  PROVE  LET N == Len(Traffic[t])
             L(n) == Len(Joined(Parts(t), n))
         IN  /\ Stream[t] \in Seq(Octets)
             /\ \A n \in 0..N : L(n) \in Nat
             /\ \A i \in 1..N : /\ Begin(t, i) = L(i - 1) + Len(Traffic[t][i].noise)
                                /\ End(t, i) = L(i)
             /\ L(N) = Len(Stream[t])
             /\ \A m \in 0..N : \A n \in m..N : L(m) <= L(n)
             /\ \A i \in 1..N : \A q \in 1..Len(Bytes(Traffic[t][i])) :
                  Stream[t][L(i - 1) + q] = Bytes(Traffic[t][i])[q]
<1> DEFINE N == Len(Traffic[t])
           s == Parts(t)
           L(n) == Len(Joined(s, n))
<1>1. /\ N \in Nat /\ DOMAIN Traffic[t] = 1..N
      /\ \A i \in 1..N : Traffic[t][i] \in EventRecords
  BY TrafficTypes
<1>2. /\ Stream[t] = Joined(s, N)
      /\ \A i \in 1..N : From[t][i] = L(i - 1) + Len(Traffic[t][i].noise)
      /\ \A i \in 1..N : s[i] = Bytes(Traffic[t][i])
  BY <1>1, StreamParts
<1>3. \A i \in 1..N : Bytes(Traffic[t][i]) \in Seq(Octets)
  BY <1>1, BytesAre
<1>4. \A i \in 1..N : s[i] \in Seq(Octets)
  BY <1>2, <1>3
<1> HIDE DEF N, s, L
<1>5. /\ \A n \in 0..N : Joined(s, n) \in Seq(Octets)
      /\ \A n \in 1..N : Joined(s, n) = Joined(s, n - 1) \o s[n]
      /\ \A n \in 1..N :
           /\ Len(Joined(s, n)) = Len(Joined(s, n - 1)) + Len(s[n])
           /\ \A q \in 1..Len(Joined(s, n - 1)) : Joined(s, n)[q] = Joined(s, n - 1)[q]
           /\ \A q \in 1..Len(s[n]) : Joined(s, n)[Len(Joined(s, n - 1)) + q] = s[n][q]
      /\ Joined(s, 0) = <<>>
  BY <1>1, <1>4, PartsOf, Zenon
<1>6. /\ \A n \in 0..N : Joined(s, n) \in Seq(Octets)
      /\ \A m \in 0..N : \A n \in m..N :
           /\ Len(Joined(s, m)) <= Len(Joined(s, n))
           /\ \A q \in 1..Len(Joined(s, m)) : Joined(s, n)[q] = Joined(s, m)[q]
      /\ Joined(s, 0) = <<>>
  BY <1>1, <1>4, PartsGrow, Zenon
<1>7. \A n \in 0..N : L(n) \in Nat
  <2>1. \A x \in Seq(Octets) : Len(x) \in Nat
    OBVIOUS
  <2> QED
    BY <1>5, <2>1, Zenon DEF L
<1>8. N \in 0..N
  BY <1>1
<1>9. Stream[t] \in Seq(Octets) /\ L(N) = Len(Stream[t])
  BY <1>2, <1>5, <1>8 DEF L
<1>10. ASSUME NEW i \in 1..N
       PROVE  /\ Begin(t, i) = L(i - 1) + Len(Traffic[t][i].noise)
              /\ End(t, i) = L(i)
              /\ \A q \in 1..Len(Bytes(Traffic[t][i])) :
                   Stream[t][L(i - 1) + q] = Bytes(Traffic[t][i])[q]
  <2> DEFINE e == Traffic[t][i]
             w == Bytes(e)
  <2>1. Begin(t, i) = L(i - 1) + Len(e.noise)
    BY <1>2 DEF Begin
  <2>2. /\ Len(e.noise) \in Nat /\ LenA(e) \in Nat /\ LenB(e) \in Nat
        /\ Len(w) = Len(e.noise) + LenA(e) + LenB(e)
    BY <1>1, BytesAre
  <2>3. s[i] = w /\ i - 1 \in 0..N /\ i \in 0..N /\ N \in i..N
    BY <1>1, <1>2
  <2>4. L(i) = L(i - 1) + Len(w) /\ L(i - 1) \in Nat /\ L(i) \in Nat
    BY <1>5, <1>7, <2>3 DEF L
  <2>5. \A q \in 1..Len(w) : Joined(s, i)[L(i - 1) + q] = w[q]
    BY <1>5, <2>3 DEF L
  <2>6. \A q \in 1..L(i) : Joined(s, N)[q] = Joined(s, i)[q]
    BY <1>6, <2>3 DEF L
  <2>7. End(t, i) = Begin(t, i) + LenA(e) + LenB(e)
    BY DEF End, Begin
  <2>8. Len(w) \in Nat
    BY <2>2
  <2>9. Stream[t] = Joined(s, N)
    BY <1>2
  <2> HIDE DEF e, w
  <2>10. End(t, i) = L(i)
    BY <2>1, <2>2, <2>4, <2>7
  <2>11. ASSUME NEW q \in 1..Len(w) PROVE Stream[t][L(i - 1) + q] = w[q]
    <3>1. L(i - 1) + q \in 1..L(i)
      BY <2>4, <2>8
    <3>2. Joined(s, N)[L(i - 1) + q] = Joined(s, i)[L(i - 1) + q]
      BY <2>6, <3>1
    <3>3. Joined(s, i)[L(i - 1) + q] = w[q]
      BY <2>5
    <3> QED
      BY <2>9, <3>2, <3>3
  <2> QED
    BY <2>1, <2>10, <2>11 DEF e, w
<1>11. \A m \in 0..N : \A n \in m..N : L(m) <= L(n)
  BY <1>6, Zenon DEF L
<1> QED
  BY <1>7, <1>9, <1>10, <1>11, Zenon DEF N, s, L

(***************************************************************************)
(* The events of the stream in their order.                                *)
(***************************************************************************)
\* The events of traffic t follow one another, and their frames stand where they begin.
LEMMA EventsInOrder ==
  ASSUME NEW t \in DOMAIN Traffic
  PROVE  /\ Len(Stream[t]) \in Nat
         /\ \A p \in 0..(Len(Stream[t]) - 1) : Stream[t][p + 1] \in 0..255
         /\ \A i \in DOMAIN Traffic[t] :
              /\ Begin(t, i) \in Nat /\ Middle(t, i) \in Nat /\ End(t, i) \in Nat
              /\ Middle(t, i) = Begin(t, i) + LenA(Traffic[t][i])
              /\ End(t, i) = Middle(t, i) + LenB(Traffic[t][i])
              /\ End(t, i) <= Len(Stream[t])
         /\ \A i, j \in DOMAIN Traffic[t] : i < j => End(t, i) <= Begin(t, j)
         /\ \A i \in DOMAIN Traffic[t] :
              i - 1 \in DOMAIN Traffic[t] /\ Traffic[t][i].noise = <<>>
                => Begin(t, i) = End(t, i - 1)
<1> DEFINE N == Len(Traffic[t])
           L(n) == Len(Joined(Parts(t), n))
<1>1. /\ N \in Nat /\ DOMAIN Traffic[t] = 1..N
      /\ \A i \in 1..N : Traffic[t][i] \in EventRecords
  BY TrafficTypes
<1>2. /\ Stream[t] \in Seq(Octets)
      /\ \A n \in 0..N : L(n) \in Nat
      /\ \A i \in 1..N : /\ Begin(t, i) = L(i - 1) + Len(Traffic[t][i].noise)
                         /\ End(t, i) = L(i)
      /\ L(N) = Len(Stream[t])
      /\ \A m \in 0..N : \A n \in m..N : L(m) <= L(n)
      /\ \A i \in 1..N : \A q \in 1..Len(Bytes(Traffic[t][i])) :
           Stream[t][L(i - 1) + q] = Bytes(Traffic[t][i])[q]
  BY PartsAre
<1> HIDE DEF N, L
<1>3. Len(Stream[t]) \in Nat /\ \A p \in 0..(Len(Stream[t]) - 1) : Stream[t][p + 1] \in 0..255
  <2>1. Stream[t] \in Seq(Octets)
    BY <1>2
  <2> DEFINE w == Stream[t]
  <2> HIDE DEF w
  <2>2. ASSUME w \in Seq(Octets)
        PROVE  Len(w) \in Nat /\ \A q \in 1..Len(w) : w[q] \in Octets
    BY <2>2
  <2>3. Len(w) \in Nat /\ \A q \in 1..Len(w) : w[q] \in Octets
    BY <2>1, <2>2 DEF w
  <2>4. \A p \in 0..(Len(w) - 1) : p + 1 \in 1..Len(w)
    BY <2>3
  <2>5. \A p \in 0..(Len(w) - 1) : w[p + 1] \in Octets
    BY <2>3, <2>4, Zenon
  <2> QED
    BY <2>3, <2>5 DEF w, Octets
<1>4. ASSUME NEW i \in 1..N
      PROVE  /\ Begin(t, i) \in Nat /\ Middle(t, i) \in Nat /\ End(t, i) \in Nat
             /\ Middle(t, i) = Begin(t, i) + LenA(Traffic[t][i])
             /\ End(t, i) = Middle(t, i) + LenB(Traffic[t][i])
             /\ End(t, i) <= Len(Stream[t])
             /\ Len(Traffic[t][i].noise) \in Nat /\ L(i - 1) \in Nat
  <2> DEFINE e == Traffic[t][i]
  <2>1. LenA(e) \in Nat /\ LenB(e) \in Nat /\ Len(e.noise) \in Nat
    BY <1>1, BytesAre
  <2>2. i - 1 \in 0..N /\ i \in 0..N /\ N \in i..N
    BY <1>1
  <2>3. L(i - 1) \in Nat /\ L(i) \in Nat /\ L(i) <= L(N)
    BY <1>2, <2>2
  <2>4. Begin(t, i) = L(i - 1) + Len(e.noise) /\ End(t, i) = L(i)
    BY <1>2
  <2>5. Middle(t, i) = Begin(t, i) + LenA(e)
    BY DEF Middle, Begin
  <2>6. End(t, i) = Begin(t, i) + LenA(e) + LenB(e)
    BY DEF End, Begin
  <2>7. L(N) = Len(Stream[t])
    BY <1>2
  <2> HIDE DEF e
  <2>8. /\ Begin(t, i) \in Nat /\ Middle(t, i) \in Nat /\ End(t, i) \in Nat
        /\ End(t, i) = Middle(t, i) + LenB(e) /\ End(t, i) <= Len(Stream[t])
    BY <2>1, <2>3, <2>4, <2>5, <2>6, <2>7
  <2> QED
    BY <2>1, <2>3, <2>5, <2>8 DEF e
<1>5. ASSUME NEW i \in 1..N, NEW j \in 1..N, i < j PROVE End(t, i) <= Begin(t, j)
  <2>1. i \in 0..N /\ j - 1 \in i..N
    BY <1>1, <1>5
  <2>2. L(i) <= L(j - 1)
    BY <1>2, <2>1
  <2>3. End(t, i) = L(i) /\ Begin(t, j) = L(j - 1) + Len(Traffic[t][j].noise)
    BY <1>2
  <2>4. L(i) \in Nat /\ L(j - 1) \in Nat /\ Len(Traffic[t][j].noise) \in Nat
    BY <1>2, <1>4, <2>1
  <2> QED
    BY <2>2, <2>3, <2>4
<1>6. ASSUME NEW i \in 1..N, i - 1 \in 1..N, Traffic[t][i].noise = <<>>
      PROVE  Begin(t, i) = End(t, i - 1)
  <2>1. End(t, i - 1) = L(i - 1)
    BY <1>2, <1>6
  <2>2. Begin(t, i) = L(i - 1) + Len(<<>>) /\ L(i - 1) \in Nat
    BY <1>2, <1>4, <1>6
  <2>3. Len(<<>>) = 0
    OBVIOUS
  <2> QED
    BY <2>1, <2>2, <2>3
<1> QED
  BY <1>1, <1>3, <1>4, <1>5, <1>6, Zenon

LEMMA FramesStand ==
  ASSUME NEW t \in DOMAIN Traffic, NEW i \in DOMAIN Traffic[t]
  PROVE  /\ \A o \in 0..(LenA(Traffic[t][i]) - 1) :
              Stream[t][Begin(t, i) + o + 1] = AByte(Traffic[t][i], o)
         /\ \A o \in 0..(LenB(Traffic[t][i]) - 1) :
              Stream[t][Middle(t, i) + o + 1] = BByte(Traffic[t][i], o)
<1> DEFINE N == Len(Traffic[t])
           l == Len(Joined(Parts(t), i - 1))
           e == Traffic[t][i]
           x == Len(e.noise)
<1>1. i \in 1..N /\ N \in Nat /\ e \in EventRecords
  BY TrafficTypes
<1>2. /\ Begin(t, i) = l + x
      /\ \A q \in 1..Len(Bytes(e)) : Stream[t][l + q] = Bytes(e)[q]
  BY <1>1, PartsAre
<1>3. l \in Nat
  <2>1. i - 1 \in 0..N
    BY <1>1
  <2> QED
    BY <2>1, PartsAre
<1>4. /\ LenA(e) \in Nat /\ LenB(e) \in Nat /\ x \in Nat
      /\ Len(Bytes(e)) = x + LenA(e) + LenB(e)
      /\ \A o \in 0..(LenA(e) - 1) : Bytes(e)[x + o + 1] = AByte(e, o)
      /\ \A o \in 0..(LenB(e) - 1) : Bytes(e)[x + LenA(e) + o + 1] = BByte(e, o)
  BY <1>1, BytesAre
<1>5. Middle(t, i) = Begin(t, i) + LenA(e)
  BY DEF Middle, Begin
<1> HIDE DEF N, l, e, x
<1>6. ASSUME NEW o \in 0..(LenA(e) - 1) PROVE Stream[t][Begin(t, i) + o + 1] = AByte(e, o)
  <2>1. x + o + 1 \in 1..Len(Bytes(e)) /\ l + (x + o + 1) = Begin(t, i) + o + 1
    BY <1>2, <1>3, <1>4
  <2>2. Stream[t][l + (x + o + 1)] = Bytes(e)[x + o + 1]
    BY <1>2, <2>1
  <2>3. Bytes(e)[x + o + 1] = AByte(e, o)
    BY <1>4
  <2> QED
    BY <2>1, <2>2, <2>3
<1>7. ASSUME NEW o \in 0..(LenB(e) - 1) PROVE Stream[t][Middle(t, i) + o + 1] = BByte(e, o)
  <2>1. /\ x + LenA(e) + o + 1 \in 1..Len(Bytes(e))
        /\ l + (x + LenA(e) + o + 1) = Middle(t, i) + o + 1
    BY <1>2, <1>3, <1>4, <1>5
  <2>2. Stream[t][l + (x + LenA(e) + o + 1)] = Bytes(e)[x + LenA(e) + o + 1]
    BY <1>2, <2>1
  <2>3. Bytes(e)[x + LenA(e) + o + 1] = BByte(e, o)
    BY <1>4
  <2> QED
    BY <2>1, <2>2, <2>3
<1> QED
  BY <1>6, <1>7 DEF e

(***************************************************************************)
(* The words of the frames.                                                *)
(***************************************************************************)
LEMMA BytesOfFrames ==
  ASSUME k \in DOMAIN Traffic, NEW i \in Events
  PROVE  LET e == Traffic[k][i]
         IN  /\ Begin(k, i) \in Nat /\ Middle(k, i) \in Nat /\ e \in EventRecords
             /\ e.hasA => /\ \A o \in 0..29 : Byte(Begin(k, i) + o) = AByte(e, o)
                          /\ \A o \in 0..28 : Word(Begin(k, i) + o)
                                                = AByte(e, o) + 256 * AByte(e, o + 1)
             /\ \A o \in 0..8 : Word(Middle(k, i) + o) = BByte(e, o) + 256 * BByte(e, o + 1)
<1> DEFINE e == Traffic[k][i]
<1>1. i \in DOMAIN Traffic[k]
  BY DEF Events
<1>2. Begin(k, i) \in Nat /\ Middle(k, i) \in Nat
  BY <1>1, EventsInOrder
<1>3. e \in EventRecords
  BY <1>1, TrafficTypes
<1>4. /\ \A o \in 0..(LenA(e) - 1) : Stream[k][Begin(k, i) + o + 1] = AByte(e, o)
      /\ \A o \in 0..(LenB(e) - 1) : Stream[k][Middle(k, i) + o + 1] = BByte(e, o)
  BY <1>1, FramesStand
<1>5. /\ LenA(e) \in Nat /\ LenB(e) \in Nat /\ LenB(e) >= 72
      /\ e.hasA => LenA(e) = 128 + e.payload /\ e.payload \in Nat
  BY <1>3, BytesAre
<1>6. ASSUME NEW p \in Nat, NEW o \in 0..29
      PROVE  /\ Byte(p + o) = Stream[k][p + o + 1]
             /\ Word(p + o) = Byte(p + o) + 256 * Byte(p + (o + 1))
  <2>1. (p + o) + 1 = p + (o + 1)
    OBVIOUS
  <2>2. Word(p + o) = Byte(p + o) + 256 * Byte((p + o) + 1)
    BY DEF Word
  <2>3. Byte(p + o) = Stream[k][(p + o) + 1]
    BY DEF Byte
  <2> QED
    BY <2>1, <2>2, <2>3
<1> HIDE DEF e
<1>7. ASSUME e.hasA
      PROVE  /\ \A o \in 0..29 : Byte(Begin(k, i) + o) = AByte(e, o)
             /\ \A o \in 0..28 : Word(Begin(k, i) + o) = AByte(e, o) + 256 * AByte(e, o + 1)
  <2>1. \A o \in 0..29 : o \in 0..(LenA(e) - 1)
    BY <1>5, <1>7
  <2>2. \A o \in 0..29 : Byte(Begin(k, i) + o) = AByte(e, o)
    BY <1>2, <1>4, <1>6, <2>1
  <2>3. \A o \in 0..28 : o \in 0..29 /\ o + 1 \in 0..29
    OBVIOUS
  <2>4. \A o \in 0..28 : Word(Begin(k, i) + o)
                           = Byte(Begin(k, i) + o) + 256 * Byte(Begin(k, i) + (o + 1))
    BY <1>2, <1>6, <2>3
  <2>5. \A o \in 0..28 : Word(Begin(k, i) + o) = AByte(e, o) + 256 * AByte(e, o + 1)
    <3> SUFFICES ASSUME NEW o \in 0..28
                 PROVE  Word(Begin(k, i) + o) = AByte(e, o) + 256 * AByte(e, o + 1)
      OBVIOUS
    <3>1. Byte(Begin(k, i) + o) = AByte(e, o) /\ Byte(Begin(k, i) + (o + 1)) = AByte(e, o + 1)
      BY <2>2, <2>3, Zenon
    <3>2. Word(Begin(k, i) + o) = Byte(Begin(k, i) + o) + 256 * Byte(Begin(k, i) + (o + 1))
      BY <2>4
    <3> QED
      BY <3>1, <3>2
  <2> QED
    BY <2>2, <2>5
<1>8. \A o \in 0..8 : Word(Middle(k, i) + o) = BByte(e, o) + 256 * BByte(e, o + 1)
  <2>1. \A o \in 0..9 : o \in 0..(LenB(e) - 1) /\ o \in 0..29
    BY <1>5
  <2>2. \A o \in 0..9 : Byte(Middle(k, i) + o) = BByte(e, o)
    BY <1>2, <1>4, <1>6, <2>1
  <2>3. \A o \in 0..8 : o \in 0..9 /\ o + 1 \in 0..9
    OBVIOUS
  <2>4. \A o \in 0..8 : Word(Middle(k, i) + o)
                           = Byte(Middle(k, i) + o) + 256 * Byte(Middle(k, i) + (o + 1))
    BY <1>2, <1>6, <2>1, <2>3
  <2> SUFFICES ASSUME NEW o \in 0..8
               PROVE  Word(Middle(k, i) + o) = BByte(e, o) + 256 * BByte(e, o + 1)
    OBVIOUS
  <2>5. Byte(Middle(k, i) + o) = BByte(e, o) /\ Byte(Middle(k, i) + (o + 1)) = BByte(e, o + 1)
    BY <2>2, <2>3, Zenon
  <2>6. Word(Middle(k, i) + o) = Byte(Middle(k, i) + o) + 256 * Byte(Middle(k, i) + (o + 1))
    BY <2>4
  <2> QED
    BY <2>5, <2>6
<1> QED
  BY <1>2, <1>3, <1>7, <1>8, Zenon DEF e

\* The preamble of an A frame, and the length that its header reports.
LEMMA AFramesAre ==
  ASSUME k \in DOMAIN Traffic, NEW i \in Events, Traffic[k][i].hasA
  PROVE  /\ Byte(From[k][i]) = 255 /\ Byte(From[k][i] + 1) = 127
         /\ Byte(From[k][i] + 2) = 0 /\ Byte(From[k][i] + 3) = 128
         /\ Word(From[k][i]) = 32767 /\ Word(From[k][i] + 2) = 32768
         /\ Word(From[k][i] + 4) = 32767 /\ Word(From[k][i] + 6) = 32768
         /\ Word(From[k][i] + 8) = 32767 /\ Word(From[k][i] + 10) = 32768
         /\ Word(From[k][i] + 12) = 43690
         /\ PacketLength(From[k][i]) \in {0, LenA(Traffic[k][i])}
<1> DEFINE e == Traffic[k][i]
           f == From[k][i]
<1>1. e \in EventRecords /\ f \in Nat
  BY BytesOfFrames DEF Begin
<1>2. \A o \in 0..29 : Byte(f + o) = AByte(e, o)
  BY BytesOfFrames DEF Begin
<1>3. \A o \in 0..28 : Word(f + o) = AByte(e, o) + 256 * AByte(e, o + 1)
  BY BytesOfFrames DEF Begin
<1>4. /\ \A o \in {0, 4, 8} : /\ AByte(e, o) = 255 /\ AByte(e, o + 1) = 127
                              /\ AByte(e, o + 2) = 0 /\ AByte(e, o + 3) = 128
      /\ AByte(e, 12) = 170 /\ AByte(e, 13) = 170
      /\ Long(AByte(e, 14) + 256 * AByte(e, 15),
              AByte(e, 16) + 256 * AByte(e, 17)) = e.length
      /\ AByte(e, 28) + 256 * AByte(e, 29) = e.flash
  BY <1>1, ABytesAre
<1>5. e.hasA /\ LengthTrue(e) /\ i \in DOMAIN Traffic[k]
  <2>1. i \in DOMAIN Traffic[k]
    BY DEF Events
  <2> QED
    BY <2>1, TrafficAssumption
<1>6. LenA(e) = 128 + e.payload
  BY <1>1, <1>5, BytesAre
<1> HIDE DEF e, f
<1>7. /\ AByte(e, 0) = 255 /\ AByte(e, 1) = 127 /\ AByte(e, 2) = 0 /\ AByte(e, 3) = 128
      /\ AByte(e, 4) = 255 /\ AByte(e, 5) = 127 /\ AByte(e, 6) = 0 /\ AByte(e, 7) = 128
      /\ AByte(e, 8) = 255 /\ AByte(e, 9) = 127 /\ AByte(e, 10) = 0 /\ AByte(e, 11) = 128
  BY <1>4
<1>8. f + 0 = f
  BY <1>1
<1>9. /\ Byte(f) = 255 /\ Byte(f + 1) = 127 /\ Byte(f + 2) = 0 /\ Byte(f + 3) = 128
  <2>1. Byte(f + 0) = AByte(e, 0) /\ Byte(f + 1) = AByte(e, 1) /\ Byte(f + 2) = AByte(e, 2)
        /\ Byte(f + 3) = AByte(e, 3)
    BY <1>2
  <2> QED
    BY <1>7, <1>8, <2>1
<1>10. /\ Word(f + 0) = AByte(e, 0) + 256 * AByte(e, 1)
       /\ Word(f + 2) = AByte(e, 2) + 256 * AByte(e, 3)
       /\ Word(f + 4) = AByte(e, 4) + 256 * AByte(e, 5)
       /\ Word(f + 6) = AByte(e, 6) + 256 * AByte(e, 7)
       /\ Word(f + 8) = AByte(e, 8) + 256 * AByte(e, 9)
       /\ Word(f + 10) = AByte(e, 10) + 256 * AByte(e, 11)
       /\ Word(f + 12) = AByte(e, 12) + 256 * AByte(e, 13)
  BY <1>3
<1>11. /\ Word(f) = 32767 /\ Word(f + 2) = 32768 /\ Word(f + 4) = 32767
       /\ Word(f + 6) = 32768 /\ Word(f + 8) = 32767 /\ Word(f + 10) = 32768
       /\ Word(f + 12) = 43690
  BY <1>4, <1>7, <1>8, <1>10
<1>12. Word(f + 14) = AByte(e, 14) + 256 * AByte(e, 15)
       /\ Word(f + 16) = AByte(e, 16) + 256 * AByte(e, 17)
       /\ Word(f + 28) = AByte(e, 28) + 256 * AByte(e, 29)
  BY <1>3
<1>13. Word32(f + 14) = e.length /\ Word(f + 28) = e.flash
  <2>1. Word32(f + 14) = Long(Word(f + 14), Word((f + 14) + 2)) /\ (f + 14) + 2 = f + 16
    BY <1>1 DEF Word32
  <2>2. Word32(f + 14) = Long(Word(f + 14), Word(f + 16))
    BY <2>1
  <2> QED
    BY <1>4, <1>12, <2>2
<1>14. PacketLength(f) \in {0, LenA(e)}
  <2> DEFINE top == EVENT_HEADER_SIZE + MAX_PAYLOAD_DATA
  <2>1. PacketLength(f) = IF Reported(e) \in EVENT_HEADER_SIZE..top THEN Reported(e) ELSE 0
    BY <1>13 DEF PacketLength, Reported
  <2>2. Reported(e) \in EVENT_HEADER_SIZE..top => Reported(e) = EVENT_HEADER_SIZE + e.payload
    BY <1>5 DEF LengthTrue
  <2>3. EVENT_HEADER_SIZE = 128
    BY DEF EVENT_HEADER_SIZE
  <2> HIDE DEF top
  <2> QED
    BY <1>6, <2>1, <2>2, <2>3
<1> QED
  BY <1>9, <1>11, <1>14 DEF e, f

\* The preamble of a B frame, and its number of samples.
LEMMA BFramesAre ==
  ASSUME k \in DOMAIN Traffic, NEW i \in Events
  PROVE  /\ Word(Middle(k, i)) = 32768 /\ Word(Middle(k, i) + 2) = 32767
         /\ Word(Middle(k, i) + 4) = 32768 /\ Word(Middle(k, i) + 6) = 48059
         /\ Word(Middle(k, i) + 8) = Traffic[k][i].samples
<1> DEFINE e == Traffic[k][i]
           m == Middle(k, i)
<1>1. e \in EventRecords /\ m \in Nat
  BY BytesOfFrames
<1>2. \A o \in 0..8 : Word(m + o) = BByte(e, o) + 256 * BByte(e, o + 1)
  BY BytesOfFrames
<1>3. /\ BByte(e, 0) = 0 /\ BByte(e, 1) = 128 /\ BByte(e, 2) = 255 /\ BByte(e, 3) = 127
      /\ BByte(e, 4) = 0 /\ BByte(e, 5) = 128 /\ BByte(e, 6) = 187 /\ BByte(e, 7) = 187
      /\ BByte(e, 8) + 256 * BByte(e, 9) = e.samples
  BY <1>1, BBytesAre
<1> HIDE DEF e, m
<1>4. /\ Word(m + 0) = BByte(e, 0) + 256 * BByte(e, 1)
      /\ Word(m + 2) = BByte(e, 2) + 256 * BByte(e, 3)
      /\ Word(m + 4) = BByte(e, 4) + 256 * BByte(e, 5)
      /\ Word(m + 6) = BByte(e, 6) + 256 * BByte(e, 7)
      /\ Word(m + 8) = BByte(e, 8) + 256 * BByte(e, 9)
  BY <1>2
<1>5. m + 0 = m
  BY <1>1
<1>6. /\ Word(m) = 32768 /\ Word(m + 2) = 32767 /\ Word(m + 4) = 32768
      /\ Word(m + 6) = 48059 /\ Word(m + 8) = e.samples
  BY <1>3, <1>4, <1>5
<1> QED
  BY <1>6 DEF e, m

\* No bytes read as the last word of a preamble but those of one.
LEMMA SyncWordsAre ==
  ASSUME k \in DOMAIN Traffic, NEW p \in Nat, p + 2 <= Len(Stream[k])
  PROVE  /\ Word(p) = 43690 =>
              \E i \in Events : Traffic[k][i].hasA /\ p = From[k][i] + 12
         /\ Word(p) = 48059 => \E i \in Events : p = Middle(k, i) + 6
<1>1. Len(Stream[k]) \in Nat
  BY EventsInOrder
<1>2. p \in 0..(Len(Stream[k]) - 2) /\ (p + 1) + 1 = p + 2
  BY <1>1
<1>3. Word(p) = WordAt(k, p)
  BY <1>2 DEF Word, Byte, WordAt
<1>4. /\ WordAt(k, p) = 43690 => \E i \in DOMAIN Traffic[k] :
                 Traffic[k][i].hasA /\ p = From[k][i] + 12
      /\ WordAt(k, p) = 48059 => \E i \in DOMAIN Traffic[k] :
                 p = From[k][i] + LenA(Traffic[k][i]) + 6
  <2>1. \A t \in DOMAIN Traffic : \A q \in 0..(Len(Stream[t]) - 2) :
          /\ WordAt(t, q) = 43690 => \E i \in DOMAIN Traffic[t] :
                 Traffic[t][i].hasA /\ q = From[t][i] + 12
          /\ WordAt(t, q) = 48059 => \E i \in DOMAIN Traffic[t] :
                 q = From[t][i] + LenA(Traffic[t][i]) + 6
    BY TrafficAssumption, SMT
  <2> QED
    BY <1>2, <2>1, SMT
<1> QED
  BY <1>3, <1>4 DEF Events, Middle

\* The events of the traffic that is sent, in numbers.
LEMMA EventsAre ==
  ASSUME k \in DOMAIN Traffic
  PROVE  /\ Len(Stream[k]) \in Nat
         /\ \A p \in 0..(Len(Stream[k]) - 1) : Byte(p) \in 0..255
         /\ \A i \in Events :
              /\ From[k][i] \in Nat /\ Middle(k, i) \in Nat /\ EndOf(i) \in Nat
              /\ Middle(k, i) = From[k][i] + LenA(Traffic[k][i])
              /\ EndOf(i) = Middle(k, i) + LenB(Traffic[k][i])
              /\ EndOf(i) <= Len(Stream[k])
         /\ \A i, j \in Events : i < j => EndOf(i) <= From[k][j]
         /\ \A i \in Events : i - 1 \in Events /\ Traffic[k][i].noise = <<>>
                                => From[k][i] = EndOf(i - 1)
         /\ \A i \in Events : i \in Nat \ {0} /\ \A j \in 1..i : j \in Events
<1>1. /\ Len(Stream[k]) \in Nat
      /\ \A p \in 0..(Len(Stream[k]) - 1) : Stream[k][p + 1] \in 0..255
      /\ \A i \in DOMAIN Traffic[k] :
           /\ Begin(k, i) \in Nat /\ Middle(k, i) \in Nat /\ End(k, i) \in Nat
           /\ Middle(k, i) = Begin(k, i) + LenA(Traffic[k][i])
           /\ End(k, i) = Middle(k, i) + LenB(Traffic[k][i])
           /\ End(k, i) <= Len(Stream[k])
      /\ \A i, j \in DOMAIN Traffic[k] : i < j => End(k, i) <= Begin(k, j)
      /\ \A i \in DOMAIN Traffic[k] :
              i - 1 \in DOMAIN Traffic[k] /\ Traffic[k][i].noise = <<>>
                => Begin(k, i) = End(k, i - 1)
  BY EventsInOrder
<1>2. \A i : EndOf(i) = End(k, i) /\ Begin(k, i) = From[k][i]
  BY DEF EndOf, BFrame, End, Begin
<1>3. \A p : Byte(p) = Stream[k][p + 1]
  BY DEF Byte
<1>4. Events = DOMAIN Traffic[k]
  BY DEF Events
<1>5. \A i \in Events : i \in Nat \ {0} /\ \A j \in 1..i : j \in Events
  BY <1>4, TrafficTypes
<1>6. \A p \in 0..(Len(Stream[k]) - 1) : Byte(p) \in 0..255
  BY <1>1, <1>3
<1>7. ASSUME NEW i \in Events
      PROVE  /\ From[k][i] \in Nat /\ Middle(k, i) \in Nat /\ EndOf(i) \in Nat
             /\ Middle(k, i) = From[k][i] + LenA(Traffic[k][i])
             /\ EndOf(i) = Middle(k, i) + LenB(Traffic[k][i])
             /\ EndOf(i) <= Len(Stream[k])
  <2>1. EndOf(i) = End(k, i) /\ Begin(k, i) = From[k][i] /\ i \in DOMAIN Traffic[k]
    BY <1>2, <1>4
  <2> QED
    BY <1>1, <2>1
<1>8. ASSUME NEW i \in Events, NEW j \in Events, i < j PROVE EndOf(i) <= From[k][j]
  <2>1. EndOf(i) = End(k, i) /\ Begin(k, j) = From[k][j]
        /\ i \in DOMAIN Traffic[k] /\ j \in DOMAIN Traffic[k]
    BY <1>2, <1>4
  <2> QED
    BY <1>1, <1>8, <2>1
<1>9. ASSUME NEW i \in Events, i - 1 \in Events, Traffic[k][i].noise = <<>>
      PROVE  From[k][i] = EndOf(i - 1)
  <2>1. EndOf(i - 1) = End(k, i - 1) /\ Begin(k, i) = From[k][i]
        /\ i \in DOMAIN Traffic[k] /\ i - 1 \in DOMAIN Traffic[k]
    BY <1>2, <1>4, <1>9
  <2> QED
    BY <1>1, <1>9, <2>1
<1> QED
  BY <1>1, <1>5, <1>6, <1>7, <1>8, <1>9, Zenon

LEMMA EventAre ==
  ASSUME k \in DOMAIN Traffic, NEW i \in Events
  PROVE  LET e == Traffic[k][i]
         IN  /\ e.hasA \in BOOLEAN /\ e.payload \in Nat /\ e.samples \in Nat
             /\ e.hasA => LenA(e) = 128 + e.payload
             /\ ~e.hasA => LenA(e) = 0
             /\ LenB(e) = 72 + 4 * e.samples
             /\ e.hasA => AFrame(i) = [from |-> From[k][i], len |-> LenA(e)]
             /\ ~e.hasA => AFrame(i) = Empty
             /\ BFrame(i) = [from |-> Middle(k, i), len |-> LenB(e)]
<1> DEFINE e == Traffic[k][i]
<1>1. e \in EventRecords
  <2>1. i \in DOMAIN Traffic[k]
    BY DEF Events
  <2> QED
    BY <2>1, TrafficTypes
<1>2. e.hasA \in BOOLEAN
  BY <1>1 DEF EventRecords
<1>3. /\ e.payload \in Nat /\ e.samples \in Nat
      /\ e.hasA => LenA(e) = 128 + e.payload
      /\ LenB(e) = 72 + 4 * e.samples
  BY <1>1, BytesAre
<1>4. ~e.hasA => LenA(e) = 0
  BY DEF LenA
<1>5. AFrame(i) = IF e.hasA THEN [from |-> From[k][i], len |-> LenA(e)] ELSE Empty
  BY DEF AFrame
<1>6. BFrame(i) = [from |-> Middle(k, i), len |-> LenB(e)]
  BY DEF BFrame, Middle
<1> QED
  BY <1>2, <1>3, <1>4, <1>5, <1>6

(***************************************************************************)
(* The search for a preamble.                                              *)
(***************************************************************************)
LEMMA Accepted ==
  ASSUME NEW s, NEW v, NEW n, <<v, n>> \in Accepts[s],
         \A r \in Accepts[s] : r[1] = v => r[2] = n
  PROVE  AfterSync(s, v) = n
<1> DEFINE next == {r[2] : r \in {r \in Accepts[s] : r[1] = v}}
<1>1. n \in next
  <2>1. <<v, n>>[1] = v /\ <<v, n>>[2] = n
    OBVIOUS
  <2> QED
    BY <2>1
<1>2. \A m \in next : m = n
  OBVIOUS
<1>3. AfterSync(s, v) = IF next = {} THEN "BYTE_0" ELSE CHOOSE m \in next : TRUE
  BY DEF AfterSync
<1> HIDE DEF next
<1> QED
  BY <1>1, <1>2, <1>3

LEMMA Refused0 ==
  ASSUME NEW s, NEW v, \A r \in Accepts[s] : r[1] # v
  PROVE  AfterSync(s, v) = "BYTE_0"
<1>1. {r[2] : r \in {r \in Accepts[s] : r[1] = v}} = {}
  OBVIOUS
<1> QED
  BY <1>1 DEF AfterSync

LEMMA SyncTable ==
  ASSUME NEW v
  PROVE  /\ AfterSync("BYTE_0", v) = IF v = 0 THEN "BYTE_1" ELSE "BYTE_0"
         /\ AfterSync("BYTE_1", v) = IF v = 128 THEN "WORD_7FFF" ELSE "BYTE_0"
         /\ AfterSync("WORD_TEST", v) = IF v = 32767 THEN "WORD_8000"
                                        ELSE IF v = 32768 THEN "WORD_AAAA" ELSE "BYTE_0"
         /\ AfterSync("WORD_7FFF", v) = IF v = 32767 THEN "WORD_8000" ELSE "BYTE_0"
         /\ AfterSync("WORD_8000", v) = IF v = 32768 THEN "WORD_AAAA" ELSE "BYTE_0"
         /\ AfterSync("WORD_AAAA", v) = IF v = 43690 THEN "A_HEADER"
                                        ELSE IF v = 48059 THEN "B_HEADER"
                                        ELSE IF v = 32767 THEN "WORD_8000" ELSE "BYTE_0"
<1>1. ASSUME NEW s, NEW v1, NEW n1, Accepts[s] = {<<v1, n1>>}
      PROVE  AfterSync(s, v) = IF v = v1 THEN n1 ELSE "BYTE_0"
  <2>1. CASE v = v1
    <3>1. <<v, n1>> \in Accepts[s] /\ \A r \in Accepts[s] : r[1] = v => r[2] = n1
      BY <1>1, <2>1
    <3> QED
      BY <2>1, <3>1, Accepted
  <2>2. CASE v # v1
    <3>1. \A r \in Accepts[s] : r[1] # v
      BY <1>1, <2>2
    <3> QED
      BY <2>2, <3>1, Refused0
  <2> QED
    BY <2>1, <2>2
<1>2. /\ Accepts["BYTE_0"] = {<<0, "BYTE_1">>} /\ Accepts["BYTE_1"] = {<<128, "WORD_7FFF">>}
      /\ Accepts["WORD_7FFF"] = {<<32767, "WORD_8000">>}
      /\ Accepts["WORD_8000"] = {<<32768, "WORD_AAAA">>}
  BY SMT DEF Accepts
<1>3. AfterSync("WORD_TEST", v) = IF v = 32767 THEN "WORD_8000"
                                  ELSE IF v = 32768 THEN "WORD_AAAA" ELSE "BYTE_0"
  <2>1. Accepts["WORD_TEST"] = {<<32767, "WORD_8000">>, <<32768, "WORD_AAAA">>}
    BY SMT DEF Accepts
  <2>2. CASE v = 32767
    <3>1. <<v, "WORD_8000">> \in Accepts["WORD_TEST"]
          /\ \A r \in Accepts["WORD_TEST"] : r[1] = v => r[2] = "WORD_8000"
      BY <2>1, <2>2, SMT
    <3> QED
      BY <2>2, <3>1, Accepted, SMT
  <2>3. CASE v = 32768
    <3>1. <<v, "WORD_AAAA">> \in Accepts["WORD_TEST"]
          /\ \A r \in Accepts["WORD_TEST"] : r[1] = v => r[2] = "WORD_AAAA"
      BY <2>1, <2>3, SMT
    <3> QED
      BY <2>3, <3>1, Accepted, SMT
  <2>4. CASE v # 32767 /\ v # 32768
    <3>1. \A r \in Accepts["WORD_TEST"] : r[1] # v
      BY <2>1, <2>4, SMT
    <3> QED
      BY <2>4, <3>1, Refused0, SMT
  <2> QED
    BY <2>2, <2>3, <2>4, SMT
<1>4. AfterSync("WORD_AAAA", v) = IF v = 43690 THEN "A_HEADER"
                                  ELSE IF v = 48059 THEN "B_HEADER"
                                  ELSE IF v = 32767 THEN "WORD_8000" ELSE "BYTE_0"
  <2>1. Accepts["WORD_AAAA"] = {<<43690, "A_HEADER">>, <<48059, "B_HEADER">>,
                                <<32767, "WORD_8000">>}
    BY SMT DEF Accepts
  <2>2. CASE v = 43690
    <3>1. <<v, "A_HEADER">> \in Accepts["WORD_AAAA"]
          /\ \A r \in Accepts["WORD_AAAA"] : r[1] = v => r[2] = "A_HEADER"
      BY <2>1, <2>2, SMT
    <3> QED
      BY <2>2, <3>1, Accepted, SMT
  <2>3. CASE v = 48059
    <3>1. <<v, "B_HEADER">> \in Accepts["WORD_AAAA"]
          /\ \A r \in Accepts["WORD_AAAA"] : r[1] = v => r[2] = "B_HEADER"
      BY <2>1, <2>3, SMT
    <3> QED
      BY <2>3, <3>1, Accepted, SMT
  <2>4. CASE v = 32767
    <3>1. <<v, "WORD_8000">> \in Accepts["WORD_AAAA"]
          /\ \A r \in Accepts["WORD_AAAA"] : r[1] = v => r[2] = "WORD_8000"
      BY <2>1, <2>4, SMT
    <3> QED
      BY <2>4, <3>1, Accepted, SMT
  <2>5. CASE v # 43690 /\ v # 48059 /\ v # 32767
    <3>1. \A r \in Accepts["WORD_AAAA"] : r[1] # v
      BY <2>1, <2>5, SMT
    <3> QED
      BY <2>5, <3>1, Refused0, SMT
  <2> QED
    BY <2>2, <2>3, <2>4, <2>5, SMT
<1>5. AfterSync("BYTE_0", v) = IF v = 0 THEN "BYTE_1" ELSE "BYTE_0"
  <2>1. Accepts["BYTE_0"] = {<<0, "BYTE_1">>}
    BY <1>2
  <2> QED
    BY <1>1, <2>1, Zenon
<1>6. AfterSync("BYTE_1", v) = IF v = 128 THEN "WORD_7FFF" ELSE "BYTE_0"
  <2>1. Accepts["BYTE_1"] = {<<128, "WORD_7FFF">>}
    BY <1>2
  <2> QED
    BY <1>1, <2>1, Zenon
<1>7. AfterSync("WORD_7FFF", v) = IF v = 32767 THEN "WORD_8000" ELSE "BYTE_0"
  <2>1. CASE v = 32767
    <3>1. <<v, "WORD_8000">> \in Accepts["WORD_7FFF"]
          /\ \A r \in Accepts["WORD_7FFF"] : r[1] = v => r[2] = "WORD_8000"
      BY <1>2, <2>1, SMT
    <3> QED
      BY <2>1, <3>1, Accepted, SMT
  <2>2. CASE v # 32767
    <3>1. \A r \in Accepts["WORD_7FFF"] : r[1] # v
      BY <1>2, <2>2, SMT
    <3> QED
      BY <2>2, <3>1, Refused0, SMT
  <2> QED
    BY <2>1, <2>2, SMT
<1>8. AfterSync("WORD_8000", v) = IF v = 32768 THEN "WORD_AAAA" ELSE "BYTE_0"
  <2>1. CASE v = 32768
    <3>1. <<v, "WORD_AAAA">> \in Accepts["WORD_8000"]
          /\ \A r \in Accepts["WORD_8000"] : r[1] = v => r[2] = "WORD_AAAA"
      BY <1>2, <2>1, SMT
    <3> QED
      BY <2>1, <3>1, Accepted, SMT
  <2>2. CASE v # 32768
    <3>1. \A r \in Accepts["WORD_8000"] : r[1] # v
      BY <1>2, <2>2, SMT
    <3> QED
      BY <2>2, <3>1, Refused0, SMT
  <2> QED
    BY <2>1, <2>2, SMT
<1> QED
  BY <1>3, <1>4, <1>5, <1>6, <1>7, <1>8, SMT

\* Where a state of the search leads at position p.
Found(s, p) == AfterSync(s, IF s \in ByteStates THEN Byte(p) ELSE Word(p))

LEMMA FoundIs ==
  ASSUME NEW p
  PROVE  /\ Found("BYTE_0", p) = IF Byte(p) = 0 THEN "BYTE_1" ELSE "BYTE_0"
         /\ Found("BYTE_1", p) = IF Byte(p) = 128 THEN "WORD_7FFF" ELSE "BYTE_0"
         /\ Found("WORD_TEST", p) = IF Word(p) = 32767 THEN "WORD_8000"
                                    ELSE IF Word(p) = 32768 THEN "WORD_AAAA" ELSE "BYTE_0"
         /\ Found("WORD_7FFF", p) = IF Word(p) = 32767 THEN "WORD_8000" ELSE "BYTE_0"
         /\ Found("WORD_8000", p) = IF Word(p) = 32768 THEN "WORD_AAAA" ELSE "BYTE_0"
         /\ Found("WORD_AAAA", p) = IF Word(p) = 43690 THEN "A_HEADER"
                                    ELSE IF Word(p) = 48059 THEN "B_HEADER"
                                    ELSE IF Word(p) = 32767 THEN "WORD_8000" ELSE "BYTE_0"
<1>1. /\ Found("BYTE_0", p) = AfterSync("BYTE_0", Byte(p))
      /\ Found("BYTE_1", p) = AfterSync("BYTE_1", Byte(p))
      /\ Found("WORD_TEST", p) = AfterSync("WORD_TEST", Word(p))
      /\ Found("WORD_7FFF", p) = AfterSync("WORD_7FFF", Word(p))
      /\ Found("WORD_8000", p) = AfterSync("WORD_8000", Word(p))
      /\ Found("WORD_AAAA", p) = AfterSync("WORD_AAAA", Word(p))
  BY SMT DEF Found, ByteStates
<1> QED
  BY <1>1, SyncTable, SMT

\* A frame is found at the end of a preamble, and nowhere else.
LEMMA FoundAtPreambles ==
  ASSUME k \in DOMAIN Traffic, NEW s \in SyncStates, NEW p \in Nat,
         p + SyncSize(s) <= Len(Stream[k])
  PROVE  \/ Found(s, p) \in SyncStates
         \/ /\ s \in WordStates /\ Found(s, p) = "A_HEADER"
            /\ \E i \in Events : Traffic[k][i].hasA /\ p = From[k][i] + 12
         \/ /\ s \in WordStates /\ Found(s, p) = "B_HEADER"
            /\ \E i \in Events : p = Middle(k, i) + 6
<1>1. s \in {"BYTE_0", "BYTE_1", "WORD_TEST", "WORD_7FFF", "WORD_8000", "WORD_AAAA"}
  BY DEF SyncStates, ByteStates, WordStates
<1>2. {"BYTE_0", "BYTE_1", "WORD_TEST", "WORD_7FFF", "WORD_8000", "WORD_AAAA"} = SyncStates
  BY DEF SyncStates, ByteStates, WordStates
<1>3. CASE s # "WORD_AAAA"
  <2>1. Found(s, p) \in {"BYTE_0", "BYTE_1", "WORD_7FFF", "WORD_8000", "WORD_AAAA"}
    BY <1>1, <1>3, FoundIs, SMT
  <2> QED
    BY <1>2, <2>1, SMT
<1>4. CASE s = "WORD_AAAA"
  <2>1. s \in WordStates /\ SyncSize(s) = 2
    BY <1>4, SMT DEF WordStates, ByteStates, SyncSize
  <2>2. /\ Word(p) = 43690 =>
             \E i \in Events : Traffic[k][i].hasA /\ p = From[k][i] + 12
        /\ Word(p) = 48059 => \E i \in Events : p = Middle(k, i) + 6
    BY <2>1, SyncWordsAre, SMT
  <2>3. Found(s, p) = IF Word(p) = 43690 THEN "A_HEADER"
                      ELSE IF Word(p) = 48059 THEN "B_HEADER"
                      ELSE IF Word(p) = 32767 THEN "WORD_8000" ELSE "BYTE_0"
    BY <1>4, FoundIs, SMT
  <2> QED
    BY <1>2, <2>1, <2>2, <2>3, SMT
<1> QED
  BY <1>3, <1>4

\* The search meets the preamble of an A frame.
LEMMA FoundInA ==
  ASSUME k \in DOMAIN Traffic, NEW i \in Events, Traffic[k][i].hasA
  PROVE  LET f == From[k][i]
         IN  /\ \A s \in ByteStates : Found(s, f) = "BYTE_0"
             /\ f > 0 => \A s \in WordStates : Found(s, f - 1) = "BYTE_0"
             /\ \A s \in WordStates : Found(s, f) \in {"BYTE_0", "WORD_8000"}
             /\ Found("BYTE_0", f + 1) = "BYTE_0"
             /\ Found("BYTE_0", f + 2) = "BYTE_1"
             /\ Found("WORD_8000", f + 2) = "WORD_AAAA"
             /\ Found("BYTE_1", f + 3) = "WORD_7FFF"
             /\ Found("WORD_7FFF", f + 4) = "WORD_8000"
             /\ Found("WORD_AAAA", f + 4) = "WORD_8000"
             /\ Found("WORD_8000", f + 6) = "WORD_AAAA"
             /\ Found("WORD_AAAA", f + 8) = "WORD_8000"
             /\ Found("WORD_8000", f + 10) = "WORD_AAAA"
             /\ Found("WORD_AAAA", f + 12) = "A_HEADER"
<1> DEFINE f == From[k][i]
<1>1. /\ Byte(f) = 255 /\ Byte(f + 1) = 127 /\ Byte(f + 2) = 0 /\ Byte(f + 3) = 128
      /\ Word(f) = 32767 /\ Word(f + 2) = 32768 /\ Word(f + 4) = 32767
      /\ Word(f + 6) = 32768 /\ Word(f + 8) = 32767 /\ Word(f + 10) = 32768
      /\ Word(f + 12) = 43690
  BY AFramesAre, SMT
<1>2. f \in Nat /\ f <= Len(Stream[k]) /\ Len(Stream[k]) \in Nat
  <2>1. /\ f \in Nat /\ Middle(k, i) = f + LenA(Traffic[k][i]) /\ EndOf(i) \in Nat
        /\ EndOf(i) = Middle(k, i) + LenB(Traffic[k][i]) /\ Len(Stream[k]) \in Nat
        /\ EndOf(i) <= Len(Stream[k])
    BY EventsAre
  <2>2. /\ LenA(Traffic[k][i]) = 128 + Traffic[k][i].payload /\ Traffic[k][i].payload \in Nat
        /\ LenB(Traffic[k][i]) = 72 + 4 * Traffic[k][i].samples
        /\ Traffic[k][i].samples \in Nat
    BY EventAre
  <2>3. LenA(Traffic[k][i]) \in Nat /\ LenB(Traffic[k][i]) \in Nat
    BY <2>2
  <2>4. ASSUME NEW x1 \in Nat, NEW x2, NEW x3, NEW x4 \in Nat, NEW x5 \in Nat, NEW x6 \in Nat,
               x2 = x1 + x5, x3 = x2 + x6, x3 <= x4
        PROVE  x1 <= x4
    BY <2>4
  <2> QED
    BY <2>1, <2>3, <2>4
<1> HIDE DEF f
<1>3. \A s \in ByteStates : s = "BYTE_0" \/ s = "BYTE_1"
  BY DEF ByteStates
<1>4. \A s \in WordStates :
        s = "WORD_TEST" \/ s = "WORD_7FFF" \/ s = "WORD_8000" \/ s = "WORD_AAAA"
  BY DEF WordStates
<1>5. Found("BYTE_0", f) = "BYTE_0" /\ Found("BYTE_1", f) = "BYTE_0"
  BY <1>1, FoundIs, SMT
<1>6. ASSUME f > 0, NEW s \in WordStates PROVE Found(s, f - 1) = "BYTE_0"
  <2>1. Word(f - 1) = Byte(f - 1) + 256 * Byte(f)
    <3>1. (f - 1) + 1 = f
      BY <1>2
    <3> QED
      BY <3>1 DEF Word
  <2>2. Byte(f - 1) \in 0..255
    <3>1. f - 1 \in 0..(Len(Stream[k]) - 1)
      BY <1>2, <1>6
    <3> QED
      BY <3>1, EventsAre
  <2>3. Word(f - 1) # 32767 /\ Word(f - 1) # 32768 /\ Word(f - 1) # 43690
        /\ Word(f - 1) # 48059
    BY <1>1, <2>1, <2>2, SMT
  <2> QED
    BY <1>4, <2>3, FoundIs, SMT
<1>7. ASSUME NEW s \in WordStates PROVE Found(s, f) \in {"BYTE_0", "WORD_8000"}
  BY <1>1, <1>4, FoundIs, SMT
<1>8. /\ Found("BYTE_0", f + 1) = "BYTE_0"
      /\ Found("BYTE_0", f + 2) = "BYTE_1"
      /\ Found("WORD_8000", f + 2) = "WORD_AAAA"
      /\ Found("BYTE_1", f + 3) = "WORD_7FFF"
      /\ Found("WORD_7FFF", f + 4) = "WORD_8000"
      /\ Found("WORD_AAAA", f + 4) = "WORD_8000"
      /\ Found("WORD_8000", f + 6) = "WORD_AAAA"
      /\ Found("WORD_AAAA", f + 8) = "WORD_8000"
      /\ Found("WORD_8000", f + 10) = "WORD_AAAA"
      /\ Found("WORD_AAAA", f + 12) = "A_HEADER"
  BY <1>1, FoundIs, SMT
<1> QED
  BY <1>3, <1>5, <1>6, <1>7, <1>8 DEF f

\* The search meets the preamble of a B frame where it waits for it.
LEMMA FoundInB ==
  ASSUME k \in DOMAIN Traffic, NEW i \in Events
  PROVE  LET m == Middle(k, i)
         IN  /\ Found("WORD_TEST", m) = "WORD_AAAA"
             /\ Found("WORD_AAAA", m + 2) = "WORD_8000"
             /\ Found("WORD_8000", m + 4) = "WORD_AAAA"
             /\ Found("WORD_AAAA", m + 6) = "B_HEADER"
<1> DEFINE m == Middle(k, i)
<1>1. /\ Word(m) = 32768 /\ Word(m + 2) = 32767 /\ Word(m + 4) = 32768 /\ Word(m + 6) = 48059
  BY BFramesAre, SMT
<1> HIDE DEF m
<1>2. /\ Found("WORD_TEST", m) = "WORD_AAAA"
      /\ Found("WORD_AAAA", m + 2) = "WORD_8000"
      /\ Found("WORD_8000", m + 4) = "WORD_AAAA"
      /\ Found("WORD_AAAA", m + 6) = "B_HEADER"
  BY <1>1, FoundIs, SMT
<1> QED
  BY <1>2 DEF m

(***************************************************************************)
(* The inductive invariant of the frames.                                  *)
(***************************************************************************)
Buffers == [from : Int, len : Int]

\* The reads of event i: what is in the buffers, and what is still missing.
InAHeader(i) ==
  /\ step = "A_HEADER" /\ Traffic[k][i].hasA
  /\ need \in 1..114 /\ pos + need = From[k][i] + 128
  /\ a = [from |-> From[k][i], len |-> pos - From[k][i]] /\ b = Empty

InAPayload(i) ==
  /\ step = "A_PAYLOAD" /\ Traffic[k][i].hasA
  /\ need \in 0..Traffic[k][i].payload /\ (need = 0 => Traffic[k][i].payload = 0)
  /\ pos + need = Middle(k, i)
  /\ a = [from |-> From[k][i], len |-> pos - From[k][i]] /\ b = Empty

InBHeader(i) ==
  /\ step = "B_HEADER" /\ pos > From[k][i]
  /\ need \in 1..72 /\ pos + need = Middle(k, i) + 72
  /\ b.len = pos - Middle(k, i) /\ (b.len > 0 => b.from = Middle(k, i))
  /\ a \in {Empty, AFrame(i)}

InBSamples(i) ==
  /\ step = "B_SAMPLES"
  /\ need \in 1..(4 * Traffic[k][i].samples) /\ pos + need = EndOf(i)
  /\ b = [from |-> Middle(k, i), len |-> pos - Middle(k, i)]
  /\ a \in {Empty, AFrame(i)}

AtReturn(i) ==
  /\ step = "return" /\ pos = EndOf(i)
  /\ b = BFrame(i) /\ a \in {Empty, AFrame(i)}

InFrame(i) == InAHeader(i) \/ InAPayload(i) \/ InBHeader(i) \/ InBSamples(i) \/ AtReturn(i)

\* A frame is read as it lies in the stream.
SearchInv ==
  /\ k \in DOMAIN Traffic
  /\ source \in {"none", "socket", "file"} /\ (source = "none" => step = "idle")
  /\ pos \in 0..Len(Stream[k])
  /\ step \in {"idle", "return"} \cup SyncStates \cup Loops
  /\ step \in SyncStates => a = Empty /\ b = Empty
  /\ step \in Loops \cup {"return"} => \E i \in Events : InFrame(i)

\* What is delivered lies behind.
DeliveredInv ==
  /\ delivered \in Seq([a : Buffers, b : Buffers])
  /\ DeliveredWhole
  /\ \A i \in Events : source # "none" /\ Delivered(i) => pos >= EndOf(i)

\* Where the search for the preamble of an event is, once it has begun.
TrackA == {<<1, "BYTE_0">>, <<2, "BYTE_0">>, <<2, "WORD_8000">>, <<3, "BYTE_1">>,
           <<4, "WORD_7FFF">>, <<4, "WORD_AAAA">>, <<6, "WORD_8000">>,
           <<8, "WORD_AAAA">>, <<10, "WORD_8000">>, <<12, "WORD_AAAA">>}
TrackB == {<<2, "WORD_AAAA">>, <<4, "WORD_8000">>, <<6, "WORD_AAAA">>}

\* An event that has to come, if the stream lasts.
Awaited(i) ==
  /\ source # "none" /\ Unhurt(i) /\ Readable(i)
  /\ Traffic[k][i].hasA \/ (i > 1 /\ Delivered(i - 1) /\ Traffic[k][i].noise = <<>>)

Before(i) ==
  /\ pos <= From[k][i]
  /\ Traffic[k][i].hasA \/ (pos = From[k][i] /\ step \in {"idle", "WORD_TEST"})
InPreamble(i) ==
  <<pos - From[k][i], step>> \in (IF Traffic[k][i].hasA THEN TrackA ELSE TrackB)
InWhole(i) == InFrame(i) /\ (step \in {"A_HEADER", "A_PAYLOAD"} \/ a = AFrame(i))
Behind(i) == pos >= EndOf(i) /\ Delivered(i)

OnTrack(i) == Before(i) \/ InPreamble(i) \/ InWhole(i) \/ Behind(i)

TrackInv == \A i \in Events : Awaited(i) => OnTrack(i)

(***************************************************************************)
(* The frames of an event in numbers.                                      *)
(***************************************************************************)
LEMMA EventNumbers ==
  ASSUME k \in DOMAIN Traffic, NEW i \in Events
  PROVE  LET f == From[k][i]
             m == Middle(k, i)
             n == EndOf(i)
             e == Traffic[k][i]
         IN  /\ f \in Nat /\ m \in Nat /\ n \in Nat /\ e.payload \in Nat /\ e.samples \in Nat
             /\ e.hasA \in BOOLEAN
             /\ e.hasA => m = f + 128 + e.payload
             /\ ~e.hasA => m = f
             /\ n = m + 72 + 4 * e.samples
             /\ n <= Len(Stream[k]) /\ Len(Stream[k]) \in Nat
             /\ e.hasA => AFrame(i) = [from |-> f, len |-> m - f]
             /\ ~e.hasA => AFrame(i) = Empty
             /\ BFrame(i) = [from |-> m, len |-> n - m]
             /\ e.hasA => PacketLength(f) \in {0, m - f}
             /\ Word(m + 8) = e.samples
             /\ AFrame(i) \in Buffers /\ BFrame(i) \in Buffers
<1> DEFINE f == From[k][i]
           m == Middle(k, i)
           n == EndOf(i)
           e == Traffic[k][i]
           la == LenA(e)
           lb == LenB(e)
           p == e.payload
           s == e.samples
<1>1. /\ f \in Nat /\ m \in Nat /\ n \in Nat /\ m = f + la /\ n = m + lb
      /\ n <= Len(Stream[k]) /\ Len(Stream[k]) \in Nat
  BY EventsAre
<1>2. /\ e.hasA \in BOOLEAN /\ p \in Nat /\ s \in Nat
      /\ e.hasA => la = 128 + p
      /\ ~e.hasA => la = 0
      /\ lb = 72 + 4 * s
      /\ e.hasA => AFrame(i) = [from |-> f, len |-> la]
      /\ ~e.hasA => AFrame(i) = Empty
      /\ BFrame(i) = [from |-> m, len |-> lb]
  BY EventAre
<1>3. e.hasA => PacketLength(f) \in {0, la}
  BY AFramesAre
<1>4. Word(m + 8) = s
  BY BFramesAre
<1> DEFINE h == e.hasA
           top == Len(Stream[k])
<1>5. h => p \in Nat /\ la = 128 + p /\ PacketLength(f) \in {0, la}
               /\ AFrame(i) = [from |-> f, len |-> la]
  BY <1>2, <1>3
<1>6. ~h => la = 0 /\ AFrame(i) = Empty
  BY <1>2
<1>7. h \in BOOLEAN /\ p \in Nat /\ s \in Nat /\ lb = 72 + 4 * s
      /\ BFrame(i) = [from |-> m, len |-> lb]
  BY <1>2
<1>8. f \in Nat /\ m \in Nat /\ n \in Nat /\ m = f + la /\ n = m + lb /\ n <= top /\ top \in Nat
  BY <1>1
<1> HIDE DEF f, m, n, la, lb, p, s, h, top
<1>9. /\ h => la \in Nat /\ m = f + 128 + p /\ la = m - f
      /\ ~h => m = f
      /\ lb \in Nat /\ lb = n - m /\ n = m + 72 + 4 * s
  BY <1>5, <1>6, <1>7, <1>8
<1>10. AFrame(i) \in Buffers /\ BFrame(i) \in Buffers
  <2>1. CASE h
    BY <1>5, <1>7, <1>8, <1>9, <2>1 DEF Buffers
  <2>2. CASE ~h
    BY <1>6, <1>7, <1>8, <1>9, <2>2 DEF Buffers, Empty
  <2> QED
    BY <1>7, <2>1, <2>2
<1>11. h => AFrame(i) = [from |-> f, len |-> m - f] /\ PacketLength(f) \in {0, m - f}
  BY <1>5, <1>9
<1>12. BFrame(i) = [from |-> m, len |-> n - m]
  BY <1>7, <1>9
<1> QED
  BY <1>4, <1>6, <1>7, <1>8, <1>9, <1>10, <1>11, <1>12 DEF f, m, n, p, s, h, top

(***************************************************************************)
(* What a read does.                                                       *)
(***************************************************************************)
\* The traffic that is sent stays the same.
LEMMA SameTraffic ==
  ASSUME k' = k
  PROVE  /\ Events' = Events
         /\ \A i : /\ AFrame(i)' = AFrame(i) /\ BFrame(i)' = BFrame(i)
                   /\ EndOf(i)' = EndOf(i)
BY DEF Events, AFrame, BFrame, EndOf

\* What a read that brings n bytes does.
LEMMA TakeIs ==
  ASSUME NEW n, Take(n)
  PROVE  /\ k' = k /\ source' = source /\ delivered' = delivered /\ start' = start
         /\ hurt' = hurt /\ pos' = pos + n
         /\ a' = IF step \in {"A_HEADER", "A_PAYLOAD"} THEN Grown(a, n) ELSE a
         /\ b' = IF step \in {"B_HEADER", "B_SAMPLES"} THEN Grown(b, n) ELSE b
         /\ need - n > 0 => step' = step /\ need' = need - n
         /\ ~(need - n > 0) => step' = AfterLoop(step, a', b')[1]
                               /\ need' = AfterLoop(step, a', b')[2]
BY DEF Take, Missing

LEMMA AfterLoopIs ==
  ASSUME NEW a1, NEW b1
  PROVE  /\ AfterLoop("A_HEADER", a1, b1) =
              IF PacketLength(a1.from) = 0 THEN <<"idle", 0>>
              ELSE <<"A_PAYLOAD", PacketLength(a1.from) - 128>>
         /\ AfterLoop("A_PAYLOAD", a1, b1) = <<"B_HEADER", 72>>
         /\ AfterLoop("B_HEADER", a1, b1) =
              IF Word(b1.from + 8) = 0 THEN <<"return", 0>>
              ELSE <<"B_SAMPLES", 4 * Word(b1.from + 8)>>
         /\ AfterLoop("B_SAMPLES", a1, b1) = <<"return", 0>>
<1>1. AfterLoop("A_HEADER", a1, b1) =
              IF PacketLength(a1.from) = 0 THEN <<"idle", 0>>
              ELSE <<"A_PAYLOAD", PacketLength(a1.from) - 128>>
  BY DEF AfterLoop, EVENT_HEADER_SIZE
<1>2. AfterLoop("A_PAYLOAD", a1, b1) = <<"B_HEADER", 72>>
  BY DEF AfterLoop, BHeaderSize
<1>3. AfterLoop("B_HEADER", a1, b1) =
              IF Word(b1.from + 8) = 0 THEN <<"return", 0>>
              ELSE <<"B_SAMPLES", 4 * Word(b1.from + 8)>>
  BY DEF AfterLoop
<1>4. AfterLoop("B_SAMPLES", a1, b1) = <<"return", 0>>
  BY DEF AfterLoop
<1> QED
  BY <1>1, <1>2, <1>3, <1>4

\* A read within event i brings more of it, until it is whole, unless its A frame is refused.
LEMMA TakeStep ==
  ASSUME k \in DOMAIN Traffic, pos \in Nat, NEW i \in Events, InFrame(i), step \in Loops,
         NEW n \in 0..need, n > 0 \/ need = 0, Take(n)
  PROVE  /\ pos' = pos + n /\ pos' <= EndOf(i) /\ need \in Nat
         /\ \/ /\ InFrame(i)' /\ step' \in Loops \cup {"return"}
               /\ (step \in {"A_HEADER", "A_PAYLOAD"} \/ a = AFrame(i)) =>
                    (step' \in {"A_HEADER", "A_PAYLOAD"} \/ a' = AFrame(i))
            \/ step' = "idle" /\ Traffic[k][i].hasA /\ PacketLength(From[k][i]) = 0
<1> DEFINE f == From[k][i]
           m == Middle(k, i)
           z == EndOf(i)
           p == Traffic[k][i].payload
           s == Traffic[k][i].samples
           h == Traffic[k][i].hasA
           A == AFrame(i)
           B == BFrame(i)
<1>1. /\ f \in Nat /\ m \in Nat /\ z \in Nat /\ p \in Nat /\ s \in Nat
      /\ h => m = f + 128 + p
      /\ ~h => m = f
      /\ z = m + 72 + 4 * s
      /\ h => A = [from |-> f, len |-> m - f]
      /\ ~h => A = Empty
      /\ B = [from |-> m, len |-> z - m]
      /\ h => PacketLength(f) \in {0, m - f}
      /\ Word(m + 8) = s
  BY EventNumbers
<1>2. /\ k' = k /\ pos' = pos + n
      /\ a' = IF step \in {"A_HEADER", "A_PAYLOAD"} THEN Grown(a, n) ELSE a
      /\ b' = IF step \in {"B_HEADER", "B_SAMPLES"} THEN Grown(b, n) ELSE b
      /\ need - n > 0 => step' = step /\ need' = need - n
      /\ ~(need - n > 0) => step' = AfterLoop(step, a', b')[1]
                            /\ need' = AfterLoop(step, a', b')[2]
  BY TakeIs
<1>3. /\ From[k'][i] = f /\ Middle(k', i) = m /\ EndOf(i)' = z
      /\ Traffic[k'][i].payload = p /\ Traffic[k'][i].samples = s /\ Traffic[k'][i].hasA = h
      /\ AFrame(i)' = A /\ BFrame(i)' = B
  BY <1>2, SameTraffic
<1>4. /\ step' = "A_HEADER" /\ h /\ need' \in 1..114 /\ pos' + need' = f + 128
         /\ a' = [from |-> f, len |-> pos' - f] /\ b' = Empty => InAHeader(i)'
      /\ step' = "A_PAYLOAD" /\ h /\ need' \in 0..p /\ (need' = 0 => p = 0)
         /\ pos' + need' = m
         /\ a' = [from |-> f, len |-> pos' - f] /\ b' = Empty => InAPayload(i)'
      /\ step' = "B_HEADER" /\ pos' > f /\ need' \in 1..72 /\ pos' + need' = m + 72
         /\ b'.len = pos' - m /\ (b'.len > 0 => b'.from = m)
         /\ a' \in {Empty, A} => InBHeader(i)'
      /\ step' = "B_SAMPLES" /\ need' \in 1..(4 * s) /\ pos' + need' = z
         /\ b' = [from |-> m, len |-> pos' - m] /\ a' \in {Empty, A} => InBSamples(i)'
      /\ step' = "return" /\ pos' = z /\ b' = B /\ a' \in {Empty, A} => AtReturn(i)'
  BY <1>3 DEF InAHeader, InAPayload, InBHeader, InBSamples, AtReturn
<1>5. (\/ InAHeader(i)' \/ InAPayload(i)' \/ InBHeader(i)' \/ InBSamples(i)'
       \/ AtReturn(i)') => InFrame(i)'
  BY DEF InFrame
<1>6. /\ InAHeader(i) => /\ step = "A_HEADER" /\ h /\ need \in 1..114
                         /\ pos + need = f + 128
                         /\ a = [from |-> f, len |-> pos - f] /\ b = Empty
      /\ InAPayload(i) => /\ step = "A_PAYLOAD" /\ h /\ need \in 0..p
                          /\ (need = 0 => p = 0) /\ pos + need = m
                          /\ a = [from |-> f, len |-> pos - f] /\ b = Empty
      /\ InBHeader(i) => /\ step = "B_HEADER" /\ pos > f /\ need \in 1..72
                         /\ pos + need = m + 72
                         /\ b.len = pos - m /\ (b.len > 0 => b.from = m)
                         /\ a \in {Empty, A}
      /\ InBSamples(i) => /\ step = "B_SAMPLES" /\ need \in 1..(4 * s) /\ pos + need = z
                          /\ b = [from |-> m, len |-> pos - m] /\ a \in {Empty, A}
  BY DEF InAHeader, InAPayload, InBHeader, InBSamples
<1>7. ~AtReturn(i)
  BY DEF AtReturn, Loops
<1> DEFINE Goal ==
      /\ pos' <= z /\ need \in Nat
      /\ \/ /\ InFrame(i)' /\ step' \in {"A_HEADER", "A_PAYLOAD", "B_HEADER", "B_SAMPLES", "return"}
            /\ (step \in {"A_HEADER", "A_PAYLOAD"} \/ a = A) =>
                 (step' \in {"A_HEADER", "A_PAYLOAD"} \/ a' = A)
         \/ step' = "idle" /\ h /\ PacketLength(f) = 0
<1> SUFFICES Goal
  BY <1>2 DEF Loops
<1> HIDE DEF f, m, z, p, s, h, A, B
<1>8. CASE InAHeader(i)
  <2>1. /\ step = "A_HEADER" /\ h /\ need \in 1..114 /\ pos + need = f + 128
        /\ a = [from |-> f, len |-> pos - f] /\ b = Empty
    BY <1>6, <1>8
  <2>2. a.len > 0 /\ a.from = f /\ a.len = pos - f
    BY <1>1, <2>1
  <2>3. a' = [from |-> f, len |-> pos' - f] /\ b' = Empty
    <3>1. a' = Grown(a, n) /\ b' = b
      BY <1>2, <2>1
    <3>2. Grown(a, n) = [from |-> a.from, len |-> a.len + n]
      BY <2>2 DEF Grown
    <3>3. a.len + n = pos' - f
      BY <1>1, <1>2, <2>1, <2>2
    <3> QED
      BY <2>1, <2>2, <3>1, <3>2, <3>3
  <2>4. m = f + 128 + p /\ PacketLength(f) \in {0, m - f}
    BY <1>1, <2>1
  <2>5. CASE need - n > 0
    <3>1. step' = "A_HEADER" /\ need' = need - n
      BY <1>2, <2>1, <2>5
    <3>2. need' \in 1..114 /\ pos' + need' = f + 128 /\ pos' <= z
      BY <1>1, <1>2, <2>1, <2>4, <2>5, <3>1
    <3>8. InAHeader(i)'
      BY <1>4, <2>1, <2>3, <3>1, <3>2
    <3>9. InFrame(i)'
      BY <1>5, <3>8
    <3> QED
      BY <3>9, <2>1, <2>3, <3>1, <3>2
  <2>6. CASE ~(need - n > 0)
    <3>1. n = need /\ pos' = f + 128 /\ pos' <= z
      BY <1>1, <1>2, <2>1, <2>4, <2>6
    <3>2. a'.from = f
      BY <2>3
    <3>3. CASE PacketLength(f) = 0
      <4>1. AfterLoop(step, a', b') = <<"idle", 0>>
        BY <2>1, <3>2, <3>3, AfterLoopIs
      <4>2. step' = "idle"
        BY <1>2, <2>6, <4>1
      <4> QED
        BY <2>1, <3>1, <3>3, <4>2
    <3>4. CASE PacketLength(f) # 0
      <4>1. PacketLength(f) - 128 = p
        BY <1>1, <2>4, <3>4
      <4>2. AfterLoop(step, a', b') = <<"A_PAYLOAD", p>>
        BY <2>1, <3>2, <3>4, <4>1, AfterLoopIs
      <4>3. step' = "A_PAYLOAD" /\ need' = p
        BY <1>2, <2>6, <4>2
      <4>4. need' \in 0..p /\ (need' = 0 => p = 0) /\ pos' + need' = m
        BY <1>1, <2>4, <3>1, <4>3
      <4>8. InAPayload(i)'
        BY <1>4, <2>1, <2>3, <3>1, <4>3, <4>4
      <4>9. InFrame(i)'
        BY <1>5, <4>8
      <4> QED
        BY <4>9, <2>1, <2>3, <3>1, <4>3, <4>4
    <3> QED
      BY <3>3, <3>4
  <2> QED
    BY <2>5, <2>6
<1>9. CASE InAPayload(i)
  <2>1. /\ step = "A_PAYLOAD" /\ h /\ need \in 0..p /\ (need = 0 => p = 0) /\ pos + need = m
        /\ a = [from |-> f, len |-> pos - f] /\ b = Empty
    BY <1>6, <1>9
  <2>2. a.len > 0 /\ a.from = f /\ a.len = pos - f /\ m = f + 128 + p
    BY <1>1, <2>1
  <2>3. a' = [from |-> f, len |-> pos' - f] /\ b' = Empty
    <3>1. a' = Grown(a, n) /\ b' = b
      BY <1>2, <2>1
    <3>2. Grown(a, n) = [from |-> a.from, len |-> a.len + n]
      BY <2>2 DEF Grown
    <3>3. a.len + n = pos' - f
      BY <1>1, <1>2, <2>1, <2>2
    <3> QED
      BY <2>1, <2>2, <3>1, <3>2, <3>3
  <2>5. CASE need - n > 0
    <3>1. step' = "A_PAYLOAD" /\ need' = need - n
      BY <1>2, <2>1, <2>5
    <3>2. need' \in 0..p /\ need' # 0 /\ pos' + need' = m /\ pos' <= z
      BY <1>1, <1>2, <2>1, <2>2, <2>5, <3>1
    <3>8. InAPayload(i)'
      BY <1>1, <1>4, <2>1, <2>3, <3>1, <3>2
    <3>9. InFrame(i)'
      BY <1>5, <3>8
    <3> QED
      BY <3>9, <1>1, <2>1, <2>3, <3>1, <3>2
  <2>6. CASE ~(need - n > 0)
    <3>1. n = need /\ pos' = m /\ pos' <= z /\ need \in Nat
      BY <1>1, <1>2, <2>1, <2>6
    <3>2. AfterLoop(step, a', b') = <<"B_HEADER", 72>>
      BY <2>1, AfterLoopIs
    <3>3. step' = "B_HEADER" /\ need' = 72
      BY <1>2, <2>6, <3>2
    <3>4. a' = A
      BY <1>1, <2>1, <2>3, <3>1
    <3>5. b'.len = pos' - m /\ ~(b'.len > 0)
      BY <1>1, <2>3, <3>1 DEF Empty
    <3>6. need' \in 1..72 /\ pos' + need' = m + 72 /\ pos' > f
      BY <1>1, <2>2, <3>1, <3>3
    <3>8. InBHeader(i)'
      BY <1>4, <3>1, <3>3, <3>4, <3>5, <3>6
    <3>9. InFrame(i)'
      BY <1>5, <3>8
    <3> QED
      BY <3>9, <3>1, <3>3, <3>4, <3>5, <3>6
  <2> QED
    BY <2>5, <2>6
<1>10. CASE InBHeader(i)
  <2>1. /\ step = "B_HEADER" /\ pos > f /\ need \in 1..72 /\ pos + need = m + 72
        /\ b.len = pos - m /\ (b.len > 0 => b.from = m) /\ a \in {Empty, A}
    BY <1>6, <1>10
  <2>2. pos \in m..(m + 71) /\ n > 0
    BY <1>1, <2>1
  <2>3. b' = [from |-> m, len |-> pos' - m] /\ a' = a
    <3>1. b' = Grown(b, n) /\ a' = a
      BY <1>2, <2>1
    <3>2. Grown(b, n) = [from |-> IF b.len = 0 THEN pos ELSE b.from, len |-> b.len + n]
      BY DEF Grown
    <3>3. (IF b.len = 0 THEN pos ELSE b.from) = m /\ b.len + n = pos' - m
      BY <1>1, <1>2, <2>1, <2>2
    <3> QED
      BY <3>1, <3>2, <3>3
  <2>4. pos' > f
    BY <1>1, <1>2, <2>1
  <2>5. CASE need - n > 0
    <3>1. step' = "B_HEADER" /\ need' = need - n
      BY <1>2, <2>1, <2>5
    <3>2. need' \in 1..72 /\ pos' + need' = m + 72 /\ pos' <= z
      BY <1>1, <1>2, <2>1, <2>5, <3>1
    <3>3. b'.len = pos' - m /\ b'.from = m
      BY <2>3
    <3>8. InBHeader(i)'
      BY <1>4, <2>1, <2>3, <2>4, <3>1, <3>2, <3>3
    <3>9. InFrame(i)'
      BY <1>5, <3>8
    <3> QED
      BY <3>9, <2>1, <2>3, <2>4, <3>1, <3>2, <3>3
  <2>6. CASE ~(need - n > 0)
    <3>1. n = need /\ pos' = m + 72 /\ pos' <= z /\ need \in Nat
      BY <1>1, <1>2, <2>1, <2>6
    <3>2. b'.from = m /\ Word(b'.from + 8) = s
      BY <1>1, <2>3
    <3>3. CASE s = 0
      <4>1. AfterLoop(step, a', b') = <<"return", 0>>
        BY <2>1, <3>2, <3>3, AfterLoopIs
      <4>2. step' = "return"
        BY <1>2, <2>6, <4>1
      <4>3. pos' = z /\ b' = B
        BY <1>1, <2>3, <3>1, <3>3
      <4>8. AtReturn(i)'
        BY <1>4, <2>1, <2>3, <3>1, <4>2, <4>3
      <4>9. InFrame(i)'
        BY <1>5, <4>8
      <4> QED
        BY <4>9, <2>1, <2>3, <3>1, <4>2, <4>3
    <3>4. CASE s # 0
      <4>1. AfterLoop(step, a', b') = <<"B_SAMPLES", 4 * s>>
        BY <2>1, <3>2, <3>4, AfterLoopIs
      <4>2. step' = "B_SAMPLES" /\ need' = 4 * s
        BY <1>2, <2>6, <4>1
      <4>3. need' \in 1..(4 * s) /\ pos' + need' = z
        BY <1>1, <3>1, <3>4, <4>2
      <4>8. InBSamples(i)'
        BY <1>4, <2>1, <2>3, <3>1, <4>2, <4>3
      <4>9. InFrame(i)'
        BY <1>5, <4>8
      <4> QED
        BY <4>9, <2>1, <2>3, <3>1, <4>2, <4>3
    <3> QED
      BY <3>3, <3>4
  <2> QED
    BY <2>5, <2>6
<1>11. CASE InBSamples(i)
  <2>1. /\ step = "B_SAMPLES" /\ need \in 1..(4 * s) /\ pos + need = z
        /\ b = [from |-> m, len |-> pos - m] /\ a \in {Empty, A}
    BY <1>6, <1>11
  <2>2. b.len > 0 /\ b.from = m /\ b.len = pos - m
    BY <1>1, <2>1
  <2>3. b' = [from |-> m, len |-> pos' - m] /\ a' = a
    <3>1. b' = Grown(b, n) /\ a' = a
      BY <1>2, <2>1
    <3>2. Grown(b, n) = [from |-> b.from, len |-> b.len + n]
      BY <2>2 DEF Grown
    <3>3. b.len + n = pos' - m
      BY <1>1, <1>2, <2>1, <2>2
    <3> QED
      BY <2>2, <3>1, <3>2, <3>3
  <2>5. CASE need - n > 0
    <3>1. step' = "B_SAMPLES" /\ need' = need - n
      BY <1>2, <2>1, <2>5
    <3>2. need' \in 1..(4 * s) /\ pos' + need' = z /\ pos' <= z
      BY <1>1, <1>2, <2>1, <2>5, <3>1
    <3>8. InBSamples(i)'
      BY <1>1, <1>4, <2>1, <2>3, <3>1, <3>2
    <3>9. InFrame(i)'
      BY <1>5, <3>8
    <3> QED
      BY <3>9, <1>1, <2>1, <2>3, <3>1, <3>2
  <2>6. CASE ~(need - n > 0)
    <3>1. n = need /\ pos' = z /\ pos' <= z /\ need \in Nat
      BY <1>1, <1>2, <2>1, <2>6
    <3>2. AfterLoop(step, a', b') = <<"return", 0>>
      BY <2>1, AfterLoopIs
    <3>3. step' = "return"
      BY <1>2, <2>6, <3>2
    <3>4. b' = B
      BY <1>1, <2>3, <3>1
    <3>8. AtReturn(i)'
      BY <1>4, <2>1, <2>3, <3>1, <3>3, <3>4
    <3>9. InFrame(i)'
      BY <1>5, <3>8
    <3> QED
      BY <3>9, <2>1, <2>3, <3>1, <3>3, <3>4
  <2> QED
    BY <2>5, <2>6
<1> QED
  BY <1>7, <1>8, <1>9, <1>10, <1>11 DEF InFrame

(***************************************************************************)
(* Every step keeps to the frames of the stream.                           *)
(***************************************************************************)
\* What the loops still want lies within the event they read.
LEMMA NeedIs ==
  ASSUME k \in DOMAIN Traffic, pos \in Nat, NEW i \in Events, InFrame(i), step \in Loops
  PROVE  /\ need \in Nat /\ pos + need <= EndOf(i) /\ EndOf(i) <= Len(Stream[k])
         /\ From[k][i] < pos /\ pos < EndOf(i)
         /\ need = 0 => step = "A_PAYLOAD" /\ Traffic[k][i].hasA /\ Traffic[k][i].payload = 0
<1> DEFINE f == From[k][i]
           m == Middle(k, i)
           z == EndOf(i)
           p == Traffic[k][i].payload
           s == Traffic[k][i].samples
           h == Traffic[k][i].hasA
           top == Len(Stream[k])
<1>1. /\ f \in Nat /\ m \in Nat /\ z \in Nat /\ p \in Nat /\ s \in Nat
      /\ h => m = f + 128 + p
      /\ ~h => m = f
      /\ h \in BOOLEAN
      /\ z = m + 72 + 4 * s /\ z <= top /\ top \in Nat
  BY EventNumbers
<1>2. /\ InAHeader(i) => /\ step = "A_HEADER" /\ h /\ need \in 1..114 /\ pos + need = f + 128
                         /\ a = [from |-> f, len |-> pos - f]
      /\ InAPayload(i) => /\ step = "A_PAYLOAD" /\ h /\ need \in 0..p /\ pos + need = m
                          /\ (need = 0 => p = 0)
      /\ InBHeader(i) => pos > f /\ need \in 1..72 /\ pos + need = m + 72
      /\ InBSamples(i) => need \in 1..(4 * s) /\ pos + need = z
      /\ ~AtReturn(i)
  BY DEF InAHeader, InAPayload, InBHeader, InBSamples, AtReturn, Loops
<1>3. InAHeader(i) \/ InAPayload(i) \/ InBHeader(i) \/ InBSamples(i)
  BY <1>2 DEF InFrame
<1> DEFINE Goal == /\ need \in Nat /\ pos + need <= z /\ z <= top /\ f < pos /\ pos < z
                   /\ need = 0 => step = "A_PAYLOAD" /\ h /\ p = 0
<1> SUFFICES Goal
  OBVIOUS
<1> HIDE DEF f, m, z, p, s, h, top
<1>4. m >= f
  BY <1>1
<1>5. CASE InAHeader(i)
  <2>1. h /\ need \in 1..114 /\ pos + need = f + 128
    BY <1>2, <1>5
  <2>2. m = f + 128 + p
    BY <1>1, <2>1
  <2> QED
    BY <1>1, <2>1, <2>2, SMT
<1>6. CASE InAPayload(i)
  <2>1. /\ step = "A_PAYLOAD" /\ h /\ need \in 0..p /\ pos + need = m /\ (need = 0 => p = 0)
    BY <1>2, <1>6
  <2>2. m = f + 128 + p
    BY <1>1, <2>1
  <2> QED
    BY <1>1, <2>1, <2>2, SMT
<1>7. CASE InBHeader(i)
  <2>1. pos > f /\ need \in 1..72 /\ pos + need = m + 72
    BY <1>2, <1>7
  <2> QED
    BY <1>1, <1>4, <2>1
<1>8. CASE InBSamples(i)
  <2>1. need \in 1..(4 * s) /\ pos + need = z
    BY <1>2, <1>8
  <2> QED
    BY <1>1, <1>4, <2>1
<1> QED
  BY <1>3, <1>5, <1>6, <1>7, <1>8

\* A loop takes some of what it wants, of the event it reads.
LEMMA LoopTakes ==
  ASSUME SearchInv, LoopFull \/ LoopPart \/ LoopLast
  PROVE  \E i \in Events, n \in 0..need :
           InFrame(i) /\ step \in Loops /\ (n > 0 \/ need = 0) /\ Take(n)
<1>1. step \in Loops
  BY DEF LoopFull, LoopPart, LoopLast
<1>2. PICK i \in Events : InFrame(i)
  BY <1>1 DEF SearchInv
<1>3. pos \in Nat /\ k \in DOMAIN Traffic
  <2>1. Len(Stream[k]) \in Nat
    BY EventsAre DEF SearchInv
  <2> QED
    BY <2>1 DEF SearchInv
<1>4. need \in Nat
  BY <1>1, <1>2, <1>3, NeedIs
<1>5. \E n \in 0..need : (n > 0 \/ need = 0) /\ Take(n)
  <2>1. CASE LoopFull
    <3>1. Take(need) /\ need \in 0..need /\ (need > 0 \/ need = 0)
      BY <1>4, <2>1 DEF LoopFull
    <3> QED
      BY <3>1
  <2>2. CASE LoopPart
    <3>1. PICK n \in 1..(need - 1) : Take(n)
      BY <2>2 DEF LoopPart
    <3>2. n \in 0..need /\ n > 0
      BY <1>4
    <3> QED
      BY <3>1, <3>2
  <2>3. CASE LoopLast
    <3>1. Available \in 1..(need - 1) /\ Take(Available)
      BY <2>3 DEF LoopLast
    <3>2. Available \in 0..need /\ Available > 0
      BY <1>4, <3>1
    <3> QED
      BY <3>1, <3>2
  <2> QED
    BY <2>1, <2>2, <2>3
<1> QED
  BY <1>1, <1>2, <1>5

\* A call that ends, and whatever is done between two calls.
LEMMA SearchEnds ==
  ASSUME SearchInv, k' = k, step' = "idle", pos' \in 0..Len(Stream[k]),
         source' \in {"none", "socket", "file"}
  PROVE  SearchInv'
BY DEF SearchInv, SyncStates, ByteStates, WordStates, Loops

\* A word of a preamble: the search goes on, or a frame begins.
LEMMA SearchSync ==
  ASSUME SearchInv, Sync
  PROVE  SearchInv'
<1>1. /\ k \in DOMAIN Traffic /\ Len(Stream[k]) \in Nat /\ pos \in Nat
      /\ step \in SyncStates /\ a = Empty /\ b = Empty
      /\ source \in {"none", "socket", "file"} /\ (source = "none" => step = "idle")
  BY EventsAre DEF SearchInv, Sync
<1>2. /\ k' = k /\ source' = source
      /\ pos' = pos + SyncSize(step) /\ step' = Found(step, pos)
      /\ Len(Stream[k]) - pos >= SyncSize(step)
      /\ step' = "A_HEADER" => a' = [from |-> pos' - 14, len |-> 14] /\ need' = 114 /\ b' = b
      /\ step' = "B_HEADER" => b' = [from |-> pos' - 8, len |-> 8] /\ need' = 64 /\ a' = a
      /\ step' \notin {"A_HEADER", "B_HEADER"} => a' = a /\ b' = b
  BY DEF Sync, Found, Available, EVENT_HEADER_SIZE, BHeaderSize
<1>3. step \in WordStates => SyncSize(step) = 2
  BY DEF WordStates, ByteStates, SyncSize
<1>4. SyncSize(step) \in {1, 2}
  BY DEF SyncSize
<1>5. pos + SyncSize(step) <= Len(Stream[k]) /\ pos' \in 0..Len(Stream[k])
  BY <1>1, <1>2, <1>4
<1>6. step # "idle" /\ source # "none"
  BY <1>1 DEF SyncStates, ByteStates, WordStates
<1>7. \/ step' \in SyncStates
      \/ /\ step \in WordStates /\ step' = "A_HEADER"
         /\ \E i \in Events : Traffic[k][i].hasA /\ pos = From[k][i] + 12
      \/ /\ step \in WordStates /\ step' = "B_HEADER"
         /\ \E i \in Events : pos = Middle(k, i) + 6
  BY <1>1, <1>2, <1>5, FoundAtPreambles
<1>8. CASE step' \in SyncStates
  <2>1. step' \notin Loops \cup {"return", "A_HEADER", "B_HEADER"}
    BY <1>8 DEF SyncStates, ByteStates, WordStates, Loops
  <2> QED
    BY <1>1, <1>2, <1>5, <1>6, <1>8, <2>1 DEF SearchInv
<1>9. CASE step \in WordStates /\ step' = "A_HEADER"
  <2>1. PICK i \in Events : Traffic[k][i].hasA /\ pos = From[k][i] + 12
    BY <1>7, <1>9 DEF SyncStates, ByteStates, WordStates
  <2> DEFINE f == From[k][i]
  <2>2. f \in Nat
    BY <1>1, EventNumbers
  <2>3. /\ a' = [from |-> pos' - 14, len |-> 14] /\ need' = 114 /\ b' = Empty
        /\ pos' = f + 14 /\ f \in Nat
    BY <1>1, <1>2, <1>3, <1>9, <2>1, <2>2
  <2> HIDE DEF f
  <2>4. /\ need' \in 1..114 /\ pos' + need' = f + 128
        /\ a' = [from |-> f, len |-> pos' - f]
    BY <2>3
  <2>5. f = From[k'][i] /\ Traffic[k'][i].hasA
    BY <1>2, <2>1 DEF f
  <2>6. InAHeader(i)'
    BY <1>9, <2>3, <2>4, <2>5 DEF InAHeader
  <2>7. \E j \in Events' : InFrame(j)'
    BY <1>2, <2>6 DEF Events, InFrame
  <2>8. step' \notin SyncStates /\ step' \in Loops
    BY <1>9 DEF SyncStates, ByteStates, WordStates, Loops
  <2> QED
    BY <1>1, <1>2, <1>5, <1>6, <2>7, <2>8 DEF SearchInv
<1>10. CASE step \in WordStates /\ step' = "B_HEADER"
  <2>1. PICK i \in Events : pos = Middle(k, i) + 6
    BY <1>7, <1>10 DEF SyncStates, ByteStates, WordStates
  <2> DEFINE f == From[k][i]
             m == Middle(k, i)
  <2>2. f \in Nat /\ m \in Nat /\ m >= f
    <3> DEFINE h == Traffic[k][i].hasA
               p == Traffic[k][i].payload
    <3>1. f \in Nat /\ m \in Nat /\ (h => m = f + 128 + p) /\ (~h => m = f) /\ p \in Nat
      BY <1>1, EventNumbers
    <3> HIDE DEF f, m, h, p
    <3> QED
      BY <3>1
  <2>3. /\ b' = [from |-> pos' - 8, len |-> 8] /\ need' = 64 /\ a' = Empty
        /\ pos' = m + 8
    BY <1>1, <1>2, <1>3, <1>10, <2>1, <2>2
  <2> HIDE DEF f, m
  <2>4. /\ need' \in 1..72 /\ pos' + need' = m + 72 /\ pos' > f
        /\ b'.len = pos' - m /\ b'.from = m
    BY <2>2, <2>3
  <2>5. f = From[k'][i] /\ m = Middle(k', i)
    BY <1>2 DEF f, m
  <2>6. InBHeader(i)'
    BY <1>10, <2>3, <2>4, <2>5 DEF InBHeader
  <2>7. \E j \in Events' : InFrame(j)'
    BY <1>2, <2>6 DEF Events, InFrame
  <2>8. step' \notin SyncStates /\ step' \in Loops
    BY <1>10 DEF SyncStates, ByteStates, WordStates, Loops
  <2> QED
    BY <1>1, <1>2, <1>5, <1>6, <2>7, <2>8 DEF SearchInv
<1> QED
  BY <1>7, <1>8, <1>9, <1>10

\* What a loop takes leaves it in the same event, or the A frame is refused.
LEMMA SearchTakes ==
  ASSUME SearchInv, LoopFull \/ LoopPart \/ LoopLast
  PROVE  SearchInv'
<1>1. /\ k \in DOMAIN Traffic /\ Len(Stream[k]) \in Nat /\ pos \in Nat
      /\ source \in {"none", "socket", "file"} /\ (source = "none" => step = "idle")
  BY EventsAre DEF SearchInv
<1>2. PICK i \in Events, n \in 0..need :
        InFrame(i) /\ step \in Loops /\ (n > 0 \/ need = 0) /\ Take(n)
  BY LoopTakes
<1>3. /\ pos' = pos + n /\ pos' <= EndOf(i) /\ need \in Nat
      /\ \/ InFrame(i)' /\ step' \in Loops \cup {"return"}
         \/ step' = "idle"
  BY <1>1, <1>2, TakeStep
<1>4. k' = k /\ source' = source
  BY <1>2, TakeIs
<1>5. source # "none"
  BY <1>1, <1>2 DEF Loops
<1>6. pos' \in 0..Len(Stream[k])
  <2>1. EndOf(i) \in Nat /\ EndOf(i) <= Len(Stream[k])
    BY <1>1, EventsAre
  <2> QED
    BY <1>1, <1>3, <2>1
<1>7. CASE step' = "idle"
  BY <1>1, <1>4, <1>6, <1>7, SearchEnds
<1>8. CASE InFrame(i)' /\ step' \in Loops \cup {"return"}
  <2>1. step' \notin SyncStates
    BY <1>8 DEF SyncStates, ByteStates, WordStates, Loops
  <2>2. \E j \in Events' : InFrame(j)'
    BY <1>4, <1>8 DEF Events
  <2> QED
    BY <1>1, <1>4, <1>5, <1>6, <1>8, <2>1, <2>2 DEF SearchInv
<1> QED
  BY <1>3, <1>7, <1>8

LEMMA SearchStep ==
  ASSUME SearchInv, Next
  PROVE  SearchInv'
<1>1. /\ k \in DOMAIN Traffic /\ Len(Stream[k]) \in Nat /\ pos \in 0..Len(Stream[k])
      /\ source \in {"none", "socket", "file"} /\ (source = "none" => step = "idle")
  BY EventsAre DEF SearchInv
<1>2. CASE Call
  BY <1>1, <1>2 DEF Call, SearchInv, SyncStates, ByteStates, WordStates, Loops
<1>3. CASE SyncSplit
  <2>1. pos' \in 0..Len(Stream[k])
    BY <1>1, <1>3 DEF SyncSplit, Available
  <2> QED
    BY <1>1, <1>3, <2>1 DEF SyncSplit, SearchInv, SyncStates, ByteStates, WordStates, Loops
<1>4. CASE LoopFull \/ LoopPart \/ LoopLast
  BY <1>4, SearchTakes
<1>5. CASE ReceiveZero \/ ReceiveTimeout \/ EndOfFile \/ Return
  <2>1. k' = k /\ step' = "idle" /\ source' = source /\ pos' \in {pos, Len(Stream[k])}
    BY <1>5 DEF ReceiveZero, ReceiveTimeout, EndOfFile, Return
  <2> QED
    BY <1>1, <2>1, SearchEnds
<1>6. CASE DeviceConnect
  <2>1. pos' \in 0..Len(Stream[k])
    BY <1>1, <1>6 DEF DeviceConnect, DevicePurgeData
  <2> QED
    BY <1>1, <1>6, <2>1, SearchEnds DEF DeviceConnect
<1>7. CASE FileOpen
  BY <1>1, <1>7, SearchEnds DEF FileOpen
<1>8. CASE DeviceDisconnect \/ FileClose
  BY <1>1, <1>8, SearchEnds DEF DeviceDisconnect, FileClose
<1> QED
  BY <1>2, <1>3, <1>4, <1>5, <1>6, <1>7, <1>8, SearchSync DEF Next, DataReceive

(***************************************************************************)
(* What is delivered.                                                      *)
(***************************************************************************)
LEMMA Appended ==
  ASSUME NEW S, NEW s \in Seq(S), NEW e \in S
  PROVE  Append(s, e) \in Seq(S) /\ ToSet(Append(s, e)) = ToSet(s) \cup {e}
<1>1. /\ Append(s, e) \in Seq(S) /\ Len(s) \in Nat /\ Len(Append(s, e)) = Len(s) + 1
      /\ \A j \in 1..Len(s) : Append(s, e)[j] = s[j]
      /\ Append(s, e)[Len(s) + 1] = e
      /\ DOMAIN s = 1..Len(s) /\ DOMAIN Append(s, e) = 1..(Len(s) + 1)
  OBVIOUS
<1>2. 1..(Len(s) + 1) = 1..Len(s) \cup {Len(s) + 1}
  BY <1>1
<1>3. /\ \A x : x \in ToSet(s) <=> \E j \in 1..Len(s) : x = s[j]
      /\ \A x : x \in ToSet(Append(s, e)) <=> \E j \in 1..(Len(s) + 1) : x = Append(s, e)[j]
  BY <1>1, Zenon DEF ToSet
<1>4. \A x : x \in ToSet(Append(s, e)) <=> x \in ToSet(s) \/ x = e
  <2>1. ASSUME NEW x, x \in ToSet(Append(s, e)) PROVE x \in ToSet(s) \/ x = e
    <3>1. PICK j \in 1..Len(s) \cup {Len(s) + 1} : x = Append(s, e)[j]
      BY <1>2, <1>3, <2>1, Zenon
    <3> QED
      BY <1>1, <1>3, <3>1, Zenon
  <2>2. ASSUME NEW x, x \in ToSet(s) PROVE x \in ToSet(Append(s, e))
    <3>1. PICK j \in 1..Len(s) : x = s[j]
      BY <1>3, <2>2, Zenon
    <3>2. j \in 1..(Len(s) + 1) /\ x = Append(s, e)[j]
      BY <1>1, <1>2, <3>1, Zenon
    <3> QED
      BY <1>3, <3>2, Zenon
  <2>3. e \in ToSet(Append(s, e))
    <3>1. Len(s) + 1 \in 1..(Len(s) + 1)
      BY <1>1
    <3> QED
      BY <1>1, <1>3, <3>1, Zenon
  <2> QED
    BY <2>1, <2>2, <2>3
<1> QED
  BY <1>1, <1>4

\* Nothing more is delivered, and the search goes on or is given up.
LEMMA DeliveredStays ==
  ASSUME DeliveredInv, SearchInv, k' = k, delivered' = delivered,
         source' = "none" \/ (source' = source /\ pos' \in Nat /\ pos' >= pos)
  PROVE  DeliveredInv'
<1>1. \A i : AFrame(i)' = AFrame(i) /\ BFrame(i)' = BFrame(i) /\ EndOf(i)' = EndOf(i)
  BY SameTraffic
<1>2. Events' = Events
  BY SameTraffic
<1>3. DeliveredWhole'
  BY <1>1, <1>2 DEF DeliveredInv, DeliveredWhole
<1>4. \A i \in Events : Delivered(i)' = Delivered(i)
  BY <1>1 DEF Delivered
<1>5. pos \in Nat /\ \A i \in Events : EndOf(i) \in Nat
  BY EventsAre DEF SearchInv
<1>6. ASSUME NEW i \in Events, source' # "none", Delivered(i)'
      PROVE  pos' >= EndOf(i)'
  <2>1. pos >= EndOf(i) /\ pos' \in Nat /\ pos' >= pos
    BY <1>4, <1>6 DEF DeliveredInv
  <2>2. pos' >= EndOf(i)
    BY <1>5, <2>1
  <2> QED
    BY <1>1, <2>2
<1> QED
  BY <1>2, <1>3, <1>6 DEF DeliveredInv

\* A new connection or file: nothing has been delivered of it.
LEMMA DeliveredBegins ==
  ASSUME delivered' = <<>>
  PROVE  DeliveredInv'
<1>1. delivered' \in Seq([a : Buffers, b : Buffers]) /\ ToSet(delivered') = {}
  BY DEF ToSet
<1>2. DeliveredWhole'
  BY <1>1 DEF DeliveredWhole
<1>3. \A i : ~Delivered(i)'
  BY <1>1 DEF Delivered
<1> QED
  BY <1>1, <1>2, <1>3 DEF DeliveredInv

\* What is returned is the event that was read.
LEMMA Returned ==
  ASSUME DeliveredInv, SearchInv, Return
  PROVE  /\ DeliveredInv'
         /\ \E i \in Events : pos = EndOf(i) /\ b = BFrame(i)
         /\ \A j \in Events : Delivered(j)' <=> Delivered(j) \/ (a = AFrame(j) /\ b = BFrame(j))
<1>1. /\ step = "return" /\ k' = k /\ pos' = pos /\ source' = source
      /\ delivered' = Append(delivered, [a |-> a, b |-> b])
  BY DEF Return
<1>2. PICK i \in Events : AtReturn(i)
  BY <1>1 DEF SearchInv, InFrame, InAHeader, InAPayload, InBHeader, InBSamples
<1>3. pos = EndOf(i) /\ b = BFrame(i) /\ a \in {Empty, AFrame(i)}
  BY <1>2 DEF AtReturn
<1>4. k \in DOMAIN Traffic /\ delivered \in Seq([a : Buffers, b : Buffers])
  BY DEF SearchInv, DeliveredInv
<1>5. [a |-> a, b |-> b] \in [a : Buffers, b : Buffers]
  <2>1. AFrame(i) \in Buffers /\ BFrame(i) \in Buffers
    BY <1>4, EventNumbers
  <2>2. Empty \in Buffers
    BY DEF Empty, Buffers
  <2> QED
    BY <1>3, <2>1, <2>2
<1>6. /\ delivered' \in Seq([a : Buffers, b : Buffers])
      /\ ToSet(delivered') = ToSet(delivered) \cup {[a |-> a, b |-> b]}
  <2>1. ASSUME NEW S, NEW s \in Seq(S), NEW e \in S, delivered' = Append(s, e)
        PROVE  delivered' \in Seq(S) /\ ToSet(delivered') = ToSet(s) \cup {e}
    BY <2>1, Appended
  <2> QED
    BY <1>1, <1>4, <1>5, <2>1, Zenon
<1>7. /\ \A j : AFrame(j)' = AFrame(j) /\ BFrame(j)' = BFrame(j) /\ EndOf(j)' = EndOf(j)
      /\ Events' = Events
  BY <1>1, SameTraffic
<1>8. DeliveredWhole'
  <2>1. ASSUME NEW d \in ToSet(delivered)
        PROVE  \E j \in Events : d.b = BFrame(j) /\ d.a \in {AFrame(j), Empty}
    BY DEF DeliveredInv, DeliveredWhole
  <2>2. \E j \in Events : [a |-> a, b |-> b].b = BFrame(j)
                          /\ [a |-> a, b |-> b].a \in {AFrame(j), Empty}
    BY <1>3
  <2> QED
    BY <1>6, <1>7, <2>1, <2>2 DEF DeliveredWhole
<1>9. ASSUME NEW j \in Events
      PROVE  Delivered(j)' <=> Delivered(j) \/ (a = AFrame(j) /\ b = BFrame(j))
  <2>1. [a |-> AFrame(j), b |-> BFrame(j)] = [a |-> a, b |-> b]
          <=> a = AFrame(j) /\ b = BFrame(j)
    <3>1. ASSUME NEW x1, NEW y1, NEW x2, NEW y2, [a |-> x1, b |-> y1] = [a |-> x2, b |-> y2]
          PROVE  x1 = x2 /\ y1 = y2
      <4>1. [a |-> x1, b |-> y1].a = [a |-> x2, b |-> y2].a
            /\ [a |-> x1, b |-> y1].b = [a |-> x2, b |-> y2].b
        BY <3>1, Zenon
      <4> QED
        BY <4>1, SMT
    <3> QED
      BY <3>1, Zenon
  <2>2. Delivered(j)' <=> [a |-> AFrame(j), b |-> BFrame(j)] \in ToSet(delivered')
    BY <1>7 DEF Delivered
  <2> QED
    BY <1>6, <2>1, <2>2 DEF Delivered
<1>10. \A j \in Events : source' # "none" /\ Delivered(j)' => pos' >= EndOf(j)'
  <2>1. ASSUME NEW j \in Events, source # "none", Delivered(j) \/ b = BFrame(j)
        PROVE  pos >= EndOf(j)
    <3>1. CASE Delivered(j)
      BY <2>1, <3>1 DEF DeliveredInv
    <3>2. CASE b = BFrame(j)
      <4>1. EndOf(j) = pos
        BY <1>3, <3>2 DEF EndOf
      <4>2. EndOf(j) \in Nat
        BY <1>4, EventsAre
      <4> QED
        BY <4>1, <4>2
    <3> QED
      BY <2>1, <3>1, <3>2
  <2> QED
    BY <1>1, <1>7, <1>9, <2>1
<1>11. DeliveredInv'
  BY <1>6, <1>7, <1>8, <1>10 DEF DeliveredInv
<1> QED
  BY <1>3, <1>9, <1>11

LEMMA DeliveredStep ==
  ASSUME DeliveredInv, SearchInv, Next
  PROVE  DeliveredInv'
<1>1. Len(Stream[k]) \in Nat /\ pos \in 0..Len(Stream[k]) /\ pos \in Nat
  BY EventsAre DEF SearchInv
<1>2. CASE Call \/ ReceiveZero \/ ReceiveTimeout
  BY <1>1, <1>2, DeliveredStays DEF Call, ReceiveZero, ReceiveTimeout
<1>3. CASE Sync \/ SyncSplit
  <2>1. k' = k /\ delivered' = delivered /\ source' = source /\ pos' \in {pos + 1, pos + 2}
    BY <1>3 DEF Sync, SyncSplit, SyncSize
  <2> QED
    BY <1>1, <2>1, DeliveredStays
<1>4. CASE LoopFull \/ LoopPart \/ LoopLast
  <2>1. PICK i \in Events, n \in 0..need :
          InFrame(i) /\ step \in Loops /\ (n > 0 \/ need = 0) /\ Take(n)
    BY <1>4, LoopTakes
  <2>2. need \in Nat
    BY <1>1, <2>1, NeedIs DEF SearchInv
  <2>3. k' = k /\ delivered' = delivered /\ source' = source /\ pos' = pos + n
    BY <2>1, TakeIs
  <2> QED
    BY <1>1, <2>1, <2>2, <2>3, DeliveredStays
<1>5. CASE EndOfFile
  BY <1>1, <1>5, DeliveredStays DEF EndOfFile
<1>6. CASE Return
  BY <1>6, Returned
<1>7. CASE DeviceConnect \/ FileOpen
  BY <1>7, DeliveredBegins DEF DeviceConnect, FileOpen
<1>8. CASE DeviceDisconnect \/ FileClose
  BY <1>8, DeliveredStays DEF DeviceDisconnect, FileClose
<1> QED
  BY <1>2, <1>3, <1>4, <1>5, <1>6, <1>7, <1>8 DEF Next, DataReceive

(***************************************************************************)
(* No event that is awaited is missed.                                     *)
(***************************************************************************)
LEMMA SameLength ==
  ASSUME k' = k, NEW p
  PROVE  PacketLength(p)' = PacketLength(p)
BY DEF PacketLength, Word32, Word, Byte

\* An event that still has to come after a step had to come before it.
LEMMA AwaitedBefore ==
  ASSUME k' = k, source' = source, start' = start, delivered' = delivered,
         hurt \subseteq hurt', NEW i \in Events, Awaited(i)'
  PROVE  Awaited(i)
<1>1. /\ \A j : AFrame(j)' = AFrame(j) /\ BFrame(j)' = BFrame(j) /\ EndOf(j)' = EndOf(j)
      /\ Events' = Events
  BY SameTraffic
<1>2. \A j : Delivered(j)' <=> Delivered(j)
  BY <1>1 DEF Delivered
<1>3. Unhurt(i)
  BY <1>1 DEF Awaited, Unhurt
<1>4. PacketLength(From[k][i])' = PacketLength(From[k][i])
  BY SameLength
<1>5. Readable(i)
  BY <1>4 DEF Awaited, Readable
<1> QED
  BY <1>2, <1>3, <1>5 DEF Awaited

\* The places of an event in the stream, as far as the search goes by them.
LEMMA EventPlaces ==
  ASSUME SearchInv, NEW i \in Events
  PROVE  /\ k \in DOMAIN Traffic
         /\ From[k][i] \in Nat /\ EndOf(i) \in Nat /\ pos \in Nat /\ Len(Stream[k]) \in Nat
         /\ EndOf(i) >= From[k][i] + 72 /\ EndOf(i) <= Len(Stream[k])
         /\ ~Traffic[k][i].hasA => Middle(k, i) = From[k][i]
         /\ Traffic[k][i].hasA \in BOOLEAN
<1> DEFINE f == From[k][i]
           m == Middle(k, i)
           z == EndOf(i)
           p == Traffic[k][i].payload
           s == Traffic[k][i].samples
           h == Traffic[k][i].hasA
           top == Len(Stream[k])
<1>1. k \in DOMAIN Traffic
  BY DEF SearchInv
<1>2. /\ f \in Nat /\ m \in Nat /\ z \in Nat /\ p \in Nat /\ s \in Nat
      /\ h => m = f + 128 + p
      /\ ~h => m = f
      /\ h \in BOOLEAN
      /\ z = m + 72 + 4 * s /\ z <= top /\ top \in Nat
  BY <1>1, EventNumbers
<1>3. pos \in 0..top
  BY DEF SearchInv
<1> DEFINE Goal == /\ f \in Nat /\ z \in Nat /\ pos \in Nat /\ top \in Nat
                   /\ z >= f + 72 /\ z <= top
                   /\ ~h => m = f
                   /\ h \in BOOLEAN
<1> SUFFICES Goal
  BY <1>1
<1> HIDE DEF f, m, z, p, s, h, top
<1>4. m >= f
  BY <1>2
<1> QED
  BY <1>2, <1>3, <1>4

LEMMA BehindStays ==
  ASSUME SearchInv, k' = k, delivered' = delivered, pos' \in Nat, pos' >= pos,
         NEW i \in Events, Behind(i)
  PROVE  Behind(i)'
<1>1. pos \in Nat /\ EndOf(i) \in Nat
  BY EventPlaces
<1>2. AFrame(i)' = AFrame(i) /\ BFrame(i)' = BFrame(i) /\ EndOf(i)' = EndOf(i)
  BY SameTraffic
<1>3. Delivered(i)'
  BY <1>2 DEF Behind, Delivered
<1>4. pos' >= EndOf(i)
  BY <1>1 DEF Behind
<1> QED
  BY <1>2, <1>3, <1>4 DEF Behind

\* What a call in a certain step may be doing with an event.
LEMMA TrackBySteps ==
  ASSUME NEW i, OnTrack(i)
  PROVE  /\ step = "idle" => Before(i) \/ Behind(i)
         /\ step \in SyncStates => Before(i) \/ InPreamble(i) \/ Behind(i)
         /\ step \in Loops =>
              (Before(i) /\ Traffic[k][i].hasA) \/ InWhole(i) \/ Behind(i)
         /\ step = "return" =>
              \/ Before(i) /\ Traffic[k][i].hasA
              \/ AtReturn(i) /\ a = AFrame(i)
              \/ Behind(i)
<1>1. InPreamble(i) => step \in SyncStates
  BY DEF InPreamble, TrackA, TrackB, SyncStates, ByteStates, WordStates
<1>2. InFrame(i) => step \in Loops \cup {"return"}
  BY DEF InFrame, InAHeader, InAPayload, InBHeader, InBSamples, AtReturn, Loops
<1>3. InFrame(i) /\ step = "return" => AtReturn(i)
  BY DEF InFrame, InAHeader, InAPayload, InBHeader, InBSamples, AtReturn, Loops
<1>4. step \in Loops \cup {"return"} => ~(step \in SyncStates) /\ step # "idle"
  BY DEF SyncStates, ByteStates, WordStates, Loops
<1>5. "idle" \notin SyncStates
  BY DEF SyncStates, ByteStates, WordStates
<1>6. Before(i) /\ step \in Loops \cup {"return"} => Traffic[k][i].hasA
  BY DEF Before, Loops
<1>7. InWhole(i) /\ step = "return" => AtReturn(i) /\ a = AFrame(i)
  BY <1>3 DEF InWhole
<1>8. InWhole(i) => InFrame(i)
  BY DEF InWhole
<1> QED
  BY <1>1, <1>2, <1>4, <1>5, <1>6, <1>7, <1>8 DEF OnTrack

\* The search comes to the preamble of an event, and goes through it.
LEMMA TrackSync ==
  ASSUME SearchInv, NEW i \in Events, Sync, OnTrack(i)
  PROVE  OnTrack(i)'
<1> DEFINE f == From[k][i]
           h == Traffic[k][i].hasA
           o == pos - f
<1>1. /\ k \in DOMAIN Traffic /\ f \in Nat /\ pos \in Nat /\ h \in BOOLEAN
      /\ ~h => Middle(k, i) = f
  BY EventPlaces
<1>2. /\ k' = k /\ delivered' = delivered
      /\ pos' = pos + SyncSize(step) /\ step' = Found(step, pos)
      /\ step' = "A_HEADER" => a' = [from |-> pos' - 14, len |-> 14] /\ need' = 114 /\ b' = b
      /\ step' = "B_HEADER" => b' = [from |-> pos' - 8, len |-> 8] /\ need' = 64 /\ a' = a
  BY DEF Sync, Found, EVENT_HEADER_SIZE, BHeaderSize
<1>3. /\ step \in ByteStates => SyncSize(step) = 1
      /\ step \in WordStates => SyncSize(step) = 2
      /\ step \in SyncStates /\ (step \in ByteStates \/ step \in WordStates)
  BY DEF WordStates, ByteStates, SyncSize, SyncStates, Sync
<1>4. From[k'][i] = f /\ Traffic[k'][i].hasA = h
  BY <1>2
<1>5. a = Empty /\ b = Empty
  BY <1>3 DEF SearchInv
<1>6. Before(i) \/ InPreamble(i) \/ Behind(i)
  BY <1>3, TrackBySteps
<1>7. h => /\ \A s \in ByteStates : Found(s, f) = "BYTE_0"
           /\ f > 0 => \A s \in WordStates : Found(s, f - 1) = "BYTE_0"
           /\ \A s \in WordStates : Found(s, f) \in {"BYTE_0", "WORD_8000"}
           /\ Found("BYTE_0", f + 1) = "BYTE_0"
           /\ Found("BYTE_0", f + 2) = "BYTE_1"
           /\ Found("WORD_8000", f + 2) = "WORD_AAAA"
           /\ Found("BYTE_1", f + 3) = "WORD_7FFF"
           /\ Found("WORD_7FFF", f + 4) = "WORD_8000"
           /\ Found("WORD_AAAA", f + 4) = "WORD_8000"
           /\ Found("WORD_8000", f + 6) = "WORD_AAAA"
           /\ Found("WORD_AAAA", f + 8) = "WORD_8000"
           /\ Found("WORD_8000", f + 10) = "WORD_AAAA"
           /\ Found("WORD_AAAA", f + 12) = "A_HEADER"
  BY <1>1, FoundInA
<1>8. ~h => /\ Found("WORD_TEST", f) = "WORD_AAAA"
            /\ Found("WORD_AAAA", f + 2) = "WORD_8000"
            /\ Found("WORD_8000", f + 4) = "WORD_AAAA"
            /\ Found("WORD_AAAA", f + 6) = "B_HEADER"
  BY <1>1, FoundInB
<1>9. /\ pos' <= f /\ h => Before(i)'
      /\ <<pos' - f, step'>> \in TrackA /\ h => InPreamble(i)'
      /\ <<pos' - f, step'>> \in TrackB /\ ~h => InPreamble(i)'
  BY <1>4 DEF Before, InPreamble
<1>10. Before(i)' \/ InPreamble(i)' \/ InWhole(i)' \/ Behind(i)' => OnTrack(i)'
  BY DEF OnTrack
<1>11. CASE Behind(i)
  <2>1. pos' \in Nat /\ pos' >= pos
    BY <1>1, <1>2, <1>3
  <2> QED
    BY <1>2, <1>10, <1>11, <2>1, BehindStays
<1>12. CASE Before(i) /\ h
  <2>1. pos <= f
    BY <1>12 DEF Before
  <2> HIDE DEF f, h
  <2>2. CASE step \in ByteStates
    <3>1. CASE pos = f
      <4>1. pos' - f = 1 /\ step' = "BYTE_0"
        BY <1>1, <1>2, <1>3, <1>7, <1>12, <2>2, <3>1
      <4>2. <<1, "BYTE_0">> \in TrackA
        BY DEF TrackA
      <4> QED
        BY <1>9, <1>10, <1>12, <4>1, <4>2
    <3>2. CASE pos # f
      <4>1. pos' <= f
        BY <1>1, <1>2, <1>3, <2>1, <2>2, <3>2
      <4> QED
        BY <1>9, <1>10, <1>12, <4>1
    <3> QED
      BY <3>1, <3>2
  <2>3. CASE step \in WordStates
    <3>1. CASE pos = f
      <4>1. pos' - f = 2 /\ (step' = "BYTE_0" \/ step' = "WORD_8000")
        BY <1>1, <1>2, <1>3, <1>7, <1>12, <2>3, <3>1
      <4>2. <<2, "BYTE_0">> \in TrackA /\ <<2, "WORD_8000">> \in TrackA
        BY DEF TrackA
      <4> QED
        BY <1>9, <1>10, <1>12, <4>1, <4>2
    <3>2. CASE pos = f - 1
      <4>1. pos' - f = 1 /\ step' = "BYTE_0"
        BY <1>1, <1>2, <1>3, <1>7, <1>12, <2>3, <3>2
      <4>2. <<1, "BYTE_0">> \in TrackA
        BY DEF TrackA
      <4> QED
        BY <1>9, <1>10, <1>12, <4>1, <4>2
    <3>3. CASE pos # f /\ pos # f - 1
      <4>1. pos' <= f
        BY <1>1, <1>2, <1>3, <2>1, <2>3, <3>3
      <4> QED
        BY <1>9, <1>10, <1>12, <4>1
    <3> QED
      BY <3>1, <3>2, <3>3
  <2> QED
    BY <1>3, <2>2, <2>3
<1>13. CASE Before(i) /\ ~h
  <2>1. pos = f /\ step = "WORD_TEST"
    BY <1>3, <1>13 DEF Before, SyncStates, ByteStates, WordStates
  <2>2. step \in WordStates
    BY <2>1 DEF WordStates
  <2> HIDE DEF f, h
  <2>3. pos' - f = 2 /\ step' = "WORD_AAAA"
    BY <1>1, <1>2, <1>3, <1>8, <1>13, <2>1, <2>2
  <2>4. <<2, "WORD_AAAA">> \in TrackB
    BY DEF TrackB
  <2> QED
    BY <1>9, <1>10, <1>13, <2>3, <2>4
<1>14. CASE InPreamble(i) /\ h
  <2>1. <<o, step>> \in TrackA
    BY <1>14 DEF InPreamble
  <2>2. pos = f + o
    BY <1>1
  <2>3. "BYTE_0" \in ByteStates /\ "BYTE_1" \in ByteStates /\ "WORD_TEST" \in WordStates
        /\ "WORD_7FFF" \in WordStates /\ "WORD_8000" \in WordStates /\ "WORD_AAAA" \in WordStates
    BY DEF ByteStates, WordStates
  <2> HIDE DEF f, h, o
  <2>4. ASSUME NEW n \in {2, 3, 4, 6, 8, 10, 12}, NEW s, <<n, s>> \in TrackA,
               pos' - f = n, step' = s
        PROVE  OnTrack(i)'
    BY <1>9, <1>10, <1>14, <2>4
  <2>5. CASE o = 1 /\ step = "BYTE_0"
    <3>1. pos' - f = 2 /\ step' = "BYTE_0"
      BY <1>1, <1>2, <1>3, <1>7, <1>14, <2>2, <2>3, <2>5
    <3> QED
      BY <2>4, <3>1 DEF TrackA
  <2>6. CASE o = 2 /\ step = "BYTE_0"
    <3>1. pos' - f = 3 /\ step' = "BYTE_1"
      BY <1>1, <1>2, <1>3, <1>7, <1>14, <2>2, <2>3, <2>6
    <3> QED
      BY <2>4, <3>1 DEF TrackA
  <2>7. CASE o = 2 /\ step = "WORD_8000"
    <3>1. pos' - f = 4 /\ step' = "WORD_AAAA"
      BY <1>1, <1>2, <1>3, <1>7, <1>14, <2>2, <2>3, <2>7
    <3> QED
      BY <2>4, <3>1 DEF TrackA
  <2>8. CASE o = 3 /\ step = "BYTE_1"
    <3>1. pos' - f = 4 /\ step' = "WORD_7FFF"
      BY <1>1, <1>2, <1>3, <1>7, <1>14, <2>2, <2>3, <2>8
    <3> QED
      BY <2>4, <3>1 DEF TrackA
  <2>9. CASE o = 4 /\ (step = "WORD_7FFF" \/ step = "WORD_AAAA")
    <3>1. pos' - f = 6 /\ step' = "WORD_8000"
      BY <1>1, <1>2, <1>3, <1>7, <1>14, <2>2, <2>3, <2>9
    <3> QED
      BY <2>4, <3>1 DEF TrackA
  <2>10. CASE o = 6 /\ step = "WORD_8000"
    <3>1. pos' - f = 8 /\ step' = "WORD_AAAA"
      BY <1>1, <1>2, <1>3, <1>7, <1>14, <2>2, <2>3, <2>10
    <3> QED
      BY <2>4, <3>1 DEF TrackA
  <2>11. CASE o = 8 /\ step = "WORD_AAAA"
    <3>1. pos' - f = 10 /\ step' = "WORD_8000"
      BY <1>1, <1>2, <1>3, <1>7, <1>14, <2>2, <2>3, <2>11
    <3> QED
      BY <2>4, <3>1 DEF TrackA
  <2>12. CASE o = 10 /\ step = "WORD_8000"
    <3>1. pos' - f = 12 /\ step' = "WORD_AAAA"
      BY <1>1, <1>2, <1>3, <1>7, <1>14, <2>2, <2>3, <2>12
    <3> QED
      BY <2>4, <3>1 DEF TrackA
  <2>13. CASE o = 12 /\ step = "WORD_AAAA"
    <3>1. pos' = f + 14 /\ step' = "A_HEADER"
      BY <1>1, <1>2, <1>3, <1>7, <1>14, <2>2, <2>3, <2>13
    <3>2. /\ need' = 114 /\ pos' + need' = f + 128 /\ b' = Empty
          /\ a' = [from |-> f, len |-> pos' - f]
      BY <1>1, <1>2, <1>5, <3>1
    <3>3. f = From[k'][i] /\ Traffic[k'][i].hasA
      BY <1>4, <1>14
    <3>4. InAHeader(i)'
      BY <3>1, <3>2, <3>3 DEF InAHeader
    <3>5. InWhole(i)'
      BY <3>1, <3>4 DEF InWhole, InFrame
    <3> QED
      BY <1>10, <3>5
  <2> QED
    BY <2>1, <2>5, <2>6, <2>7, <2>8, <2>9, <2>10, <2>11, <2>12, <2>13 DEF TrackA
<1>15. CASE InPreamble(i) /\ ~h
  <2>1. <<o, step>> \in TrackB
    BY <1>15 DEF InPreamble
  <2>2. pos = f + o
    BY <1>1
  <2>3. "WORD_8000" \in WordStates /\ "WORD_AAAA" \in WordStates
    BY DEF WordStates
  <2>4. AFrame(i)' = Empty /\ Middle(k', i) = f
    BY <1>1, <1>2, <1>15 DEF AFrame
  <2> HIDE DEF f, h, o
  <2>5. CASE o = 2 /\ step = "WORD_AAAA"
    <3>1. pos' - f = 4 /\ step' = "WORD_8000"
      BY <1>1, <1>2, <1>3, <1>8, <1>15, <2>2, <2>3, <2>5
    <3>2. <<4, "WORD_8000">> \in TrackB
      BY DEF TrackB
    <3> QED
      BY <1>9, <1>10, <1>15, <3>1, <3>2
  <2>6. CASE o = 4 /\ step = "WORD_8000"
    <3>1. pos' - f = 6 /\ step' = "WORD_AAAA"
      BY <1>1, <1>2, <1>3, <1>8, <1>15, <2>2, <2>3, <2>6
    <3>2. <<6, "WORD_AAAA">> \in TrackB
      BY DEF TrackB
    <3> QED
      BY <1>9, <1>10, <1>15, <3>1, <3>2
  <2>7. CASE o = 6 /\ step = "WORD_AAAA"
    <3>1. pos' = f + 8 /\ step' = "B_HEADER"
      BY <1>1, <1>2, <1>3, <1>8, <1>15, <2>2, <2>3, <2>7
    <3>2. /\ need' \in 1..72 /\ pos' + need' = f + 72 /\ pos' > f
          /\ b'.len = pos' - f /\ b'.from = f /\ a' = Empty
      BY <1>1, <1>2, <1>5, <3>1
    <3>3. f = From[k'][i]
      BY <1>4
    <3>4. InBHeader(i)'
      BY <2>4, <3>1, <3>2, <3>3 DEF InBHeader
    <3>5. InWhole(i)'
      BY <2>4, <3>2, <3>4 DEF InWhole, InFrame
    <3> QED
      BY <1>10, <3>5
  <2> QED
    BY <2>1, <2>5, <2>6, <2>7 DEF TrackB
<1> QED
  BY <1>6, <1>11, <1>12, <1>13, <1>14, <1>15

\* Nothing was lost between the first byte of an event that is awaited and its last.
LEMMA AwaitedWhole ==
  ASSUME SearchInv, k' = k, NEW i \in Events, Awaited(i)', NEW p \in hurt', p \in Int
  PROVE  ~(From[k][i] <= p /\ p < EndOf(i))
<1>1. From[k][i] \in Nat /\ EndOf(i) \in Nat
  BY EventPlaces
<1>2. EndOf(i)' = EndOf(i)
  BY SameTraffic
<1>3. hurt' \cap (From[k][i])..(EndOf(i) - 1) = {}
  BY <1>2 DEF Awaited, Unhurt
<1>4. From[k][i] <= p /\ p < EndOf(i) => p \in (From[k][i])..(EndOf(i) - 1)
  BY <1>1
<1> QED
  BY <1>3, <1>4

LEMMA TrackSplit ==
  ASSUME SearchInv, NEW i \in Events, SyncSplit, OnTrack(i), Awaited(i)'
  PROVE  OnTrack(i)'
<1> DEFINE f == From[k][i]
           h == Traffic[k][i].hasA
           z == EndOf(i)
<1>1. f \in Nat /\ z \in Nat /\ pos \in Nat /\ z >= f + 72
  BY EventPlaces
<1>2. /\ k' = k /\ delivered' = delivered /\ pos' = pos + 1 /\ pos \in hurt'
      /\ step' = step /\ step \in SyncStates
  BY DEF SyncSplit, SyncStates
<1>3. ~(f <= pos /\ pos < z)
  BY <1>1, <1>2, AwaitedWhole
<1>4. Before(i) \/ InPreamble(i) \/ Behind(i)
  BY <1>2, TrackBySteps
<1>5. CASE Behind(i)
  BY <1>1, <1>2, <1>5, BehindStays DEF OnTrack
<1>6. CASE Before(i)
  <2>1. pos <= f /\ (h \/ pos = f)
    BY <1>6 DEF Before
  <2>2. From[k'][i] = f /\ Traffic[k'][i].hasA = h
    BY <1>2
  <2> HIDE DEF f, h, z
  <2>3. pos # f
    BY <1>1, <1>3
  <2>4. pos' <= f /\ h
    BY <1>1, <1>2, <2>1, <2>3
  <2> QED
    BY <2>2, <2>4 DEF OnTrack, Before
<1>7. CASE InPreamble(i)
  <2>1. pos - f \in 1..12
    BY <1>7 DEF InPreamble, TrackA, TrackB
  <2> HIDE DEF f, h, z
  <2> QED
    BY <1>1, <1>3, <2>1
<1> QED
  BY <1>4, <1>5, <1>6, <1>7

LEMMA TrackTakes ==
  ASSUME SearchInv, NEW i \in Events, LoopFull \/ LoopPart \/ LoopLast,
         Awaited(i), OnTrack(i)
  PROVE  OnTrack(i)'
<1> DEFINE f == From[k][i]
           h == Traffic[k][i].hasA
           z == EndOf(i)
<1>1. /\ f \in Nat /\ z \in Nat /\ pos \in Nat /\ z >= f + 72 /\ k \in DOMAIN Traffic
  BY EventPlaces
<1>2. PICK j \in Events, n \in 0..need :
        InFrame(j) /\ step \in Loops /\ (n > 0 \/ need = 0) /\ Take(n)
  BY LoopTakes
<1>3. /\ need \in Nat /\ From[k][j] < pos /\ pos < EndOf(j) /\ pos' = pos + n
      /\ pos' <= EndOf(j)
  BY <1>1, <1>2, NeedIs, TakeStep
<1>4. k' = k /\ delivered' = delivered /\ From[k'][i] = f /\ Traffic[k'][i].hasA = h
  BY <1>2, TakeIs
<1>5. (Before(i) /\ h) \/ InWhole(i) \/ Behind(i)
  BY <1>2, TrackBySteps
<1>6. CASE Behind(i)
  <2>1. pos' \in Nat /\ pos' >= pos
    BY <1>1, <1>2, <1>3
  <2> QED
    BY <1>4, <1>6, <2>1, BehindStays DEF OnTrack
<1>7. CASE Before(i) /\ h
  <2>1. pos <= f
    BY <1>7 DEF Before
  <2>2. From[k][j] \in Nat /\ EndOf(j) \in Nat /\ i \in Nat /\ j \in Nat
    BY <1>1, EventsAre
  <2>3. j < i
    <3>1. CASE i = j
      BY <1>1, <1>3, <2>1, <3>1
    <3>2. CASE i < j
      <4>1. z <= From[k][j]
        BY <1>1, <3>2, EventsAre
      <4> HIDE DEF f, z
      <4> QED
        BY <1>1, <1>3, <2>1, <2>2, <4>1
    <3> QED
      BY <2>2, <3>1, <3>2
  <2>4. EndOf(j) <= f
    BY <1>1, <2>3, EventsAre
  <2>5. pos' <= f
    <3> HIDE DEF f
    <3> QED
      BY <1>1, <1>2, <1>3, <2>2, <2>4
  <2> QED
    BY <1>4, <1>7, <2>5 DEF OnTrack, Before
<1>8. CASE InWhole(i)
  <2>1. InFrame(i) /\ (step \in {"A_HEADER", "A_PAYLOAD"} \/ a = AFrame(i))
    BY <1>8 DEF InWhole
  <2>2. \/ /\ InFrame(i)' /\ step' \in Loops \cup {"return"}
           /\ (step \in {"A_HEADER", "A_PAYLOAD"} \/ a = AFrame(i)) =>
                (step' \in {"A_HEADER", "A_PAYLOAD"} \/ a' = AFrame(i))
        \/ step' = "idle" /\ h /\ PacketLength(f) = 0
    BY <1>1, <1>2, <2>1, TakeStep
  <2>3. ~(h /\ PacketLength(f) = 0)
    BY DEF Awaited, Readable
  <2>4. AFrame(i)' = AFrame(i)
    BY <1>4, SameTraffic
  <2> QED
    BY <2>1, <2>2, <2>3, <2>4 DEF OnTrack, InWhole
<1> QED
  BY <1>5, <1>6, <1>7, <1>8

\* A call that ends without an event.
LEMMA TrackEnds ==
  ASSUME SearchInv, NEW i \in Events, ReceiveZero \/ ReceiveTimeout \/ EndOfFile,
         Awaited(i), Awaited(i)', OnTrack(i)
  PROVE  OnTrack(i)'
<1> DEFINE f == From[k][i]
           h == Traffic[k][i].hasA
           z == EndOf(i)
           top == Len(Stream[k])
<1>1. /\ f \in Nat /\ z \in Nat /\ pos \in Nat /\ z >= f + 72 /\ z <= top /\ top \in Nat
      /\ k \in DOMAIN Traffic /\ pos <= top
  <2>1. pos \in 0..top
    BY DEF SearchInv
  <2>2. top \in Nat
    BY EventPlaces
  <2>3. pos <= top
    BY <2>1, <2>2
  <2> QED
    BY <2>3, EventPlaces
<1>2. /\ k' = k /\ delivered' = delivered /\ step' = "idle" /\ step \in SyncStates \cup Loops
      /\ From[k'][i] = f /\ Traffic[k'][i].hasA = h
  BY DEF ReceiveZero, ReceiveTimeout, EndOfFile, Busy
<1>3. Before(i) \/ InPreamble(i) \/ InWhole(i) \/ Behind(i)
  BY DEF OnTrack
<1>4. InPreamble(i) => step \in SyncStates /\ pos - f \in 1..12
  BY DEF InPreamble, TrackA, TrackB, SyncStates, ByteStates, WordStates
<1>5. InWhole(i) => /\ step \in Loops /\ f < pos /\ pos < z
                    /\ need = 0 => h /\ Traffic[k][i].payload = 0
  <2>1. ASSUME InWhole(i) PROVE InFrame(i) /\ step \in Loops
    BY <1>2, <2>1 DEF InWhole, InFrame, InAHeader, InAPayload, InBHeader, InBSamples,
                      AtReturn, Loops, SyncStates, ByteStates, WordStates
  <2> QED
    BY <1>1, <2>1, NeedIs
<1>6. CASE Behind(i)
  <2>1. pos' \in Nat /\ pos' >= pos
    BY <1>1 DEF ReceiveZero, ReceiveTimeout, EndOfFile
  <2> QED
    BY <1>2, <1>6, <2>1, BehindStays DEF OnTrack
<1>7. ASSUME Before(i), pos' = pos PROVE OnTrack(i)'
  BY <1>2, <1>7 DEF OnTrack, Before
<1>8. CASE ReceiveZero
  <2>1. pos' = pos /\ need = 0 /\ source = "socket" /\ step \in Loops
    BY <1>8 DEF ReceiveZero
  <2>2. ~InWhole(i)
    <3>1. h => Traffic[k][i].payload > 0
      BY <2>1 DEF Awaited, Readable
    <3>2. Traffic[k][i].payload \in Nat
      BY <1>1, EventNumbers
    <3> QED
      BY <1>5, <2>1, <3>1, <3>2
  <2>3. ~InPreamble(i)
    BY <1>4, <2>1 DEF Loops, SyncStates, ByteStates, WordStates
  <2> QED
    BY <1>3, <1>6, <1>7, <2>1, <2>2, <2>3
<1>9. CASE ReceiveTimeout
  <2>1. /\ pos' = pos
        /\ top - pos = 0 \/ pos - 1 \in hurt'
    BY <1>9 DEF ReceiveTimeout, Available
  <2>2. ~(f <= pos - 1 /\ pos - 1 < z) \/ top - pos = 0
    BY <1>1, <1>2, <2>1, AwaitedWhole
  <2>3. ~InPreamble(i) /\ ~InWhole(i)
    <3> HIDE DEF f, z, top, h
    <3>1. ~(pos - f \in 1..12)
      BY <1>1, <2>2
    <3>2. ~(f < pos /\ pos < z)
      BY <1>1, <2>2
    <3> QED
      BY <1>4, <1>5, <3>1, <3>2
  <2> QED
    BY <1>3, <1>6, <1>7, <2>1, <2>3
<1>10. CASE EndOfFile
  <2>1. /\ step \in SyncStates => top - pos < SyncSize(step)
        /\ step \notin SyncStates => top - pos < need
    BY <1>10 DEF EndOfFile, Available
  <2>2. CASE step \in SyncStates
    <3>1. top - pos <= 1
      BY <1>1, <2>1, <2>2 DEF SyncSize
    <3>2. step \notin Loops
      BY <2>2 DEF Loops, SyncStates, ByteStates, WordStates
    <3>3. Before(i) => pos <= f
      BY DEF Before
    <3> HIDE DEF f, z, top, h
    <3>4. ~(pos <= f) /\ ~(pos - f \in 1..12)
      BY <1>1, <3>1
    <3> QED
      BY <1>3, <1>4, <1>5, <1>6, <3>2, <3>3, <3>4
  <2>3. CASE step \in Loops
    <3>1. PICK j \in Events : InFrame(j)
      BY <2>3 DEF SearchInv
    <3>2. need \in Nat /\ pos + need <= EndOf(j) /\ EndOf(j) <= top /\ EndOf(j) \in Nat
      BY <1>1, <2>3, <3>1, NeedIs, EventsAre
    <3>3. step \notin SyncStates
      BY <2>3 DEF Loops, SyncStates, ByteStates, WordStates
    <3>4. top - pos < need
      BY <2>1, <3>3
    <3> HIDE DEF top
    <3> QED
      BY <1>1, <3>2, <3>4
  <2> QED
    BY <1>2, <2>2, <2>3
<1> QED
  BY <1>8, <1>9, <1>10

LEMMA TrackCall ==
  ASSUME SearchInv, NEW i \in Events, Call, OnTrack(i)
  PROVE  OnTrack(i)'
<1>1. /\ step = "idle" /\ step' = "WORD_TEST" /\ k' = k /\ delivered' = delivered /\ pos' = pos
  BY DEF Call
<1>2. Before(i) \/ Behind(i)
  BY <1>1, TrackBySteps
<1>3. CASE Before(i)
  BY <1>1, <1>3 DEF OnTrack, Before
<1>4. CASE Behind(i)
  <2>1. pos \in Nat
    BY EventPlaces
  <2> QED
    BY <1>1, <1>4, <2>1, BehindStays DEF OnTrack
<1> QED
  BY <1>2, <1>3, <1>4

\* An event is returned: the next one may be awaited from now on.
LEMMA TrackReturn ==
  ASSUME SearchInv, DeliveredInv, Return, NEW i \in Events, Awaited(i)',
         Awaited(i) => OnTrack(i)
  PROVE  OnTrack(i)'
<1> DEFINE f == From[k][i]
           h == Traffic[k][i].hasA
           z == EndOf(i)
<1>1. /\ step = "return" /\ step' = "idle" /\ k' = k /\ pos' = pos /\ source' = source
      /\ hurt' = hurt /\ start' = start
  BY DEF Return
<1>2. /\ f \in Nat /\ z \in Nat /\ pos \in Nat /\ k \in DOMAIN Traffic
  BY EventPlaces
<1>3. PICK j \in Events : pos = EndOf(j) /\ b = BFrame(j)
  BY Returned
<1>4. \A e \in Events : Delivered(e)' <=> Delivered(e) \/ (a = AFrame(e) /\ b = BFrame(e))
  BY Returned
<1>5. /\ EndOf(i)' = z /\ Events' = Events /\ From[k'][i] = f /\ Traffic[k'][i] = Traffic[k][i]
  BY <1>1, SameTraffic
<1>6. Unhurt(i) /\ Readable(i) /\ source # "none"
  <2>1. PacketLength(f)' = PacketLength(f)
    BY <1>1, SameLength
  <2>2. Unhurt(i)
    BY <1>1, <1>5 DEF Awaited, Unhurt
  <2>3. Readable(i)
    BY <1>1, <2>1 DEF Awaited, Readable
  <2> QED
    BY <1>1, <2>2, <2>3 DEF Awaited
<1>7. CASE Awaited(i)
  <2>1. \/ Before(i) /\ h
        \/ AtReturn(i) /\ a = AFrame(i)
        \/ Behind(i)
    BY <1>1, <1>7, TrackBySteps
  <2>2. CASE Before(i) /\ h
    BY <1>1, <1>5, <2>2 DEF OnTrack, Before
  <2>3. CASE AtReturn(i) /\ a = AFrame(i)
    <3>1. pos = z /\ b = BFrame(i)
      BY <2>3 DEF AtReturn
    <3>2. Delivered(i)'
      BY <1>4, <2>3, <3>1
    <3>3. pos' >= z
      BY <1>1, <1>2, <3>1
    <3> QED
      BY <1>5, <3>2, <3>3 DEF OnTrack, Behind
  <2>4. CASE Behind(i)
    <3>1. Delivered(i)'
      BY <1>4, <2>4 DEF Behind
    <3> QED
      BY <1>1, <1>5, <2>4, <3>1 DEF OnTrack, Behind
  <2> QED
    BY <2>1, <2>2, <2>3, <2>4
<1>8. CASE ~Awaited(i)
  <2>1. ~h /\ i > 1 /\ Delivered(i - 1)' /\ ~Delivered(i - 1) /\ Traffic[k][i].noise = <<>>
    BY <1>1, <1>6, <1>8 DEF Awaited
  <2>2. i - 1 \in Events
    <3>1. i \in Nat \ {0} /\ \A e \in 1..i : e \in Events
      BY <1>2, EventsAre
    <3>2. i - 1 \in 1..i
      BY <2>1, <3>1
    <3> QED
      BY <3>1, <3>2
  <2>3. BFrame(i - 1) = BFrame(j)
    BY <1>3, <1>4, <2>1, <2>2
  <2>4. EndOf(i - 1) = pos
    BY <1>3, <2>3 DEF EndOf
  <2>5. f = pos
    BY <1>2, <2>1, <2>2, <2>4, EventsAre
  <2>6. pos' <= f
    BY <1>1, <1>2, <2>5
  <2> QED
    BY <1>1, <1>5, <2>5, <2>6 DEF OnTrack, Before
<1> QED
  BY <1>7, <1>8

\* A new connection or file: every event that is awaited is still to come.
LEMMA TrackBegins ==
  ASSUME SearchInv, k' = k, delivered' = <<>>, start' = pos', pos' \in Nat,
         step' = "idle"
  PROVE  TrackInv'
<1>1. \A i : ~Delivered(i)'
  BY DEF Delivered, ToSet
<1>2. ASSUME NEW i \in Events, Awaited(i)' PROVE OnTrack(i)'
  <2>1. From[k][i] \in Nat
    BY EventPlaces
  <2>2. Traffic[k'][i].hasA /\ From[k'][i] >= start'
    BY <1>1, <1>2 DEF Awaited, Unhurt
  <2>3. pos' <= From[k'][i]
    BY <2>1, <2>2
  <2> QED
    BY <2>2, <2>3 DEF OnTrack, Before
<1> QED
  BY <1>2 DEF TrackInv, Events

LEMMA TrackStep ==
  ASSUME SearchInv, DeliveredInv, TrackInv, Next
  PROVE  TrackInv'
<1>1. Len(Stream[k]) \in Nat /\ pos \in 0..Len(Stream[k]) /\ pos \in Nat /\ k \in DOMAIN Traffic
  BY EventsAre DEF SearchInv
<1>2. CASE Call \/ Sync \/ SyncSplit \/ LoopFull \/ LoopPart \/ LoopLast
           \/ ReceiveZero \/ ReceiveTimeout \/ EndOfFile
  <2>1. /\ k' = k /\ source' = source /\ start' = start /\ delivered' = delivered
        /\ hurt \subseteq hurt'
    <3>1. CASE LoopFull \/ LoopPart \/ LoopLast
      <4>1. PICK j \in Events, n \in 0..need : Take(n)
        BY <3>1, LoopTakes
      <4> QED
        BY <4>1, TakeIs
    <3>2. CASE Call \/ Sync
      BY <3>2 DEF Call, Sync
    <3>3. CASE SyncSplit
      BY <3>3 DEF SyncSplit
    <3>4. CASE ReceiveZero \/ EndOfFile
      BY <3>4 DEF ReceiveZero, EndOfFile
    <3>5. CASE ReceiveTimeout
      BY <3>5 DEF ReceiveTimeout
    <3> QED
      BY <1>2, <3>1, <3>2, <3>3, <3>4, <3>5
  <2>2. ASSUME NEW i \in Events, Awaited(i)' PROVE OnTrack(i)'
    <3>1. Awaited(i)
      BY <2>1, <2>2, AwaitedBefore
    <3>2. OnTrack(i)
      BY <3>1 DEF TrackInv
    <3>3. CASE Call
      BY <3>2, <3>3, TrackCall
    <3>4. CASE Sync
      BY <3>2, <3>4, TrackSync
    <3>5. CASE SyncSplit
      BY <2>2, <3>2, <3>5, TrackSplit
    <3>6. CASE LoopFull \/ LoopPart \/ LoopLast
      BY <3>1, <3>2, <3>6, TrackTakes
    <3>7. CASE ReceiveZero \/ ReceiveTimeout \/ EndOfFile
      BY <2>2, <3>1, <3>2, <3>7, TrackEnds
    <3> QED
      BY <1>2, <3>3, <3>4, <3>5, <3>6, <3>7
  <2> QED
    BY <2>1, <2>2 DEF TrackInv, Events
<1>3. CASE Return
  <2>1. ASSUME NEW i \in Events, Awaited(i)' PROVE OnTrack(i)'
    BY <1>3, <2>1, TrackReturn DEF TrackInv
  <2>2. Events' = Events
    BY <1>3 DEF Return, Events
  <2> QED
    BY <2>1, <2>2 DEF TrackInv
<1>4. CASE DeviceConnect \/ FileOpen
  <2>1. k' = k /\ delivered' = <<>> /\ start' = pos' /\ step' = step /\ source = "none"
    BY <1>4 DEF DeviceConnect, FileOpen
  <2>2. pos' \in Nat
    BY <1>1, <1>4 DEF DeviceConnect, FileOpen, DevicePurgeData
  <2>3. step' = "idle"
    BY <2>1 DEF SearchInv
  <2> QED
    BY <2>1, <2>2, <2>3, TrackBegins
<1>5. CASE DeviceDisconnect \/ FileClose
  <2>1. source' = "none"
    BY <1>5 DEF DeviceDisconnect, FileClose
  <2> QED
    BY <2>1 DEF TrackInv, Awaited
<1> QED
  BY <1>2, <1>3, <1>4, <1>5 DEF Next, DataReceive

\* What the invariants say when a call has ended.
LEMMA TrackedCome ==
  ASSUME SearchInv, TrackInv
  PROVE  IntactEventsCome
<1> SUFFICES ASSUME NEW i \in Events, step = "idle", source # "none", pos >= EndOf(i),
                    Unhurt(i), Readable(i),
                    Traffic[k][i].hasA \/ (i > 1 /\ Unhurt(i - 1) /\ Delivered(i - 1)
                                             /\ Traffic[k][i].noise = <<>>)
             PROVE  Delivered(i)
  BY DEF IntactEventsCome
<1>1. Before(i) \/ Behind(i)
  <2>1. Awaited(i)
    BY DEF Awaited
  <2>2. OnTrack(i)
    BY <2>1 DEF TrackInv
  <2> QED
    BY <2>2, TrackBySteps
<1>2. ~Before(i)
  <2>1. From[k][i] \in Nat /\ EndOf(i) \in Nat /\ pos \in Nat /\ EndOf(i) >= From[k][i] + 72
    BY EventPlaces
  <2>2. Before(i) => pos <= From[k][i]
    BY DEF Before
  <2> QED
    BY <2>1, <2>2
<1> QED
  BY <1>1, <1>2 DEF Behind

LEMMA DataBegins ==
  ASSUME Init
  PROVE  SearchInv /\ DeliveredInv /\ TrackInv
<1>1. Len(Stream[k]) \in Nat
  BY EventsAre DEF Init
<1>2. SearchInv
  BY <1>1 DEF Init, SearchInv, SyncStates, ByteStates, WordStates, Loops
<1>3. ToSet(delivered) = {} /\ delivered \in Seq([a : Buffers, b : Buffers])
  BY DEF Init, ToSet
<1>4. DeliveredInv
  BY <1>3 DEF Init, DeliveredInv, DeliveredWhole, Delivered
<1>5. TrackInv
  BY DEF Init, TrackInv, Awaited
<1> QED
  BY <1>2, <1>4, <1>5

(***************************************************************************)
(* The invariant of the trolley's data, and what follows from it.          *)
(***************************************************************************)
DataInv == SearchInv /\ DeliveredInv /\ TrackInv

LEMMA DataStays ==
  ASSUME DataInv, UNCHANGED vars
  PROVE  DataInv'
<1>1. /\ k' = k /\ source' = source /\ pos' = pos /\ step' = step /\ need' = need
      /\ a' = a /\ b' = b /\ delivered' = delivered /\ start' = start /\ hurt' = hurt
  BY DEF vars
<1>2. /\ \A i : AFrame(i)' = AFrame(i) /\ BFrame(i)' = BFrame(i) /\ EndOf(i)' = EndOf(i)
      /\ Events' = Events
  BY <1>1, SameTraffic
<1>3. \A i : InFrame(i)' <=> InFrame(i)
  <2>1. \A i : /\ InAHeader(i)' <=> InAHeader(i)
               /\ InAPayload(i)' <=> InAPayload(i)
    BY <1>1 DEF InAHeader, InAPayload
  <2>2. \A i : InBHeader(i)' <=> InBHeader(i)
    BY <1>1, <1>2 DEF InBHeader
  <2>3. \A i : /\ InBSamples(i)' <=> InBSamples(i)
               /\ AtReturn(i)' <=> AtReturn(i)
    BY <1>1, <1>2 DEF InBSamples, AtReturn
  <2> QED
    BY <2>1, <2>2, <2>3 DEF InFrame
<1>4. SearchInv'
  BY <1>1, <1>2, <1>3 DEF DataInv, SearchInv
<1>5. \A i : Delivered(i)' <=> Delivered(i)
  BY <1>1, <1>2 DEF Delivered
<1>6. DeliveredInv'
  BY <1>1, <1>2, <1>5 DEF DataInv, DeliveredInv, DeliveredWhole
<1>7. \A i \in Events : Awaited(i)' => Awaited(i)
  <2>1. hurt \subseteq hurt'
    BY <1>1
  <2> QED
    BY <1>1, <2>1, AwaitedBefore
<1>8. \A i : OnTrack(i) => OnTrack(i)'
  BY <1>1, <1>2, <1>3, <1>5 DEF OnTrack, Before, InPreamble, InWhole, Behind
<1>9. TrackInv'
  BY <1>2, <1>7, <1>8 DEF DataInv, TrackInv
<1> QED
  BY <1>4, <1>6, <1>9 DEF DataInv

LEMMA DataInvariant == MCSpec => []DataInv
<1>1. MCInit => DataInv
  BY DataBegins DEF MCInit, DataInv
<1>2. DataInv /\ [MCNext]_<<part, vars, tcp, control, generator, library>> => DataInv'
  <2>1. [MCNext]_<<part, vars, tcp, control, generator, library>> => Next \/ UNCHANGED vars
    BY DEF MCNext
  <2> QED
    BY <2>1, SearchStep, DeliveredStep, TrackStep, DataStays DEF DataInv
<1> QED
  BY <1>1, <1>2, PTL DEF MCSpec

\* Whatever the trolley sends, wherever the network cuts it and whichever reads
\* time out: an event DataReceive() returns without an error is one that was
\* sent, from the first byte of its frames to the last.
THEOREM DeliveredWholeCorrect == MCSpec => []DeliveredWhole
<1>1. DataInv => DeliveredWhole
  BY DEF DataInv, DeliveredInv
<1> QED
  BY <1>1, DataInvariant, PTL

\* After noise, the rest of an event that was cut, or a frame that was refused, the
\* search of DataReceive() finds the next event: the shifted words of a preamble
\* never lead it past the preamble's end.
THEOREM IntactEventsComeCorrect == MCSpec => []IntactEventsCome
<1>1. DataInv => IntactEventsCome
  BY TrackedCome DEF DataInv
<1> QED
  BY <1>1, DataInvariant, PTL
=============================================================================
