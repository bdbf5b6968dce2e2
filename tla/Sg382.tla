------------------------------- MODULE Sg382 -------------------------------
(***************************************************************************)
(* The RF generator (Sg382Interface.cxx): text commands over a TcpLink.    *)
(* A query writes its text and reads up to 256 bytes; nothing looks at     *)
(* what the write or the read returned, and every call returns 0.  An      *)
(* answer is a text of TextBytes on the wire.                              *)
(***************************************************************************)
EXTENDS TcpLink

VARIABLES
  phase,      \* "idle", "write", "read"
  running,    \* the command of the running call
  asked,      \* the number it got at the generator, 0: it never came there
  value       \* what the last query gave its caller: [of, from]

ctrl == <<phase, running, asked, value>>
vars == <<link, ctrl>>

Buffer == 256           \* char buffer[256]
TextBytes == 2          \* bound: enough for a text that comes in two parts
NoValue == [of |-> 0, from |-> 0]

GetFrequency == [what |-> "FREQ", query |-> TRUE]
GetAmplitude == [what |-> "AMPR", query |-> TRUE]
GetStatus    == [what |-> "ENBR", query |-> TRUE]
SetFrequency == [what |-> "FREQ", query |-> FALSE]
SetAmplitude == [what |-> "AMPR", query |-> FALSE]
SwitchRF     == [what |-> "ENBR", query |-> FALSE]

Programs == {GetFrequency, GetAmplitude, GetStatus,
             SetFrequency, SetAmplitude, SwitchRF}

Sg382Connect ==
  /\ phase = "idle" /\ ~up /\ NewCall
  /\ ConnectToTCPServer
  /\ value' = NoValue /\ UNCHANGED <<phase, running, asked>>

Sg382Disconnect ==
  /\ phase = "idle" /\ up
  /\ DisconnectFromTCPServer
  /\ value' = NoValue /\ UNCHANGED <<phase, running, asked>>

Call ==
  /\ phase = "idle" /\ NewCall
  /\ \E c \in Programs : running' = c
  /\ phase' = "write" /\ value' = NoValue
  /\ UNCHANGED <<up, commands, unanswered, wire, slipped, asked>>

\* Seeded fault: the status query does not wait for its answer.
Write_NoWait ==
  /\ phase = "write"
  /\ \E ok \in BOOLEAN :
       /\ ClientTCPWrite(running, ok)
       /\ asked' = IF ok /\ up THEN Len(commands') ELSE 0
  /\ phase' = IF running.query /\ running.what # "ENBR" THEN "read" ELSE "idle"
  /\ UNCHANGED <<running, value>>

Write ==
  /\ phase = "write"
  /\ \E ok \in BOOLEAN :
       /\ ClientTCPWrite(running, ok)
       /\ asked' = IF ok /\ up THEN Len(commands') ELSE 0
  /\ phase' = IF running.query THEN "read" ELSE "idle"
  /\ UNCHANGED <<running, value>>

\* The buffer keeps what it held when nothing comes, and a number is read
\* from its beginning.
Read ==
  /\ phase = "read"
  /\ \E got \in Portions(Buffer) :
       /\ ClientTCPRead(Buffer, got, TextBytes)
       /\ value' = [of |-> asked, from |-> IF got = 0 THEN 0 ELSE Head(wire).to]
  /\ phase' = "idle" /\ UNCHANGED <<running, asked>>

AnswerSize(c) == IF c.query THEN TextBytes ELSE 0
GeneratorAnswers ==
  /\ unanswered # <<>>
  /\ Answer(AnswerSize(commands[Head(unanswered)])) /\ UNCHANGED ctrl

Init ==
  /\ LinkInit
  /\ phase = "idle" /\ running = GetFrequency /\ asked = 0 /\ value = NoValue

Next ==
  \/ Sg382Connect \/ Sg382Disconnect \/ Call \/ Write \/ Read \/ GeneratorAnswers

Spec == Init /\ [][Next]_vars

(***************************************************************************)
(* Property.                                                               *)
(***************************************************************************)

\* As long as no query of the connection found less than an answer in the
\* stream, the number a query gives its caller is the answer to that query:
\* after the first answer that was late or split nothing says that it is not.
OwnAnswerInStep ==
  value.from # 0 /\ ~slipped => value.from = value.of

=============================================================================
