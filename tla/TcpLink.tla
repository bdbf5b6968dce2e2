------------------------------ MODULE TcpLink ------------------------------
(***************************************************************************)
(* A control connection of TCPDrivers.cxx and the device at its other end. *)
(*                                                                         *)
(* A client writes a command and reads the answer from a stream.  A read   *)
(* waits with select() for a limited time and then returns what is there,  *)
(* up to what was asked for: an answer may be late, and then it is what    *)
(* the next read finds, and it may come in parts.  Nothing in the stream   *)
(* says where an answer begins; the device answers its commands in order,  *)
(* with the bytes [to |-> command, byte |-> 1..n].                         *)
(***************************************************************************)
EXTENDS Integers, Sequences, SequencesExt

CONSTANTS
  Addresses,     \* registers of the device, or quantities of an instrument
  Seams,         \* after how many bytes a read may stop short
  MaxCalls       \* bound: calls of the program

VARIABLES
  up,            \* the handle is a socket (it is 1 after a failed connect)
  commands,      \* the commands the device got, in order
  unanswered,    \* numbers of those it has not answered yet
  wire,          \* the bytes of its answers that were not read
  slipped,       \* history: since the connection, a read came too early
                 \* or returned a part of what it was asked for
  calls          \* bound: calls so far

link == <<up, commands, unanswered, wire, slipped, calls>>

LinkInit ==
  /\ up = FALSE /\ commands = <<>> /\ unanswered = <<>> /\ wire = <<>>
  /\ slipped = FALSE /\ calls = 0

NewCall == calls < MaxCalls /\ calls' = calls + 1

\* select() on the new socket answers for it, or not in time.
ConnectToTCPServer ==
  /\ up' \in BOOLEAN
  /\ unanswered' = <<>> /\ wire' = <<>> /\ slipped' = FALSE
  /\ UNCHANGED commands

DisconnectFromTCPServer ==
  /\ up' = FALSE /\ unanswered' = <<>> /\ wire' = <<>>
  /\ UNCHANGED <<commands, slipped, calls>>

\* The write of a command: all of it, or nothing and an error.  A handle
\* that is no socket (descriptor 1) takes the bytes as well.
ClientTCPWrite(c, ok) ==
  IF ok /\ up
  THEN /\ commands' = Append(commands, c)
       /\ unanswered' = Append(unanswered, Len(commands) + 1)
       /\ UNCHANGED <<up, wire, slipped, calls>>
  ELSE UNCHANGED link

\* What a read of up to n bytes may bring: all that was sent, the part of it
\* that has arrived, or nothing when select() times out.
Portions(n) ==
  LET most == IF Len(wire) < n THEN Len(wire) ELSE n
  IN  {0, most} \cup {s \in Seams : s < most}

\* A read of up to n bytes that brings got of them, when the caller wanted
\* at least enough.
ClientTCPRead(n, got, enough) ==
  /\ got \in Portions(n)
  /\ wire' = SubSeq(wire, got + 1, Len(wire))
  /\ slipped' = (slipped \/ got < enough)
  /\ UNCHANGED <<up, commands, unanswered, calls>>

\* The device (external): its answer to the oldest command, of size bytes.
Answer(size) ==
  /\ unanswered # <<>>
  /\ wire' = wire \o [i \in 1..size |-> [to |-> Head(unanswered), byte |-> i]]
  /\ unanswered' = Tail(unanswered)
  /\ UNCHANGED <<up, commands, slipped, calls>>

=============================================================================
