----------------------------- MODULE MCNetwork ------------------------------
(* The network clients for TLC.  A run of the program uses one of them: the *)
(* variable part says which, and the variables of the others stay put.      *)
EXTENDS TrolleyData

CONSTANTS Addresses, ReadSeams, MaxCalls, NMRWords, Fields, Anything,
                                                           \* the two of TCPDrivers
          Users, Address, VXI11_MAX_CLIENTS, MaxOpens, MaxQueries, MaxFails

ASSUME NetworkAssumption ==
  /\ NMRWords \in Nat /\ ReadSeams \subseteq Nat
  /\ IsFiniteSet(Users) /\ VXI11_MAX_CLIENTS \in Nat

VARIABLES
  part,
  up, commands, unanswered, wire, slipped, calls, phase,  \* a TcpLink's client
  todo, ask, rest, rx, last, torn,                        \* the trolley's control
  running, numbered, value,                               \* the generator
  VXI11_IP_ADDRESS, VXI11_CLIENT_ADDRESS, VXI11_LINK_COUNT, VXI11_DEVICE_NO,
  clink, alive, stage, user, lost, buffer, rc, output, opens, asked, fails, crashed

Trolley == INSTANCE TrolleyControl WITH Seams <- ReadSeams
Generator == INSTANCE Sg382 WITH Seams <- ReadSeams, asked <- numbered
Instruments == INSTANCE Vxi11 WITH step <- stage

\* The empty address marks a slot that is free.
ASSUME AddressAssumption == \A u \in Users : Address[u] # Instruments!NoAddress

(***************************************************************************)
(* What a trolley may send: with and without A frames, with noise.         *)
(***************************************************************************)
Event(noise, payload, flash, samples) ==
  [noise |-> noise, hasA |-> TRUE, payload |-> payload, flash |-> flash,
   length |-> EVENT_HEADER_SIZE + payload + (IF flash > 0 THEN 2 ELSE 0),
   samples |-> samples]
BOnly(noise, samples) ==
  [noise |-> noise, hasA |-> FALSE, payload |-> 0, flash |-> 0, length |-> 0,
   samples |-> samples]
Refused == [Event(<<>>, 4, 0, 1) EXCEPT !.length = EVENT_HEADER_SIZE - 1]

MCTraffic ==
  << <<Event(<<>>, 6, 0, 1), Event(<<>>, 5, 3, 0), Event(<<0>>, 4, 0, 2)>>,
     <<Event(<<17>>, 4, 0, 0), BOnly(<<>>, 1), Event(<<0, 128>>, 4, 2, 1)>>,
     <<Refused, Event(<<0, 128, 255>>, 3, 0, 1), BOnly(<<>>, 0)>>,
     <<Event(<<>>, 0, 0, 1), Event(<<>>, 2, 0, 1)>> >>

\* Two instrument interfaces of one address, and one of another.
SameAddressPairs == [u \in Users |-> IF u = "u3" THEN "b" ELSE "a"]

MCSeams == {-3, -1, 1, 2, 3, 13, 15, 130, 133, 136, 150}

(***************************************************************************)
(* One of the four clients.                                                *)
(***************************************************************************)
control == <<todo, ask, rest, rx, last, torn>>
generator == <<running, numbered, value>>
library == <<VXI11_IP_ADDRESS, VXI11_CLIENT_ADDRESS, VXI11_LINK_COUNT, VXI11_DEVICE_NO,
             clink, alive, stage, user, lost, buffer, rc, output, opens, asked, fails,
             crashed>>
tcp == <<up, commands, unanswered, wire, slipped, calls, phase>>

MCInit ==
  /\ part \in {"data", "control", "generator", "instruments"}
  /\ Init /\ Trolley!Init /\ Generator!Init /\ Instruments!Init
  /\ part # "data" => k = 1

MCNext ==
  /\ UNCHANGED part
  /\ \/ part = "data" /\ Next /\ UNCHANGED <<tcp, control, generator, library>>
     \/ part = "control" /\ Trolley!Next /\ UNCHANGED <<vars, generator, library>>
     \/ part = "generator" /\ Generator!Next /\ UNCHANGED <<vars, control, library>>
     \/ part = "instruments" /\ Instruments!Next
        /\ UNCHANGED <<vars, tcp, control, generator>>

MCSpec == MCInit /\ [][MCNext]_<<part, vars, tcp, control, generator, library>>

\* Either client of TCPDrivers, in step, gets the answers to its own commands.
OwnAnswerInStep == Trolley!OwnAnswerInStep /\ Generator!OwnAnswerInStep

\* The trolley's client mixes up no two registers, whatever was late.
OnlyOfTheRegister == Trolley!OnlyOfTheRegister

\* The links of the instruments have live clients, and a query its own answer.
ClientsAndAnswers == Instruments!ClientsAndAnswers
=============================================================================
