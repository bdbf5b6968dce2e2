------------------------------ MODULE IoBoard ------------------------------
(***************************************************************************)
(* The Acromag IP470A digital I/O board and the objects that drive it: the *)
(* trigger board, the multiplexers, the stepper motor with its clock       *)
(* thread, and a user of WriteBit().  Each holds an AcromagIp470a of its   *)
(* own, so nothing but the single bus access is atomic among them; the     *)
(* motor's board_guard_ is the motor's.                                    *)
(*                                                                         *)
(* A port is an octet of pins, or a sextet that lies across two octets and *)
(* is written by reading both and writing both back.                       *)
(***************************************************************************)
EXTENDS Integers, Sequences, FiniteSets

CONSTANTS
  Octets,     \* of the board
  Layouts,    \* the ports of the clients: [client -> [sextet, id]]
  Masks,      \* the trigger bits that are fired together
  Channels,   \* the words of the multiplexer's channels
  Track,      \* length of the motor's track; a bumper at each end
  MaxCalls,   \* bound: calls
  MaxFails    \* bound: accesses that fail

Pins == 0..7
Clients == {"trigger", "mux", "bits", "caller", "clock"}
Free == "free"

direction_bit_ == 0
clock_bit_ == 2

VARIABLES
  layout, pins,     \* the wiring; the octets as they are
  position,         \* the motor's, on its track
  todo,             \* of each client: the accesses of its call that are left
  data, word,       \* of each client: the port's bits; the octets it read
  guard,            \* board_guard_ of the motor
  move_it_, thread_live_,
  asked,            \* history: the direction of the last command
  stale,            \* history: octets others wrote since the client's ReadPort
  over,             \* history: clock edges at a bumper, since the last command
  calls, fails

vars == <<layout, pins, position, todo, data, word, guard, move_it_, thread_live_,
          asked, stale, over, calls, fails>>

AtBumper == position \in {0, Track}

(***************************************************************************)
(* Accesses.                                                               *)
(***************************************************************************)
\* A port: its first octet, its place there, and the octets it lies in.
First(port) == IF port.sextet THEN (6 * port.id) \div 8 ELSE port.id
Shift(port) == IF port.sextet THEN (6 * port.id) % 8 ELSE 0
Width(port) == IF port.sextet THEN 6 ELSE 8
Field(port) == Shift(port)..(Shift(port) + Width(port) - 1)
OctetsOf(port) == IF port.sextet THEN {First(port), First(port) + 1} ELSE {First(port)}

\* The motor has one port, for both of its threads; it is an octet, as it is
\* unless its configuration asks for sextets.
ASSUME IoBoardAssumption ==
  /\ Layouts \subseteq [Clients -> [sextet : BOOLEAN, id : Nat]]
  /\ \A l \in Layouts :
       /\ \A c \in Clients : OctetsOf(l[c]) \subseteq Octets
       /\ l["caller"] = l["clock"] /\ ~l["clock"].sextet
  /\ Masks \subseteq SUBSET Pins /\ Channels \subseteq SUBSET Pins
  /\ Track \in Nat \ {0} /\ MaxCalls \in Nat /\ MaxFails \in Nat

Get(half, take) == [op |-> "get", half |-> half, take |-> take]
Peek(half) == [op |-> "peek", half |-> half]
Out(half, first, clear, set, means) ==
  [op |-> "out", half |-> half, first |-> first, clear |-> clear, set |-> set,
   means |-> means]
Do(op) == [op |-> op]

ReadPort(port) ==
  IF port.sextet THEN << Get(0, FALSE), Get(1, TRUE) >> ELSE << Get(0, TRUE) >>

\* WritePort(): the data with some bits cleared and some set.
WritePort(port, clear, set, means) ==
  IF port.sextet
  THEN << Peek(0), Peek(1), Out(0, TRUE, clear, set, means),
          Out(1, FALSE, clear, set, means) >>
  ELSE << Out(0, TRUE, clear, set, means) >>

Change(port, clear, set) ==
  ReadPort(port) \o WritePort(port, clear, set, clear \cup set)

\* FireTrigger() and FireTriggers(): down, and up again.
FireTriggers(port, mask) == Change(port, mask, {}) \o Change(port, {}, mask)

SetMux(port, channel) == WritePort(port, Pins, channel, 0..(Width(port) - 1))

\* The mask ~(~data << bit_id) clears the bits above the bit as well.
WriteBit(port, bit, on) ==
  ReadPort(port)
    \o WritePort(port, {b \in Pins : b > bit} \cup (IF on THEN {} ELSE {bit}),
                 IF on THEN {bit} ELSE {}, {bit})

Direction(port, forward) ==
  << Do("lock") >>
    \o (IF forward THEN Change(port, {}, {direction_bit_}) ELSE Change(port, {direction_bit_}, {}))
    \o << Do("unlock") >>

\* StepForward() and StepBackward().
Command(port, forward) == Direction(port, forward) \o << Do("go"), Do("halt") >>

\* Seeded fault: the second half of a cycle does not take the guard.
Cycle_Unguarded(port) ==
  << Do("lock"), Do("bumpers") >> \o Change(port, {}, {clock_bit_}) \o << Do("unlock") >>
    \o Change(port, {clock_bit_}, {})

\* Seeded fault: a cycle that begins at a bumper leaves the bit high.
Cycle_Half(port) ==
  << Do("lock"), Do("bumpers") >> \o Change(port, {}, {clock_bit_}) \o << Do("unlock") >>
    \o (IF AtBumper THEN <<>>
        ELSE << Do("lock") >> \o Change(port, {clock_bit_}, {}) \o << Do("unlock") >>)

\* A cycle of the clock.
Cycle(port) ==
  << Do("lock"), Do("bumpers") >> \o Change(port, {}, {clock_bit_})
    \o << Do("unlock"), Do("lock") >> \o Change(port, {clock_bit_}, {}) \o << Do("unlock") >>

(***************************************************************************)
(* Carrying them out.                                                      *)
(***************************************************************************)
At(c, op) == todo[c] # <<>> /\ Head(todo[c]).op = op
Port(c) == layout[c]
OctetOf(c) == First(Port(c)) + Head(todo[c]).half

Pop(c) == todo' = [todo EXCEPT ![c] = Tail(@)]
Half(octet, half) == {b + 8 * half : b \in octet}
HalfOf(w, half) == {b \in Pins : b + 8 * half \in w}

\* The port's bits in a word of two octets.
Extract(port, w) == {b \in 0..(Width(port) - 1) : b + Shift(port) \in w}

\* Seeded fault: the bits around a sextet are not preserved.
Insert_Alone(port, w, d) == {b + Shift(port) : b \in d \cap 0..(Width(port) - 1)}

Insert(port, w, d) ==
  (w \ Field(port)) \cup {b + Shift(port) : b \in d \cap 0..(Width(port) - 1)}

Keep == UNCHANGED <<layout, thread_live_, asked, calls>>

\* A failed read leaves what was in the byte before: anything.
ReadOctet(c) ==
  /\ At(c, "get") \/ At(c, "peek")
  /\ LET s == Head(todo[c])
         take(w) == IF At(c, "get") /\ s.take THEN [data EXCEPT ![c] = Extract(Port(c), w)] ELSE data
         rest == word[c] \ Half(Pins, s.half)
     IN  \/ /\ word' = [word EXCEPT ![c] = rest \cup Half(pins[OctetOf(c)], s.half)]
            /\ data' = take(word'[c]) /\ UNCHANGED fails
         \/ /\ fails < MaxFails /\ fails' = fails + 1
            /\ \E junk \in {{}, Pins} : word' = [word EXCEPT ![c] = rest \cup Half(junk, s.half)]
            /\ data' = take(word'[c])
  /\ stale' = IF At(c, "get") THEN [stale EXCEPT ![c] = @ \ {OctetOf(c)}] ELSE stale
  /\ Pop(c) /\ Keep /\ UNCHANGED <<pins, position, guard, move_it_, over>>

\* The motor (external): a step for each rising edge of the clock bit, until the
\* end of the track.
Edge(before, after) == clock_bit_ \notin before /\ clock_bit_ \in after

Turn(before, after) ==
  /\ position' =
       IF ~Edge(before, after) THEN position
       ELSE IF direction_bit_ \in after
            THEN (IF position < Track THEN position + 1 ELSE position)
            ELSE (IF position > 0 THEN position - 1 ELSE position)
  /\ over' = IF Edge(before, after) /\ AtBumper THEN over + 1 ELSE over

\* A failed write leaves the pins as they are, and nobody looks at its result.
WriteOctet(c) ==
  /\ At(c, "out")
  /\ LET s == Head(todo[c])
         o == OctetOf(c)
         d == IF s.first THEN (data[c] \ s.clear) \cup s.set ELSE data[c]
         w == IF s.first THEN Insert(Port(c), word[c], d) ELSE word[c]
     IN  /\ data' = [data EXCEPT ![c] = d] /\ word' = [word EXCEPT ![c] = w]
         /\ \/ /\ pins' = [pins EXCEPT ![o] = HalfOf(w, s.half)]
               /\ stale' = [x \in Clients |-> IF x = c THEN stale[x] ELSE stale[x] \cup {o}]
               /\ IF o = First(Port("clock")) THEN Turn(pins[o], pins'[o])
                  ELSE UNCHANGED <<position, over>>
               /\ UNCHANGED fails
            \/ /\ fails < MaxFails /\ fails' = fails + 1
               /\ UNCHANGED <<pins, position, stale, over>>
  /\ Pop(c) /\ Keep /\ UNCHANGED <<guard, move_it_>>

Lock(c) ==
  /\ At(c, "lock") /\ guard = Free /\ guard' = c
  /\ Pop(c) /\ Keep
  /\ UNCHANGED <<pins, position, data, word, move_it_, stale, over, fails>>

Unlock(c) ==
  /\ At(c, "unlock") /\ guard' = Free
  /\ Pop(c) /\ Keep
  /\ UNCHANGED <<pins, position, data, word, move_it_, stale, over, fails>>

\* The command starts the clock and, after its time, stops it.
GoOrHalt ==
  /\ At("caller", "go") \/ At("caller", "halt")
  /\ move_it_' = At("caller", "go")
  /\ over' = IF At("caller", "go") THEN 0 ELSE over
  /\ Pop("caller") /\ Keep
  /\ UNCHANGED <<pins, position, data, word, guard, stale, fails>>

\* Seeded fault: the clock does not stop at a bumper.
Bumpers_Ignored ==
  /\ At("clock", "bumpers")
  /\ Pop("clock") /\ Keep
  /\ UNCHANGED <<pins, position, data, word, guard, move_it_, stale, over, fails>>

\* The input port: a bumper stops the clock after this cycle.
Bumpers ==
  /\ At("clock", "bumpers")
  /\ \/ move_it_' = (move_it_ /\ ~AtBumper) /\ UNCHANGED fails
     \/ fails < MaxFails /\ fails' = fails + 1 /\ move_it_' \in {move_it_, FALSE}
  /\ Pop("clock") /\ Keep
  /\ UNCHANGED <<pins, position, data, word, guard, stale, over>>

\* ClockLoop().
ClockLoop ==
  /\ todo["clock"] = <<>> /\ move_it_ /\ thread_live_
  /\ todo' = [todo EXCEPT !["clock"] = Cycle(Port("clock"))]
  /\ UNCHANGED <<layout, pins, position, data, word, guard, move_it_, thread_live_,
                 asked, stale, over, calls, fails>>

(***************************************************************************)
(* Calls.                                                                  *)
(***************************************************************************)
Call(c, steps) ==
  /\ todo[c] = <<>> /\ calls < MaxCalls /\ calls' = calls + 1
  /\ todo' = [todo EXCEPT ![c] = steps] /\ stale' = [stale EXCEPT ![c] = {}]
  /\ UNCHANGED <<layout, pins, position, data, word, guard, move_it_, thread_live_,
                 over, fails>>

Fire == \E m \in Masks : Call("trigger", FireTriggers(Port("trigger"), m)) /\ UNCHANGED asked
Mux == \E ch \in Channels : Call("mux", SetMux(Port("mux"), ch)) /\ UNCHANGED asked
Bit == \E on \in BOOLEAN : Call("bits", WriteBit(Port("bits"), 1, on)) /\ UNCHANGED asked
Step ==
  \E forward \in BOOLEAN :
    Call("caller", Command(Port("caller"), forward)) /\ asked' = forward

\* EnableMotor() and DisableMotor().
Motor ==
  /\ todo["caller"] = <<>> /\ calls < MaxCalls /\ calls' = calls + 1
  /\ move_it_' \in BOOLEAN
  /\ over' = IF move_it_' THEN 0 ELSE over
  /\ UNCHANGED <<layout, pins, position, todo, data, word, guard, thread_live_, asked,
                 stale, fails>>

\* The destructor, between two commands; it joins the clock thread.
Dtor ==
  /\ todo["caller"] = <<>> /\ thread_live_ /\ thread_live_' = FALSE
  /\ calls' = MaxCalls
  /\ UNCHANGED <<layout, pins, position, todo, data, word, guard, move_it_, asked,
                 stale, over, fails>>

Init ==
  /\ layout \in Layouts
  /\ pins = [o \in Octets |-> {5, 7}] /\ position = 1
  /\ todo = [c \in Clients |-> <<>>]
  /\ data = [c \in Clients |-> {}] /\ word = [c \in Clients |-> {}]
  /\ guard = Free /\ move_it_ = FALSE /\ thread_live_ = TRUE
  /\ asked = TRUE /\ stale = [c \in Clients |-> {}] /\ over = 0
  /\ calls = 0 /\ fails = 0

Access(c) == ReadOctet(c) \/ WriteOctet(c) \/ Lock(c) \/ Unlock(c)

Next ==
  \/ \E c \in Clients : Access(c)
  \/ GoOrHalt \/ Bumpers \/ ClockLoop
  \/ Fire \/ Mux \/ Bit \/ Step \/ Motor \/ Dtor

Spec == Init /\ [][Next]_vars

\* Both threads of the motor run on; a mutex is not kept from one of them.
FairSpec ==
  /\ Spec /\ WF_vars(GoOrHalt)
  /\ WF_vars(ReadOctet("caller") \/ WriteOctet("caller") \/ Unlock("caller"))
  /\ WF_vars(\/ ReadOctet("clock") \/ WriteOctet("clock") \/ Unlock("clock")
             \/ Bumpers \/ ClockLoop)
  /\ SF_vars(Lock("caller")) /\ SF_vars(Lock("clock"))

(***************************************************************************)
(* Properties.                                                             *)
(***************************************************************************)
\* The pins of an octet that an access of client c means to change.
Meant(c) ==
  LET s == Head(todo[c]) IN HalfOf({b + Shift(Port(c)) : b \in s.means}, s.half)

Changed(o) == (pins[o] \ pins'[o]) \cup (pins'[o] \ pins[o])

\* A write leaves the pins it does not mean as they are, unless another client
\* wrote the octet after it was read, or an access failed.
Preserves(c) ==
  At(c, "out") /\ todo'[c] = Tail(todo[c]) =>
    \/ Changed(OctetOf(c)) \subseteq Meant(c)
    \/ OctetOf(c) \in stale[c] \/ fails > 0

PinsPreserved == [][\A c \in Clients \ {"bits"} : Preserves(c)]_vars

\* "Write a single bit of data to a specified port, preserving other data."
\* (acromag_ip470a.hh:70)
BitPreservesOthers == [][Preserves("bits")]_vars

\* Whether another client touches the octets of the motor.
MotorAlone ==
  \A c \in {"trigger", "mux", "bits"} :
    First(Port("clock")) \notin OctetsOf(Port(c))

\* While a command runs, the motor steps in the direction of the command.
StepsAsAsked ==
  [][ /\ MotorAlone /\ fails = 0 /\ At("caller", "halt") /\ position' # position
      => (position' > position <=> asked) ]_vars

\* At a bumper a command turns the motor once more at most, twice if the cycle of
\* the command before is not over; and once more for a failed access.
StopsAtBumper == MotorAlone => over <= 2 + fails

\* The clock comes to rest, and its bit is low again.
ClockRests ==
  <>[](~thread_live_ =>
         /\ todo["clock"] = <<>>
         /\ MotorAlone /\ fails = 0 => clock_bit_ \notin pins[First(Port("clock"))])
=============================================================================
