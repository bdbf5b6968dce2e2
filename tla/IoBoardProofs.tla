--------------------------- MODULE IoBoardProofs ---------------------------
(***************************************************************************)
(* Proofs about the I/O board: a write leaves the pins alone that it does  *)
(* not mean, a command stops the motor at a bumper and steps it the way it *)
(* was asked, for every wiring of the ports, track and bound on the calls. *)
(*                                                                         *)
(* AccessInv says what is left of the programs of the clients and that     *)
(* what a client has read is still what the pins are; MotorInv counts the  *)
(* clock edges that are still to come at a bumper.                         *)
(***************************************************************************)
EXTENDS IoBoard, TLAPS

(***************************************************************************)
(* Programs: the accesses that a client has left, and their order.         *)
(***************************************************************************)
Board == {"get", "peek", "out"}
Steps ==
  [op : {"get"}, half : {0, 1}, take : BOOLEAN] \cup [op : {"peek"}, half : {0, 1}]
    \cup [op : {"out"}, half : {0, 1}, first : BOOLEAN, clear : SUBSET Pins,
          set : SUBSET Pins, means : SUBSET Pins]
    \cup [op : {"lock", "unlock", "go", "halt", "bumpers"}]

\* The access t comes after s on a port.
Follows(port, s, t) ==
  CASE s.op = "get" /\ port.sextet /\ s.half = 0 -> t.op = "get" /\ t.half = 1
    [] s.op = "get" /\ ~(port.sextet /\ s.half = 0) ->
         t.half = 0 /\ t.op = (IF port.sextet THEN "peek" ELSE "out")
    [] s.op = "peek" /\ s.half = 0 -> t.op = "peek" /\ t.half = 1
    [] s.op = "peek" /\ s.half # 0 -> t.op = "out" /\ t.half = 0
    [] s.op = "out" /\ port.sextet /\ s.half = 0 ->
         t.op = "out" /\ t.half = 1 /\ t.means = s.means
    [] OTHER -> t.op \notin {"peek", "out"} /\ (t.op = "get" => t.half = 0)

\* An access that client c may make of its port.
AccessOf(c, port, s) ==
  /\ s.op \in Board => s.half \in {0, 1} /\ (~port.sextet => s.half = 0)
  /\ s.op = "get" => (s.take <=> (port.sextet => s.half = 1))
  /\ s.op = "peek" => port.sextet
  /\ s.op = "out" => (s.first <=> s.half = 0)
  /\ s.op = "out" /\ c # "bits" =>
       s.means = (IF c = "mux" THEN 0..(Width(port) - 1) ELSE s.clear \cup s.set)
  /\ s.op \notin Board => c \in {"caller", "clock"}

WellFormed(c, port, q) ==
  /\ q \in Seq(Steps)
  /\ \A i \in 1..Len(q) : AccessOf(c, port, q[i])
  /\ \A i \in 1..(Len(q) - 1) : Follows(port, q[i], q[i + 1])

(***************************************************************************)
(* What a client has read is what the pins are, in the octets that nobody  *)
(* else has written since.                                                 *)
(***************************************************************************)
Part(c, h) == First(Port(c)) + h

HalfFresh(c, h) ==
  Part(c, h) \in Octets \ stale[c] => HalfOf(word[c], h) = pins[Part(c, h)]

DataFresh(c, h) ==
  Part(c, h) \in Octets \ stale[c] =>
    \A p \in Pins : p + 8 * h \in Field(Port(c)) =>
      ((p + 8 * h) - Shift(Port(c)) \in data[c] <=> p \in pins[Part(c, h)])

\* Of the second half of a sextet that is being written.
WrittenFresh(c) ==
  Part(c, 1) \in Octets \ stale[c] =>
    \A p \in Pins \ Meant(c) : p + 8 \in word[c] <=> p \in pins[Part(c, 1)]

FreshAt(c, s) ==
  LET writes == s.op = "out" /\ s.half = 0
  IN  /\ s.op = "get" /\ s.half = 1 => HalfFresh(c, 0)
      /\ (s.op = "peek" \/ writes) /\ c # "mux" =>
           DataFresh(c, 0) /\ (Port(c).sextet => DataFresh(c, 1))
      /\ (s.op = "peek" /\ s.half = 1) \/ (writes /\ Port(c).sextet) => HalfFresh(c, 0)
      /\ writes /\ Port(c).sextet => HalfFresh(c, 1)
      /\ s.op = "out" /\ s.half = 1 => WrittenFresh(c)

Fresh(c) == todo[c] # <<>> => FreshAt(c, Head(todo[c]))

IoTypes ==
  /\ layout \in Layouts
  /\ pins \in [Octets -> SUBSET Pins]
  /\ todo \in [Clients -> Seq(Steps)] /\ DOMAIN data = Clients
  /\ DOMAIN word = Clients /\ DOMAIN stale = Clients
  /\ fails \in Nat

Programs == \A c \in Clients : WellFormed(c, Port(c), todo[c])

AccessInv ==
  IoTypes /\ Programs /\ (fails = 0 => \A c \in Clients \ {"bits"} : Fresh(c))

(***************************************************************************)
(* The two outcomes of a write.                                            *)
(***************************************************************************)
WriteDone(c) ==
  /\ At(c, "out")
  /\ LET s == Head(todo[c])
         o == OctetOf(c)
         d == IF s.first THEN (data[c] \ s.clear) \cup s.set ELSE data[c]
         w == IF s.first THEN Insert(Port(c), word[c], d) ELSE word[c]
     IN  /\ data' = [data EXCEPT ![c] = d] /\ word' = [word EXCEPT ![c] = w]
         /\ pins' = [pins EXCEPT ![o] = HalfOf(w, s.half)]
         /\ stale' = [x \in Clients |-> IF x = c THEN stale[x] ELSE stale[x] \cup {o}]
         /\ IF o = First(Port("clock")) THEN Turn(pins[o], pins'[o])
            ELSE UNCHANGED <<position, over>>
  /\ Pop(c) /\ Keep /\ UNCHANGED <<guard, move_it_, fails>>

WriteFails(c) ==
  /\ At(c, "out") /\ fails' = fails + 1
  /\ \E d : data' = [data EXCEPT ![c] = d]
  /\ \E w : word' = [word EXCEPT ![c] = w]
  /\ UNCHANGED <<pins, position, stale, over, guard, move_it_>>
  /\ Pop(c) /\ Keep

LEMMA WriteIs ==
  ASSUME NEW c, WriteOctet(c)
  PROVE  WriteDone(c) \/ WriteFails(c)
BY Zenon DEF WriteOctet, WriteDone, WriteFails

(***************************************************************************)
(* The motor.                                                              *)
(***************************************************************************)
\* q is the rest of the program p of length n.
IsRest(q, p, n) ==
  Len(q) \in 0..n /\ \A i \in 1..Len(q) : q[i] = p[n - Len(q) + i]

MotorPrograms ==
  /\ IsRest(todo["clock"], Cycle(Port("clock")), 9)
  /\ IsRest(todo["caller"], Command(Port("caller"), asked), 6)

Left(c) == Len(todo[c])

GuardInv ==
  /\ guard \in {Free, "caller", "clock"}
  /\ guard = "clock" <=> Left("clock") \in {8, 7, 6, 5, 3, 2, 1}
  /\ guard = "caller" <=> Left("caller") \in {5, 4, 3}

MotorTypes ==
  /\ position \in 0..Track /\ over \in Nat /\ move_it_ \in BOOLEAN /\ asked \in BOOLEAN

MotorOctet == First(Port("clock"))

\* The edges at a bumper that are still to come: one in a cycle that has looked
\* at the bumpers, one in a cycle that has not or is to be, and one of a command
\* whose read failed.
InCycle == IF Left("clock") \in {6, 7} /\ AtBumper THEN 1 ELSE 0
ToCome == IF Left("clock") \in {8, 9} \/ move_it_ THEN 1 ELSE 0
OfCommand ==
  IF Left("caller") = 4 /\ clock_bit_ \in data["caller"] /\ clock_bit_ \notin pins[MotorOctet]
  THEN 1 ELSE 0

EdgesBounded == MotorAlone => over + InCycle + ToCome + OfCommand <= 2 + fails

\* What the clock reads is what it finds when it writes, and the direction stays.
DirectionKept ==
  MotorAlone /\ fails = 0 =>
    /\ Left("clock") \in {6, 2} => data["clock"] = pins[MotorOctet]
    /\ Left("caller") \in 1..3 => (direction_bit_ \in pins[MotorOctet] <=> asked)

MotorInv ==
  MotorTypes /\ MotorPrograms /\ GuardInv /\ EdgesBounded /\ DirectionKept

(***************************************************************************)
(* The programs of the calls.                                              *)
(***************************************************************************)
Ports == [sextet : BOOLEAN, id : Nat]

LEMMA StepsAre ==
  /\ \A h \in {0, 1} : Get(h, TRUE) \in Steps /\ Get(h, FALSE) \in Steps /\ Peek(h) \in Steps
  /\ \A op \in {"lock", "unlock", "go", "halt", "bumpers"} : Do(op) \in Steps
  /\ \A h \in {0, 1}, first \in BOOLEAN, cl, se, me \in SUBSET Pins :
       Out(h, first, cl, se, me) \in Steps
<1>1. \A h \in {0, 1} : Get(h, TRUE) \in Steps /\ Get(h, FALSE) \in Steps /\ Peek(h) \in Steps
  BY DEF Steps, Get, Peek
<1>2. \A op \in {"lock", "unlock", "go", "halt", "bumpers"} : Do(op) \in Steps
  BY DEF Steps, Do
<1>3. \A h \in {0, 1}, first \in BOOLEAN, cl, se, me \in SUBSET Pins :
        Out(h, first, cl, se, me) \in Steps
  BY DEF Steps, Out
<1> QED
  BY <1>1, <1>2, <1>3, Zenon

\* The steps of a program, one by one.
Is2(w, S, a, b) == w \in Seq(S) /\ Len(w) = 2 /\ w[1] = a /\ w[2] = b
Is6(w, S, a, b, c, d, e, f) ==
  /\ w \in Seq(S) /\ Len(w) = 6
  /\ w[1] = a /\ w[2] = b /\ w[3] = c /\ w[4] = d /\ w[5] = e /\ w[6] = f
Is9(w, S, a, b, c, d, e, f, g, h, i) ==
  /\ w \in Seq(S) /\ Len(w) = 9
  /\ w[1] = a /\ w[2] = b /\ w[3] = c /\ w[4] = d /\ w[5] = e /\ w[6] = f
  /\ w[7] = g /\ w[8] = h /\ w[9] = i

LEMMA Join2 == \A S : \A a, b \in S : Is2(<<a>> \o <<b>>, S, a, b)
<1> TAKE S
<1> TAKE a, b \in S
<1> QED
  BY DEF Is2

LEMMA Join6 ==
  \A S : \A a, b, c, d, e, f \in S :
    Is6(<<a, b>> \o <<c, d, e, f>>, S, a, b, c, d, e, f)
<1> TAKE S
<1> TAKE a, b, c, d, e, f \in S
<1> QED
  BY DEF Is6

LEMMA JoinCommand ==
  \A S : \A a, b, c, d, e, f \in S :
    Is6(((<<a>> \o (<<b>> \o <<c>>)) \o <<d>>) \o <<e, f>>, S, a, b, c, d, e, f)
<1> TAKE S
<1> TAKE a, b, c, d, e, f \in S
<1> QED
  BY DEF Is6

LEMMA JoinCycle ==
  \A S : \A a, b, c, d, e, f, g, h, i \in S :
    Is9((((<<a, b>> \o (<<c>> \o <<d>>)) \o <<e, f>>) \o (<<g>> \o <<h>>)) \o <<i>>,
        S, a, b, c, d, e, f, g, h, i)
<1> TAKE S
<1> TAKE a, b, c, d, e, f, g, h, i \in S
<1> QED
  BY DEF Is9

\* Reading a port and writing it back.
LEMMA SextetIs ==
  ASSUME NEW port, port.sextet = TRUE, NEW cl \in SUBSET Pins, NEW se \in SUBSET Pins,
         NEW me \in SUBSET Pins
  PROVE  Is6(ReadPort(port) \o WritePort(port, cl, se, me), Steps, Get(0, FALSE),
             Get(1, TRUE), Peek(0), Peek(1), Out(0, TRUE, cl, se, me),
             Out(1, FALSE, cl, se, me))
<1>1. /\ Get(0, FALSE) \in Steps /\ Get(1, TRUE) \in Steps /\ Peek(0) \in Steps
      /\ Peek(1) \in Steps /\ Out(0, TRUE, cl, se, me) \in Steps
      /\ Out(1, FALSE, cl, se, me) \in Steps
  BY StepsAre
<1>2. ReadPort(port) \o WritePort(port, cl, se, me) =
        << Get(0, FALSE), Get(1, TRUE) >>
          \o << Peek(0), Peek(1), Out(0, TRUE, cl, se, me), Out(1, FALSE, cl, se, me) >>
  BY Zenon DEF ReadPort, WritePort
<1>3. Is6(<< Get(0, FALSE), Get(1, TRUE) >>
            \o << Peek(0), Peek(1), Out(0, TRUE, cl, se, me), Out(1, FALSE, cl, se, me) >>,
          Steps, Get(0, FALSE), Get(1, TRUE), Peek(0), Peek(1),
          Out(0, TRUE, cl, se, me), Out(1, FALSE, cl, se, me))
  BY <1>1, Join6, Zenon
<1> QED
  BY <1>2, <1>3, Zenon

LEMMA OctetIs ==
  ASSUME NEW port, port.sextet = FALSE, NEW cl \in SUBSET Pins, NEW se \in SUBSET Pins,
         NEW me \in SUBSET Pins
  PROVE  Is2(ReadPort(port) \o WritePort(port, cl, se, me), Steps, Get(0, TRUE),
             Out(0, TRUE, cl, se, me))
<1>1. Get(0, TRUE) \in Steps /\ Out(0, TRUE, cl, se, me) \in Steps
  BY StepsAre
<1>2. ReadPort(port) \o WritePort(port, cl, se, me)
        = << Get(0, TRUE) >> \o << Out(0, TRUE, cl, se, me) >>
  BY Zenon DEF ReadPort, WritePort
<1> QED
  BY <1>1, <1>2, Join2, Zenon

LEMMA CycleIs ==
  ASSUME NEW port, port.sextet = FALSE
  PROVE  LET rise == Out(0, TRUE, {}, {clock_bit_}, {} \cup {clock_bit_})
             fall == Out(0, TRUE, {clock_bit_}, {}, {clock_bit_} \cup {})
         IN  Is9(Cycle(port), Steps, Do("lock"), Do("bumpers"), Get(0, TRUE), rise,
                 Do("unlock"), Do("lock"), Get(0, TRUE), fall, Do("unlock"))
<1> DEFINE rise == Out(0, TRUE, {}, {clock_bit_}, {} \cup {clock_bit_})
           fall == Out(0, TRUE, {clock_bit_}, {}, {clock_bit_} \cup {})
           lock == Do("lock")
           unlock == Do("unlock")
           look == Do("bumpers")
           get == Get(0, TRUE)
<1>1. {} \in SUBSET Pins /\ {clock_bit_} \in SUBSET Pins
  BY DEF Pins, clock_bit_
<1>2. {} \cup {clock_bit_} \in SUBSET Pins /\ {clock_bit_} \cup {} \in SUBSET Pins
  BY <1>1
<1>3. get \in Steps /\ lock \in Steps /\ unlock \in Steps /\ look \in Steps
  BY StepsAre
<1>4. rise \in Steps /\ fall \in Steps
  BY <1>1, <1>2, StepsAre
<1>5. Cycle(port) =
        (((<< lock, look >> \o (<< get >> \o << rise >>)) \o << unlock, lock >>)
           \o (<< get >> \o << fall >>)) \o << unlock >>
  BY Zenon DEF Cycle, Change, ReadPort, WritePort
<1> HIDE DEF rise, fall, lock, unlock, look, get
<1>6. Is9((((<< lock, look >> \o (<< get >> \o << rise >>)) \o << unlock, lock >>)
             \o (<< get >> \o << fall >>)) \o << unlock >>,
          Steps, lock, look, get, rise, unlock, lock, get, fall, unlock)
  BY <1>3, <1>4, JoinCycle, Zenon
<1>7. Is9(Cycle(port), Steps, lock, look, get, rise, unlock, lock, get, fall, unlock)
  BY <1>5, <1>6, Zenon
<1> QED
  BY <1>7 DEF rise, fall, lock, unlock, look, get

\* The bits that a command clears and sets.
ClearOf(forward) == IF forward THEN {} ELSE {direction_bit_}
SetOf(forward) == IF forward THEN {direction_bit_} ELSE {}

LEMMA CommandIs ==
  ASSUME NEW port, port.sextet = FALSE, NEW forward \in BOOLEAN
  PROVE  LET out == Out(0, TRUE, ClearOf(forward), SetOf(forward),
                        ClearOf(forward) \cup SetOf(forward))
         IN  Is6(Command(port, forward), Steps, Do("lock"), Get(0, TRUE), out, Do("unlock"),
                 Do("go"), Do("halt"))
<1> DEFINE out == Out(0, TRUE, ClearOf(forward), SetOf(forward),
                      ClearOf(forward) \cup SetOf(forward))
<1>1. ClearOf(forward) \in SUBSET Pins /\ SetOf(forward) \in SUBSET Pins
  BY DEF Pins, direction_bit_, ClearOf, SetOf
<1>2. ClearOf(forward) \cup SetOf(forward) \in SUBSET Pins
  BY <1>1
<1>3. /\ Get(0, TRUE) \in Steps /\ Do("lock") \in Steps /\ Do("unlock") \in Steps
      /\ Do("go") \in Steps /\ Do("halt") \in Steps
  BY StepsAre
<1>4. out \in Steps
  BY <1>1, <1>2, StepsAre
<1>5. Command(port, forward) =
        ((<< Do("lock") >> \o (<< Get(0, TRUE) >> \o << out >>)) \o << Do("unlock") >>)
          \o << Do("go"), Do("halt") >>
  <2>1. CASE forward
    BY <2>1, Zenon DEF Command, Direction, Change, ReadPort, WritePort, ClearOf, SetOf
  <2>2. CASE ~forward
    BY <2>2, Zenon DEF Command, Direction, Change, ReadPort, WritePort, ClearOf, SetOf
  <2> QED
    BY <2>1, <2>2
<1> HIDE DEF out
<1>6. Is6(Command(port, forward), Steps, Do("lock"), Get(0, TRUE), out, Do("unlock"),
          Do("go"), Do("halt"))
  <2>1. Is6(((<< Do("lock") >> \o (<< Get(0, TRUE) >> \o << out >>)) \o << Do("unlock") >>)
              \o << Do("go"), Do("halt") >>,
            Steps, Do("lock"), Get(0, TRUE), out, Do("unlock"), Do("go"), Do("halt"))
    BY <1>3, <1>4, JoinCommand, Zenon
  <2> QED
    BY <1>5, <2>1, Zenon
<1> QED
  BY <1>6 DEF out

(***************************************************************************)
(* The programs are well formed.                                           *)
(***************************************************************************)
\* x, of length l, is s, of length n, and then t, of length m.
LEMMA Joined ==
  ASSUME NEW S, NEW s \in Seq(S), NEW t \in Seq(S), NEW n, NEW m, Len(s) = n, Len(t) = m,
         NEW l, l = n + m, NEW x, x = s \o t
  PROVE  /\ x \in Seq(S) /\ Len(x) = l
         /\ \A i \in 1..n : x[i] = s[i]
         /\ \A i \in 1..m : x[n + i] = t[i]
BY SMTT(30)

\* A program whose first access needs nothing to have been read.
Ready(c, port, q) ==
  q # << >> =>
    LET s == Head(q)
    IN  \/ s.op \notin {"peek", "out"} /\ (s.op = "get" => s.half = 0)
        \/ c = "mux" /\ s.half = 0 /\ (s.op = "peek" \/ (s.op = "out" /\ ~port.sextet))

LEMMA FirstIs ==
  ASSUME NEW c, NEW port, NEW q, WellFormed(c, port, q),
         q[1].op \notin {"peek", "out"}, q[1].op = "get" => q[1].half = 0
  PROVE  Ready(c, port, q)
<1>1. q \in Seq(Steps)
  BY DEF WellFormed
<1>2. Head(q) = q[1]
  BY <1>1
<1> QED
  BY <1>2, Zenon DEF Ready

LEMMA JoinWellFormed ==
  ASSUME NEW c, NEW port, NEW s, NEW t, WellFormed(c, port, s), WellFormed(c, port, t),
         NEW n, NEW m, n = Len(s), m = Len(t), n \in Nat \ {0}, m \in Nat \ {0},
         Follows(port, s[n], t[1])
  PROVE  WellFormed(c, port, s \o t)
<1> DEFINE x == s \o t
<1>1. s \in Seq(Steps) /\ t \in Seq(Steps) /\ n = Len(s) /\ m = Len(t)
  BY DEF WellFormed
<1>2. /\ x \in Seq(Steps) /\ Len(x) = n + m
      /\ \A i \in 1..n : x[i] = s[i]
      /\ \A i \in 1..m : x[n + i] = t[i]
  <2>1. PICK l : l = n + m
    OBVIOUS
  <2> QED
    BY <1>1, <2>1, Joined
<1> HIDE DEF x
<1>3. ASSUME NEW i \in 1..Len(x) PROVE AccessOf(c, port, x[i])
  <2>1. CASE i <= n
    <3>1. x[i] = s[i] /\ i \in 1..n
      BY <1>2, <2>1
    <3> QED
      BY <3>1 DEF WellFormed
  <2>2. CASE i > n
    <3>1. PICK k \in 1..m : i = n + k
      <4>1. i - n \in 1..m /\ i = n + (i - n)
        BY <1>2, <2>2
      <4> QED
        BY <4>1
    <3>2. x[i] = t[k]
      BY <1>2, <3>1
    <3> QED
      BY <3>1, <3>2 DEF WellFormed
  <2> QED
    BY <1>2, <2>1, <2>2
<1>4. ASSUME NEW i \in 1..(Len(x) - 1) PROVE Follows(port, x[i], x[i + 1])
  <2>1. CASE i < n
    <3>1. x[i] = s[i] /\ x[i + 1] = s[i + 1] /\ i \in 1..(n - 1)
      BY <1>2, <2>1
    <3> QED
      BY <3>1 DEF WellFormed
  <2>2. CASE i = n
    <3>1. x[i] = s[n] /\ x[i + 1] = t[1]
      BY <1>2, <2>2
    <3> QED
      BY <3>1
  <2>3. CASE i > n
    <3>1. PICK k \in 1..(m - 1) : i = n + k
      <4>1. i - n \in 1..(m - 1) /\ i = n + (i - n)
        BY <1>2, <2>3
      <4> QED
        BY <4>1
    <3>2. x[i] = t[k]
      BY <1>2, <3>1
    <3>3. x[i + 1] = t[k + 1]
      BY <1>2, <3>1
    <3> QED
      BY <3>1, <3>2, <3>3 DEF WellFormed
  <2> QED
    BY <1>2, <2>1, <2>2, <2>3
<1> QED
  BY <1>2, <1>3, <1>4 DEF WellFormed, x

LEMMA ShortWellFormed ==
  ASSUME NEW c, NEW port
  PROVE  /\ \A w, a : w \in Seq(Steps) /\ Len(w) = 1 /\ w[1] = a /\ AccessOf(c, port, a)
                        => WellFormed(c, port, w)
         /\ \A w, d, e : Is2(w, Steps, d, e) /\ AccessOf(c, port, d) /\ AccessOf(c, port, e)
                           /\ Follows(port, d, e)
                           => WellFormed(c, port, w)
<1>1. ASSUME NEW w, NEW a, w \in Seq(Steps) /\ Len(w) = 1 /\ w[1] = a /\ AccessOf(c, port, a)
      PROVE  WellFormed(c, port, w)
  BY <1>1 DEF WellFormed
<1>2. ASSUME NEW w, NEW d, NEW e,
             Is2(w, Steps, d, e) /\ AccessOf(c, port, d) /\ AccessOf(c, port, e)
               /\ Follows(port, d, e)
      PROVE  WellFormed(c, port, w)
  <2>1. \A i \in 1..2 : i = 1 \/ i = 2
    OBVIOUS
  <2>2. \A i \in 1..1 : i = 1 /\ i + 1 = 2
    OBVIOUS
  <2> QED
    BY <1>2, <2>1, <2>2 DEF WellFormed, Is2
<1> QED
  BY <1>1, <1>2

LEMMA SixWellFormed ==
  ASSUME NEW c, NEW port, NEW w, NEW a, NEW b, NEW d, NEW e, NEW f, NEW g,
         Is6(w, Steps, a, b, d, e, f, g),
         AccessOf(c, port, a), AccessOf(c, port, b), AccessOf(c, port, d),
         AccessOf(c, port, e), AccessOf(c, port, f), AccessOf(c, port, g),
         Follows(port, a, b), Follows(port, b, d), Follows(port, d, e),
         Follows(port, e, f), Follows(port, f, g)
  PROVE  WellFormed(c, port, w)
<1>1. \A i \in 1..6 : i = 1 \/ i = 2 \/ i = 3 \/ i = 4 \/ i = 5 \/ i = 6
  OBVIOUS
<1>2. \A i \in 1..5 : i = 1 \/ i = 2 \/ i = 3 \/ i = 4 \/ i = 5
  OBVIOUS
<1> QED
  BY <1>1, <1>2 DEF WellFormed, Is6

LEMMA NineWellFormed ==
  ASSUME NEW c, NEW port, NEW w, NEW a, NEW b, NEW d, NEW e, NEW f, NEW g, NEW h, NEW k, NEW l,
         Is9(w, Steps, a, b, d, e, f, g, h, k, l),
         AccessOf(c, port, a), AccessOf(c, port, b), AccessOf(c, port, d),
         AccessOf(c, port, e), AccessOf(c, port, f), AccessOf(c, port, g),
         AccessOf(c, port, h), AccessOf(c, port, k), AccessOf(c, port, l),
         Follows(port, a, b), Follows(port, b, d), Follows(port, d, e),
         Follows(port, e, f), Follows(port, f, g), Follows(port, g, h),
         Follows(port, h, k), Follows(port, k, l)
  PROVE  WellFormed(c, port, w)
<1>1. \A i \in 1..9 : i = 1 \/ i = 2 \/ i = 3 \/ i = 4 \/ i = 5 \/ i = 6 \/ i = 7 \/ i = 8 \/ i = 9
  OBVIOUS
<1>2. \A i \in 1..8 : i = 1 \/ i = 2 \/ i = 3 \/ i = 4 \/ i = 5 \/ i = 6 \/ i = 7 \/ i = 8
  OBVIOUS
<1> QED
  BY <1>1, <1>2 DEF WellFormed, Is9

\* The clock and the commands of the motor.
LEMMA CycleWellFormed ==
  ASSUME NEW port, port.sextet = FALSE
  PROVE  WellFormed("clock", port, Cycle(port)) /\ Ready("clock", port, Cycle(port))
<1> DEFINE rise == Out(0, TRUE, {}, {clock_bit_}, {} \cup {clock_bit_})
           fall == Out(0, TRUE, {clock_bit_}, {}, {clock_bit_} \cup {})
<1>1. /\ AccessOf("clock", port, Do("lock")) /\ AccessOf("clock", port, Do("unlock"))
      /\ AccessOf("clock", port, Do("bumpers")) /\ AccessOf("clock", port, Get(0, TRUE))
      /\ AccessOf("clock", port, rise) /\ AccessOf("clock", port, fall)
  BY DEF AccessOf, Board, Do, Get, Peek, Out
<1>2. /\ Follows(port, Do("lock"), Do("bumpers")) /\ Follows(port, Do("bumpers"), Get(0, TRUE))
      /\ Follows(port, Get(0, TRUE), rise) /\ Follows(port, rise, Do("unlock"))
      /\ Follows(port, Do("unlock"), Do("lock")) /\ Follows(port, Do("lock"), Get(0, TRUE))
      /\ Follows(port, Get(0, TRUE), fall) /\ Follows(port, fall, Do("unlock"))
  BY DEF Follows, Do, Get, Peek, Out
<1>3. Is9(Cycle(port), Steps, Do("lock"), Do("bumpers"), Get(0, TRUE), rise,
          Do("unlock"), Do("lock"), Get(0, TRUE), fall, Do("unlock"))
  BY CycleIs
<1> HIDE DEF rise, fall
<1>4. WellFormed("clock", port, Cycle(port))
  BY <1>1, <1>2, <1>3, NineWellFormed, ZenonT(60)
<1>5. Cycle(port)[1].op = "lock"
  BY <1>3 DEF Is9, Do
<1> QED
  BY <1>4, <1>5, FirstIs

LEMMA CommandWellFormed ==
  ASSUME NEW port, port.sextet = FALSE, NEW forward \in BOOLEAN
  PROVE  /\ WellFormed("caller", port, Command(port, forward))
         /\ Ready("caller", port, Command(port, forward))
<1> DEFINE out == Out(0, TRUE, ClearOf(forward), SetOf(forward),
                      ClearOf(forward) \cup SetOf(forward))
<1>1. /\ AccessOf("caller", port, Do("lock")) /\ AccessOf("caller", port, Do("unlock"))
      /\ AccessOf("caller", port, Do("go")) /\ AccessOf("caller", port, Do("halt"))
      /\ AccessOf("caller", port, Get(0, TRUE)) /\ AccessOf("caller", port, out)
  BY DEF AccessOf, Board, Do, Get, Peek, Out
<1>2. /\ Follows(port, Do("lock"), Get(0, TRUE)) /\ Follows(port, Get(0, TRUE), out)
      /\ Follows(port, out, Do("unlock")) /\ Follows(port, Do("unlock"), Do("go"))
      /\ Follows(port, Do("go"), Do("halt"))
  BY DEF Follows, Do, Get, Peek, Out
<1>3. Is6(Command(port, forward), Steps, Do("lock"), Get(0, TRUE), out, Do("unlock"),
          Do("go"), Do("halt"))
  BY CommandIs
<1> HIDE DEF out
<1>4. WellFormed("caller", port, Command(port, forward))
  BY <1>1, <1>2, <1>3, SixWellFormed
<1>5. Command(port, forward)[1].op = "lock"
  BY <1>3 DEF Is6, Do
<1> QED
  BY <1>4, <1>5, FirstIs

\* Reading a port and writing it back.
LEMMA RewriteWellFormed ==
  ASSUME NEW c \in Clients \ {"mux"}, NEW port \in Ports, NEW cl \in SUBSET Pins,
         NEW se \in SUBSET Pins, NEW me \in SUBSET Pins, c = "bits" \/ me = cl \cup se
  PROVE  LET w == ReadPort(port) \o WritePort(port, cl, se, me)
         IN  /\ WellFormed(c, port, w) /\ Len(w) \in Nat \ {0}
             /\ w[1].op = "get" /\ w[1].half = 0
             /\ w[Len(w)].op = "out" /\ (port.sextet => w[Len(w)].half = 1)
<1> DEFINE w == ReadPort(port) \o WritePort(port, cl, se, me)
           out(h, first) == Out(h, first, cl, se, me)
<1>1. CASE port.sextet = TRUE
  <2>1. Is6(w, Steps, Get(0, FALSE), Get(1, TRUE), Peek(0), Peek(1), out(0, TRUE), out(1, FALSE))
    BY <1>1, SextetIs
  <2>2. /\ AccessOf(c, port, Get(0, FALSE)) /\ AccessOf(c, port, Get(1, TRUE))
        /\ AccessOf(c, port, Peek(0)) /\ AccessOf(c, port, Peek(1))
        /\ AccessOf(c, port, out(0, TRUE)) /\ AccessOf(c, port, out(1, FALSE))
    BY <1>1 DEF AccessOf, Board, Do, Get, Peek, Out
  <2>3. /\ Follows(port, Get(0, FALSE), Get(1, TRUE)) /\ Follows(port, Get(1, TRUE), Peek(0))
        /\ Follows(port, Peek(0), Peek(1)) /\ Follows(port, Peek(1), out(0, TRUE))
        /\ Follows(port, out(0, TRUE), out(1, FALSE))
    BY <1>1 DEF Follows, Do, Get, Peek, Out
  <2>4. /\ Get(0, FALSE).op = "get" /\ Get(0, FALSE).half = 0
        /\ out(1, FALSE).op = "out" /\ out(1, FALSE).half = 1
    BY DEF Get, Out
  <2> HIDE DEF w, out
  <2>5. WellFormed(c, port, w)
    BY <2>1, <2>2, <2>3, SixWellFormed
  <2>6. Len(w) = 6 /\ w[1] = Get(0, FALSE) /\ w[6] = out(1, FALSE)
    BY <2>1 DEF Is6
  <2>7. /\ WellFormed(c, port, w) /\ Len(w) \in Nat \ {0}
        /\ w[1].op = "get" /\ w[1].half = 0
        /\ w[Len(w)].op = "out" /\ (port.sextet => w[Len(w)].half = 1)
    <3>1. 6 \in Nat \ {0}
      OBVIOUS
    <3> QED
      BY <2>4, <2>5, <2>6, <3>1, Zenon
  <2> QED
    BY <2>7, Zenon DEF w
<1>2. CASE port.sextet = FALSE
  <2>1. Is2(w, Steps, Get(0, TRUE), out(0, TRUE))
    BY <1>2, OctetIs
  <2>2. AccessOf(c, port, Get(0, TRUE)) /\ AccessOf(c, port, out(0, TRUE))
    BY <1>2 DEF AccessOf, Board, Do, Get, Peek, Out
  <2>3. Follows(port, Get(0, TRUE), out(0, TRUE))
    BY <1>2 DEF Follows, Do, Get, Peek, Out
  <2>4. Get(0, TRUE).op = "get" /\ Get(0, TRUE).half = 0 /\ out(0, TRUE).op = "out"
    BY DEF Get, Out
  <2> HIDE DEF w, out
  <2>5. WellFormed(c, port, w)
    BY <2>1, <2>2, <2>3, ShortWellFormed
  <2>6. Len(w) = 2 /\ w[1] = Get(0, TRUE) /\ w[2] = out(0, TRUE)
    BY <2>1 DEF Is2
  <2>7. /\ WellFormed(c, port, w) /\ Len(w) \in Nat \ {0}
        /\ w[1].op = "get" /\ w[1].half = 0
        /\ w[Len(w)].op = "out" /\ (port.sextet => w[Len(w)].half = 1)
    <3>1. 2 \in Nat \ {0} /\ ~(port.sextet = TRUE)
      BY <1>2
    <3> QED
      BY <2>4, <2>5, <2>6, <3>1, Zenon
  <2> QED
    BY <2>7, Zenon DEF w
<1> QED
  BY <1>1, <1>2 DEF Ports

LEMMA FireWellFormed ==
  ASSUME NEW port \in Ports, NEW mask \in SUBSET Pins
  PROVE  /\ WellFormed("trigger", port, FireTriggers(port, mask))
         /\ Ready("trigger", port, FireTriggers(port, mask))
<1> DEFINE down == ReadPort(port) \o WritePort(port, mask, {}, mask \cup {})
           up == ReadPort(port) \o WritePort(port, {}, mask, {} \cup mask)
<1>1. /\ "trigger" \in Clients \ {"mux"} /\ {} \in SUBSET Pins
      /\ mask \cup {} \in SUBSET Pins /\ {} \cup mask \in SUBSET Pins
  BY DEF Clients
<1>2. /\ WellFormed("trigger", port, down) /\ Len(down) \in Nat \ {0}
      /\ down[1].op = "get" /\ down[1].half = 0
      /\ down[Len(down)].op = "out" /\ (port.sextet => down[Len(down)].half = 1)
  BY <1>1, RewriteWellFormed
<1>3. /\ WellFormed("trigger", port, up) /\ Len(up) \in Nat \ {0}
      /\ up[1].op = "get" /\ up[1].half = 0
  BY <1>1, RewriteWellFormed
<1>4. FireTriggers(port, mask) = down \o up
  BY DEF FireTriggers, Change
<1> HIDE DEF down, up
<1>5. Follows(port, down[Len(down)], up[1])
  BY <1>2, <1>3 DEF Follows
<1>6. WellFormed("trigger", port, down \o up) /\ (down \o up)[1] = down[1]
  <2>1. WellFormed("trigger", port, down \o up)
    BY <1>2, <1>3, <1>5, JoinWellFormed
  <2>2. down \in Seq(Steps) /\ up \in Seq(Steps)
    BY <1>2, <1>3 DEF WellFormed
  <2>3. (down \o up)[1] = down[1]
    BY <1>2, <2>2
  <2> QED
    BY <2>1, <2>3
<1>7. Ready("trigger", port, down \o up)
  BY <1>2, <1>6, FirstIs
<1> QED
  BY <1>4, <1>6, <1>7

LEMMA BitWellFormed ==
  ASSUME NEW port \in Ports, NEW bit \in Pins, NEW on \in BOOLEAN
  PROVE  /\ WellFormed("bits", port, WriteBit(port, bit, on))
         /\ Ready("bits", port, WriteBit(port, bit, on))
<1> DEFINE cl == {p \in Pins : p > bit} \cup (IF on THEN {} ELSE {bit})
           se == IF on THEN {bit} ELSE {}
<1>1. "bits" \in Clients \ {"mux"} /\ cl \in SUBSET Pins /\ se \in SUBSET Pins
      /\ {bit} \in SUBSET Pins
  BY DEF Clients
<1>2. WriteBit(port, bit, on) = ReadPort(port) \o WritePort(port, cl, se, {bit})
  BY DEF WriteBit
<1> DEFINE w == ReadPort(port) \o WritePort(port, cl, se, {bit})
<1> HIDE DEF cl, se
<1>3. WellFormed("bits", port, w) /\ w[1].op = "get" /\ w[1].half = 0
  BY <1>1, RewriteWellFormed
<1> HIDE DEF w
<1>4. Ready("bits", port, w)
  BY <1>3, FirstIs
<1> QED
  BY <1>2, <1>3, <1>4 DEF w

LEMMA MuxWellFormed ==
  ASSUME NEW port \in Ports, NEW channel \in SUBSET Pins
  PROVE  /\ WellFormed("mux", port, SetMux(port, channel))
         /\ Ready("mux", port, SetMux(port, channel))
<1> DEFINE me == 0..(Width(port) - 1)
           first == Out(0, TRUE, Pins, channel, me)
           second == Out(1, FALSE, Pins, channel, me)
<1>1. me \in SUBSET Pins
  BY DEF Width, Pins
<1>2. first \in Steps /\ second \in Steps /\ Peek(0) \in Steps /\ Peek(1) \in Steps
  BY <1>1, StepsAre
<1>3. CASE port.sextet = TRUE
  <2>1. SetMux(port, channel) = << Peek(0), Peek(1), first, second >>
    BY <1>3, Zenon DEF SetMux, WritePort
  <2>2. /\ AccessOf("mux", port, Peek(0)) /\ AccessOf("mux", port, Peek(1))
        /\ AccessOf("mux", port, first) /\ AccessOf("mux", port, second)
    BY <1>3 DEF AccessOf, Board, Peek, Out
  <2>3. /\ Follows(port, Peek(0), Peek(1)) /\ Follows(port, Peek(1), first)
        /\ Follows(port, first, second)
    BY <1>3 DEF Follows, Peek, Out
  <2> HIDE DEF first, second
  <2>4. \A i \in 1..4 : i = 1 \/ i = 2 \/ i = 3 \/ i = 4
    OBVIOUS
  <2>5. \A i \in 1..3 : i = 1 \/ i = 2 \/ i = 3
    OBVIOUS
  <2>6. /\ SetMux(port, channel) \in Seq(Steps) /\ Len(SetMux(port, channel)) = 4
        /\ SetMux(port, channel)[1] = Peek(0) /\ SetMux(port, channel)[2] = Peek(1)
        /\ SetMux(port, channel)[3] = first /\ SetMux(port, channel)[4] = second
    BY <1>2, <2>1
  <2>7. WellFormed("mux", port, SetMux(port, channel))
    BY <2>2, <2>3, <2>4, <2>5, <2>6 DEF WellFormed
  <2>8. Head(SetMux(port, channel)) = Peek(0)
    BY <2>6
  <2>9. Peek(0).op = "peek" /\ Peek(0).half = 0
    BY DEF Peek
  <2> QED
    BY <2>7, <2>8, <2>9, Zenon DEF Ready
<1>4. CASE port.sextet = FALSE
  <2>1. SetMux(port, channel) = << first >>
    BY <1>4, Zenon DEF SetMux, WritePort
  <2>2. AccessOf("mux", port, first) /\ first.op = "out" /\ first.half = 0
    BY <1>4 DEF AccessOf, Board, Out
  <2> HIDE DEF first
  <2>3. << first >> \in Seq(Steps) /\ Len(<< first >>) = 1 /\ << first >>[1] = first
    BY <1>2
  <2>4. WellFormed("mux", port, SetMux(port, channel))
    BY <2>1, <2>2, <2>3, ShortWellFormed
  <2>5. Head(SetMux(port, channel)) = first
    BY <2>1, <2>3
  <2> QED
    BY <1>4, <2>2, <2>4, <2>5 DEF Ready
<1> QED
  BY <1>3, <1>4 DEF Ports

(***************************************************************************)
(* A step of a program.                                                    *)
(***************************************************************************)
LEMMA TailIs ==
  ASSUME NEW S, NEW q \in Seq(S), q # << >>
  PROVE  /\ Tail(q) \in Seq(S) /\ Len(Tail(q)) = Len(q) - 1 /\ Len(q) \in Nat \ {0}
         /\ Head(q) = q[1]
         /\ \A i \in 1..(Len(q) - 1) : Tail(q)[i] = q[i + 1]
         /\ Tail(q) # << >> => Head(Tail(q)) = q[2] /\ Len(q) > 1
OBVIOUS

LEMMA PopIs ==
  ASSUME NEW c, NEW port, NEW q, WellFormed(c, port, q), q # << >>
  PROVE  /\ WellFormed(c, port, Tail(q)) /\ AccessOf(c, port, Head(q))
         /\ Tail(q) # << >> => Follows(port, Head(q), Head(Tail(q)))
         /\ Tail(q) # q
<1>1. /\ Tail(q) \in Seq(Steps) /\ Len(Tail(q)) = Len(q) - 1 /\ Len(q) \in Nat \ {0}
      /\ Head(q) = q[1]
      /\ \A i \in 1..(Len(q) - 1) : Tail(q)[i] = q[i + 1]
      /\ Tail(q) # << >> => Head(Tail(q)) = q[2] /\ Len(q) > 1
  BY TailIs DEF WellFormed
<1>2. \A i \in 1..Len(Tail(q)) : AccessOf(c, port, Tail(q)[i])
  BY <1>1 DEF WellFormed
<1>3. \A i \in 1..(Len(Tail(q)) - 1) : Follows(port, Tail(q)[i], Tail(q)[i + 1])
  <2> TAKE i \in 1..(Len(Tail(q)) - 1)
  <2>1. i + 1 \in 1..(Len(q) - 1) /\ i \in 1..(Len(q) - 1)
    BY <1>1
  <2>2. Tail(q)[i] = q[i + 1] /\ Tail(q)[i + 1] = q[(i + 1) + 1]
    BY <1>1, <2>1
  <2> QED
    BY <2>1, <2>2 DEF WellFormed
<1>4. AccessOf(c, port, q[1])
  BY <1>1 DEF WellFormed
<1>5. Len(q) > 1 => Follows(port, q[1], q[2])
  <2>1. Len(q) > 1 => 1 \in 1..(Len(q) - 1) /\ 1 + 1 = 2
    BY <1>1
  <2> QED
    BY <2>1 DEF WellFormed
<1>6. Tail(q) # q
  <2> SUFFICES ASSUME Tail(q) = q PROVE FALSE
    OBVIOUS
  <2>1. Len(Tail(q)) = Len(q)
    BY Zenon
  <2> QED
    BY <1>1, <2>1
<1> QED
  BY <1>1, <1>2, <1>3, <1>4, <1>5, <1>6 DEF WellFormed

(***************************************************************************)
(* Octets, and words of two of them.                                       *)
(***************************************************************************)
LEMMA PortsAre ==
  ASSUME IoTypes
  PROVE  /\ \A c \in Clients : Port(c) \in Ports /\ OctetsOf(Port(c)) \subseteq Octets
         /\ Port("caller") = Port("clock") /\ Port("clock").sextet = FALSE
<1>1. layout \in Layouts
  BY DEF IoTypes
<1>2. layout \in [Clients -> Ports] /\ "clock" \in Clients /\ "caller" \in Clients
  BY <1>1, IoBoardAssumption DEF Ports, Clients
<1>3. \A c \in Clients : Port(c) \in Ports
  BY <1>2 DEF Port
<1>4. \A c \in Clients : OctetsOf(Port(c)) \subseteq Octets
  BY <1>1, IoBoardAssumption, Zenon DEF Port
<1>5. Port("caller") = Port("clock")
  BY <1>1, IoBoardAssumption, Zenon DEF Port
<1>6. Port("clock").sextet = FALSE
  <2>1. ~Port("clock").sextet
    BY <1>1, IoBoardAssumption, Zenon DEF Port
  <2>2. Port("clock") \in Ports
    BY <1>2, <1>3
  <2> QED
    BY <2>1, <2>2 DEF Ports
<1> QED
  BY <1>3, <1>4, <1>5, <1>6

LEMMA FieldIs ==
  ASSUME NEW port \in Ports
  PROVE  /\ First(port) \in Nat /\ Shift(port) \in 0..7
         /\ port.sextet => Width(port) = 6
         /\ ~port.sextet => Width(port) = 8 /\ Shift(port) = 0 /\ Field(port) = Pins
         /\ Width(port) \in {6, 8}
         /\ Field(port) = Shift(port)..(Shift(port) + Width(port) - 1)
<1>1. port.sextet \in BOOLEAN /\ port.id \in Nat
  BY DEF Ports
<1>2. CASE port.sextet = TRUE
  <2>1. (6 * port.id) \div 8 \in Nat /\ (6 * port.id) % 8 \in 0..7
    BY <1>1
  <2> QED
    BY <1>2, <2>1 DEF First, Shift, Width, Field
<1>3. CASE port.sextet = FALSE
  BY <1>1, <1>3 DEF First, Shift, Width, Field, Pins
<1> QED
  BY <1>1, <1>2, <1>3

\* An octet put in its half of a word.
Put(w, b, h) == (w \ Half(Pins, h)) \cup Half(b, h)

LEMMA HalfIs ==
  ASSUME NEW w, NEW b \in SUBSET Pins, NEW h \in {0, 1}
  PROVE  /\ HalfOf(Put(w, b, h), h) = b
         /\ \A k \in {0, 1} : k # h => HalfOf(Put(w, b, h), k) = HalfOf(w, k)
<1> DEFINE x == Put(w, b, h)
<1>1. \A p \in Pins, k \in {0, 1} : p + 8 * k \in Half(b, h) <=> k = h /\ p \in b
  BY DEF Half, Pins
<1>2. \A p \in Pins, k \in {0, 1} : p + 8 * k \in Half(Pins, h) <=> k = h
  BY DEF Half, Pins
<1>3. \A p \in Pins, k \in {0, 1} :
        p + 8 * k \in x <=> (p + 8 * k \in w /\ k # h) \/ (k = h /\ p \in b)
  BY <1>1, <1>2, Zenon DEF Put
<1> HIDE DEF x
<1>4. HalfOf(x, h) = b
  BY <1>3 DEF HalfOf
<1>5. ASSUME NEW k \in {0, 1}, k # h PROVE HalfOf(x, k) = HalfOf(w, k)
  BY <1>3, <1>5 DEF HalfOf
<1> QED
  BY <1>4, <1>5 DEF x

\* The bit of a port that lies at a place of the word.
LEMMA PlaceIs ==
  ASSUME NEW port \in Ports, NEW h \in {0, 1}, NEW p \in Pins, p + 8 * h \in Field(port)
  PROVE  /\ (p + 8 * h) - Shift(port) \in 0..(Width(port) - 1)
         /\ ((p + 8 * h) - Shift(port)) + Shift(port) = p + 8 * h
<1>1. /\ Shift(port) \in 0..7 /\ Width(port) \in {6, 8}
      /\ p + 8 * h \in Shift(port)..(Shift(port) + Width(port) - 1)
  BY FieldIs
<1> QED
  BY <1>1 DEF Pins

LEMMA ExtractIs ==
  ASSUME NEW port \in Ports, NEW w, NEW h \in {0, 1}, NEW p \in Pins, p + 8 * h \in Field(port)
  PROVE  (p + 8 * h) - Shift(port) \in Extract(port, w) <=> p \in HalfOf(w, h)
BY PlaceIs DEF Extract, HalfOf

\* A pin of a word with the bits d put in.
LEMMA InsertIs ==
  ASSUME NEW port \in Ports, NEW w, NEW d, NEW h \in {0, 1}, NEW p \in Pins
  PROVE  /\ p + 8 * h \notin Field(port) =>
              (p + 8 * h \in Insert(port, w, d) <=> p + 8 * h \in w)
         /\ p + 8 * h \in Field(port) =>
              (p + 8 * h \in Insert(port, w, d) <=> (p + 8 * h) - Shift(port) \in d)
         /\ \A m : p + 8 * h \in Field(port) /\ (p + 8 * h) - Shift(port) \in m
                     => p \in HalfOf({b + Shift(port) : b \in m}, h)
<1>0. PICK n : n = p + 8 * h
  OBVIOUS
<1>1. /\ Shift(port) \in 0..7 /\ Width(port) \in {6, 8}
      /\ Field(port) = Shift(port)..(Shift(port) + Width(port) - 1)
  BY FieldIs
<1>2. n \in Nat
  BY <1>0 DEF Pins
<1>3. n \in Field(port) =>
        n - Shift(port) \in 0..(Width(port) - 1) /\ (n - Shift(port)) + Shift(port) = n
  BY <1>1, <1>2
<1>4. \A b \in 0..(Width(port) - 1) :
        b + Shift(port) \in Field(port) /\ (b + Shift(port) = n => b = n - Shift(port))
  BY <1>1, <1>2
<1>5. n \notin Field(port) => (n \in Insert(port, w, d) <=> n \in w)
  BY <1>4, Zenon DEF Insert
<1>6. n \in Field(port) => (n \in Insert(port, w, d) <=> n - Shift(port) \in d)
  BY <1>3, <1>4, Zenon DEF Insert
<1>7. \A m : n \in Field(port) /\ n - Shift(port) \in m
               => p \in HalfOf({b + Shift(port) : b \in m}, h)
  BY <1>0, <1>3, Zenon DEF HalfOf
<1> QED
  BY <1>0, <1>5, <1>6, <1>7, Zenon

(***************************************************************************)
(* A client's access, and what follows it.                                 *)
(***************************************************************************)
LEMMA HeadIs ==
  ASSUME IoTypes, Programs, NEW c \in Clients, todo[c] # << >>
  PROVE  /\ WellFormed(c, Port(c), Tail(todo[c])) /\ Tail(todo[c]) \in Seq(Steps)
         /\ Tail(todo[c]) # todo[c] /\ AccessOf(c, Port(c), Head(todo[c]))
         /\ Tail(todo[c]) # << >> => Follows(Port(c), Head(todo[c]), Head(Tail(todo[c])))
         /\ Port(c) \in Ports
         /\ Part(c, 0) \in Nat /\ Part(c, 1) \in Nat /\ Part(c, 0) # Part(c, 1)
         /\ Head(todo[c]).op \in Board =>
              /\ OctetOf(c) = Part(c, Head(todo[c]).half)
              /\ Head(todo[c]).half \in {0, 1} /\ OctetOf(c) \in OctetsOf(Port(c))
              /\ OctetOf(c) \in Octets
<1>1. WellFormed(c, Port(c), todo[c])
  BY DEF Programs
<1>2. /\ WellFormed(c, Port(c), Tail(todo[c])) /\ AccessOf(c, Port(c), Head(todo[c]))
      /\ Tail(todo[c]) # << >> => Follows(Port(c), Head(todo[c]), Head(Tail(todo[c])))
      /\ Tail(todo[c]) # todo[c]
  BY <1>1, PopIs
<1>3. Tail(todo[c]) \in Seq(Steps)
  BY <1>2 DEF WellFormed
<1>4. Port(c) \in Ports /\ OctetsOf(Port(c)) \subseteq Octets
  BY PortsAre
<1>5. First(Port(c)) \in Nat
  BY <1>4, FieldIs
<1>6. Part(c, 0) \in Nat /\ Part(c, 1) \in Nat /\ Part(c, 0) # Part(c, 1)
  BY <1>5 DEF Part
<1>7. ASSUME Head(todo[c]).op \in Board
      PROVE  /\ OctetOf(c) = Part(c, Head(todo[c]).half)
             /\ Head(todo[c]).half \in {0, 1} /\ OctetOf(c) \in OctetsOf(Port(c))
  <2>1. Head(todo[c]).half \in {0, 1} /\ (~Port(c).sextet => Head(todo[c]).half = 0)
    BY <1>2, <1>7 DEF AccessOf
  <2>2. OctetOf(c) = Part(c, Head(todo[c]).half)
    BY DEF OctetOf, Part
  <2>3. Part(c, Head(todo[c]).half) \in OctetsOf(Port(c))
    BY <1>5, <2>1 DEF Part, OctetsOf
  <2> QED
    BY <2>1, <2>2, <2>3
<1> QED
  BY <1>2, <1>3, <1>4, <1>6, <1>7

\* What the others do, short of writing an octet of c's, leaves c's reading fresh.
LEMMA OthersFresh ==
  ASSUME NEW c, Fresh(c), layout' = layout, todo'[c] = todo[c], data'[c] = data[c],
         word'[c] = word[c], stale[c] \subseteq stale'[c],
         \A o \in Octets : o \notin stale'[c] => pins'[o] = pins[o]
  PROVE  Fresh(c)'
<1>1. Port(c)' = Port(c) /\ \A h : Part(c, h)' = Part(c, h)
  BY DEF Port, Part
<1>2. \A h : HalfFresh(c, h) => HalfFresh(c, h)'
  BY <1>1 DEF HalfFresh
<1>3. \A h : DataFresh(c, h) => DataFresh(c, h)'
  BY <1>1, Zenon DEF DataFresh
<1>4. Meant(c)' = Meant(c)
  BY <1>1 DEF Meant
<1>5. WrittenFresh(c) => WrittenFresh(c)'
  BY <1>1, <1>4, Zenon DEF WrittenFresh
<1>6. ASSUME NEW s, FreshAt(c, s) PROVE FreshAt(c, s)'
  BY <1>1, <1>2, <1>3, <1>5, <1>6, Zenon DEF FreshAt
<1> QED
  BY <1>6 DEF Fresh

\* The pins outside the meaning of a write, in the word with the data put in.
LEMMA InsertKeeps ==
  ASSUME IoTypes, Programs, NEW c \in Clients \ {"bits"}, At(c, "out"),
         Head(todo[c]).half = 0, FreshAt(c, Head(todo[c])),
         NEW h \in {0, 1}, h = 0 \/ Port(c).sextet, Part(c, h) \in Octets \ stale[c],
         NEW p \in Pins,
         p \notin HalfOf({b + Shift(Port(c)) : b \in Head(todo[c]).means}, h)
  PROVE  p + 8 * h \in Insert(Port(c), word[c],
                              (data[c] \ Head(todo[c]).clear) \cup Head(todo[c]).set)
           <=> p \in pins[Part(c, h)]
<1> DEFINE s == Head(todo[c])
           port == Port(c)
<1>0. c \in Clients /\ todo[c] # << >> /\ s.op = "out" /\ s.half = 0
  BY DEF At
<1>1. port \in Ports /\ AccessOf(c, port, s)
  BY <1>0, HeadIs
<1>2. s.means = (IF c = "mux" THEN 0..(Width(port) - 1) ELSE s.clear \cup s.set)
  BY <1>0, <1>1 DEF AccessOf
<1>3. /\ port.sextet => HalfFresh(c, 0) /\ HalfFresh(c, 1)
      /\ c # "mux" => DataFresh(c, 0) /\ (port.sextet => DataFresh(c, 1))
  BY <1>0, Zenon DEF FreshAt
<1>4. p + 8 * h \notin Field(port) => (p + 8 * h \in word[c] <=> p \in pins[Part(c, h)])
  <2>1. CASE port.sextet
    <3>1. HalfOf(word[c], h) = pins[Part(c, h)]
      BY <1>3, <2>1 DEF HalfFresh
    <3>2. p \in HalfOf(word[c], h) <=> p + 8 * h \in word[c]
      BY DEF HalfOf
    <3> QED
      BY <3>1, <3>2
  <2>2. CASE ~port.sextet
    <3>1. Field(port) = Pins /\ h = 0
      BY <1>1, <2>2, FieldIs
    <3>2. p + 8 * h = p
      BY <3>1 DEF Pins
    <3> QED
      BY <3>1, <3>2
  <2> QED
    BY <2>1, <2>2
<1>5. ASSUME p + 8 * h \in Field(port)
      PROVE  (p + 8 * h) - Shift(port) \in (data[c] \ s.clear) \cup s.set
               <=> p \in pins[Part(c, h)]
  <2>1. (p + 8 * h) - Shift(port) \notin s.means
    BY <1>1, <1>5, InsertIs, Zenon
  <2>2. c # "mux"
    <3>1. (p + 8 * h) - Shift(port) \in 0..(Width(port) - 1)
      BY <1>1, <1>5, PlaceIs
    <3> QED
      BY <1>2, <2>1, <3>1, Zenon
  <2>3. DataFresh(c, h)
    BY <1>3, <2>2
  <2>4. (p + 8 * h) - Shift(port) \in data[c] <=> p \in pins[Part(c, h)]
    BY <1>5, <2>3, Zenon DEF DataFresh
  <2> QED
    BY <1>2, <2>1, <2>2, <2>4, Zenon
<1> HIDE DEF s, port
<1>6. p + 8 * h \in Insert(port, word[c], (data[c] \ s.clear) \cup s.set)
        <=> p \in pins[Part(c, h)]
  <2>1. PICK d : d = (data[c] \ s.clear) \cup s.set
    OBVIOUS
  <2>2. /\ p + 8 * h \notin Field(port) =>
             (p + 8 * h \in Insert(port, word[c], d) <=> p + 8 * h \in word[c])
        /\ p + 8 * h \in Field(port) =>
             (p + 8 * h \in Insert(port, word[c], d) <=> (p + 8 * h) - Shift(port) \in d)
    BY <1>1, InsertIs
  <2> QED
    BY <1>4, <1>5, <2>1, <2>2, Zenon
<1> QED
  BY <1>6 DEF s, port

\* A read that did not fail.
LEMMA ReadFresh ==
  ASSUME IoTypes, Programs, NEW c \in Clients \ {"bits"}, Fresh(c), ReadOctet(c), fails' = fails
  PROVE  Fresh(c)'
<1> DEFINE port == Port(c)
<1>0. PICK s, t : s = Head(todo[c]) /\ t = Head(Tail(todo[c]))
  OBVIOUS
<1>1. c \in Clients /\ todo[c] # << >> /\ s.op \in {"get", "peek"} /\ s.op \in Board
  BY <1>0 DEF ReadOctet, At, Board
<1>2. FreshAt(c, s)
  BY <1>0, <1>1 DEF Fresh
<1>3. /\ AccessOf(c, port, s) /\ OctetOf(c) = Part(c, s.half) /\ s.half \in {0, 1}
      /\ OctetOf(c) \in Octets /\ port \in Ports
      /\ Part(c, 0) # Part(c, 1) /\ (Tail(todo[c]) # << >> => Follows(port, s, t))
  BY <1>0, <1>1, HeadIs
<1>4. /\ todo'[c] = Tail(todo[c]) /\ layout' = layout /\ pins' = pins
      /\ stale'[c] = IF s.op = "get" THEN stale[c] \ {OctetOf(c)} ELSE stale[c]
  BY <1>0, <1>1 DEF ReadOctet, Pop, Keep, At, IoTypes
<1>5. /\ word'[c] = (word[c] \ Half(Pins, s.half)) \cup Half(pins[OctetOf(c)], s.half)
      /\ data'[c] = IF s.op = "get" /\ s.take THEN Extract(port, word'[c]) ELSE data[c]
  <2> DEFINE take(w) ==
        IF At(c, "get") /\ s.take THEN [data EXCEPT ![c] = Extract(Port(c), w)] ELSE data
      rest == word[c] \ Half(Pins, s.half)
  <2>1. fails \in Nat /\ fails' # fails + 1
    BY DEF IoTypes
  <2>2. /\ word' = [word EXCEPT ![c] = rest \cup Half(pins[OctetOf(c)], s.half)]
        /\ data' = take(word'[c])
    BY <1>0, <2>1, Zenon DEF ReadOctet
  <2>3. At(c, "get") <=> s.op = "get"
    BY <1>0, <1>1 DEF At
  <2> QED
    BY <1>1, <2>2, <2>3 DEF IoTypes
<1>6. pins[OctetOf(c)] \in SUBSET Pins
  BY <1>3 DEF IoTypes
<1>7. /\ HalfOf(word'[c], s.half) = pins[OctetOf(c)]
      /\ \A k \in {0, 1} : k # s.half => HalfOf(word'[c], k) = HalfOf(word[c], k)
  <2>1. PICK b, h, w, x : b = pins[OctetOf(c)] /\ h = s.half /\ w = word[c] /\ x = word'[c]
    OBVIOUS
  <2>2. b \in SUBSET Pins /\ h \in {0, 1} /\ x = Put(w, b, h)
    BY <1>3, <1>5, <1>6, <2>1 DEF Put
  <2>3. HalfOf(x, h) = b /\ \A k \in {0, 1} : k # h => HalfOf(x, k) = HalfOf(w, k)
    BY <2>2, HalfIs
  <2> QED
    BY <2>1, <2>3
<1>8. Port(c)' = port /\ \A h : Part(c, h)' = Part(c, h)
  BY <1>4 DEF Port, Part
<1> SUFFICES ASSUME Tail(todo[c]) # << >>
             PROVE  FreshAt(c, t)'
  BY <1>0, <1>4, Zenon DEF Fresh
<1>9. Follows(port, s, t)
  BY <1>3
<1>10. HalfFresh(c, s.half)'
  BY <1>3, <1>4, <1>7, <1>8, Zenon DEF HalfFresh
<1>11. ASSUME NEW k \in {0, 1}, k # s.half, HalfFresh(c, k) PROVE HalfFresh(c, k)'
  <2>1. Part(c, k) # OctetOf(c)
    BY <1>3, <1>11
  <2> QED
    BY <1>4, <1>7, <1>8, <1>11, <2>1 DEF HalfFresh
<1>12. ASSUME s.op = "get", s.take, NEW k \in {0, 1}, HalfFresh(c, k)' PROVE DataFresh(c, k)'
  <2>1. data'[c] = Extract(port, word'[c])
    BY <1>5, <1>12
  <2>2. ASSUME Part(c, k) \in Octets \ stale'[c], NEW p \in Pins, p + 8 * k \in Field(port)
        PROVE  (p + 8 * k) - Shift(port) \in data'[c] <=> p \in pins'[Part(c, k)]
    <3>1. HalfOf(word'[c], k) = pins'[Part(c, k)]
      BY <1>8, <1>12, <2>2, Zenon DEF HalfFresh
    <3>2. (p + 8 * k) - Shift(port) \in Extract(port, word'[c]) <=> p \in HalfOf(word'[c], k)
      BY <1>3, <1>12, <2>2, ExtractIs
    <3> QED
      BY <2>1, <3>1, <3>2, Zenon
  <2> QED
    BY <1>8, <2>2, Zenon DEF DataFresh
<1>13. ASSUME s.op = "peek", NEW k, DataFresh(c, k) PROVE DataFresh(c, k)'
  <2>1. data'[c] = data[c] /\ stale'[c] = stale[c]
    BY <1>4, <1>5, <1>13
  <2> QED
    BY <1>4, <1>8, <1>13, <2>1, Zenon DEF DataFresh
<1>14. CASE s.op = "get" /\ port.sextet /\ s.half = 0
  <2>1. t.op = "get" /\ t.half = 1
    BY <1>9, <1>14 DEF Follows
  <2> QED
    BY <1>10, <1>14, <2>1 DEF FreshAt
<1>15. CASE s.op = "get" /\ ~(port.sextet /\ s.half = 0)
  <2>1. t.half = 0 /\ t.op = (IF port.sextet THEN "peek" ELSE "out")
    BY <1>9, <1>15 DEF Follows
  <2>2. s.take
    BY <1>3, <1>15 DEF AccessOf
  <2>3. CASE port.sextet
    <3>1. s.half = 1
      BY <1>3, <1>15, <2>3
    <3>2. HalfFresh(c, 0)
      BY <1>2, <1>15, <3>1 DEF FreshAt
    <3>3. HalfFresh(c, 0)' /\ HalfFresh(c, 1)'
      BY <1>10, <1>11, <3>1, <3>2
    <3>4. DataFresh(c, 0)' /\ DataFresh(c, 1)'
      BY <1>12, <1>15, <2>2, <3>3
    <3> QED
      BY <2>1, <2>3, <3>4 DEF FreshAt
  <2>4. CASE ~port.sextet
    <3>1. s.half = 0
      BY <1>1, <1>3, <2>4 DEF AccessOf
    <3>2. DataFresh(c, 0)'
      BY <1>10, <1>12, <1>15, <2>2, <3>1
    <3> QED
      BY <1>8, <2>1, <2>4, <3>2 DEF FreshAt
  <2> QED
    BY <2>3, <2>4
<1>16. CASE s.op = "peek"
  <2>1. port.sextet
    BY <1>3, <1>16 DEF AccessOf
  <2>2. c # "mux" => DataFresh(c, 0)' /\ DataFresh(c, 1)'
    BY <1>2, <1>13, <1>16, <2>1 DEF FreshAt
  <2>3. CASE s.half = 0
    <3>1. t.op = "peek" /\ t.half = 1
      BY <1>9, <1>16, <2>3 DEF Follows
    <3> QED
      BY <1>10, <2>2, <2>3, <3>1 DEF FreshAt
  <2>4. CASE s.half = 1
    <3>1. t.op = "out" /\ t.half = 0
      BY <1>9, <1>16, <2>4 DEF Follows
    <3>2. HalfFresh(c, 0)
      BY <1>2, <1>16, <2>4 DEF FreshAt
    <3>3. HalfFresh(c, 0)' /\ HalfFresh(c, 1)'
      BY <1>10, <1>11, <2>4, <3>2
    <3> QED
      BY <2>2, <3>1, <3>3 DEF FreshAt
  <2> QED
    BY <1>3, <2>3, <2>4
<1> QED
  BY <1>1, <1>14, <1>15, <1>16

\* The pins that a write changes, and what is left for the write of the other half.
LEMMA WriteKeeps ==
  ASSUME IoTypes, Programs, NEW c \in Clients \ {"bits"}, Fresh(c), WriteDone(c)
  PROVE  /\ OctetOf(c) \in stale[c] \/ Changed(OctetOf(c)) \subseteq Meant(c)
         /\ Fresh(c)'
<1>0. PICK s, t : s = Head(todo[c]) /\ t = Head(Tail(todo[c]))
  OBVIOUS
<1> DEFINE port == Port(c)
           d == (data[c] \ s.clear) \cup s.set
           shifted == {b + Shift(port) : b \in s.means}
<1>1. c \in Clients /\ todo[c] # << >> /\ s.op = "out" /\ s.op \in Board
  BY <1>0 DEF WriteDone, At, Board
<1>2. FreshAt(c, s)
  BY <1>0, <1>1 DEF Fresh
<1>3. /\ AccessOf(c, port, s) /\ OctetOf(c) = Part(c, s.half) /\ s.half \in {0, 1}
      /\ OctetOf(c) \in Octets
      /\ Part(c, 0) # Part(c, 1) /\ (Tail(todo[c]) # << >> => Follows(port, s, t))
  BY <1>0, <1>1, HeadIs
<1>4. s.first <=> s.half = 0
  BY <1>1, <1>3 DEF AccessOf
<1>5. /\ todo'[c] = Tail(todo[c]) /\ layout' = layout /\ stale'[c] = stale[c]
      /\ word'[c] = IF s.first THEN Insert(port, word[c], d) ELSE word[c]
      /\ pins' = [pins EXCEPT ![OctetOf(c)] = HalfOf(word'[c], s.half)]
  <2>1. todo'[c] = Tail(todo[c]) /\ layout' = layout /\ stale'[c] = stale[c]
    BY <1>1 DEF WriteDone, Pop, Keep, IoTypes
  <2>2. PICK v : /\ v = IF s.first THEN Insert(port, word[c], IF s.first THEN d ELSE data[c])
                         ELSE word[c]
                 /\ word' = [word EXCEPT ![c] = v]
                 /\ pins' = [pins EXCEPT ![OctetOf(c)] = HalfOf(v, s.half)]
    BY <1>0, Zenon DEF WriteDone
  <2>3. word'[c] = v
    BY <1>1, <2>2 DEF IoTypes
  <2>4. v = IF s.first THEN Insert(port, word[c], d) ELSE word[c]
    BY <2>2
  <2> QED
    BY <2>1, <2>2, <2>3, <2>4
<1>6. pins'[OctetOf(c)] = HalfOf(word'[c], s.half) /\ pins[OctetOf(c)] \in SUBSET Pins
      /\ \A o \in Octets : o # OctetOf(c) => pins'[o] = pins[o]
  BY <1>3, <1>5 DEF IoTypes
<1>7. Port(c)' = port /\ \A h : Part(c, h)' = Part(c, h)
  BY <1>5 DEF Port, Part
<1>8. Meant(c) = HalfOf(shifted, s.half)
  BY <1>0 DEF Meant
<1>9. ASSUME OctetOf(c) \notin stale[c], NEW p \in Pins, p \notin Meant(c)
      PROVE  p + 8 * s.half \in word'[c] <=> p \in pins[OctetOf(c)]
  <2>1. CASE s.half = 0
    <3>1. p + 8 * 0 \in Insert(port, word[c], d) <=> p \in pins[Part(c, 0)]
      BY <1>1, <1>2, <1>3, <1>8, <1>9, <2>1, <1>0, InsertKeeps,
        ZenonT(60) DEF At
    <3> QED
      BY <1>3, <1>4, <1>5, <2>1, <3>1
  <2>2. CASE s.half = 1
    <3>1. WrittenFresh(c)
      BY <1>1, <1>2, <2>2 DEF FreshAt
    <3>2. p + 8 \in word[c] <=> p \in pins[Part(c, 1)]
      BY <1>3, <1>9, <2>2, <3>1 DEF WrittenFresh
    <3>3. word'[c] = word[c]
      BY <1>4, <1>5, <2>2
    <3> QED
      BY <1>3, <2>2, <3>2, <3>3
  <2> QED
    BY <1>3, <2>1, <2>2
<1>10. OctetOf(c) \notin stale[c] => Changed(OctetOf(c)) \subseteq Meant(c)
  <2> SUFFICES ASSUME OctetOf(c) \notin stale[c], NEW p \in Pins, p \notin Meant(c)
               PROVE  p \in pins[OctetOf(c)] <=> p \in pins'[OctetOf(c)]
    BY <1>6 DEF Changed, HalfOf
  <2>1. p \in pins'[OctetOf(c)] <=> p + 8 * s.half \in word'[c]
    BY <1>6, Zenon DEF HalfOf
  <2> QED
    BY <1>9, <2>1
<1>11. Fresh(c)'
  <2> SUFFICES ASSUME Tail(todo[c]) # << >>
               PROVE  FreshAt(c, t)'
    BY <1>0, <1>5, Zenon DEF Fresh
  <2>1. Follows(port, s, t)
    BY <1>3
  <2>2. CASE port.sextet /\ s.half = 0
    <3>1. t.op = "out" /\ t.half = 1 /\ t.means = s.means
      BY <1>1, <2>1, <2>2 DEF Follows
    <3>2. Meant(c)' = HalfOf(shifted, 1)
      BY <1>0, <1>5, <1>7, <3>1 DEF Meant
    <3>3. ASSUME Part(c, 1) \in Octets \ stale[c], NEW p \in Pins, p \notin HalfOf(shifted, 1)
          PROVE  p + 8 \in word'[c] <=> p \in pins'[Part(c, 1)]
      <4>1. p + 8 * 1 \in Insert(port, word[c], d) <=> p \in pins[Part(c, 1)]
        BY <1>1, <1>2, <1>3, <2>2, <3>3, <1>0, InsertKeeps DEF At
      <4>2. Part(c, 1) \in Octets
        <5>1. Part(c, 1) \in OctetsOf(port)
          BY <2>2 DEF Part, OctetsOf
        <5> QED
          BY <5>1, PortsAre
      <4>3. pins'[Part(c, 1)] = pins[Part(c, 1)]
        BY <1>3, <1>6, <2>2, <4>2
      <4>4. word'[c] = Insert(port, word[c], d)
        BY <1>4, <1>5, <2>2
      <4> QED
        BY <4>1, <4>3, <4>4
    <3>4. WrittenFresh(c)'
      BY <1>5, <1>7, <3>2, <3>3, Zenon DEF WrittenFresh
    <3> QED
      BY <3>1, <3>4 DEF FreshAt
  <2>3. CASE ~(port.sextet /\ s.half = 0)
    <3>1. t.op \notin {"peek", "out"} /\ (t.op = "get" => t.half = 0)
      BY <1>1, <2>1, <2>3 DEF Follows
    <3> QED
      BY <3>1 DEF FreshAt
  <2> QED
    BY <2>2, <2>3
<1> QED
  BY <1>10, <1>11

(***************************************************************************)
(* The invariant of the accesses.                                          *)
(***************************************************************************)
\* A client goes on, or begins a program.
LEMMA ProgramsKept ==
  ASSUME IoTypes, Programs, NEW c \in Clients, NEW q, WellFormed(c, Port(c), q),
         todo' = [todo EXCEPT ![c] = q], layout' = layout
  PROVE  todo' \in [Clients -> Seq(Steps)] /\ Programs'
<1>1. q \in Seq(Steps)
  BY DEF WellFormed
<1>2. todo' \in [Clients -> Seq(Steps)]
  BY <1>1 DEF IoTypes
<1>3. \A e : Port(e)' = Port(e)
  BY DEF Port
<1>4. ASSUME NEW e \in Clients PROVE WellFormed(e, Port(e)', todo'[e])
  <2>1. CASE e = c
    BY <1>3, <2>1 DEF IoTypes
  <2>2. CASE e # c
    <3>1. todo'[e] = todo[e]
      BY <2>2 DEF IoTypes
    <3> QED
      BY <1>3, <3>1 DEF Programs
  <2> QED
    BY <2>1, <2>2
<1> QED
  BY <1>2, <1>4, Zenon DEF Programs, WellFormed

AllFresh == \A c \in Clients \ {"bits"} : Fresh(c)

\* A step that is not of the board.
LEMMA ControlKeeps ==
  ASSUME IoTypes, Programs, NEW c \in Clients, todo[c] # << >>,
         Head(todo[c]).op \notin Board, Pop(c), UNCHANGED <<layout, pins, data, word, stale>>,
         fails' \in Nat, fails' = 0 => AllFresh
  PROVE  AccessInv'
<1>1. /\ WellFormed(c, Port(c), Tail(todo[c]))
      /\ Tail(todo[c]) # << >> => Follows(Port(c), Head(todo[c]), Head(Tail(todo[c])))
  BY HeadIs
<1>2. todo' \in [Clients -> Seq(Steps)] /\ Programs'
  BY <1>1, ProgramsKept DEF Pop
<1>3. IoTypes'
  BY <1>2 DEF IoTypes
<1>4. ASSUME AllFresh, NEW d \in Clients \ {"bits"} PROVE Fresh(d)'
  <2>1. CASE d = c
    <3>1. todo'[c] = Tail(todo[c])
      BY DEF Pop, IoTypes
    <3>2. ASSUME todo'[c] # << >>
          PROVE  LET t == Head(todo'[c])
                 IN  t.op \notin {"peek", "out"} /\ (t.op = "get" => t.half = 0)
      BY <1>1, <3>1, <3>2 DEF Follows, Board
    <3> QED
      <4>1. PICK t : t = Head(todo'[c])
        OBVIOUS
      <4>2. todo'[c] # << >> => FreshAt(c, t)'
        BY <3>2, <4>1 DEF FreshAt
      <4> QED
        BY <2>1, <4>1, <4>2, Zenon DEF Fresh
  <2>2. CASE d # c
    <3>1. todo'[d] = todo[d]
      BY <2>2 DEF Pop, IoTypes
    <3> QED
      BY <1>4, <3>1, OthersFresh DEF AllFresh
  <2> QED
    BY <2>1, <2>2
<1> QED
  BY <1>2, <1>3, <1>4 DEF AccessInv

\* A program that begins.
LEMMA StartKeeps ==
  ASSUME AccessInv, NEW c \in Clients, NEW q, WellFormed(c, Port(c), q),
         Ready(c, Port(c), q), todo[c] = << >>, todo' = [todo EXCEPT ![c] = q],
         stale' \in {stale, [stale EXCEPT ![c] = {}]},
         UNCHANGED <<layout, pins, data, word, fails>>
  PROVE  AccessInv'
<1>0. IoTypes /\ Programs
  BY DEF AccessInv
<1>1. todo' \in [Clients -> Seq(Steps)] /\ Programs'
  BY <1>0, ProgramsKept
<1>2. IoTypes'
  BY <1>0, <1>1 DEF IoTypes
<1>3. ASSUME fails = 0, NEW d \in Clients \ {"bits"} PROVE Fresh(d)'
  <2>1. CASE d = c
    <3>1. todo'[c] = q /\ Port(c)' = Port(c)
      BY <1>0 DEF IoTypes, Port
    <3>2. PICK h : h = Head(q)
      OBVIOUS
    <3>3. q # << >> => FreshAt(c, h)'
      BY <3>1, <3>2 DEF Ready, FreshAt
    <3> QED
      BY <2>1, <3>1, <3>2, <3>3, Zenon DEF Fresh
  <2>2. CASE d # c
    <3>1. todo'[d] = todo[d] /\ stale'[d] = stale[d]
      BY <1>0, <2>2 DEF IoTypes
    <3>2. Fresh(d)
      BY <1>3 DEF AccessInv
    <3> QED
      BY <3>1, <3>2, OthersFresh
  <2> QED
    BY <2>1, <2>2
<1> QED
  BY <1>1, <1>2, <1>3 DEF AccessInv

LEMMA AccessInit ==
  ASSUME Init
  PROVE  AccessInv
<1>1. << >> \in Seq(Steps)
  OBVIOUS
<1>2. {5, 7} \subseteq Pins
  BY DEF Pins
<1>3. \A c \in Clients : todo[c] = << >>
  BY DEF Init
<1>4. IoTypes
  BY <1>1, <1>2 DEF Init, IoTypes
<1>5. Programs
  <2>1. ASSUME NEW c \in Clients PROVE WellFormed(c, Port(c), << >>)
    BY <1>1 DEF WellFormed
  <2> QED
    BY <1>3, <2>1 DEF Programs
<1>6. \A c \in Clients : Fresh(c)
  BY <1>3 DEF Fresh
<1> QED
  BY <1>4, <1>5, <1>6 DEF AccessInv

LEMMA ReadStep ==
  ASSUME AccessInv, NEW c \in Clients, ReadOctet(c)
  PROVE  AccessInv'
<1>0. IoTypes /\ Programs
  BY DEF AccessInv
<1>1. todo[c] # << >> /\ Pop(c) /\ layout' = layout /\ pins' = pins
  BY DEF ReadOctet, At, Keep
<1>2. /\ DOMAIN data' = Clients /\ DOMAIN word' = Clients /\ DOMAIN stale' = Clients
      /\ fails' \in Nat /\ (fails' = 0 => fails' = fails)
      /\ \A d \in Clients \ {c} :
           data'[d] = data[d] /\ word'[d] = word[d] /\ stale'[d] = stale[d]
  <2>1. /\ fails' \in Nat /\ (fails' = 0 => fails' = fails)
    BY <1>0 DEF ReadOctet, IoTypes
  <2>2. DOMAIN word' = Clients /\ \A d \in Clients \ {c} : word'[d] = word[d]
    <3>1. \E x : word' = [word EXCEPT ![c] = x]
      BY Zenon DEF ReadOctet
    <3> QED
      BY <1>0, <3>1 DEF IoTypes
  <2>3. DOMAIN stale' = Clients /\ \A d \in Clients \ {c} : stale'[d] = stale[d]
    BY <1>0 DEF ReadOctet, IoTypes
  <2>4. DOMAIN data' = Clients /\ \A d \in Clients \ {c} : data'[d] = data[d]
    <3>1. \E x : data' = [data EXCEPT ![c] = x] \/ data' = data
      BY Zenon DEF ReadOctet
    <3> QED
      BY <1>0, <3>1 DEF IoTypes
  <2> QED
    BY <2>1, <2>2, <2>3, <2>4
<1>3. WellFormed(c, Port(c), Tail(todo[c]))
  BY <1>0, <1>1, HeadIs
<1>4. todo' \in [Clients -> Seq(Steps)] /\ Programs'
  BY <1>0, <1>1, <1>3, ProgramsKept DEF Pop
<1>5. IoTypes'
  BY <1>0, <1>1, <1>2, <1>4 DEF IoTypes
<1>6. ASSUME fails' = 0, NEW d \in Clients \ {"bits"} PROVE Fresh(d)'
  <2>1. fails = 0 /\ fails' = fails /\ Fresh(d)
    BY <1>2, <1>6 DEF AccessInv
  <2>2. CASE d = c
    BY <1>0, <2>1, <2>2, ReadFresh
  <2>3. CASE d # c
    <3>1. todo'[d] = todo[d]
      BY <1>0, <1>1, <2>3 DEF Pop, IoTypes
    <3> QED
      BY <1>1, <1>2, <2>1, <2>3, <3>1, OthersFresh
  <2> QED
    BY <2>2, <2>3
<1> QED
  BY <1>4, <1>5, <1>6 DEF AccessInv

LEMMA WriteStep ==
  ASSUME AccessInv, NEW c \in Clients, WriteDone(c)
  PROVE  AccessInv'
<1>0. IoTypes /\ Programs
  BY DEF AccessInv
<1>1. /\ todo[c] # << >> /\ Pop(c) /\ layout' = layout /\ fails' = fails
      /\ Head(todo[c]).op \in Board
  BY DEF WriteDone, At, Keep, Board
<1>2. /\ DOMAIN data' = Clients /\ DOMAIN word' = Clients /\ DOMAIN stale' = Clients
      /\ \A d \in Clients \ {c} :
           /\ data'[d] = data[d] /\ word'[d] = word[d]
           /\ stale'[d] = stale[d] \cup {OctetOf(c)}
  <2>1. DOMAIN word' = Clients /\ \A d \in Clients \ {c} : word'[d] = word[d]
    <3>1. \E x : word' = [word EXCEPT ![c] = x]
      BY Zenon DEF WriteDone
    <3> QED
      BY <1>0, <3>1 DEF IoTypes
  <2>2. DOMAIN data' = Clients /\ \A d \in Clients \ {c} : data'[d] = data[d]
    <3>1. \E x : data' = [data EXCEPT ![c] = x]
      BY Zenon DEF WriteDone
    <3> QED
      BY <1>0, <3>1 DEF IoTypes
  <2>3. stale' = [x \in Clients |-> IF x = c THEN stale[x] ELSE stale[x] \cup {OctetOf(c)}]
    BY Zenon DEF WriteDone
  <2> QED
    BY <2>1, <2>2, <2>3
<1>3. PICK w : pins' = [pins EXCEPT ![OctetOf(c)] = HalfOf(w, Head(todo[c]).half)]
  BY Zenon DEF WriteDone
<1>4. pins' \in [Octets -> SUBSET Pins] /\ \A o \in Octets : o # OctetOf(c) => pins'[o] = pins[o]
  <2>1. HalfOf(w, Head(todo[c]).half) \in SUBSET Pins
    BY DEF HalfOf
  <2>2. pins' \in [Octets -> SUBSET Pins]
    BY <1>0, <1>3, <2>1 DEF IoTypes
  <2>3. \A o \in Octets : o # OctetOf(c) => pins'[o] = pins[o]
    BY <1>0, <1>3 DEF IoTypes
  <2> QED
    BY <2>2, <2>3
<1>5. todo' \in [Clients -> Seq(Steps)] /\ Programs'
  <2>1. WellFormed(c, Port(c), Tail(todo[c]))
    BY <1>0, <1>1, HeadIs
  <2> QED
    BY <1>0, <1>1, <2>1, ProgramsKept DEF Pop
<1>6. IoTypes'
  BY <1>0, <1>1, <1>2, <1>4, <1>5 DEF IoTypes
<1>7. ASSUME fails' = 0, NEW d \in Clients \ {"bits"} PROVE Fresh(d)'
  <2>1. Fresh(d)
    BY <1>1, <1>7 DEF AccessInv
  <2>2. CASE d = c
    BY <1>0, <2>1, <2>2, WriteKeeps
  <2>3. CASE d # c
    <3>1. todo'[d] = todo[d]
      BY <1>0, <1>1, <2>3 DEF Pop, IoTypes
    <3> QED
      BY <1>1, <1>2, <1>4, <2>1, <2>3, <3>1, OthersFresh
  <2> QED
    BY <2>2, <2>3
<1> QED
  BY <1>5, <1>6, <1>7 DEF AccessInv

LEMMA FailedWriteStep ==
  ASSUME AccessInv, NEW c \in Clients, WriteFails(c)
  PROVE  AccessInv'
<1>0. IoTypes /\ Programs /\ fails \in Nat
  BY DEF AccessInv, IoTypes
<1>1. /\ todo[c] # << >> /\ Pop(c) /\ UNCHANGED <<layout, pins, stale>>
      /\ fails' = fails + 1
  BY DEF WriteFails, At, Keep
<1>2. DOMAIN data' = Clients /\ DOMAIN word' = Clients
  BY <1>0, Zenon DEF WriteFails, IoTypes
<1>3. todo' \in [Clients -> Seq(Steps)] /\ Programs'
  <2>1. WellFormed(c, Port(c), Tail(todo[c]))
    BY <1>0, <1>1, HeadIs
  <2> QED
    BY <1>0, <1>1, <2>1, ProgramsKept DEF Pop
<1>4. IoTypes' /\ fails' # 0
  BY <1>0, <1>1, <1>2, <1>3 DEF IoTypes
<1> QED
  BY <1>3, <1>4 DEF AccessInv

LEMMA AccessStep ==
  ASSUME AccessInv, [Next]_vars
  PROVE  AccessInv'
<1>0. /\ IoTypes /\ Programs /\ fails \in Nat /\ (fails = 0 => AllFresh)
      /\ \A c \in Clients : Port(c) \in Ports
      /\ Port("caller") = Port("clock") /\ Port("clock").sextet = FALSE
  BY PortsAre DEF AccessInv, AllFresh, IoTypes
<1>1. ASSUME NEW c \in Clients, Lock(c) \/ Unlock(c) PROVE AccessInv'
  <2>1. /\ todo[c] # << >> /\ Head(todo[c]).op \notin Board /\ Pop(c) /\ fails' = fails
        /\ UNCHANGED <<layout, pins, data, word, stale>>
    BY <1>1 DEF Lock, Unlock, At, Keep, Board
  <2> QED
    BY <1>0, <2>1, ControlKeeps
<1>2. ASSUME GoOrHalt PROVE AccessInv'
  <2>1. /\ "caller" \in Clients /\ todo["caller"] # << >> /\ Head(todo["caller"]).op \notin Board
        /\ Pop("caller") /\ fails' = fails /\ UNCHANGED <<layout, pins, data, word, stale>>
    BY <1>2 DEF GoOrHalt, At, Keep, Board, Clients
  <2> QED
    BY <1>0, <2>1, ControlKeeps
<1>3. ASSUME Bumpers PROVE AccessInv'
  <2>1. /\ "clock" \in Clients /\ todo["clock"] # << >> /\ Head(todo["clock"]).op \notin Board
        /\ Pop("clock") /\ UNCHANGED <<layout, pins, data, word, stale>>
    BY <1>3 DEF Bumpers, At, Keep, Board, Clients
  <2>2. fails' \in Nat /\ (fails' = 0 => fails = 0)
    <3>1. fails' = fails \/ fails' = fails + 1
      BY <1>3, Zenon DEF Bumpers
    <3> QED
      BY <1>0, <3>1
  <2> QED
    BY <1>0, <2>1, <2>2, ControlKeeps
<1>4. ASSUME ClockLoop PROVE AccessInv'
  <2>1. /\ WellFormed("clock", Port("clock"), Cycle(Port("clock")))
        /\ Ready("clock", Port("clock"), Cycle(Port("clock")))
    BY <1>0, CycleWellFormed
  <2>2. /\ "clock" \in Clients /\ todo["clock"] = << >>
        /\ todo' = [todo EXCEPT !["clock"] = Cycle(Port("clock"))]
        /\ UNCHANGED <<layout, pins, data, word, fails>> /\ stale' = stale
    BY <1>4 DEF ClockLoop, Clients
  <2> QED
    BY <2>1, <2>2, StartKeeps
<1>5. ASSUME NEW c \in Clients, NEW q, Call(c, q), WellFormed(c, Port(c), q), Ready(c, Port(c), q)
      PROVE  AccessInv'
  BY <1>5, StartKeeps DEF Call
<1>6. ASSUME Fire PROVE AccessInv'
  <2>1. PICK m \in Masks : Call("trigger", FireTriggers(Port("trigger"), m))
    BY <1>6 DEF Fire
  <2>2. "trigger" \in Clients /\ m \in SUBSET Pins
    BY IoBoardAssumption DEF Clients
  <2> QED
    BY <1>0, <1>5, <2>1, <2>2, FireWellFormed
<1>7. ASSUME Mux PROVE AccessInv'
  <2>1. PICK ch \in Channels : Call("mux", SetMux(Port("mux"), ch))
    BY <1>7 DEF Mux
  <2>2. "mux" \in Clients /\ ch \in SUBSET Pins
    BY IoBoardAssumption DEF Clients
  <2> QED
    BY <1>0, <1>5, <2>1, <2>2, MuxWellFormed
<1>8. ASSUME Bit PROVE AccessInv'
  <2>1. PICK on \in BOOLEAN : Call("bits", WriteBit(Port("bits"), 1, on))
    BY <1>8 DEF Bit
  <2>2. "bits" \in Clients /\ 1 \in Pins
    BY DEF Clients, Pins
  <2> QED
    BY <1>0, <1>5, <2>1, <2>2, BitWellFormed
<1>9. ASSUME Step PROVE AccessInv'
  <2>1. PICK forward \in BOOLEAN : Call("caller", Command(Port("caller"), forward))
    BY <1>9 DEF Step
  <2>2. "caller" \in Clients
    BY DEF Clients
  <2> QED
    BY <1>0, <1>5, <2>1, <2>2, CommandWellFormed
<1>10. ASSUME UNCHANGED <<layout, pins, todo, data, word, stale, fails>> PROVE AccessInv'
  <2>1. IoTypes'
    BY <1>0, <1>10 DEF IoTypes
  <2>2. \A c : Port(c)' = Port(c)
    BY <1>10 DEF Port
  <2>3. Programs'
    BY <1>0, <1>10, <2>2, Zenon DEF Programs, WellFormed
  <2>4. \A c \in Clients : Fresh(c) => Fresh(c)'
    BY <1>10, OthersFresh
  <2> QED
    BY <1>10, <2>1, <2>3, <2>4 DEF AccessInv
<1> QED
  BY <1>1, <1>2, <1>3, <1>4, <1>6, <1>7, <1>8, <1>9, <1>10, ReadStep, WriteIs, WriteStep,
     FailedWriteStep
     DEF Next, Access, Motor, Dtor, vars

\* A client goes past a write by writing.
LEMMA OnlyByWriting ==
  ASSUME AccessInv, [Next]_vars, NEW c \in Clients, At(c, "out"), todo'[c] = Tail(todo[c])
  PROVE  WriteOctet(c)
<1>1. IoTypes /\ Programs /\ todo[c] # << >> /\ Head(todo[c]).op = "out"
  BY DEF AccessInv, At
<1>2. todo'[c] # todo[c]
  BY <1>1, HeadIs
<1>3. ASSUME NEW d \in Clients, Pop(d) PROVE d = c
  BY <1>1, <1>2, <1>3 DEF Pop, IoTypes
<1>4. ASSUME NEW d \in Clients, Access(d) PROVE WriteOctet(c)
  <2>1. Pop(d)
    BY <1>4 DEF Access, ReadOctet, WriteOctet, Lock, Unlock
  <2>2. d = c
    BY <1>3, <2>1
  <2> QED
    BY <1>1, <1>4, <2>2 DEF Access, ReadOctet, Lock, Unlock, At
<1>5. ~GoOrHalt
  BY <1>1, <1>3 DEF GoOrHalt, At, Clients
<1>6. ~Bumpers
  BY <1>1, <1>3 DEF Bumpers, At, Clients
<1>7. ASSUME NEW d \in Clients, NEW q, todo[d] = << >>, todo' = [todo EXCEPT ![d] = q]
      PROVE  FALSE
  BY <1>1, <1>2, <1>7 DEF IoTypes
<1>8. ~ClockLoop /\ ~Fire /\ ~Mux /\ ~Bit /\ ~Step
  <2>1. "clock" \in Clients /\ "trigger" \in Clients /\ "mux" \in Clients /\ "bits" \in Clients
        /\ "caller" \in Clients
    BY DEF Clients
  <2> QED
    BY <1>7, <2>1, Zenon DEF ClockLoop, Fire, Mux, Bit, Step, Call
<1>9. ~UNCHANGED vars /\ ~Motor /\ ~Dtor
  BY <1>2 DEF Motor, Dtor, vars
<1> QED
  BY <1>4, <1>5, <1>6, <1>8, <1>9 DEF Next

\* A write changes no pin of the octet but those it means, unless another client has
\* written the octet since this one read it, or an access has failed: the read before it,
\* of one octet or of the two that a sextet lies across, the bits around the field that
\* WritePort() puts back, and the data that the call computed, all hold for every wiring
\* of the ports and every interleaving of the accesses, between any calls.
THEOREM PinsPreservedCorrect == Spec => PinsPreserved
<1>1. AccessInv /\ [Next]_vars => [\A c \in Clients \ {"bits"} : Preserves(c)]_vars
  <2> SUFFICES ASSUME AccessInv, [Next]_vars, NEW c \in Clients \ {"bits"},
                      At(c, "out"), todo'[c] = Tail(todo[c]), ~(fails > 0)
               PROVE  Changed(OctetOf(c)) \subseteq Meant(c) \/ OctetOf(c) \in stale[c]
    BY DEF Preserves
  <2>1. WriteDone(c) \/ WriteFails(c)
    BY OnlyByWriting, WriteIs
  <2>2. fails = 0
    BY DEF AccessInv, IoTypes
  <2>3. IoTypes /\ Programs /\ Fresh(c)
    BY <2>2 DEF AccessInv
  <2>4. CASE WriteFails(c)
    BY <2>4 DEF WriteFails, Changed
  <2> QED
    BY <2>1, <2>3, <2>4, WriteKeeps
<1>2. AccessInv /\ [Next]_vars => AccessInv'
  BY AccessStep
<1>3. Init => AccessInv
  BY AccessInit
<1> QED
  BY <1>1, <1>2, <1>3, PTL DEF Spec, PinsPreserved

(***************************************************************************)
(* The programs of the motor, by the number of steps that are left.        *)
(***************************************************************************)
LEMMA RestIs ==
  ASSUME NEW S, NEW q \in Seq(S), q # << >>, NEW p, NEW n \in Nat, IsRest(q, p, n)
  PROVE  /\ IsRest(Tail(q), p, n) /\ Len(Tail(q)) = Len(q) - 1 /\ Len(q) \in 1..n
         /\ Head(q) = p[n - Len(q) + 1]
<1>1. /\ Tail(q) \in Seq(S) /\ Len(Tail(q)) = Len(q) - 1 /\ Len(q) \in 1..n
      /\ Head(q) = q[1]
      /\ \A i \in 1..(Len(q) - 1) : Tail(q)[i] = q[i + 1]
  BY TailIs DEF IsRest
<1>2. Head(q) = p[n - Len(q) + 1]
  BY <1>1 DEF IsRest
<1>3. ASSUME NEW i \in 1..Len(Tail(q)) PROVE Tail(q)[i] = p[n - Len(Tail(q)) + i]
  <2>1. Tail(q)[i] = q[i + 1] /\ i + 1 \in 1..Len(q)
    BY <1>1
  <2>2. q[i + 1] = p[n - Len(q) + (i + 1)]
    BY <2>1 DEF IsRest
  <2>3. n - Len(q) + (i + 1) = n - Len(Tail(q)) + i
    BY <1>1
  <2> QED
    BY <2>1, <2>2, <2>3
<1> QED
  BY <1>1, <1>2, <1>3 DEF IsRest

LEMMA RestBegins ==
  ASSUME NEW S, NEW p \in Seq(S), NEW n \in Nat
  PROVE  /\ Len(p) = n => IsRest(p, p, n)
         /\ \A r : IsRest(<< >>, r, n)
<1>1. Len(p) = n => \A i \in 1..Len(p) : n - Len(p) + i = i
  OBVIOUS
<1>2. Len(<< >>) = 0
  OBVIOUS
<1> QED
  BY <1>1, <1>2 DEF IsRest

\* The reading of an octet.
GetOctet == Get(0, TRUE)

LEMMA ClockIs ==
  ASSUME IoTypes, MotorPrograms, todo["clock"] # << >>
  PROVE  LET s == Head(todo["clock"])
             n == Left("clock")
         IN  /\ n \in 1..9
             /\ s.op = "lock" <=> n \in {9, 4}
             /\ s.op = "bumpers" <=> n = 8
             /\ s.op = "get" <=> n \in {7, 3}
             /\ s.op = "out" <=> n \in {6, 2}
             /\ s.op = "unlock" <=> n \in {5, 1}
             /\ s.op \notin {"peek", "go", "halt"}
             /\ s.op \in {"get", "out"} => s.half = 0
             /\ s.op = "get" => s = GetOctet
             /\ n = 6 => s.first /\ s.clear = {} /\ s.set = {clock_bit_}
             /\ n = 2 => s.first /\ s.clear = {clock_bit_} /\ s.set = {}
<1> DEFINE port == Port("clock")
           p == Cycle(port)
           rise == Out(0, TRUE, {}, {clock_bit_}, {} \cup {clock_bit_})
           fall == Out(0, TRUE, {clock_bit_}, {}, {clock_bit_} \cup {})
<1>1. PICK s, n : s = Head(todo["clock"]) /\ n = Left("clock")
  OBVIOUS
<1>2. Is9(p, Steps, Do("lock"), Do("bumpers"), GetOctet, rise, Do("unlock"), Do("lock"),
          GetOctet, fall, Do("unlock"))
  BY PortsAre, CycleIs DEF GetOctet
<1>3. /\ Do("lock").op = "lock" /\ Do("unlock").op = "unlock" /\ Do("bumpers").op = "bumpers"
      /\ GetOctet.op = "get" /\ GetOctet.half = 0
      /\ rise.op = "out" /\ rise.half = 0 /\ rise.first = TRUE /\ rise.clear = {}
      /\ rise.set = {clock_bit_}
      /\ fall.op = "out" /\ fall.half = 0 /\ fall.first = TRUE /\ fall.set = {}
      /\ fall.clear = {clock_bit_}
  BY DEF Do, Get, Out, GetOctet
<1> HIDE DEF p, rise, fall
<1>4. n \in 1..9 /\ s = p[9 - n + 1]
  <2>1. todo["clock"] \in Seq(Steps) /\ IsRest(todo["clock"], p, 9) /\ 9 \in Nat
    BY DEF IoTypes, MotorPrograms, Clients, p
  <2> QED
    BY <1>1, <2>1, RestIs DEF Left
<1>5. /\ p[1] = Do("lock") /\ p[2] = Do("bumpers") /\ p[3] = GetOctet /\ p[4] = rise
      /\ p[5] = Do("unlock") /\ p[6] = Do("lock") /\ p[7] = GetOctet /\ p[8] = fall
      /\ p[9] = Do("unlock")
  BY <1>2, Zenon DEF Is9
<1>6. CASE n = 9
  BY <1>1, <1>3, <1>4, <1>5, <1>6
<1>7. CASE n = 8
  BY <1>1, <1>3, <1>4, <1>5, <1>7
<1>8. CASE n = 7
  BY <1>1, <1>3, <1>4, <1>5, <1>8
<1>9. CASE n = 6
  BY <1>1, <1>3, <1>4, <1>5, <1>9
<1>10. CASE n = 5
  BY <1>1, <1>3, <1>4, <1>5, <1>10
<1>11. CASE n = 4
  BY <1>1, <1>3, <1>4, <1>5, <1>11
<1>12. CASE n = 3
  BY <1>1, <1>3, <1>4, <1>5, <1>12
<1>13. CASE n = 2
  BY <1>1, <1>3, <1>4, <1>5, <1>13
<1>14. CASE n = 1
  BY <1>1, <1>3, <1>4, <1>5, <1>14
<1> QED
  BY <1>4, <1>6, <1>7, <1>8, <1>9, <1>10, <1>11, <1>12, <1>13, <1>14

LEMMA CallerIs ==
  ASSUME IoTypes, MotorTypes, MotorPrograms, todo["caller"] # << >>
  PROVE  LET s == Head(todo["caller"])
             n == Left("caller")
         IN  /\ n \in 1..6
             /\ s.op = "lock" <=> n = 6
             /\ s.op = "get" <=> n = 5
             /\ s.op = "out" <=> n = 4
             /\ s.op = "unlock" <=> n = 3
             /\ s.op = "go" <=> n = 2
             /\ s.op = "halt" <=> n = 1
             /\ s.op \notin {"peek", "bumpers"}
             /\ s.op \in {"get", "out"} => s.half = 0
             /\ s.op = "get" => s = GetOctet
             /\ n = 4 => s.first /\ s.clear = ClearOf(asked) /\ s.set = SetOf(asked)
<1> DEFINE port == Port("caller")
           p == Command(port, asked)
           out == Out(0, TRUE, ClearOf(asked), SetOf(asked), ClearOf(asked) \cup SetOf(asked))
<1>1. PICK s, n : s = Head(todo["caller"]) /\ n = Left("caller")
  OBVIOUS
<1>2. Is6(p, Steps, Do("lock"), GetOctet, out, Do("unlock"), Do("go"), Do("halt"))
  <2>1. port.sextet = FALSE
    BY PortsAre
  <2>2. asked \in BOOLEAN
    BY DEF MotorTypes
  <2> QED
    BY <2>1, <2>2, CommandIs DEF GetOctet
<1>3. /\ Do("lock").op = "lock" /\ Do("unlock").op = "unlock" /\ Do("go").op = "go"
      /\ Do("halt").op = "halt"
      /\ GetOctet.op = "get" /\ GetOctet.half = 0
      /\ out.op = "out" /\ out.half = 0 /\ out.first = TRUE /\ out.clear = ClearOf(asked)
      /\ out.set = SetOf(asked)
  BY DEF Do, Get, Out, GetOctet
<1> HIDE DEF p, out
<1>4. n \in 1..6 /\ s = p[6 - n + 1]
  <2>1. todo["caller"] \in Seq(Steps) /\ IsRest(todo["caller"], p, 6) /\ 6 \in Nat
    BY DEF IoTypes, MotorPrograms, Clients, p
  <2> QED
    BY <1>1, <2>1, RestIs DEF Left
<1>5. /\ p[1] = Do("lock") /\ p[2] = GetOctet /\ p[3] = out
      /\ p[4] = Do("unlock") /\ p[5] = Do("go") /\ p[6] = Do("halt")
  BY <1>2, Zenon DEF Is6
<1>6. CASE n = 6
  BY <1>1, <1>3, <1>4, <1>5, <1>6
<1>7. CASE n = 5
  BY <1>1, <1>3, <1>4, <1>5, <1>7
<1>8. CASE n = 4
  BY <1>1, <1>3, <1>4, <1>5, <1>8
<1>9. CASE n = 3
  BY <1>1, <1>3, <1>4, <1>5, <1>9
<1>10. CASE n = 2
  BY <1>1, <1>3, <1>4, <1>5, <1>10
<1>11. CASE n = 1
  BY <1>1, <1>3, <1>4, <1>5, <1>11
<1> QED
  BY <1>4, <1>6, <1>7, <1>8, <1>9, <1>10, <1>11

\* A thread of the motor goes on.
LEMMA MotorPop ==
  ASSUME IoTypes, MotorPrograms, NEW c \in {"clock", "caller"}, todo[c] # << >>, Pop(c),
         layout' = layout, asked' = asked
  PROVE  /\ MotorPrograms' /\ Left(c)' = Left(c) - 1
         /\ c = "clock" => Left("caller")' = Left("caller")
         /\ c = "caller" => Left("clock")' = Left("clock")
<1>1. /\ todo'[c] = Tail(todo[c]) /\ todo[c] \in Seq(Steps)
      /\ c = "clock" => todo'["caller"] = todo["caller"]
      /\ c = "caller" => todo'["clock"] = todo["clock"]
  BY DEF Pop, IoTypes, Clients
<1>2. PICK p, r : p = Cycle(Port("clock")) /\ r = Command(Port("caller"), asked)
  OBVIOUS
<1>3. p = Cycle(Port("clock"))' /\ r = Command(Port("caller"), asked)'
  BY <1>2 DEF Port
<1>4. IsRest(todo["clock"], p, 9) /\ IsRest(todo["caller"], r, 6)
  BY <1>2 DEF MotorPrograms
<1>5. 9 \in Nat /\ 6 \in Nat
  OBVIOUS
<1>6. /\ Len(Tail(todo[c])) = Len(todo[c]) - 1
      /\ c = "clock" => IsRest(Tail(todo[c]), p, 9)
      /\ c = "caller" => IsRest(Tail(todo[c]), r, 6)
  BY <1>1, <1>4, <1>5, RestIs
<1>7. IsRest(todo'["clock"], p, 9) /\ IsRest(todo'["caller"], r, 6)
  BY <1>1, <1>4, <1>6, Zenon
<1>8. MotorPrograms'
  BY <1>3, <1>7, Zenon DEF MotorPrograms
<1> QED
  BY <1>1, <1>6, <1>8 DEF Left

(***************************************************************************)
(* The octet of the motor.                                                 *)
(***************************************************************************)
LEMMA MotorOctetIs ==
  ASSUME IoTypes
  PROVE  /\ MotorOctet \in Nat /\ MotorOctet \in Octets
         /\ OctetsOf(Port("clock")) = {MotorOctet} /\ OctetsOf(Port("caller")) = {MotorOctet}
<1>1. /\ "clock" \in Clients /\ Port("clock") \in Ports /\ Port("clock").sextet = FALSE
      /\ Port("caller") = Port("clock") /\ OctetsOf(Port("clock")) \subseteq Octets
  BY PortsAre DEF Clients
<1>2. OctetsOf(Port("clock")) = {MotorOctet}
  BY <1>1 DEF OctetsOf, MotorOctet
<1>3. MotorOctet \in Nat
  BY <1>1, FieldIs DEF MotorOctet
<1> QED
  BY <1>1, <1>2, <1>3

\* A thread of the motor writes the octet, and the motor turns.
LEMMA MotorWrites ==
  ASSUME IoTypes, Programs, NEW c \in {"clock", "caller"}, WriteDone(c),
         Head(todo[c]).half = 0, Head(todo[c]).first = TRUE
  PROVE  /\ pins' = [pins EXCEPT ![MotorOctet] =
                       {p \in Pins : p \in (data[c] \ Head(todo[c]).clear) \cup Head(todo[c]).set}]
         /\ Turn(pins[MotorOctet], pins'[MotorOctet])
         /\ \A d \in Clients \ {c} : data'[d] = data[d]
<1> DEFINE s == Head(todo[c])
           d == (data[c] \ s.clear) \cup s.set
<1>1. c \in Clients /\ todo[c] # << >> /\ s.op = "out" /\ s.op \in Board
  BY DEF WriteDone, At, Board, Clients
<1>2. OctetOf(c) = MotorOctet /\ Port(c) \in Ports /\ Port(c).sextet = FALSE
  <2>1. OctetOf(c) \in OctetsOf(Port(c)) /\ Port(c) \in Ports
    BY <1>1, HeadIs
  <2>2. OctetsOf(Port(c)) = {MotorOctet}
    BY MotorOctetIs
  <2>3. Port(c).sextet = FALSE
    BY PortsAre
  <2> QED
    BY <2>1, <2>2, <2>3
<1>3. /\ data' = [data EXCEPT ![c] = d]
      /\ pins' = [pins EXCEPT ![MotorOctet] = HalfOf(Insert(Port(c), word[c], d), 0)]
      /\ Turn(pins[MotorOctet], pins'[MotorOctet])
  <2>1. /\ data' = [data EXCEPT ![c] = IF s.first THEN d ELSE data[c]]
        /\ pins' = [pins EXCEPT ![OctetOf(c)] =
                      HalfOf(IF s.first
                             THEN Insert(Port(c), word[c], IF s.first THEN d ELSE data[c])
                             ELSE word[c], s.half)]
        /\ IF OctetOf(c) = First(Port("clock")) THEN Turn(pins[OctetOf(c)], pins'[OctetOf(c)])
           ELSE UNCHANGED <<position, over>>
    BY Zenon DEF WriteDone
  <2>2. s.first = TRUE /\ s.half = 0 /\ First(Port("clock")) = MotorOctet
    BY DEF MotorOctet
  <2> HIDE DEF s, d
  <2> QED
    BY <1>2, <2>1, <2>2
<1>4. HalfOf(Insert(Port(c), word[c], d), 0) = {p \in Pins : p \in d}
  <2>1. ASSUME NEW p \in Pins PROVE p \in HalfOf(Insert(Port(c), word[c], d), 0) <=> p \in d
    <3>1. Field(Port(c)) = Pins /\ Shift(Port(c)) = 0
      BY <1>2, FieldIs
    <3>2. p + 8 * 0 = p /\ p + 8 * 0 \in Field(Port(c)) /\ (p + 8 * 0) - Shift(Port(c)) = p
      BY <3>1 DEF Pins
    <3>3. p + 8 * 0 \in Insert(Port(c), word[c], d) <=> (p + 8 * 0) - Shift(Port(c)) \in d
      BY <1>2, <3>2, InsertIs
    <3> QED
      BY <3>2, <3>3 DEF HalfOf
  <2>2. HalfOf(Insert(Port(c), word[c], d), 0) \subseteq Pins
    BY DEF HalfOf
  <2> QED
    BY <2>1, <2>2
<1>5. \A e \in Clients \ {c} : data'[e] = data[e]
  BY <1>3 DEF IoTypes
<1> QED
  BY <1>3, <1>4, <1>5

LEMMA TurnIs ==
  ASSUME MotorTypes, NEW before, NEW after, Turn(before, after)
  PROVE  /\ position' \in 0..Track /\ over' \in Nat
         /\ over' <= over + (IF AtBumper THEN 1 ELSE 0)
         /\ ~Edge(before, after) => position' = position /\ over' = over
         /\ position' # position => (position' > position <=> direction_bit_ \in after)
<1>1. position \in 0..Track /\ over \in Nat /\ Track \in Nat
  BY IoBoardAssumption DEF MotorTypes
<1> QED
  BY <1>1 DEF Turn

\* A thread of the motor reads the octet.
LEMMA MotorReads ==
  ASSUME IoTypes, Programs, NEW c \in {"clock", "caller"}, ReadOctet(c),
         Head(todo[c]).op = "get", Head(todo[c]).half = 0, Head(todo[c]).take = TRUE
  PROVE  /\ \A d \in Clients \ {c} : data'[d] = data[d]
         /\ fails' \in {fails, fails + 1}
         /\ fails' = fails => data'[c] = pins[MotorOctet]
<1> DEFINE s == Head(todo[c])
           port == Port(c)
<1>1. c \in Clients /\ todo[c] # << >> /\ s.op \in Board
  BY DEF ReadOctet, At, Board, Clients
<1>2. OctetOf(c) = MotorOctet /\ Port(c) \in Ports /\ Port(c).sextet = FALSE
  <2>1. OctetOf(c) \in OctetsOf(Port(c)) /\ Port(c) \in Ports
    BY <1>1, HeadIs
  <2>2. OctetsOf(Port(c)) = {MotorOctet}
    BY MotorOctetIs
  <2>3. Port(c).sextet = FALSE
    BY PortsAre
  <2> QED
    BY <2>1, <2>2, <2>3
<1>3. data' = [data EXCEPT ![c] = Extract(port, word'[c])]
  <2>1. At(c, "get") /\ s.take
    BY <1>1 DEF At
  <2> QED
    BY <2>1, Zenon DEF ReadOctet
<1>4. fails' \in {fails, fails + 1}
  BY Zenon DEF ReadOctet
<1>5. ASSUME fails' = fails PROVE data'[c] = pins[MotorOctet]
  <2>1. fails' # fails + 1
    BY <1>5 DEF IoTypes
  <2>2. word' = [word EXCEPT ![c] =
                   (word[c] \ Half(Pins, s.half)) \cup Half(pins[OctetOf(c)], s.half)]
    BY <2>1, Zenon DEF ReadOctet
  <2>3. PICK x, w, b : x = word'[c] /\ w = word[c] /\ b = pins[MotorOctet]
    OBVIOUS
  <2>4. x = Put(w, b, 0) /\ b \in SUBSET Pins
    BY <1>1, <1>2, <2>2, <2>3, MotorOctetIs DEF IoTypes, Put
  <2>5. HalfOf(x, 0) = b
    BY <2>4, HalfIs
  <2>6. ASSUME NEW p \in Pins PROVE p \in Extract(port, x) <=> p \in b
    <3>1. Field(port) = Pins /\ Shift(port) = 0
      BY <1>2, FieldIs
    <3>2. p + 8 * 0 \in Field(port) /\ (p + 8 * 0) - Shift(port) = p
      BY <3>1 DEF Pins
    <3>3. (p + 8 * 0) - Shift(port) \in Extract(port, x) <=> p \in HalfOf(x, 0)
      BY <1>2, <3>2, ExtractIs
    <3> QED
      BY <2>5, <3>2, <3>3
  <2>7. Extract(port, x) \subseteq Pins
    BY <1>2, FieldIs DEF Extract, Pins
  <2>8. Extract(port, x) = b
    BY <2>4, <2>6, <2>7
  <2> QED
    BY <1>1, <1>3, <2>3, <2>8 DEF IoTypes
<1> QED
  BY <1>1, <1>3, <1>4, <1>5 DEF IoTypes

(***************************************************************************)
(* The invariant of the motor.                                             *)
(***************************************************************************)
LEMMA Terms ==
  /\ InCycle \in 0..1 /\ ToCome \in 0..1 /\ OfCommand \in 0..1
  /\ InCycle' \in 0..1 /\ ToCome' \in 0..1 /\ OfCommand' \in 0..1
BY DEF InCycle, ToCome, OfCommand

\* The bound holds after a step, with o, i, t and k the terms then.
LEMMA BoundKept ==
  ASSUME IoTypes, MotorTypes, EdgesBounded, layout' = layout,
         NEW o \in Nat, NEW i \in 0..1, NEW t \in 0..1, NEW k \in 0..1, NEW f \in Nat,
         MotorAlone => o + i + t + k + fails <= over + InCycle + ToCome + OfCommand + f
  PROVE  o = over' /\ i = InCycle' /\ t = ToCome' /\ k = OfCommand' /\ f = fails'
           => EdgesBounded'
<1>1. MotorAlone' <=> MotorAlone
  BY DEF MotorAlone, Port
<1>2. over \in Nat /\ fails \in Nat
  BY DEF MotorTypes, IoTypes
<1>3. MotorAlone => over + InCycle + ToCome + OfCommand <= 2 + fails
  BY DEF EdgesBounded
<1>4. InCycle \in 0..1 /\ ToCome \in 0..1 /\ OfCommand \in 0..1
  BY Terms
<1>5. ASSUME MotorAlone PROVE o + i + t + k <= 2 + f
  BY <1>2, <1>3, <1>4, <1>5
<1> QED
  BY <1>1, <1>5, Zenon DEF EdgesBounded

LEMMA MotorInit ==
  ASSUME Init
  PROVE  MotorInv
<1>0. todo["clock"] = << >> /\ todo["caller"] = << >>
  BY DEF Init, Clients
<1>1. Left("clock") = 0 /\ Left("caller") = 0
  BY <1>0 DEF Left
<1>2. MotorTypes
  <2>1. position = 1 /\ over = 0 /\ move_it_ = FALSE /\ asked = TRUE /\ Track \in Nat \ {0}
    BY IoBoardAssumption DEF Init
  <2> QED
    <3>1. position \in 0..Track /\ over \in Nat
      BY <2>1
    <3> QED
      BY <2>1, <3>1, Zenon DEF MotorTypes
<1>3. MotorPrograms
  <2>1. 9 \in Nat /\ 6 \in Nat
    OBVIOUS
  <2>2. \A r : IsRest(<< >>, r, 9) /\ IsRest(<< >>, r, 6)
    BY DEF IsRest
  <2> QED
    BY <1>0, <2>2, Zenon DEF MotorPrograms
<1>4. GuardInv
  BY <1>1 DEF Init, GuardInv, Free
<1>5. EdgesBounded
  <2>1. InCycle = 0 /\ ToCome = 0 /\ OfCommand = 0
    BY <1>1 DEF Init, InCycle, ToCome, OfCommand
  <2> QED
    BY <2>1 DEF Init, EdgesBounded
<1>6. DirectionKept
  BY <1>1 DEF DirectionKept
<1> QED
  BY <1>2, <1>3, <1>4, <1>5, <1>6 DEF MotorInv

\* What the other clients do.
LEMMA OthersStep ==
  ASSUME IoTypes, MotorInv, layout' = layout, guard' = guard, move_it_' = move_it_,
         asked' = asked, todo'["clock"] = todo["clock"], todo'["caller"] = todo["caller"],
         data'["clock"] = data["clock"], data'["caller"] = data["caller"],
         fails' \in Nat, fails <= fails', position' \in 0..Track, over' \in Nat,
         MotorAlone => /\ position' = position /\ over' = over
                       /\ pins'[MotorOctet] = pins[MotorOctet]
  PROVE  MotorInv'
<1>0. /\ MotorTypes /\ MotorPrograms /\ GuardInv /\ EdgesBounded /\ DirectionKept
      /\ fails \in Nat /\ over \in Nat
  BY DEF MotorInv, IoTypes, MotorTypes
<1>1. /\ Left("clock")' = Left("clock") /\ Left("caller")' = Left("caller")
      /\ MotorOctet' = MotorOctet /\ (MotorAlone' <=> MotorAlone)
  BY DEF Left, MotorOctet, MotorAlone, Port
<1>2. MotorTypes'
  BY <1>0 DEF MotorTypes
<1>3. MotorPrograms'
  BY <1>0, Zenon DEF MotorPrograms, Port
<1>4. GuardInv'
  BY <1>0, <1>1 DEF GuardInv
<1>5. EdgesBounded'
  <2>0. PICK o, i, t, k, f : /\ o = over' /\ i = InCycle' /\ t = ToCome' /\ k = OfCommand'
                             /\ f = fails'
    OBVIOUS
  <2>10. i \in 0..1 /\ t \in 0..1 /\ k \in 0..1
    BY <2>0, Terms, Zenon
  <2>1. t = ToCome
    BY <1>1, <2>0 DEF ToCome
  <2>2. MotorAlone => i = InCycle /\ k = OfCommand /\ o = over
    BY <1>1, <2>0 DEF InCycle, OfCommand, AtBumper
  <2>3. o \in Nat /\ f \in Nat /\ fails <= f
    BY <2>0
  <2>4. MotorAlone => o + i + t + k + fails <= over + InCycle + ToCome + OfCommand + f
    BY <1>0, <2>1, <2>2, <2>3, <2>10
  <2> QED
    BY <1>0, <2>0, <2>3, <2>4, <2>10, BoundKept
<1>6. DirectionKept'
  <2> SUFFICES ASSUME MotorAlone, fails' = 0
               PROVE  /\ Left("clock") \in {6, 2} => data["clock"] = pins'[MotorOctet]
                      /\ Left("caller") \in 1..3 => (direction_bit_ \in pins'[MotorOctet] <=> asked)
    BY <1>1 DEF DirectionKept
  <2>1. fails = 0
    BY <1>0
  <2> QED
    BY <1>0, <2>1 DEF DirectionKept
<1> QED
  BY <1>2, <1>3, <1>4, <1>5, <1>6 DEF MotorInv

\* The steps of the clock.
LEMMA ClockReads ==
  ASSUME IoTypes, Programs, MotorInv, ReadOctet("clock")
  PROVE  MotorInv'
<1>0. /\ MotorTypes /\ MotorPrograms /\ GuardInv /\ EdgesBounded /\ DirectionKept
      /\ fails \in Nat /\ over \in Nat
  BY DEF MotorInv, IoTypes, MotorTypes
<1>1. /\ todo["clock"] # << >> /\ Pop("clock") /\ layout' = layout /\ asked' = asked
      /\ pins' = pins /\ position' = position /\ guard' = guard /\ move_it_' = move_it_
      /\ over' = over /\ Head(todo["clock"]).op \in {"get", "peek"}
  BY DEF ReadOctet, Keep, At
<1>2. Left("clock") \in {7, 3} /\ Head(todo["clock"]) = GetOctet
  BY <1>0, <1>1, ClockIs, Zenon
<1>3. /\ data'["caller"] = data["caller"] /\ fails' \in {fails, fails + 1}
      /\ fails' = fails => data'["clock"] = pins[MotorOctet]
  <2>1. /\ Head(todo["clock"]).op = "get" /\ Head(todo["clock"]).half = 0
        /\ Head(todo["clock"]).take = TRUE
    BY <1>2 DEF GetOctet, Get
  <2> QED
    BY <2>1, MotorReads DEF Clients
<1>4. MotorPrograms' /\ Left("clock")' = Left("clock") - 1 /\ Left("caller")' = Left("caller")
  BY <1>0, <1>1, MotorPop
<1>5. MotorOctet' = MotorOctet /\ (MotorAlone' <=> MotorAlone)
  BY <1>1 DEF MotorOctet, MotorAlone, Port
<1>6. MotorTypes'
  BY <1>0, <1>1 DEF MotorTypes
<1>7. GuardInv'
  BY <1>0, <1>1, <1>2, <1>4 DEF GuardInv
<1>8. EdgesBounded'
  <2>0. PICK o, i, t, k, f : /\ o = over' /\ i = InCycle' /\ t = ToCome' /\ k = OfCommand'
                             /\ f = fails'
    OBVIOUS
  <2>10. i \in 0..1 /\ t \in 0..1 /\ k \in 0..1
    BY <2>0, Terms, Zenon
  <2>1. i = InCycle
    BY <1>1, <1>2, <1>4, <2>0 DEF InCycle, AtBumper
  <2>2. t = ToCome
    BY <1>1, <1>2, <1>4, <2>0 DEF ToCome
  <2>3. k = OfCommand
    BY <1>1, <1>3, <1>4, <1>5, <2>0 DEF OfCommand
  <2>4. o = over /\ f \in Nat /\ fails <= f
    BY <1>0, <1>1, <1>3, <2>0
  <2>5. o + i + t + k + fails <= over + InCycle + ToCome + OfCommand + f
    BY <1>0, <2>1, <2>2, <2>3, <2>4, <2>10
  <2> QED
    BY <1>0, <1>1, <2>0, <2>4, <2>5, <2>10, BoundKept
<1>9. DirectionKept'
  <2> SUFFICES ASSUME MotorAlone, fails' = 0
               PROVE  /\ data'["clock"] = pins[MotorOctet]
                      /\ Left("caller") \in 1..3 => (direction_bit_ \in pins[MotorOctet] <=> asked)
    BY <1>1, <1>4, <1>5 DEF DirectionKept
  <2>1. fails = 0 /\ fails' = fails
    BY <1>0, <1>3
  <2> QED
    BY <1>0, <1>3, <2>1 DEF DirectionKept
<1> QED
  BY <1>4, <1>6, <1>7, <1>8, <1>9 DEF MotorInv

LEMMA ClockWrites ==
  ASSUME IoTypes, Programs, MotorInv, WriteDone("clock")
  PROVE  MotorInv'
<1>0. /\ MotorTypes /\ MotorPrograms /\ GuardInv /\ EdgesBounded /\ DirectionKept
      /\ fails \in Nat /\ over \in Nat
  BY DEF MotorInv, IoTypes, MotorTypes
<1>1. /\ todo["clock"] # << >> /\ Pop("clock") /\ layout' = layout /\ asked' = asked
      /\ guard' = guard /\ move_it_' = move_it_ /\ fails' = fails
      /\ Head(todo["clock"]).op = "out"
  BY DEF WriteDone, Keep, At
<1> DEFINE s == Head(todo["clock"])
           now == {p \in Pins : p \in (data["clock"] \ s.clear) \cup s.set}
<1>2. /\ Left("clock") \in {6, 2} /\ s.half = 0
      /\ Left("clock") = 6 => s.first /\ s.clear = {} /\ s.set = {clock_bit_}
      /\ Left("clock") = 2 => s.first /\ s.clear = {clock_bit_} /\ s.set = {}
  BY <1>0, <1>1, ClockIs
<1>3. s.first = TRUE
  <2>1. s.first
    BY <1>2
  <2>2. AccessOf("clock", Port("clock"), s)
    BY <1>1, HeadIs DEF Clients
  <2> QED
    BY <1>1, <1>2, <2>2 DEF AccessOf
<1>4. /\ pins' = [pins EXCEPT ![MotorOctet] = now]
      /\ Turn(pins[MotorOctet], pins'[MotorOctet])
      /\ data'["caller"] = data["caller"]
  BY <1>2, <1>3, MotorWrites DEF Clients
<1>5. pins'[MotorOctet] = now
  BY <1>4, MotorOctetIs DEF IoTypes
<1>6. /\ position' \in 0..Track /\ over' \in Nat
      /\ over' <= over + (IF AtBumper THEN 1 ELSE 0)
      /\ ~Edge(pins[MotorOctet], now) => position' = position /\ over' = over
  BY <1>0, <1>4, <1>5, TurnIs
<1>7. MotorPrograms' /\ Left("clock")' = Left("clock") - 1 /\ Left("caller")' = Left("caller")
  BY <1>0, <1>1, MotorPop
<1>8. MotorOctet' = MotorOctet /\ (MotorAlone' <=> MotorAlone)
  BY <1>1 DEF MotorOctet, MotorAlone, Port
<1>9. MotorTypes'
  BY <1>0, <1>1, <1>6 DEF MotorTypes
<1>10. GuardInv'
  BY <1>0, <1>1, <1>2, <1>7 DEF GuardInv
<1>11. Left("caller") \notin {5, 4, 3}
  BY <1>0, <1>2 DEF GuardInv
<1>12. EdgesBounded'
  <2>0. PICK o, i, t, k, f : /\ o = over' /\ i = InCycle' /\ t = ToCome' /\ k = OfCommand'
                             /\ f = fails'
    OBVIOUS
  <2>10. i \in 0..1 /\ t \in 0..1 /\ k \in 0..1
    BY <2>0, Terms, Zenon
  <2>1. OfCommand = 0 /\ k = 0
    BY <1>7, <1>11, <2>0 DEF OfCommand
  <2>2. t = ToCome /\ i = 0
    BY <1>1, <1>2, <1>7, <2>0 DEF ToCome, InCycle
  <2>3. o <= over + InCycle
    <3>1. CASE Left("clock") = 6
      BY <1>6, <2>0, <3>1 DEF InCycle
    <3>2. CASE Left("clock") = 2
      <4>1. ~Edge(pins[MotorOctet], now)
        BY <1>2, <3>2 DEF Edge
      <4> QED
        <5>1. o = over /\ InCycle \in 0..1
          BY <1>6, <2>0, <4>1, Terms
        <5> QED
          BY <1>0, <5>1
    <3> QED
      BY <1>2, <3>1, <3>2
  <2>4. o \in Nat /\ f = fails
    BY <1>1, <1>6, <2>0
  <2>5. ToCome \in 0..1 /\ InCycle \in 0..1
    BY Terms
  <2>6. o + i + t + k + fails <= over + InCycle + ToCome + OfCommand + f
    BY <1>0, <2>1, <2>2, <2>3, <2>4, <2>5
  <2> QED
    BY <1>0, <1>1, <2>0, <2>4, <2>6, <2>10, BoundKept
<1>13. DirectionKept'
  <2> SUFFICES ASSUME MotorAlone, fails = 0, Left("caller") \in 1..3
               PROVE  direction_bit_ \in now <=> asked
    BY <1>1, <1>2, <1>5, <1>7, <1>8 DEF DirectionKept
  <2>1. data["clock"] = pins[MotorOctet] /\ (direction_bit_ \in pins[MotorOctet] <=> asked)
    BY <1>0, <1>2 DEF DirectionKept
  <2>2. direction_bit_ \in now <=> direction_bit_ \in data["clock"]
    BY <1>2 DEF direction_bit_, clock_bit_, Pins
  <2> QED
    BY <2>1, <2>2
<1> QED
  BY <1>7, <1>9, <1>10, <1>12, <1>13 DEF MotorInv

\* A write of a thread of the motor that fails.
LEMMA MotorWriteFails ==
  ASSUME IoTypes, Programs, MotorInv, NEW c \in {"clock", "caller"}, WriteFails(c)
  PROVE  MotorInv'
<1>0. /\ MotorTypes /\ MotorPrograms /\ GuardInv /\ EdgesBounded /\ DirectionKept
      /\ fails \in Nat /\ over \in Nat
  BY DEF MotorInv, IoTypes, MotorTypes
<1>1. /\ todo[c] # << >> /\ Pop(c) /\ layout' = layout /\ asked' = asked
      /\ UNCHANGED <<pins, position, over, guard, move_it_>> /\ fails' = fails + 1
      /\ Head(todo[c]).op = "out"
  BY DEF WriteFails, Keep, At
<1>2. c = "clock" => data'["caller"] = data["caller"]
  <2>1. \E d : data' = [data EXCEPT ![c] = d]
    BY DEF WriteFails
  <2> QED
    BY <2>1 DEF IoTypes, Clients
<1>3. /\ c = "clock" => Left("clock") \in {6, 2}
      /\ c = "caller" => Left("caller") = 4
  <2>1. CASE c = "clock"
    BY <1>0, <1>1, <2>1, ClockIs
  <2>2. CASE c = "caller"
    BY <1>0, <1>1, <2>2, CallerIs
  <2> QED
    BY <2>1, <2>2
<1>4. /\ MotorPrograms' /\ Left(c)' = Left(c) - 1
      /\ c = "clock" => Left("caller")' = Left("caller")
      /\ c = "caller" => Left("clock")' = Left("clock")
  BY <1>0, <1>1, MotorPop
<1>5. MotorOctet' = MotorOctet
  BY <1>1 DEF MotorOctet, Port
<1>6. MotorTypes'
  BY <1>0, <1>1 DEF MotorTypes
<1>7. GuardInv'
  <2>1. CASE c = "clock"
    BY <1>0, <1>1, <1>3, <1>4, <2>1 DEF GuardInv
  <2>2. CASE c = "caller"
    BY <1>0, <1>1, <1>3, <1>4, <2>2 DEF GuardInv
  <2> QED
    BY <2>1, <2>2
<1>8. EdgesBounded'
  <2>0. PICK o, i, t, k, f : /\ o = over' /\ i = InCycle' /\ t = ToCome' /\ k = OfCommand'
                             /\ f = fails'
    OBVIOUS
  <2>10. /\ i \in 0..1 /\ t \in 0..1 /\ k \in 0..1
         /\ InCycle \in 0..1 /\ ToCome \in 0..1 /\ OfCommand \in 0..1
    BY <2>0, Terms, Zenon
  <2>1. i <= InCycle
    <3>1. CASE c = "clock"
      <4>1. Left("clock")' \notin {6, 7}
        BY <1>3, <1>4, <3>1
      <4>2. i = 0
        BY <2>0, <4>1 DEF InCycle
      <4> QED
        BY <2>10, <4>2
    <3>2. CASE c = "caller"
      BY <1>1, <1>4, <2>0, <3>2 DEF InCycle, AtBumper
    <3> QED
      BY <3>1, <3>2
  <2>2. t = ToCome
    <3>1. Left("clock")' \in {8, 9} <=> Left("clock") \in {8, 9}
      BY <1>3, <1>4
    <3> QED
      BY <1>1, <2>0, <3>1 DEF ToCome
  <2>3. k <= OfCommand
    <3>1. CASE c = "clock"
      BY <1>1, <1>2, <1>4, <1>5, <2>0, <3>1 DEF OfCommand
    <3>2. CASE c = "caller"
      <4>1. k = 0
        BY <1>3, <1>4, <2>0, <3>2 DEF OfCommand
      <4> QED
        BY <2>10, <4>1
    <3> QED
      BY <3>1, <3>2
  <2>4. o = over /\ f = fails + 1 /\ f \in Nat
    BY <1>0, <1>1, <2>0
  <2>5. o + i + t + k + fails <= over + InCycle + ToCome + OfCommand + f
    BY <1>0, <2>1, <2>2, <2>3, <2>4, <2>10
  <2> QED
    BY <1>0, <1>1, <2>0, <2>4, <2>5, <2>10, BoundKept
<1>9. DirectionKept'
  BY <1>0, <1>1 DEF DirectionKept
<1> QED
  BY <1>4, <1>6, <1>7, <1>8, <1>9 DEF MotorInv

\* Taking and giving back the guard.
LEMMA GuardMoves ==
  ASSUME IoTypes, Programs, MotorInv, NEW c \in {"clock", "caller"}, Lock(c) \/ Unlock(c)
  PROVE  MotorInv'
<1>0. /\ MotorTypes /\ MotorPrograms /\ GuardInv /\ EdgesBounded /\ DirectionKept
      /\ fails \in Nat /\ over \in Nat
  BY DEF MotorInv, IoTypes, MotorTypes
<1>1. /\ todo[c] # << >> /\ Pop(c) /\ layout' = layout /\ asked' = asked
      /\ UNCHANGED <<pins, position, data, move_it_, over, fails>>
  BY DEF Lock, Unlock, Keep, At
<1>2. /\ c = "clock" => /\ Lock(c) => Left("clock") \in {9, 4}
                        /\ Unlock(c) => Left("clock") \in {5, 1}
      /\ c = "caller" => /\ Lock(c) => Left("caller") = 6
                         /\ Unlock(c) => Left("caller") = 3
  <2>1. /\ Lock(c) => Head(todo[c]).op = "lock"
        /\ Unlock(c) => Head(todo[c]).op = "unlock"
    BY DEF Lock, Unlock, At
  <2>2. CASE c = "clock"
    BY <1>0, <1>1, <2>1, <2>2, ClockIs
  <2>3. CASE c = "caller"
    BY <1>0, <1>1, <2>1, <2>3, CallerIs
  <2> QED
    BY <2>2, <2>3
<1>3. /\ Lock(c) => guard = Free /\ guard' = c
      /\ Unlock(c) => guard' = Free
  BY DEF Lock, Unlock
<1>4. /\ MotorPrograms' /\ Left(c)' = Left(c) - 1
      /\ c = "clock" => Left("caller")' = Left("caller")
      /\ c = "caller" => Left("clock")' = Left("clock")
  BY <1>0, <1>1, MotorPop
<1>5. MotorOctet' = MotorOctet /\ (MotorAlone' <=> MotorAlone)
  BY <1>1 DEF MotorOctet, MotorAlone, Port
<1>6. MotorTypes'
  BY <1>0, <1>1 DEF MotorTypes
<1>7. GuardInv'
  <2>1. CASE c = "clock"
    BY <1>0, <1>2, <1>3, <1>4, <2>1 DEF GuardInv, Free
  <2>2. CASE c = "caller"
    BY <1>0, <1>2, <1>3, <1>4, <2>2 DEF GuardInv, Free
  <2> QED
    BY <2>1, <2>2
<1>8. EdgesBounded'
  <2>0. PICK o, i, t, k, f : /\ o = over' /\ i = InCycle' /\ t = ToCome' /\ k = OfCommand'
                             /\ f = fails'
    OBVIOUS
  <2>10. /\ i \in 0..1 /\ t \in 0..1 /\ k \in 0..1
         /\ InCycle \in 0..1 /\ ToCome \in 0..1 /\ OfCommand \in 0..1
    BY <2>0, Terms, Zenon
  <2>1. i = InCycle
    BY <1>1, <1>2, <1>4, <2>0 DEF InCycle, AtBumper
  <2>2. t <= ToCome
    BY <1>1, <1>2, <1>4, <2>0 DEF ToCome
  <2>3. k = OfCommand
    BY <1>1, <1>2, <1>4, <1>5, <2>0 DEF OfCommand
  <2>4. o = over /\ f = fails
    BY <1>1, <2>0
  <2>5. o + i + t + k + fails <= over + InCycle + ToCome + OfCommand + f
    BY <1>0, <2>1, <2>2, <2>3, <2>4, <2>10
  <2> QED
    BY <1>0, <1>1, <2>0, <2>4, <2>5, <2>10, BoundKept
<1>9. DirectionKept'
  <2>1. /\ Left("clock")' \in {6, 2} => Left("clock") \in {6, 2}
        /\ Left("caller")' \in 1..3 => Left("caller") \in 1..3
    BY <1>2, <1>4
  <2>2. UNCHANGED <<pins, data, asked, fails>>
    BY <1>1
  <2> QED
    BY <1>0, <1>5, <2>1, <2>2, Zenon DEF DirectionKept
<1> QED
  BY <1>4, <1>6, <1>7, <1>8, <1>9 DEF MotorInv

\* A cycle that looks at the bumpers, and one that begins.
LEMMA BumpersStep ==
  ASSUME IoTypes, Programs, MotorInv, Bumpers
  PROVE  MotorInv'
<1>0. /\ MotorTypes /\ MotorPrograms /\ GuardInv /\ EdgesBounded /\ DirectionKept
      /\ fails \in Nat /\ over \in Nat
  BY DEF MotorInv, IoTypes, MotorTypes
<1>1. /\ todo["clock"] # << >> /\ Pop("clock") /\ layout' = layout /\ asked' = asked
      /\ UNCHANGED <<pins, position, data, guard, over>>
      /\ Head(todo["clock"]).op = "bumpers"
  BY DEF Bumpers, Keep, At
<1>2. Left("clock") = 8
  BY <1>0, <1>1, ClockIs
<1>3. /\ fails' = fails \/ fails' = fails + 1
      /\ move_it_' \in BOOLEAN
      /\ fails' = fails => (move_it_' <=> move_it_ /\ ~AtBumper)
  <2>1. /\ fails' = fails \/ fails' = fails + 1
        /\ fails' # fails + 1 => (move_it_' <=> move_it_ /\ ~AtBumper)
    BY Zenon DEF Bumpers
  <2>2. move_it_' \in BOOLEAN
    BY <1>0, Zenon DEF Bumpers, MotorTypes
  <2> QED
    BY <1>0, <2>1, <2>2
<1>4. MotorPrograms' /\ Left("clock")' = Left("clock") - 1 /\ Left("caller")' = Left("caller")
  BY <1>0, <1>1, MotorPop
<1>5. MotorOctet' = MotorOctet /\ (MotorAlone' <=> MotorAlone)
  BY <1>1 DEF MotorOctet, MotorAlone, Port
<1>6. MotorTypes'
  BY <1>0, <1>1, <1>3 DEF MotorTypes
<1>7. GuardInv'
  BY <1>0, <1>1, <1>2, <1>4 DEF GuardInv
<1>8. EdgesBounded'
  <2>0. PICK o, i, t, k, f : /\ o = over' /\ i = InCycle' /\ t = ToCome' /\ k = OfCommand'
                             /\ f = fails'
    OBVIOUS
  <2>10. /\ i \in 0..1 /\ t \in 0..1 /\ k \in 0..1
         /\ InCycle \in 0..1 /\ ToCome \in 0..1 /\ OfCommand \in 0..1
    BY <2>0, Terms, Zenon
  <2>1. InCycle = 0 /\ ToCome = 1
    BY <1>2 DEF InCycle, ToCome
  <2>2. k = OfCommand
    BY <1>1, <1>4, <1>5, <2>0 DEF OfCommand
  <2>3. o = over /\ f \in Nat /\ fails <= f
    BY <1>0, <1>1, <1>3, <2>0
  <2>4. i + t <= 1 \/ f = fails + 1
    <3>1. CASE f = fails
      <4>1. t = 1 => i = 0
        BY <1>1, <1>2, <1>3, <1>4, <2>0, <3>1 DEF InCycle, ToCome, AtBumper
      <4> QED
        BY <2>10, <4>1
    <3> QED
      BY <1>3, <2>0, <3>1
  <2>5. o + i + t + k + fails <= over + InCycle + ToCome + OfCommand + f
    BY <1>0, <2>1, <2>2, <2>3, <2>4, <2>10
  <2> QED
    BY <1>0, <1>1, <2>0, <2>3, <2>5, <2>10, BoundKept
<1>9. DirectionKept'
  <2>1. Left("clock")' \notin {6, 2} /\ (fails' = 0 => fails = 0)
    BY <1>0, <1>2, <1>3, <1>4
  <2>2. UNCHANGED <<pins, data, asked>>
    BY <1>1
  <2> QED
    BY <1>0, <1>4, <1>5, <2>1, <2>2, Zenon DEF DirectionKept
<1> QED
  BY <1>4, <1>6, <1>7, <1>8, <1>9 DEF MotorInv

LEMMA LoopStep ==
  ASSUME IoTypes, Programs, MotorInv, ClockLoop
  PROVE  MotorInv'
<1>0. /\ MotorTypes /\ MotorPrograms /\ GuardInv /\ EdgesBounded /\ DirectionKept
      /\ fails \in Nat /\ over \in Nat
  BY DEF MotorInv, IoTypes, MotorTypes
<1>1. /\ todo["clock"] = << >> /\ layout' = layout /\ move_it_
      /\ todo' = [todo EXCEPT !["clock"] = Cycle(Port("clock"))]
      /\ UNCHANGED <<pins, position, data, guard, move_it_, asked, over, fails>>
  BY DEF ClockLoop
<1>2. Len(Cycle(Port("clock"))) = 9 /\ Cycle(Port("clock")) \in Seq(Steps)
  BY PortsAre, CycleIs DEF Is9
<1>3. todo'["clock"] = Cycle(Port("clock")) /\ todo'["caller"] = todo["caller"]
  BY <1>1 DEF IoTypes, Clients
<1>4. Left("clock") = 0 /\ Left("clock")' = 9 /\ Left("caller")' = Left("caller")
  BY <1>1, <1>2, <1>3 DEF Left
<1>5. MotorOctet' = MotorOctet /\ (MotorAlone' <=> MotorAlone)
  BY <1>1 DEF MotorOctet, MotorAlone, Port
<1>6. MotorPrograms'
  <2>1. PICK p, r : p = Cycle(Port("clock")) /\ r = Command(Port("caller"), asked)
    OBVIOUS
  <2>2. p = Cycle(Port("clock"))' /\ r = Command(Port("caller"), asked)'
    BY <1>1, <2>1 DEF Port
  <2>3. p \in Seq(Steps) /\ Len(p) = 9 /\ 9 \in Nat
    BY <1>2, <2>1
  <2>4. IsRest(p, p, 9)
    BY <2>3, RestBegins
  <2>5. IsRest(todo["caller"], r, 6)
    BY <1>0, <2>1 DEF MotorPrograms
  <2>6. IsRest(todo'["clock"], p, 9) /\ IsRest(todo'["caller"], r, 6)
    BY <1>3, <2>1, <2>4, <2>5, Zenon
  <2> QED
    BY <2>2, <2>6, Zenon DEF MotorPrograms
<1>7. MotorTypes'
  BY <1>0, <1>1 DEF MotorTypes
<1>8. GuardInv'
  BY <1>0, <1>1, <1>4 DEF GuardInv
<1>9. EdgesBounded'
  <2>0. PICK o, i, t, k, f : /\ o = over' /\ i = InCycle' /\ t = ToCome' /\ k = OfCommand'
                             /\ f = fails'
    OBVIOUS
  <2>10. /\ i \in 0..1 /\ t \in 0..1 /\ k \in 0..1
         /\ InCycle \in 0..1 /\ ToCome \in 0..1 /\ OfCommand \in 0..1
    BY <2>0, Terms, Zenon
  <2>1. i = 0 /\ ToCome = 1
    BY <1>1, <1>4, <2>0 DEF InCycle, ToCome
  <2>2. k = OfCommand
    BY <1>1, <1>4, <1>5, <2>0 DEF OfCommand
  <2>3. o = over /\ f = fails
    BY <1>1, <2>0
  <2>4. o + i + t + k + fails <= over + InCycle + ToCome + OfCommand + f
    BY <1>0, <2>1, <2>2, <2>3, <2>10
  <2> QED
    BY <1>0, <1>1, <2>0, <2>3, <2>4, <2>10, BoundKept
<1>10. DirectionKept'
  <2>1. Left("clock")' \notin {6, 2}
    BY <1>4
  <2>2. UNCHANGED <<pins, data, asked, fails>>
    BY <1>1
  <2> QED
    BY <1>0, <1>4, <1>5, <2>1, <2>2, Zenon DEF DirectionKept
<1> QED
  BY <1>6, <1>7, <1>8, <1>9, <1>10 DEF MotorInv

\* The steps of a command.
LEMMA CallerReads ==
  ASSUME IoTypes, Programs, MotorInv, ReadOctet("caller")
  PROVE  MotorInv'
<1>0. /\ MotorTypes /\ MotorPrograms /\ GuardInv /\ EdgesBounded /\ DirectionKept
      /\ fails \in Nat /\ over \in Nat
  BY DEF MotorInv, IoTypes, MotorTypes
<1>1. /\ todo["caller"] # << >> /\ Pop("caller") /\ layout' = layout /\ asked' = asked
      /\ UNCHANGED <<pins, position, guard, move_it_, over>>
      /\ Head(todo["caller"]).op \in {"get", "peek"}
  BY DEF ReadOctet, Keep, At
<1>2. Left("caller") = 5 /\ Head(todo["caller"]) = GetOctet
  BY <1>0, <1>1, CallerIs, Zenon
<1>3. /\ data'["clock"] = data["clock"] /\ fails' \in {fails, fails + 1}
      /\ fails' = fails => data'["caller"] = pins[MotorOctet]
  <2>1. /\ Head(todo["caller"]).op = "get" /\ Head(todo["caller"]).half = 0
        /\ Head(todo["caller"]).take = TRUE
    BY <1>2 DEF GetOctet, Get
  <2> QED
    BY <2>1, MotorReads DEF Clients
<1>4. MotorPrograms' /\ Left("caller")' = Left("caller") - 1 /\ Left("clock")' = Left("clock")
  BY <1>0, <1>1, MotorPop
<1>5. MotorOctet' = MotorOctet /\ (MotorAlone' <=> MotorAlone)
  BY <1>1 DEF MotorOctet, MotorAlone, Port
<1>6. MotorTypes'
  BY <1>0, <1>1 DEF MotorTypes
<1>7. GuardInv'
  BY <1>0, <1>1, <1>2, <1>4 DEF GuardInv
<1>8. EdgesBounded'
  <2>0. PICK o, i, t, k, f : /\ o = over' /\ i = InCycle' /\ t = ToCome' /\ k = OfCommand'
                             /\ f = fails'
    OBVIOUS
  <2>10. /\ i \in 0..1 /\ t \in 0..1 /\ k \in 0..1
         /\ InCycle \in 0..1 /\ ToCome \in 0..1 /\ OfCommand \in 0..1
    BY <2>0, Terms, Zenon
  <2>1. i = InCycle
    BY <1>1, <1>4, <2>0 DEF InCycle, AtBumper
  <2>2. t = ToCome
    BY <1>1, <1>4, <2>0 DEF ToCome
  <2>3. o = over /\ f \in Nat /\ (f = fails \/ f = fails + 1)
    BY <1>0, <1>1, <1>3, <2>0
  <2>4. f = fails => k = 0
    BY <1>1, <1>3, <1>5, <2>0 DEF OfCommand
  <2>5. o + i + t + k + fails <= over + InCycle + ToCome + OfCommand + f
    BY <1>0, <2>1, <2>2, <2>3, <2>4, <2>10
  <2> QED
    BY <1>0, <1>1, <2>0, <2>3, <2>5, <2>10, BoundKept
<1>9. DirectionKept'
  <2>1. Left("caller")' \notin 1..3 /\ (fails' = 0 => fails = 0)
    BY <1>0, <1>2, <1>3, <1>4
  <2>2. pins' = pins /\ data'["clock"] = data["clock"]
    BY <1>1, <1>3
  <2> QED
    BY <1>0, <1>4, <1>5, <2>1, <2>2, Zenon DEF DirectionKept
<1> QED
  BY <1>4, <1>6, <1>7, <1>8, <1>9 DEF MotorInv

LEMMA CallerWrites ==
  ASSUME IoTypes, Programs, MotorInv, WriteDone("caller")
  PROVE  MotorInv'
<1>0. /\ MotorTypes /\ MotorPrograms /\ GuardInv /\ EdgesBounded /\ DirectionKept
      /\ fails \in Nat /\ over \in Nat
  BY DEF MotorInv, IoTypes, MotorTypes
<1>1. /\ todo["caller"] # << >> /\ Pop("caller") /\ layout' = layout /\ asked' = asked
      /\ UNCHANGED <<guard, move_it_, fails>> /\ Head(todo["caller"]).op = "out"
  BY DEF WriteDone, Keep, At
<1> DEFINE s == Head(todo["caller"])
           now == {p \in Pins : p \in (data["caller"] \ s.clear) \cup s.set}
<1>2. /\ Left("caller") = 4 /\ s.half = 0
      /\ s.first /\ s.clear = ClearOf(asked) /\ s.set = SetOf(asked)
  BY <1>0, <1>1, CallerIs
<1>3. s.first = TRUE
  <2>1. AccessOf("caller", Port("caller"), s)
    BY <1>1, HeadIs DEF Clients
  <2> QED
    BY <1>1, <1>2, <2>1 DEF AccessOf
<1>4. /\ pins' = [pins EXCEPT ![MotorOctet] = now]
      /\ Turn(pins[MotorOctet], pins'[MotorOctet])
      /\ data'["clock"] = data["clock"]
  BY <1>2, <1>3, MotorWrites DEF Clients
<1>5. pins'[MotorOctet] = now
  BY <1>4, MotorOctetIs DEF IoTypes
<1>6. /\ position' \in 0..Track /\ over' \in Nat
      /\ over' <= over + (IF AtBumper THEN 1 ELSE 0)
      /\ ~Edge(pins[MotorOctet], now) => position' = position /\ over' = over
  BY <1>0, <1>4, <1>5, TurnIs
<1>7. MotorPrograms' /\ Left("caller")' = Left("caller") - 1 /\ Left("clock")' = Left("clock")
  BY <1>0, <1>1, MotorPop
<1>8. MotorOctet' = MotorOctet /\ (MotorAlone' <=> MotorAlone)
  BY <1>1 DEF MotorOctet, MotorAlone, Port
<1>9. MotorTypes'
  BY <1>0, <1>1, <1>6 DEF MotorTypes
<1>10. GuardInv'
  BY <1>0, <1>1, <1>2, <1>7 DEF GuardInv
<1>11. Left("clock") \notin {8, 7, 6, 5, 3, 2, 1}
  BY <1>0, <1>2 DEF GuardInv
<1>12. /\ clock_bit_ \in now <=> clock_bit_ \in data["caller"]
       /\ direction_bit_ \in now <=> asked
  <2>1. asked \in BOOLEAN
    BY <1>0, Zenon DEF MotorTypes
  <2>2. CASE asked
    BY <1>2, <2>2 DEF ClearOf, SetOf, direction_bit_, clock_bit_, Pins
  <2>3. CASE ~asked
    BY <1>2, <2>3 DEF ClearOf, SetOf, direction_bit_, clock_bit_, Pins
  <2> QED
    BY <2>1, <2>2, <2>3
<1>13. EdgesBounded'
  <2>0. PICK o, i, t, k, f : /\ o = over' /\ i = InCycle' /\ t = ToCome' /\ k = OfCommand'
                             /\ f = fails'
    OBVIOUS
  <2>10. /\ i \in 0..1 /\ t \in 0..1 /\ k \in 0..1
         /\ InCycle \in 0..1 /\ ToCome \in 0..1 /\ OfCommand \in 0..1
    BY <2>0, Terms, Zenon
  <2>1. i = 0 /\ k = 0
    BY <1>2, <1>7, <1>11, <2>0 DEF InCycle, OfCommand
  <2>2. t = ToCome
    BY <1>1, <1>7, <2>0 DEF ToCome
  <2>3. o \in Nat /\ f = fails
    BY <1>1, <1>6, <2>0
  <2>4. o <= over + OfCommand
    <3>1. CASE Edge(pins[MotorOctet], now)
      <4>1. OfCommand = 1
        BY <1>2, <1>12, <3>1 DEF OfCommand, Edge
      <4>2. over' <= over + 1
        BY <1>0, <1>6
      <4> QED
        BY <2>0, <4>1, <4>2
    <3>2. CASE ~Edge(pins[MotorOctet], now)
      <4>1. o = over
        BY <1>6, <2>0, <3>2
      <4> QED
        BY <1>0, <2>10, <4>1
    <3> QED
      BY <3>1, <3>2
  <2>5. o + i + t + k + fails <= over + InCycle + ToCome + OfCommand + f
    BY <1>0, <2>1, <2>2, <2>3, <2>4, <2>10
  <2> QED
    BY <1>0, <1>1, <2>0, <2>3, <2>5, <2>10, BoundKept
<1>14. DirectionKept'
  <2>1. Left("clock")' \notin {6, 2}
    BY <1>7, <1>11
  <2>2. direction_bit_ \in pins'[MotorOctet] <=> asked
    BY <1>5, <1>12
  <2> QED
    BY <1>1, <1>8, <2>1, <2>2, Zenon DEF DirectionKept
<1> QED
  BY <1>7, <1>9, <1>10, <1>13, <1>14 DEF MotorInv

LEMMA GoOrHaltStep ==
  ASSUME IoTypes, Programs, MotorInv, GoOrHalt
  PROVE  MotorInv'
<1>0. /\ MotorTypes /\ MotorPrograms /\ GuardInv /\ EdgesBounded /\ DirectionKept
      /\ fails \in Nat /\ over \in Nat
  BY DEF MotorInv, IoTypes, MotorTypes
<1>1. /\ todo["caller"] # << >> /\ Pop("caller") /\ layout' = layout /\ asked' = asked
      /\ UNCHANGED <<pins, position, data, guard, fails>>
      /\ At("caller", "go") \/ At("caller", "halt")
  BY DEF GoOrHalt, Keep, At
<1>2. /\ At("caller", "go") => Left("caller") = 2
      /\ ~At("caller", "go") => Left("caller") = 1
  BY <1>0, <1>1, CallerIs DEF At
<1>3. /\ move_it_' <=> At("caller", "go")
      /\ move_it_' \in BOOLEAN
      /\ At("caller", "go") => over' = 0
      /\ ~At("caller", "go") => over' = over
  BY Zenon DEF GoOrHalt, At
<1>4. MotorPrograms' /\ Left("caller")' = Left("caller") - 1 /\ Left("clock")' = Left("clock")
  BY <1>0, <1>1, MotorPop
<1>5. MotorOctet' = MotorOctet /\ (MotorAlone' <=> MotorAlone)
  BY <1>1 DEF MotorOctet, MotorAlone, Port
<1>6. MotorTypes'
  <2>1. over' \in Nat
    BY <1>0, <1>3
  <2> QED
    BY <1>0, <1>1, <1>3, <2>1, Zenon DEF MotorTypes
<1>7. GuardInv'
  BY <1>0, <1>1, <1>2, <1>4 DEF GuardInv
<1>8. CASE At("caller", "go")
  <2>1. EdgesBounded'
    <3>1. over' = 0 /\ OfCommand' = 0
      BY <1>2, <1>3, <1>4, <1>8 DEF OfCommand
    <3>2. PICK i, t : i = InCycle' /\ t = ToCome'
      OBVIOUS
    <3>3. i \in 0..1 /\ t \in 0..1
      BY <3>2, Terms, Zenon
    <3>4. 0 + i + t + 0 <= 2 + fails
      BY <1>0, <3>3
    <3> QED
      BY <1>1, <3>1, <3>2, <3>4, Zenon DEF EdgesBounded
  <2>2. DirectionKept'
    <3>1. Left("caller")' \in 1..3 => Left("caller") \in 1..3
      BY <1>2, <1>4
    <3>2. UNCHANGED <<pins, data, asked, fails>>
      BY <1>1
    <3> QED
      BY <1>0, <1>4, <1>5, <3>1, <3>2, Zenon DEF DirectionKept
  <2> QED
    BY <1>4, <1>6, <1>7, <2>1, <2>2 DEF MotorInv
<1>9. CASE ~At("caller", "go")
  <2>1. EdgesBounded'
    <3>0. PICK o, i, t, k, f : /\ o = over' /\ i = InCycle' /\ t = ToCome' /\ k = OfCommand'
                               /\ f = fails'
      OBVIOUS
    <3>10. /\ i \in 0..1 /\ t \in 0..1 /\ k \in 0..1
           /\ InCycle \in 0..1 /\ ToCome \in 0..1 /\ OfCommand \in 0..1
      BY <3>0, Terms, Zenon
    <3>1. i = InCycle
      BY <1>1, <1>4, <3>0 DEF InCycle, AtBumper
    <3>2. t <= ToCome
      BY <1>3, <1>4, <1>9, <3>0 DEF ToCome
    <3>3. k = 0
      BY <1>2, <1>4, <1>9, <3>0 DEF OfCommand
    <3>4. o = over /\ f = fails
      BY <1>1, <1>3, <1>9, <3>0
    <3>5. o + i + t + k + fails <= over + InCycle + ToCome + OfCommand + f
      BY <1>0, <3>1, <3>2, <3>3, <3>4, <3>10
    <3> QED
      BY <1>0, <1>1, <3>0, <3>4, <3>5, <3>10, BoundKept
  <2>2. DirectionKept'
    <3>1. Left("caller")' \notin 1..3
      BY <1>2, <1>4, <1>9
    <3>2. UNCHANGED <<pins, data, asked, fails>>
      BY <1>1
    <3> QED
      BY <1>0, <1>4, <1>5, <3>1, <3>2, Zenon DEF DirectionKept
  <2> QED
    BY <1>4, <1>6, <1>7, <2>1, <2>2 DEF MotorInv
<1> QED
  BY <1>8, <1>9

\* A command that begins, and the motor enabled or disabled without one.
LEMMA CommandBegins ==
  ASSUME IoTypes, Programs, MotorInv, Step
  PROVE  MotorInv'
<1>0. /\ MotorTypes /\ MotorPrograms /\ GuardInv /\ EdgesBounded /\ DirectionKept
      /\ fails \in Nat /\ over \in Nat
  BY DEF MotorInv, IoTypes, MotorTypes
<1>1. PICK forward \in BOOLEAN :
        /\ todo["caller"] = << >>
        /\ todo' = [todo EXCEPT !["caller"] = Command(Port("caller"), forward)]
        /\ asked' = forward
        /\ UNCHANGED <<layout, pins, position, data, guard, move_it_, over, fails>>
  BY Zenon DEF Step, Call
<1>2. /\ Len(Command(Port("caller"), forward)) = 6
      /\ Command(Port("caller"), forward) \in Seq(Steps)
  BY PortsAre, CommandIs DEF Is6
<1>3. todo'["caller"] = Command(Port("caller"), forward) /\ todo'["clock"] = todo["clock"]
  BY <1>1 DEF IoTypes, Clients
<1>4. Left("caller") = 0 /\ Left("caller")' = 6 /\ Left("clock")' = Left("clock")
  BY <1>1, <1>2, <1>3 DEF Left
<1>5. MotorOctet' = MotorOctet /\ (MotorAlone' <=> MotorAlone)
  BY <1>1 DEF MotorOctet, MotorAlone, Port
<1>6. MotorPrograms'
  <2>1. PICK p, r : p = Cycle(Port("clock")) /\ r = Command(Port("caller"), forward)
    OBVIOUS
  <2>2. p = Cycle(Port("clock"))' /\ r = Command(Port("caller"), asked)'
    BY <1>1, <2>1 DEF Port
  <2>3. r \in Seq(Steps) /\ Len(r) = 6 /\ 6 \in Nat
    BY <1>2, <2>1
  <2>4. IsRest(r, r, 6)
    BY <2>3, RestBegins
  <2>5. IsRest(todo["clock"], p, 9)
    BY <1>0, <2>1 DEF MotorPrograms
  <2>6. IsRest(todo'["clock"], p, 9) /\ IsRest(todo'["caller"], r, 6)
    BY <1>3, <2>1, <2>4, <2>5, Zenon
  <2> QED
    BY <2>2, <2>6, Zenon DEF MotorPrograms
<1>7. MotorTypes'
  BY <1>0, <1>1, Zenon DEF MotorTypes
<1>8. GuardInv'
  BY <1>0, <1>1, <1>4 DEF GuardInv
<1>9. EdgesBounded'
  <2>0. PICK o, i, t, k, f : /\ o = over' /\ i = InCycle' /\ t = ToCome' /\ k = OfCommand'
                             /\ f = fails'
    OBVIOUS
  <2>10. /\ i \in 0..1 /\ t \in 0..1 /\ k \in 0..1
         /\ InCycle \in 0..1 /\ ToCome \in 0..1 /\ OfCommand \in 0..1
    BY <2>0, Terms, Zenon
  <2>1. i = InCycle /\ t = ToCome
    BY <1>1, <1>4, <2>0 DEF InCycle, ToCome, AtBumper
  <2>2. k = 0
    BY <1>4, <2>0 DEF OfCommand
  <2>3. o = over /\ f = fails
    BY <1>1, <2>0
  <2>4. o + i + t + k + fails <= over + InCycle + ToCome + OfCommand + f
    BY <1>0, <2>1, <2>2, <2>3, <2>10
  <2> QED
    BY <1>0, <1>1, <2>0, <2>3, <2>4, <2>10, BoundKept
<1>10. DirectionKept'
  <2>1. Left("caller")' \notin 1..3
    BY <1>4
  <2>2. UNCHANGED <<pins, data, fails>>
    BY <1>1
  <2> QED
    BY <1>0, <1>4, <1>5, <2>1, <2>2, Zenon DEF DirectionKept
<1> QED
  BY <1>6, <1>7, <1>8, <1>9, <1>10 DEF MotorInv

LEMMA MotorMoves ==
  ASSUME IoTypes, Programs, MotorInv, Motor
  PROVE  MotorInv'
<1>0. /\ MotorTypes /\ MotorPrograms /\ GuardInv /\ EdgesBounded /\ DirectionKept
      /\ fails \in Nat /\ over \in Nat
  BY DEF MotorInv, IoTypes, MotorTypes
<1>1. /\ todo["caller"] = << >>
      /\ UNCHANGED <<layout, todo, pins, position, data, guard, asked, fails>>
  BY DEF Motor
<1>2. /\ move_it_' \in BOOLEAN /\ (move_it_' => over' = 0) /\ (~move_it_' => over' = over)
  BY Zenon DEF Motor
<1>3. Left("caller") = 0 /\ Left("caller")' = 0 /\ Left("clock")' = Left("clock")
  BY <1>1 DEF Left
<1>4. MotorOctet' = MotorOctet /\ (MotorAlone' <=> MotorAlone)
  BY <1>1 DEF MotorOctet, MotorAlone, Port
<1>5. MotorPrograms'
  BY <1>0, <1>1, Zenon DEF MotorPrograms, Port
<1>6. MotorTypes'
  <2>1. over' \in Nat
    BY <1>0, <1>2
  <2> QED
    BY <1>0, <1>1, <1>2, <2>1, Zenon DEF MotorTypes
<1>7. GuardInv'
  BY <1>0, <1>1, <1>3 DEF GuardInv
<1>8. EdgesBounded'
  <2>0. PICK o, i, t, k, f : /\ o = over' /\ i = InCycle' /\ t = ToCome' /\ k = OfCommand'
                             /\ f = fails'
    OBVIOUS
  <2>10. /\ i \in 0..1 /\ t \in 0..1 /\ k \in 0..1
         /\ InCycle \in 0..1 /\ ToCome \in 0..1 /\ OfCommand \in 0..1
    BY <2>0, Terms, Zenon
  <2>1. i = InCycle /\ k = 0
    BY <1>1, <1>3, <2>0 DEF InCycle, OfCommand, AtBumper
  <2>2. CASE move_it_'
    <3>1. o = 0 /\ f = fails
      BY <1>1, <1>2, <2>0, <2>2
    <3>2. o + i + t + k <= 2 + f
      BY <1>0, <2>1, <2>10, <3>1
    <3> QED
      BY <2>0, <3>2, Zenon DEF EdgesBounded
  <2>3. CASE ~move_it_'
    <3>1. t <= ToCome
      BY <1>3, <2>0, <2>3 DEF ToCome
    <3>2. o = over /\ f = fails
      BY <1>1, <1>2, <2>0, <2>3
    <3>3. o + i + t + k + fails <= over + InCycle + ToCome + OfCommand + f
      BY <1>0, <2>1, <2>10, <3>1, <3>2
    <3> QED
      BY <1>0, <1>1, <2>0, <2>10, <3>2, <3>3, BoundKept
  <2> QED
    BY <2>2, <2>3
<1>9. DirectionKept'
  <2>1. UNCHANGED <<pins, data, asked, fails>>
    BY <1>1
  <2> QED
    BY <1>0, <1>3, <1>4, <2>1, Zenon DEF DirectionKept
<1> QED
  BY <1>5, <1>6, <1>7, <1>8, <1>9 DEF MotorInv

\* The accesses of the others, that are the motor's only if their ports overlap.
LEMMA OthersAccess ==
  ASSUME IoTypes, Programs, MotorInv, NEW c \in {"trigger", "mux", "bits"}, Access(c)
  PROVE  MotorInv'
<1>0. MotorTypes /\ position \in 0..Track /\ over \in Nat /\ fails \in Nat /\ c \in Clients
  BY DEF MotorInv, MotorTypes, IoTypes, Clients
<1>1. /\ todo[c] # << >> /\ Pop(c) /\ layout' = layout /\ asked' = asked
  BY DEF Access, ReadOctet, WriteOctet, Lock, Unlock, Keep, At
<1>2. todo'["clock"] = todo["clock"] /\ todo'["caller"] = todo["caller"]
  BY <1>1 DEF Pop, IoTypes, Clients
<1>3. ASSUME ReadOctet(c) PROVE MotorInv'
  <2>1. UNCHANGED <<pins, position, guard, move_it_, over>>
    BY <1>3 DEF ReadOctet
  <2>2. data'["clock"] = data["clock"] /\ data'["caller"] = data["caller"]
    <3>1. \E x : data' = [data EXCEPT ![c] = x] \/ data' = data
      BY <1>3, Zenon DEF ReadOctet
    <3> QED
      BY <3>1 DEF IoTypes, Clients
  <2>3. fails' \in Nat /\ fails <= fails'
    <3>1. fails' = fails \/ fails' = fails + 1
      BY <1>3, Zenon DEF ReadOctet
    <3> QED
      BY <1>0, <3>1
  <2> QED
    BY <1>0, <1>1, <1>2, <2>1, <2>2, <2>3, OthersStep
<1>4. ASSUME WriteDone(c) PROVE MotorInv'
  <2>1. UNCHANGED <<guard, move_it_, fails>>
    BY <1>4 DEF WriteDone
  <2>2. data'["clock"] = data["clock"] /\ data'["caller"] = data["caller"]
    <3>1. \E x : data' = [data EXCEPT ![c] = x]
      BY <1>4, Zenon DEF WriteDone
    <3> QED
      BY <3>1 DEF IoTypes, Clients
  <2>3. \/ Turn(pins[OctetOf(c)], pins'[OctetOf(c)]) /\ OctetOf(c) = MotorOctet
        \/ UNCHANGED <<position, over>> /\ OctetOf(c) # MotorOctet
    BY <1>4, Zenon DEF WriteDone, MotorOctet
  <2>4. position' \in 0..Track /\ over' \in Nat
    BY <1>0, <2>3, TurnIs
  <2>5. OctetOf(c) \in OctetsOf(Port(c))
    <3>1. Head(todo[c]).op \in Board
      BY <1>4 DEF WriteDone, At, Board
    <3> QED
      BY <1>0, <1>1, <3>1, HeadIs
  <2>6. MotorAlone => OctetOf(c) # MotorOctet
    BY <2>5 DEF MotorAlone, MotorOctet
  <2>7. OctetOf(c) # MotorOctet => pins'[MotorOctet] = pins[MotorOctet]
    <3>1. \E x : pins' = [pins EXCEPT ![OctetOf(c)] = x]
      BY <1>4, Zenon DEF WriteDone
    <3> QED
      BY <3>1, MotorOctetIs DEF IoTypes
  <2>8. fails' \in Nat /\ fails <= fails'
    BY <1>0, <2>1
  <2>9. MotorAlone => /\ position' = position /\ over' = over
                      /\ pins'[MotorOctet] = pins[MotorOctet]
    BY <2>3, <2>6, <2>7
  <2> QED
    BY <1>1, <1>2, <2>1, <2>2, <2>4, <2>8, <2>9, OthersStep
<1>5. ASSUME WriteFails(c) PROVE MotorInv'
  <2>1. UNCHANGED <<pins, position, guard, move_it_, over>> /\ fails' = fails + 1
    BY <1>5 DEF WriteFails
  <2>2. data'["clock"] = data["clock"] /\ data'["caller"] = data["caller"]
    <3>1. \E d : data' = [data EXCEPT ![c] = d]
      BY <1>5 DEF WriteFails
    <3> QED
      BY <3>1 DEF IoTypes, Clients
  <2>3. fails' \in Nat /\ fails <= fails'
    BY <1>0, <2>1
  <2> QED
    BY <1>0, <1>1, <1>2, <2>1, <2>2, <2>3, OthersStep
<1>6. ~Lock(c) /\ ~Unlock(c)
  <2>1. AccessOf(c, Port(c), Head(todo[c]))
    BY <1>0, <1>1, HeadIs
  <2>2. Head(todo[c]).op \in Board
    BY <2>1 DEF AccessOf
  <2> QED
    BY <2>2 DEF Lock, Unlock, At, Board
<1> QED
  BY <1>3, <1>4, <1>5, <1>6, WriteIs DEF Access

LEMMA MotorStep ==
  ASSUME IoTypes, Programs, MotorInv, [Next]_vars
  PROVE  MotorInv'
<1>0. position \in 0..Track /\ over \in Nat /\ fails \in Nat /\ fails <= fails
  BY DEF MotorInv, MotorTypes, IoTypes
<1>1. ASSUME NEW c \in Clients, Access(c) PROVE MotorInv'
  <2>1. CASE c \in {"trigger", "mux", "bits"}
    BY <1>1, <2>1, OthersAccess
  <2>2. CASE c = "clock"
    BY <1>1, <2>2, ClockReads, WriteIs, ClockWrites, MotorWriteFails, GuardMoves DEF Access
  <2>3. CASE c = "caller"
    BY <1>1, <2>3, CallerReads, WriteIs, CallerWrites, MotorWriteFails, GuardMoves
       DEF Access
  <2> QED
    BY <2>1, <2>2, <2>3 DEF Clients
<1>2. ASSUME NEW c \in {"trigger", "mux", "bits"}, NEW q, Call(c, q), asked' = asked
      PROVE  MotorInv'
  <2>1. UNCHANGED <<layout, pins, position, data, guard, move_it_, over, fails>>
    BY <1>2 DEF Call
  <2>2. todo'["clock"] = todo["clock"] /\ todo'["caller"] = todo["caller"]
    BY <1>2 DEF Call, IoTypes, Clients
  <2> QED
    BY <1>0, <1>2, <2>1, <2>2, OthersStep
<1>3. ASSUME Fire \/ Mux \/ Bit PROVE MotorInv'
  <2>1. CASE Fire
    BY <1>2, <2>1 DEF Fire
  <2>2. CASE Mux
    BY <1>2, <2>2 DEF Mux
  <2>3. CASE Bit
    BY <1>2, <2>3 DEF Bit
  <2> QED
    BY <1>3, <2>1, <2>2, <2>3
<1>4. ASSUME UNCHANGED <<layout, todo, pins, position, data, guard, move_it_, asked, over, fails>>
      PROVE  MotorInv'
  BY <1>0, <1>4, OthersStep
<1> QED
  BY <1>1, <1>3, <1>4, GoOrHaltStep, BumpersStep, LoopStep, CommandBegins, MotorMoves
     DEF Next, Dtor, vars

IoInv == AccessInv /\ MotorInv

LEMMA IoStep == IoInv /\ [Next]_vars => IoInv'
<1> SUFFICES ASSUME IoInv, [Next]_vars
             PROVE  IoInv'
  OBVIOUS
<1>1. AccessInv' /\ MotorInv'
  BY AccessStep, MotorStep DEF IoInv, AccessInv
<1> QED
  BY <1>1, Zenon DEF IoInv

LEMMA IoInit == Init => IoInv
BY AccessInit, MotorInit DEF IoInv

\* At a bumper a command turns the motor once more, twice if a cycle of the command
\* before was not over, and once more for each access that failed: for every length of
\* the track, wiring, bound on the calls and number of failed accesses, as long as no
\* other client has the motor's octet.
THEOREM StopsAtBumperCorrect == Spec => []StopsAtBumper
<1>1. IoInv => StopsAtBumper
  <2> SUFFICES ASSUME IoInv, MotorAlone
               PROVE  over <= 2 + fails
    BY DEF StopsAtBumper
  <2>1. over + InCycle + ToCome + OfCommand <= 2 + fails
    BY DEF IoInv, MotorInv, EdgesBounded
  <2>2. over \in Nat /\ fails \in Nat
    BY DEF IoInv, MotorInv, MotorTypes, AccessInv, IoTypes
  <2>3. InCycle \in 0..1 /\ ToCome \in 0..1 /\ OfCommand \in 0..1
    BY Terms
  <2> QED
    BY <2>1, <2>2, <2>3
<1> QED
  BY <1>1, IoStep, IoInit, PTL DEF Spec

\* While a command runs, the clock thread steps the motor in the direction that the
\* command has written: every cycle that begins or goes on after it reads the
\* direction with the clock's own bit and writes both back.
THEOREM StepsAsAskedCorrect == Spec => StepsAsAsked
<1> DEFINE Asked == MotorAlone /\ fails = 0 /\ At("caller", "halt") /\ position' # position
                    => (position' > position <=> asked)
<1>1. IoInv /\ [Next]_vars => [Asked]_vars
  <2> SUFFICES ASSUME IoInv, [Next]_vars, MotorAlone, fails = 0, At("caller", "halt"),
                      position' # position
               PROVE  position' > position <=> asked
    OBVIOUS
  <2>1. /\ IoTypes /\ Programs /\ MotorTypes /\ MotorPrograms /\ GuardInv /\ DirectionKept
    BY DEF IoInv, AccessInv, MotorInv
  <2>0. PICK c \in Clients : WriteOctet(c)
    BY DEF Next, Access, ReadOctet, Lock, Unlock, GoOrHalt, Bumpers, ClockLoop,
           Fire, Mux, Bit, Step, Call, Motor, Dtor, vars
  <2>2. WriteDone(c)
    BY <2>0, WriteIs DEF WriteFails
  <2>3. OctetOf(c) = MotorOctet
    BY <2>2, Zenon DEF WriteDone, MotorOctet
  <2>4. todo[c] # << >> /\ Head(todo[c]).op = "out" /\ Head(todo[c]).op \in Board
    BY <2>2 DEF WriteDone, At, Board
  <2>5. OctetOf(c) \in OctetsOf(Port(c))
    BY <2>1, <2>4, HeadIs
  <2>6. c = "clock"
    <3>1. c \notin {"trigger", "mux", "bits"}
      BY <2>3, <2>5 DEF MotorAlone, MotorOctet
    <3>2. c # "caller"
      BY <2>4 DEF At
    <3> QED
      BY <3>1, <3>2 DEF Clients
  <2> DEFINE s == Head(todo["clock"])
             now == {p \in Pins : p \in (data["clock"] \ s.clear) \cup s.set}
  <2>7. /\ Left("clock") \in {6, 2} /\ s.half = 0 /\ s.op = "out"
        /\ Left("clock") = 6 => s.clear = {} /\ s.set = {clock_bit_}
        /\ Left("clock") = 2 => s.clear = {clock_bit_} /\ s.set = {}
    BY <2>1, <2>4, <2>6, ClockIs
  <2>8. s.first = TRUE
    <3>1. AccessOf("clock", Port("clock"), s)
      BY <2>1, <2>4, <2>6, HeadIs DEF Clients
    <3>2. (s.first <=> s.half = 0) /\ s \in Steps
      <4>1. todo["clock"] \in Seq(Steps)
        BY <2>1 DEF IoTypes, Clients
      <4>2. s \in Steps
        BY <2>4, <2>6, <4>1
      <4> QED
        BY <2>7, <3>1, <4>2 DEF AccessOf
    <3> QED
      BY <2>7, <3>2 DEF Steps
  <2>9. /\ pins' = [pins EXCEPT ![MotorOctet] = now]
        /\ Turn(pins[MotorOctet], pins'[MotorOctet])
    BY <2>1, <2>2, <2>6, <2>7, <2>8, MotorWrites
  <2>10. pins'[MotorOctet] = now
    BY <2>1, <2>9, MotorOctetIs DEF IoTypes
  <2>11. position' > position <=> direction_bit_ \in now
    BY <2>1, <2>9, <2>10, TurnIs
  <2>12. direction_bit_ \in now <=> direction_bit_ \in data["clock"]
    BY <2>7 DEF direction_bit_, clock_bit_, Pins
  <2>13. Left("caller") \in 1..3
    BY <2>1, CallerIs DEF At
  <2>14. data["clock"] = pins[MotorOctet] /\ (direction_bit_ \in pins[MotorOctet] <=> asked)
    BY <2>1, <2>7, <2>13 DEF DirectionKept
  <2> QED
    BY <2>11, <2>12, <2>14
<1> QED
  BY <1>1, IoStep, IoInit, PTL DEF Spec, StepsAsAsked
=============================================================================
