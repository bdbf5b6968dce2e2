-------------------------- MODULE LoadConfigProofs --------------------------
(***************************************************************************)
(* Theorems about LoadConfig: what is proved holds for any options and     *)
(* numbers of the configuration file, any number of groups, polls and      *)
(* failures.                                                               *)
(*                                                                         *)
(* Each program is taken apart into pieces of which all steps are listed;  *)
(* what the steps rely on is kept when pieces are joined (Formed, Fits,    *)
(* Good), also by FlattenSeq.  The invariants then follow the registers,   *)
(* the units and the errors from step to step.                             *)
(***************************************************************************)
EXTENDS LoadConfig, SequenceTheorems, WellFoundedInduction, TLAPS

\* What holds of 1 and is handed on from each number to the next holds up to n.
LEMMA OneAfterAnother ==
  ASSUME NEW n \in Nat \ {0}, NEW S \in SUBSET (1..n), 1 \in S,
         \A i \in 2..n : i - 1 \in S => i \in S
  PROVE  S = 1..n
<1> DEFINE T == (1..n) \ S
<1>1. CASE T = {}
  BY <1>1
<1>2. CASE T # {}
  <2> DEFINE Less == OpToRel(<, Nat)
  <2>1. IsWellFoundedOn(Less, Nat)
    BY NatLessThanWellFounded
  <2>2. \A i, j \in Nat : i < j => <<i, j>> \in Less
    BY DEF OpToRel
  <2> HIDE DEF Less
  <2>3. T \in SUBSET Nat
    OBVIOUS
  <2> HIDE DEF T
  <2>4. PICK c \in T : \A d \in T : <<d, c>> \notin Less
    BY <1>2, <2>1, <2>3, WFMin, Zenon
  <2>5. c \in 2..n /\ c \notin S
    BY <2>4 DEF T
  <2>6. c - 1 \in 1..n /\ c - 1 \in Nat /\ c \in Nat /\ c - 1 < c
    BY <2>5
  <2>7. c - 1 \notin T
    BY <2>2, <2>4, <2>6, Zenon
  <2> QED
    BY <2>5, <2>6, <2>7 DEF T
<1> QED
  BY <1>1, <1>2

\* The recursion of FlattenSeq: f joins one sequence after another.
Joins(f, s, n) == f = [i \in 1..n |-> IF i = 1 THEN s[i] ELSE f[i - 1] \o s[i]]

LEMMA JoinsValues ==
  ASSUME NEW n \in Nat \ {0}, NEW s, NEW f, Joins(f, s, n)
  PROVE  f[1] = s[1] /\ \A i \in 2..n : f[i] = f[i - 1] \o s[i]
<1>1. \A i \in 1..n : f[i] = IF i = 1 THEN s[i] ELSE f[i - 1] \o s[i]
  BY DEF Joins
<1>2. 1 \in 1..n /\ \A i \in 2..n : i \in 1..n /\ i # 1
  OBVIOUS
<1> QED
  BY <1>1, <1>2, Zenon

LEMMA JoinsExists ==
  ASSUME NEW n \in Nat \ {0}, NEW s
  PROVE  \E f : Joins(f, s, n)
<1> DEFINE S == {m \in 1..n : \E f : Joins(f, s, m)}
<1>1. 1 \in S
  <2> DEFINE f == [i \in 1..1 |-> s[1]]
  <2>1. Joins(f, s, 1)
    BY DEF Joins
  <2> QED
    BY <2>1
<1>2. ASSUME NEW m \in 2..n, m - 1 \in S PROVE m \in S
  <2>1. PICK f : Joins(f, s, m - 1)
    BY <1>2
  <2> DEFINE g == [i \in 1..m |-> IF i = m THEN f[m - 1] \o s[m] ELSE f[i]]
  <2>2. \A i \in 1..m : g[i] = IF i = m THEN f[m - 1] \o s[m] ELSE f[i]
    OBVIOUS
  <2>3. DOMAIN g = 1..m /\ g = [i \in 1..m |-> g[i]]
    OBVIOUS
  <2> HIDE DEF g
  <2>4. \A i \in 1..(m - 1) : f[i] = IF i = 1 THEN s[i] ELSE f[i - 1] \o s[i]
    BY <2>1 DEF Joins
  <2>5. ASSUME NEW i \in 1..m
        PROVE  g[i] = IF i = 1 THEN s[i] ELSE g[i - 1] \o s[i]
    <3>1. CASE i = m
      <4>1. i # 1 /\ m - 1 \in 1..m /\ m - 1 # m
        BY <3>1
      <4>2. g[m - 1] = f[m - 1]
        BY <2>2, <4>1
      <4> QED
        BY <2>2, <3>1, <4>1, <4>2
    <3>2. CASE i # m
      <4>1. i \in 1..(m - 1) /\ g[i] = f[i]
        BY <2>2, <3>2
      <4>2. i # 1 => i - 1 \in 1..m /\ i - 1 # m
        BY <4>1
      <4>3. i # 1 => g[i - 1] = f[i - 1]
        BY <2>2, <4>2
      <4> QED
        BY <2>4, <4>1, <4>3
    <3> QED
      BY <3>1, <3>2
  <2>6. g = [i \in 1..m |-> IF i = 1 THEN s[i] ELSE g[i - 1] \o s[i]]
    BY <2>3, <2>5
  <2>7. Joins(g, s, m)
    BY <2>6, Zenon DEF Joins
  <2>8. m \in 1..n
    OBVIOUS
  <2> QED
    BY <2>7, <2>8
<1>3. S = 1..n
  <2>1. \A m \in 2..n : m - 1 \in S => m \in S
    BY <1>2
  <2>2. S \in SUBSET (1..n)
    OBVIOUS
  <2> HIDE DEF S
  <2> QED
    BY <1>1, <2>1, <2>2, OneAfterAnother
<1>4. n \in S
  <2>1. n \in 1..n
    OBVIOUS
  <2> HIDE DEF S
  <2> QED
    BY <1>3, <2>1
<1> QED
  BY <1>4

\* FlattenSeq is what that recursion gives.
LEMMA FlattenJoins ==
  ASSUME NEW n \in Nat \ {0}, NEW s, Len(s) = n
  PROVE  \E f : Joins(f, s, n) /\ FlattenSeq(s) = f[n]
<1> DEFINE f == CHOOSE g : g = [i \in 1..n |-> IF i = 1 THEN s[i] ELSE g[i - 1] \o s[i]]
<1>1. FlattenSeq(s) = f[n]
  BY DEF FlattenSeq
<1>2. \E g : g = [i \in 1..n |-> IF i = 1 THEN s[i] ELSE g[i - 1] \o s[i]]
  BY JoinsExists, Zenon DEF Joins
<1>3. f = [i \in 1..n |-> IF i = 1 THEN s[i] ELSE f[i - 1] \o s[i]]
  BY <1>2, Zenon
<1> QED
  BY <1>1, <1>3, Zenon DEF Joins

\* One sequence more is joined to what the others give.
LEMMA FlattenAppend ==
  ASSUME NEW X, NEW n \in Nat, NEW s, \A i \in 1..(n + 1) : s[i] \in Seq(X)
  PROVE  /\ FlattenSeq([i \in 1..n |-> s[i]]) \in Seq(X)
         /\ FlattenSeq([i \in 1..(n + 1) |-> s[i]])
              = FlattenSeq([i \in 1..n |-> s[i]]) \o s[n + 1]
<1> DEFINE u == [i \in 1..n |-> s[i]]
           v == [i \in 1..(n + 1) |-> s[i]]
<1>1. u \in Seq(Seq(X)) /\ Len(u) = n /\ v \in Seq(Seq(X)) /\ Len(v) = n + 1
  OBVIOUS
<1>2. (\A i \in 1..n : u[i] = s[i]) /\ (\A i \in 1..(n + 1) : v[i] = s[i])
  OBVIOUS
<1> HIDE DEF u, v
<1>3. PICK g : Joins(g, v, n + 1) /\ FlattenSeq(v) = g[n + 1]
  <2>1. n + 1 \in Nat \ {0}
    OBVIOUS
  <2> QED
    BY <1>1, <2>1, FlattenJoins
<1>4. /\ g[1] = s[1]
      /\ \A i \in 2..(n + 1) : g[i] = g[i - 1] \o s[i]
  <2>1. n + 1 \in Nat \ {0}
    OBVIOUS
  <2>2. g[1] = v[1] /\ \A i \in 2..(n + 1) : g[i] = g[i - 1] \o v[i]
    <3>1. ASSUME NEW w, Joins(g, w, n + 1)
          PROVE  g[1] = w[1] /\ \A i \in 2..(n + 1) : g[i] = g[i - 1] \o w[i]
      BY <2>1, <3>1, JoinsValues, Zenon
    <3>2. Joins(g, v, n + 1)
      BY <1>3, Zenon
    <3> QED
      BY <3>1, <3>2, Zenon
  <2>3. 1 \in 1..(n + 1) /\ \A i \in 2..(n + 1) : i \in 1..(n + 1)
    OBVIOUS
  <2>4. g[1] = s[1]
    BY <1>2, <2>2, <2>3, Zenon
  <2>5. ASSUME NEW i \in 2..(n + 1) PROVE g[i] = g[i - 1] \o s[i]
    <3>1. v[i] = s[i]
      BY <1>2, <2>3, Zenon
    <3>2. g[i] = g[i - 1] \o v[i]
      BY <2>2, Zenon
    <3> QED
      BY <3>1, <3>2, Zenon
  <2> QED
    BY <2>4, <2>5, Zenon
<1>5. CASE n = 0
  <2>1. u = <<>> /\ FlattenSeq(u) = u
    BY <1>1, <1>5 DEF FlattenSeq
  <2>2. s[1] \in Seq(X) /\ n + 1 = 1
    BY <1>5
  <2>3. <<>> \o s[1] = s[1]
    BY <2>2
  <2>4. FlattenSeq(v) = FlattenSeq(u) \o s[n + 1]
    BY <1>3, <1>4, <2>1, <2>2, <2>3
  <2>5. FlattenSeq(u) \in Seq(X)
    <3>1. <<>> \in Seq(X)
      OBVIOUS
    <3> QED
      BY <2>1, <3>1, Zenon
  <2> QED
    BY <2>4, <2>5, Zenon DEF u, v
<1>6. CASE n # 0
  <2>1. n \in Nat \ {0}
    BY <1>6
  <2>2. PICK f : Joins(f, u, n) /\ FlattenSeq(u) = f[n]
    BY <1>1, <2>1, FlattenJoins
  <2>3. f[1] = s[1] /\ \A i \in 2..n : f[i] = f[i - 1] \o s[i]
    <3>1. f[1] = u[1] /\ \A i \in 2..n : f[i] = f[i - 1] \o u[i]
      <4>1. ASSUME NEW w, Joins(f, w, n)
            PROVE  f[1] = w[1] /\ \A i \in 2..n : f[i] = f[i - 1] \o w[i]
        BY <2>1, <4>1, JoinsValues, Zenon
      <4>2. Joins(f, u, n)
        BY <2>2, Zenon
      <4> QED
        BY <4>1, <4>2, Zenon
    <3>2. 1 \in 1..n /\ \A i \in 2..n : i \in 1..n
      BY <2>1
    <3>3. f[1] = s[1]
      BY <1>2, <3>1, <3>2, Zenon
    <3>4. ASSUME NEW i \in 2..n PROVE f[i] = f[i - 1] \o s[i]
      <4>1. u[i] = s[i]
        BY <1>2, <3>2, Zenon
      <4>2. f[i] = f[i - 1] \o u[i]
        BY <3>1, Zenon
      <4> QED
        BY <4>1, <4>2, Zenon
    <3> QED
      BY <3>3, <3>4, Zenon
  <2> DEFINE S == {i \in 1..n : f[i] = g[i] /\ f[i] \in Seq(X)}
  <2>4. 1 \in S
    BY <1>4, <2>1, <2>3
  <2>5. ASSUME NEW i \in 2..n, i - 1 \in S PROVE i \in S
    <3>1. g[i] = g[i - 1] \o s[i] /\ f[i] = f[i - 1] \o s[i] /\ s[i] \in Seq(X)
      <4>1. i \in 2..(n + 1) /\ i \in 1..(n + 1)
        OBVIOUS
      <4> QED
        BY <1>4, <2>3, <4>1, Zenon
    <3>2. f[i - 1] = g[i - 1] /\ f[i - 1] \in Seq(X)
      BY <2>5
    <3>3. f[i] \in Seq(X)
      <4>1. \A x, y \in Seq(X) : x \o y \in Seq(X)
        OBVIOUS
      <4> QED
        BY <3>1, <3>2, <4>1, Zenon
    <3>4. f[i] = g[i]
      BY <3>1, <3>2, Zenon
    <3>5. i \in 1..n
      OBVIOUS
    <3> QED
      BY <3>3, <3>4, <3>5
  <2>6. S = 1..n
    <3>1. \A m \in 2..n : m - 1 \in S => m \in S
      BY <2>5
    <3>2. S \in SUBSET (1..n)
      OBVIOUS
    <3> HIDE DEF S
    <3> QED
      BY <2>1, <2>4, <3>1, <3>2, OneAfterAnother
  <2>7. n \in S
    BY <2>1, <2>6
  <2>8. g[n + 1] = g[n] \o s[n + 1]
    <3>1. n + 1 \in 2..(n + 1) /\ (n + 1) - 1 = n
      BY <2>1
    <3> QED
      BY <1>4, <3>1
  <2>9. FlattenSeq(u) \in Seq(X) /\ FlattenSeq(v) = FlattenSeq(u) \o s[n + 1]
    BY <1>3, <2>2, <2>7, <2>8
  <2> QED
    BY <2>9 DEF u, v
<1> QED
  BY <1>5, <1>6

(***************************************************************************)
(* Programs: what is kept when one follows another.                        *)
(***************************************************************************)
\* A sequence, of whatever steps.
Is(p) == p \in Seq({p[i] : i \in DOMAIN p})

LEMMA IsOfSeq ==
  ASSUME NEW X, NEW p \in Seq(X)
  PROVE  Is(p) /\ Len(p) \in Nat /\ DOMAIN p = 1..Len(p)
<1>1. Len(p) \in Nat /\ DOMAIN p = 1..Len(p) /\ p = [i \in 1..Len(p) |-> p[i]]
  OBVIOUS
<1> DEFINE Y == {p[i] : i \in DOMAIN p}
<1>2. \A i \in 1..Len(p) : p[i] \in Y
  BY <1>1
<1> HIDE DEF Y
<1>3. p \in Seq(Y)
  BY <1>1, <1>2
<1> QED
  BY <1>1, <1>3 DEF Is, Y

LEMMA Joined ==
  ASSUME NEW p, NEW q, Is(p), Is(q)
  PROVE  /\ Is(p \o q) /\ Len(p) \in Nat /\ Len(q) \in Nat
         /\ DOMAIN p = 1..Len(p) /\ DOMAIN q = 1..Len(q)
         /\ Len(p \o q) = Len(p) + Len(q) /\ DOMAIN (p \o q) = 1..(Len(p) + Len(q))
         /\ \A i \in 1..Len(p) : (p \o q)[i] = p[i]
         /\ \A i \in 1..Len(q) : (p \o q)[Len(p) + i] = q[i]
<1> DEFINE P == {p[i] : i \in DOMAIN p}
           Q == {q[i] : i \in DOMAIN q}
           X == P \cup Q
<1>1. p \in Seq(P) /\ q \in Seq(Q)
  BY DEF Is
<1>2. Seq(P) \subseteq Seq(X) /\ Seq(Q) \subseteq Seq(X)
  <2> HIDE DEF P, Q
  <2>1. P \subseteq X /\ Q \subseteq X
    OBVIOUS
  <2> HIDE DEF X
  <2>2. \A r \in Seq(P) : r \in Seq(X)
    BY <2>1
  <2>3. \A r \in Seq(Q) : r \in Seq(X)
    BY <2>1
  <2> QED
    BY <2>2, <2>3
<1> HIDE DEF P, Q, X
<1>3. p \in Seq(X) /\ q \in Seq(X)
  BY <1>1, <1>2
<1>4. p \o q \in Seq(X)
  BY <1>3
<1>5. Is(p \o q) /\ DOMAIN (p \o q) = 1..Len(p \o q)
  BY <1>4, IsOfSeq
<1>6. Len(p) \in Nat /\ Len(q) \in Nat /\ DOMAIN p = 1..Len(p) /\ DOMAIN q = 1..Len(q)
  BY <1>3
<1>7. Len(p \o q) = Len(p) + Len(q)
  BY <1>3
<1>8. \A i \in 1..Len(p) : (p \o q)[i] = p[i]
  BY <1>3
<1>9. \A i \in 1..Len(q) : (p \o q)[Len(p) + i] = q[i]
  BY <1>3
<1> QED
  BY <1>5, <1>6, <1>7, <1>8, <1>9

\* What joining keeps holds of all sequences joined by FlattenSeq.
LEMMA FlattenIn ==
  ASSUME NEW X, NEW S \in SUBSET Seq(X), NEW n \in Nat, NEW s,
         <<>> \in S, \A p, q \in S : p \o q \in S, \A i \in 1..n : s[i] \in S
  PROVE  FlattenSeq([i \in 1..n |-> s[i]]) \in S
<1> DEFINE F(m) == FlattenSeq([i \in 1..m |-> s[i]])
<1>1. F(0) = <<>>
  <2>1. [i \in 1..0 |-> s[i]] = <<>>
    OBVIOUS
  <2>2. FlattenSeq(<<>>) = <<>>
    BY DEF FlattenSeq
  <2> QED
    BY <2>1, <2>2
<1>2. ASSUME NEW m \in Nat, m < n, F(m) \in S PROVE F(m + 1) \in S
  <2>1. \A i \in 1..(m + 1) : s[i] \in Seq(X)
    BY <1>2
  <2>2. F(m + 1) = F(m) \o s[m + 1]
    BY <2>1, FlattenAppend, Zenon
  <2>3. s[m + 1] \in S
    BY <1>2
  <2> QED
    BY <1>2, <2>2, <2>3, Zenon
<1>3. CASE n = 0
  <2> HIDE DEF F
  <2>1. F(n) = <<>>
    BY <1>1, <1>3
  <2> QED
    BY <2>1, Zenon DEF F
<1>4. CASE n # 0
  <2> DEFINE T == {m \in 1..n : F(m) \in S}
  <2>1. 1 \in T
    <3> HIDE DEF F
    <3>1. F(0 + 1) \in S
      BY <1>1, <1>2, <1>4
    <3> QED
      BY <1>4, <3>1
  <2>2. \A m \in 2..n : m - 1 \in T => m \in T
    <3> SUFFICES ASSUME NEW m \in 2..n, F(m - 1) \in S PROVE F(m) \in S
      BY DEF T
    <3>1. m - 1 \in Nat /\ m - 1 < n /\ (m - 1) + 1 = m
      OBVIOUS
    <3>2. F((m - 1) + 1) \in S
      BY <1>2, <3>1
    <3> HIDE DEF F
    <3> QED
      BY <3>1, <3>2
  <2>3. T \in SUBSET (1..n) /\ n \in Nat \ {0} /\ n \in 1..n
    BY <1>4
  <2> HIDE DEF T
  <2>4. T = 1..n
    BY <2>1, <2>2, <2>3, OneAfterAnother
  <2>5. n \in T
    BY <2>3, <2>4
  <2> QED
    BY <2>5 DEF T
<1> QED
  BY <1>3, <1>4

(***************************************************************************)
(* What the pieces of a LoadConfig() have in common.                       *)
(***************************************************************************)
OfMsg == {"putMsg", "writeMsg"}
Kinds == {"read", "poll", "ifRunning"} \cup Writing
Adc12 == R("EVENT_CONFIG_ADC12")

\* A word made of msg is made of what the step before it read: from the register
\* that is written, or from Adc12, which nobody writes.
Formed(p) ==
  /\ Is(p)
  /\ \A i \in DOMAIN p :
       /\ p[i].op \in Kinds
       /\ p[i].op = "spi" => p[i].unit = AdcInterface
       /\ p[i].op \in OfMsg => /\ i - 1 \in DOMAIN p /\ p[i - 1].op = "read"
                               /\ p[i - 1].reg \in {p[i].reg, Adc12}
       /\ p[i].op \in Writing => p[i].reg # Adc12

PollAt(p, i, u) == i \in DOMAIN p /\ p[i].op = "poll" /\ p[i].unit = u

\* Each start is followed by a poll of its unit, or comes behind one.
PolledAfter(p)  == \A i \in DOMAIN p : p[i].op = "start" => PollAt(p, i + 1, p[i].unit)
PolledBefore(p) == \A i \in DOMAIN p : p[i].op = "start" => PollAt(p, i - 1, p[i].unit)

\* A failure counts but for one chip of two, and for the oscillator.
CountedStep(s) == s.op = "spi" \/ s.counts = TRUE \/ s.reg = R("OSC")

\* A step that writes a switch's register writes what the switch says.
Right(s, d, c) ==
  \A w \in Switches :
    w[1] = d /\ s.op \in Writing /\ s.reg = w[3] =>
      IF s.op \in OfMsg
      THEN w[5] = {} /\ w[4] \notin s.clear /\ (w[4] \in s.set <=> w[2] \in c.opts)
      ELSE /\ w[4] \in s.word <=> w[2] \in c.opts
           /\ \A k \in w[5] : w[4] + k \in s.word <=> w[2] \notin c.opts

\* What is asked of a step of device d: one that counts errors starts no units
\* and polls none.
EachStep(s, d, c) ==
  /\ s.op # "ifRunning"
  /\ d = "reads" => s.op = "read"
  /\ d \in Counting => CountedStep(s) /\ s.op # "start" /\ s.op # "poll"
  /\ Right(s, d, c)

LEMMA FormedJoined ==
  ASSUME NEW p, NEW q, Formed(p), Formed(q)
  PROVE  Formed(p \o q)
<1>1. Is(p) /\ Is(q)
  BY DEF Formed
<1> DEFINE r == p \o q
<1>2. /\ Is(r) /\ Len(p) \in Nat /\ Len(q) \in Nat
      /\ DOMAIN p = 1..Len(p) /\ DOMAIN q = 1..Len(q)
      /\ DOMAIN r = 1..(Len(p) + Len(q))
      /\ \A i \in 1..Len(p) : r[i] = p[i]
      /\ \A i \in 1..Len(q) : r[Len(p) + i] = q[i]
  BY <1>1, Joined
<1> HIDE DEF r
<1>3. ASSUME NEW i \in DOMAIN r
      PROVE  /\ r[i].op \in Kinds
             /\ r[i].op = "spi" => r[i].unit = AdcInterface
             /\ r[i].op \in OfMsg => /\ i - 1 \in DOMAIN r /\ r[i - 1].op = "read"
                                     /\ r[i - 1].reg \in {r[i].reg, Adc12}
             /\ r[i].op \in Writing => r[i].reg # Adc12
  <2>1. CASE i <= Len(p)
    <3>1. i \in DOMAIN p /\ r[i] = p[i]
      BY <1>2, <2>1
    <3>2. i - 1 \in DOMAIN p => i - 1 \in DOMAIN r /\ r[i - 1] = p[i - 1]
      BY <1>2
    <3> QED
      BY <3>1, <3>2 DEF Formed
  <2>2. CASE i > Len(p)
    <3> DEFINE k == i - Len(p)
    <3>1. k \in DOMAIN q /\ r[i] = q[k]
      <4>1. k \in 1..Len(q) /\ Len(p) + k = i
        BY <1>2, <2>2
      <4> QED
        BY <1>2, <4>1
    <3>2. k - 1 \in DOMAIN q => i - 1 \in DOMAIN r /\ r[i - 1] = q[k - 1]
      <4> SUFFICES ASSUME k - 1 \in DOMAIN q PROVE i - 1 \in DOMAIN r /\ r[i - 1] = q[k - 1]
        OBVIOUS
      <4>1. k - 1 \in 1..Len(q) /\ Len(p) + (k - 1) = i - 1 /\ i - 1 \in DOMAIN r
        BY <1>2
      <4> QED
        BY <1>2, <4>1
    <3> HIDE DEF k
    <3> QED
      BY <3>1, <3>2 DEF Formed
  <2> QED
    BY <1>2, <2>1, <2>2
<1> QED
  BY <1>2, <1>3 DEF Formed, r

LEMMA EachJoined ==
  ASSUME NEW p, NEW q, NEW d, NEW c, Is(p), Is(q),
         \A i \in DOMAIN p : EachStep(p[i], d, c), \A i \in DOMAIN q : EachStep(q[i], d, c)
  PROVE  \A i \in DOMAIN (p \o q) : EachStep((p \o q)[i], d, c)
<1> DEFINE r == p \o q
<1>2. /\ Len(p) \in Nat /\ Len(q) \in Nat
      /\ DOMAIN p = 1..Len(p) /\ DOMAIN q = 1..Len(q)
      /\ DOMAIN r = 1..(Len(p) + Len(q))
      /\ \A i \in 1..Len(p) : r[i] = p[i]
      /\ \A i \in 1..Len(q) : r[Len(p) + i] = q[i]
  BY Joined
<1> HIDE DEF r
<1>3. ASSUME NEW i \in DOMAIN r PROVE EachStep(r[i], d, c)
  <2>1. CASE i <= Len(p)
    BY <1>2, <2>1
  <2>2. CASE i > Len(p)
    <3>1. i - Len(p) \in 1..Len(q) /\ Len(p) + (i - Len(p)) = i
      BY <1>2, <2>2
    <3> QED
      BY <1>2, <3>1
  <2> QED
    BY <1>2, <2>1, <2>2
<1> QED
  BY <1>3 DEF r

LEMMA PolledJoined ==
  ASSUME NEW p, NEW q, Is(p), Is(q)
  PROVE  /\ PolledAfter(p) /\ PolledAfter(q) => PolledAfter(p \o q)
         /\ PolledBefore(p) /\ PolledBefore(q) => PolledBefore(p \o q)
<1> DEFINE r == p \o q
<1>2. /\ Len(p) \in Nat /\ Len(q) \in Nat
      /\ DOMAIN p = 1..Len(p) /\ DOMAIN q = 1..Len(q)
      /\ DOMAIN r = 1..(Len(p) + Len(q))
      /\ \A i \in 1..Len(p) : r[i] = p[i]
      /\ \A i \in 1..Len(q) : r[Len(p) + i] = q[i]
  BY Joined
<1> HIDE DEF r
<1>3. ASSUME NEW d \in {-1, 1}, NEW i \in DOMAIN r,
             \A j \in DOMAIN p : p[j].op = "start" => PollAt(p, j + d, p[j].unit),
             \A j \in DOMAIN q : q[j].op = "start" => PollAt(q, j + d, q[j].unit),
             r[i].op = "start"
      PROVE  PollAt(r, i + d, r[i].unit)
  <2>1. CASE i <= Len(p)
    <3>1. i \in DOMAIN p /\ r[i] = p[i]
      BY <1>2, <2>1
    <3>2. PollAt(p, i + d, p[i].unit)
      BY <1>3, <3>1
    <3>3. i + d \in DOMAIN r /\ r[i + d] = p[i + d]
      BY <1>2, <3>2 DEF PollAt
    <3> QED
      BY <3>1, <3>2, <3>3 DEF PollAt
  <2>2. CASE i > Len(p)
    <3> DEFINE k == i - Len(p)
    <3>1. k \in DOMAIN q /\ r[i] = q[k]
      <4>1. k \in 1..Len(q) /\ Len(p) + k = i
        BY <1>2, <2>2
      <4> QED
        BY <1>2, <4>1
    <3>2. PollAt(q, k + d, q[k].unit)
      BY <1>3, <3>1
    <3>3. i + d \in DOMAIN r /\ r[i + d] = q[k + d]
      <4>1. k + d \in 1..Len(q) /\ Len(p) + (k + d) = i + d /\ i + d \in DOMAIN r
        BY <1>2, <3>2 DEF PollAt
      <4> QED
        BY <1>2, <4>1
    <3> QED
      BY <3>1, <3>2, <3>3 DEF PollAt
  <2> QED
    BY <1>2, <2>1, <2>2
<1>4. PolledAfter(p) /\ PolledAfter(q) => PolledAfter(r)
  <2> SUFFICES ASSUME PolledAfter(p), PolledAfter(q), NEW i \in DOMAIN r, r[i].op = "start"
               PROVE  PollAt(r, i + 1, r[i].unit)
    BY DEF PolledAfter
  <2>1. 1 \in {-1, 1}
    OBVIOUS
  <2> QED
    BY <1>3, <2>1 DEF PolledAfter
<1>5. PolledBefore(p) /\ PolledBefore(q) => PolledBefore(r)
  <2> SUFFICES ASSUME PolledBefore(p), PolledBefore(q), NEW i \in DOMAIN r, r[i].op = "start"
               PROVE  PollAt(r, i - 1, r[i].unit)
    BY DEF PolledBefore
  <2>1. -1 \in {-1, 1} /\ i + (-1) = i - 1
    BY <1>2
  <2>2. \A j \in DOMAIN p : j - 1 = j + (-1)
    BY <1>2
  <2>3. \A j \in DOMAIN q : j - 1 = j + (-1)
    BY <1>2
  <2>4. PollAt(r, i + (-1), r[i].unit)
    BY <1>3, <2>1, <2>2, <2>3 DEF PolledBefore
  <2> QED
    BY <2>1, <2>4
<1> QED
  BY <1>4, <1>5 DEF r

\* All that is asked of the pieces of a program of device d.
Fits(p, d, c) ==
  /\ Formed(p)
  /\ \A i \in DOMAIN p : EachStep(p[i], d, c)
  /\ d = "Sis3350" => PolledAfter(p)
  /\ d = "Caen1742" => PolledBefore(p)

LEMMA FitsJoined ==
  ASSUME NEW p, NEW q, NEW d, NEW c, Fits(p, d, c), Fits(q, d, c)
  PROVE  Fits(p \o q, d, c)
<1>1. Is(p) /\ Is(q) /\ Formed(p) /\ Formed(q)
  BY DEF Fits, Formed
<1>2. Formed(p \o q)
  BY <1>1, FormedJoined
<1>3. \A i \in DOMAIN (p \o q) : EachStep((p \o q)[i], d, c)
  <2>1. (\A i \in DOMAIN p : EachStep(p[i], d, c)) /\ (\A i \in DOMAIN q : EachStep(q[i], d, c))
    BY DEF Fits
  <2> QED
    BY <1>1, <2>1, EachJoined, Zenon
<1>4. /\ PolledAfter(p) /\ PolledAfter(q) => PolledAfter(p \o q)
      /\ PolledBefore(p) /\ PolledBefore(q) => PolledBefore(p \o q)
  BY <1>1, PolledJoined
<1> QED
  BY <1>2, <1>3, <1>4 DEF Fits

LEMMA NoneFits == ASSUME NEW d, NEW c PROVE Fits(<<>>, d, c)
<1>1. <<>> \in Seq({}) /\ DOMAIN <<>> = {}
  OBVIOUS
<1>2. Is(<<>>)
  BY <1>1, IsOfSeq
<1> QED
  BY <1>1, <1>2, Zenon DEF Fits, Formed, PolledAfter, PolledBefore

LEMMA FitsFlat ==
  ASSUME NEW n \in Nat, NEW s, NEW d, NEW c, \A i \in 1..n : Fits(s[i], d, c)
  PROVE  Fits(FlattenSeq([i \in 1..n |-> s[i]]), d, c)
<1> DEFINE Part(i) == {s[i][j] : j \in DOMAIN s[i]}
           X == UNION {Part(i) : i \in 1..n}
           S == {p \in Seq(X) : Fits(p, d, c)}
<1>1. ASSUME NEW i \in 1..n PROVE s[i] \in S
  <2>1. s[i] \in Seq(Part(i))
    BY DEF Fits, Formed, Is
  <2> HIDE DEF Part
  <2>2. Part(i) \subseteq X
    OBVIOUS
  <2> HIDE DEF X
  <2>3. s[i] \in Seq(X)
    BY <2>1, <2>2
  <2> QED
    BY <2>3
<1> HIDE DEF X
<1>2. <<>> \in S
  <2>1. <<>> \in Seq(X)
    OBVIOUS
  <2> QED
    BY <2>1, NoneFits
<1>3. ASSUME NEW p \in S, NEW q \in S PROVE p \o q \in S
  <2>1. p \in Seq(X) /\ q \in Seq(X) /\ Fits(p, d, c) /\ Fits(q, d, c)
    OBVIOUS
  <2>2. p \o q \in Seq(X)
    BY <2>1
  <2>3. Fits(p \o q, d, c)
    BY <2>1, FitsJoined, Zenon
  <2> QED
    BY <2>2, <2>3
<1>4. S \in SUBSET Seq(X)
  OBVIOUS
<1> HIDE DEF S
<1>5. FlattenSeq([i \in 1..n |-> s[i]]) \in S
  BY <1>1, <1>2, <1>3, <1>4, FlattenIn, Zenon
<1> QED
  BY <1>5 DEF S

LEMMA FitsEach ==
  ASSUME NEW steps, NEW d, NEW c, \A gr \in Groups : Fits(steps[gr], d, c)
  PROVE  Fits(EachGroup(steps), d, c)
<1> DEFINE s == [i \in 1..NumGroups |-> steps[i - 1]]
<1>1. NumGroups \in Nat /\ \A i \in 1..NumGroups : i - 1 \in Groups
  BY LoadConfigAssumption DEF Groups
<1>2. (\A i \in 1..NumGroups : s[i] = steps[i - 1]) /\ s = [i \in 1..NumGroups |-> s[i]]
  OBVIOUS
<1>3. EachGroup(steps) = FlattenSeq(s)
  BY Zenon DEF EachGroup
<1> HIDE DEF s
<1>4. \A i \in 1..NumGroups : Fits(s[i], d, c)
  BY <1>1, <1>2, Zenon
<1>5. Fits(FlattenSeq([i \in 1..NumGroups |-> s[i]]), d, c)
  BY <1>1, <1>4, FitsFlat, Zenon
<1> QED
  BY <1>2, <1>3, <1>5, Zenon

(***************************************************************************)
(* The steps.                                                              *)
(***************************************************************************)
LEMMA StepFields ==
  /\ \A reg, n : /\ Read(reg, n).op = "read" /\ Read(reg, n).reg = reg
                 /\ Read(reg, n).counts = n
  /\ \A reg, w, n : /\ Write(reg, w, n).op = "write" /\ Write(reg, w, n).reg = reg
                    /\ Write(reg, w, n).counts = n /\ Write(reg, w, n).word = w
  /\ \A reg, w, n : /\ Put(reg, w, n).op = "put" /\ Put(reg, w, n).reg = reg
                    /\ Put(reg, w, n).counts = n /\ Put(reg, w, n).word = w
  /\ \A reg, l, t, n : /\ PutMsg(reg, l, t, n).op = "putMsg" /\ PutMsg(reg, l, t, n).reg = reg
                       /\ PutMsg(reg, l, t, n).counts = n /\ PutMsg(reg, l, t, n).clear = l
                       /\ PutMsg(reg, l, t, n).set = t
  /\ \A reg, l, t, n : /\ WriteMsg(reg, l, t, n).op = "writeMsg"
                       /\ WriteMsg(reg, l, t, n).reg = reg
                       /\ WriteMsg(reg, l, t, n).counts = n /\ WriteMsg(reg, l, t, n).clear = l
                       /\ WriteMsg(reg, l, t, n).set = t
  /\ \A u, reg, w : /\ StartOf(u, reg, w).op = "start" /\ StartOf(u, reg, w).reg = reg
                    /\ StartOf(u, reg, w).unit = u /\ StartOf(u, reg, w).word = w
  /\ \A u, reg : Poll(u, reg).op = "poll" /\ Poll(u, reg).reg = reg /\ Poll(u, reg).unit = u
  /\ \A gr, addr, v : /\ AdcSpi(gr, addr, v).op = "spi"
                      /\ AdcSpi(gr, addr, v).reg = <<"ADC_SPI", 256 * gr + addr>>
                      /\ AdcSpi(gr, addr, v).unit = AdcInterface
  /\ \A addr, v : /\ Si5325(addr, v).op = "si5325" /\ Si5325(addr, v).reg = <<"SI5325", addr>>
                  /\ Si5325(addr, v).counts = TRUE
  /\ Oscillator.op = "write" /\ Oscillator.reg = R("OSC")
  /\ \A n : /\ IfRunning(n).op = "ifRunning" /\ IfRunning(n).reg = R("0x8104")
            /\ IfRunning(n).n = n
BY DEF Read, Write, Put, PutMsg, WriteMsg, StartOf, Poll, AdcSpi, Si5325, Si5325Register,
       Oscillator, IfRunning

\* The registers of the switches, by name; a plain one is none of them, nor Adc12.
Named == {"CONTROL_STATUS", "ACQUISITION_CONTROL", "EVENT_CONFIG_ALL_ADC", "0x0", "0x10",
          "NIM_INPUT_CONTROL", "CH1_4_EVENT_CONFIG"}
Plain(reg) == reg # Adc12 /\ \A w \in Switches : reg # w[3]

LEMMA PlainNames ==
  /\ \A name, x : name \notin Named \cup {"EVENT_CONFIG_ADC12"} => Plain(<<name, x>>)
  /\ \A name : name \notin Named \cup {"EVENT_CONFIG_ADC12"} => Plain(R(name))
<1>1. \A w \in Switches : \E name \in Named : \E x : w[3] = <<name, x>>
  <2>1. \A w \in Switches :
          \/ w[3] = R("CONTROL_STATUS") \/ w[3] = R("ACQUISITION_CONTROL")
          \/ w[3] = R("EVENT_CONFIG_ALL_ADC") \/ w[3] = R("0x0") \/ w[3] = R("0x10")
          \/ w[3] = R("NIM_INPUT_CONTROL") \/ w[3] = <<"CH1_4_EVENT_CONFIG", 0>>
    BY DEF Switches
  <2> QED
    BY <2>1 DEF Named, R
<1>2. ASSUME NEW name, NEW x, name \notin Named \cup {"EVENT_CONFIG_ADC12"}
      PROVE  Plain(<<name, x>>)
  BY <1>1, <1>2 DEF Plain, Adc12, R
<1> QED
  BY <1>2 DEF R

\* A step on its own that is not made of msg.
AloneStep(s) ==
  /\ s.op \in {"read", "write", "put", "spi", "si5325"}
  /\ s.op = "spi" => s.unit = AdcInterface
  /\ s.op # "read" => s.reg # Adc12

\* A read and what is made of it.
PairStep(s, t) ==
  /\ s.op = "read" /\ t.op \in OfMsg
  /\ s.reg \in {t.reg, Adc12} /\ t.reg # Adc12

LEMMA StepsFit ==
  ASSUME NEW X, NEW p \in Seq(X), NEW d, NEW c,
         \A i \in 1..Len(p) : AloneStep(p[i]) \/ (i # 1 /\ PairStep(p[i - 1], p[i])),
         \A i \in 1..Len(p) : EachStep(p[i], d, c)
  PROVE  Fits(p, d, c)
<1>1. Is(p) /\ Len(p) \in Nat /\ DOMAIN p = 1..Len(p)
  BY IsOfSeq
<1>2. ASSUME NEW i \in DOMAIN p
      PROVE  /\ p[i].op \in Kinds /\ p[i].op # "start"
             /\ p[i].op = "spi" => p[i].unit = AdcInterface
             /\ p[i].op \in OfMsg => /\ i - 1 \in DOMAIN p /\ p[i - 1].op = "read"
                                     /\ p[i - 1].reg \in {p[i].reg, Adc12}
             /\ p[i].op \in Writing => p[i].reg # Adc12
  <2>1. CASE AloneStep(p[i])
    BY <2>1 DEF AloneStep, Kinds, Writing, OfMsg
  <2>2. CASE i # 1 /\ PairStep(p[i - 1], p[i])
    <3>1. i - 1 \in DOMAIN p
      BY <1>1, <2>2
    <3> QED
      BY <2>2, <3>1 DEF PairStep, Kinds, Writing, OfMsg
  <2> QED
    BY <1>1, <2>1, <2>2
<1>3. Formed(p)
  BY <1>1, <1>2, Zenon DEF Formed
<1>4. PolledAfter(p) /\ PolledBefore(p)
  BY <1>2, Zenon DEF PolledAfter, PolledBefore
<1> QED
  BY <1>1, <1>3, <1>4, Zenon DEF Fits

\* A step that fits alone, two that fit together.
Alone(s, d, c) == AloneStep(s) /\ EachStep(s, d, c)
Paired(s, t, d, c) == PairStep(s, t) /\ EachStep(s, d, c) /\ EachStep(t, d, c)

LEMMA TuplesFit ==
  ASSUME NEW d, NEW c
  PROVE  /\ \A s : Alone(s, d, c) => Fits(<<s>>, d, c)
         /\ \A s, t : Alone(s, d, c) /\ Alone(t, d, c) => Fits(<<s, t>>, d, c)
         /\ \A s, t, u : Alone(s, d, c) /\ Alone(t, d, c) /\ Alone(u, d, c)
              => Fits(<<s, t, u>>, d, c)
         /\ \A s, t, u, v : Alone(s, d, c) /\ Alone(t, d, c) /\ Alone(u, d, c) /\ Alone(v, d, c)
              => Fits(<<s, t, u, v>>, d, c)
         /\ \A s, t : Paired(s, t, d, c) => Fits(<<s, t>>, d, c)
<1>1. ASSUME NEW X, NEW p \in Seq(X), \A i \in 1..Len(p) : Alone(p[i], d, c)
      PROVE  Fits(p, d, c)
  BY <1>1, StepsFit DEF Alone
<1>2. ASSUME NEW s, Alone(s, d, c) PROVE Fits(<<s>>, d, c)
  <2>1. <<s>> \in Seq({s}) /\ Len(<<s>>) = 1 /\ <<s>>[1] = s
    OBVIOUS
  <2>2. \A i \in 1..Len(<<s>>) : Alone(<<s>>[i], d, c)
    BY <1>2, <2>1
  <2> QED
    BY <1>1, <2>1, <2>2, Zenon
<1>3. ASSUME NEW s, NEW t, Alone(s, d, c), Alone(t, d, c) PROVE Fits(<<s, t>>, d, c)
  <2> DEFINE p == <<s, t>>
  <2>1. p \in Seq({s, t}) /\ Len(p) = 2 /\ p[1] = s /\ p[2] = t
    OBVIOUS
  <2> HIDE DEF p
  <2>2. \A i \in 1..Len(p) : Alone(p[i], d, c)
    BY <1>3, <2>1
  <2>3. Fits(p, d, c)
    BY <1>1, <2>1, <2>2, Zenon
  <2> QED
    BY <2>3 DEF p
<1>4. ASSUME NEW s, NEW t, NEW u, Alone(s, d, c), Alone(t, d, c), Alone(u, d, c)
      PROVE  Fits(<<s, t, u>>, d, c)
  <2> DEFINE p == <<s, t, u>>
  <2>1. p \in Seq({s, t, u}) /\ Len(p) = 3 /\ p[1] = s /\ p[2] = t /\ p[3] = u
    OBVIOUS
  <2> HIDE DEF p
  <2>2. \A i \in 1..Len(p) : Alone(p[i], d, c)
    BY <1>4, <2>1
  <2>3. Fits(p, d, c)
    BY <1>1, <2>1, <2>2, Zenon
  <2> QED
    BY <2>3 DEF p
<1>5. ASSUME NEW s, NEW t, NEW u, NEW v,
             Alone(s, d, c), Alone(t, d, c), Alone(u, d, c), Alone(v, d, c)
      PROVE  Fits(<<s, t, u, v>>, d, c)
  <2> DEFINE p == <<s, t, u, v>>
  <2>1. /\ p \in Seq({s, t, u, v}) /\ Len(p) = 4
        /\ p[1] = s /\ p[2] = t /\ p[3] = u /\ p[4] = v
    OBVIOUS
  <2> HIDE DEF p
  <2>2. \A i \in 1..Len(p) : Alone(p[i], d, c)
    BY <1>5, <2>1
  <2>3. Fits(p, d, c)
    BY <1>1, <2>1, <2>2, Zenon
  <2> QED
    BY <2>3 DEF p
<1>6. ASSUME NEW s, NEW t, Paired(s, t, d, c), AloneStep(s) PROVE Fits(<<s, t>>, d, c)
  <2> DEFINE p == <<s, t>>
  <2>1. p \in Seq({s, t}) /\ Len(p) = 2 /\ p[1] = s /\ p[2] = t
    OBVIOUS
  <2> HIDE DEF p
  <2>2. \A i \in 1..Len(p) : AloneStep(p[i]) \/ (i # 1 /\ PairStep(p[i - 1], p[i]))
    BY <1>6, <2>1 DEF Paired
  <2>3. \A i \in 1..Len(p) : EachStep(p[i], d, c)
    BY <1>6, <2>1 DEF Paired
  <2>4. Fits(p, d, c)
    BY <2>1, <2>2, <2>3, StepsFit
  <2> QED
    BY <2>4 DEF p
<1>7. \A s, t : Paired(s, t, d, c) => AloneStep(s)
  BY DEF Paired, PairStep, AloneStep
<1> QED
  BY <1>2, <1>3, <1>4, <1>5, <1>6, <1>7, Zenon

\* What is written to a switch's register, given or made of msg.
RightWord(reg, w, d, c) ==
  \A v \in Switches : v[1] = d /\ reg = v[3] =>
    /\ v[4] \in w <=> v[2] \in c.opts
    /\ \A k \in v[5] : v[4] + k \in w <=> v[2] \notin c.opts
RightSet(reg, l, t, d, c) ==
  \A v \in Switches : v[1] = d /\ reg = v[3] =>
    v[5] = {} /\ v[4] \notin l /\ (v[4] \in t <=> v[2] \in c.opts)

LEMMA StepKinds ==
  ASSUME NEW d \in Devices, NEW c
  PROVE  /\ \A reg, n : d \notin Counting \/ n = TRUE => Alone(Read(reg, n), d, c)
         /\ \A reg, w, n : Plain(reg) /\ (d \notin Counting \/ n = TRUE) =>
              Alone(Write(reg, w, n), d, c) /\ Alone(Put(reg, w, n), d, c)
         /\ \A reg, w, n : reg # Adc12 /\ RightWord(reg, w, d, c)
                           /\ (d \notin Counting \/ n = TRUE) =>
              Alone(Put(reg, w, n), d, c)
         /\ \A reg, s, n, l, t, m : Plain(reg) /\ s \in {reg, Adc12}
                                    /\ (d \notin Counting \/ (n = TRUE /\ m = TRUE)) =>
              /\ Paired(Read(s, n), PutMsg(reg, l, t, m), d, c)
              /\ Paired(Read(s, n), WriteMsg(reg, l, t, m), d, c)
         /\ \A reg, s, n, l, t, m : reg # Adc12 /\ s \in {reg, Adc12}
                                    /\ RightSet(reg, l, t, d, c)
                                    /\ (d \notin Counting \/ (n = TRUE /\ m = TRUE)) =>
              Paired(Read(s, n), PutMsg(reg, l, t, m), d, c)
         /\ \A gr, addr, v : Alone(AdcSpi(gr, addr, v), d, c)
         /\ \A addr, v : Alone(Si5325(addr, v), d, c)
         /\ Alone(Oscillator, d, c)
<1>0. d # "reads" /\ "read" \notin Writing
  BY DEF Devices, Writing
<1>1. \A s : s.op = "read" => Right(s, d, c)
  BY <1>0 DEF Right
<1>2. \A s : Plain(s.reg) => Right(s, d, c)
  BY DEF Right, Plain
<1>3. \A reg, n : d \notin Counting \/ n = TRUE => Alone(Read(reg, n), d, c)
  <2>1. \A reg, n : /\ Read(reg, n).op = "read" /\ (n = TRUE => CountedStep(Read(reg, n)))
    BY DEF Read, CountedStep
  <2> QED
    BY <1>0, <1>1, <2>1, Zenon DEF Alone, AloneStep, EachStep
<1>4. ASSUME NEW reg, NEW w, NEW n, reg # Adc12, d \notin Counting \/ n = TRUE,
             Plain(reg) \/ RightWord(reg, w, d, c)
      PROVE  Alone(Write(reg, w, n), d, c) /\ Alone(Put(reg, w, n), d, c)
  <2>1. /\ Write(reg, w, n).op = "write" /\ Write(reg, w, n).reg = reg
        /\ Write(reg, w, n).word = w /\ (n = TRUE => CountedStep(Write(reg, w, n)))
    BY DEF Write, CountedStep
  <2>2. /\ Put(reg, w, n).op = "put" /\ Put(reg, w, n).reg = reg
        /\ Put(reg, w, n).word = w /\ (n = TRUE => CountedStep(Put(reg, w, n)))
    BY DEF Put, CountedStep
  <2>a. Write(reg, w, n).op \in {"write", "put"} /\ Put(reg, w, n).op \in {"write", "put"}
    BY <2>1, <2>2
  <2>b. d \in Counting => CountedStep(Write(reg, w, n)) /\ CountedStep(Put(reg, w, n))
    BY <1>4, <2>1, <2>2, Zenon
  <2> DEFINE Given(s) == /\ s.op \in {"write", "put"} /\ s.reg = reg /\ s.word = w
                         /\ d \in Counting => CountedStep(s)
  <2>3. ASSUME NEW s, Given(s) PROVE Alone(s, d, c)
    <3>1. Right(s, d, c)
      <4>1. s.op \notin OfMsg
        BY <2>3 DEF OfMsg
      <4> QED
        BY <1>2, <1>4, <2>3, <4>1, Zenon DEF Right, RightWord
    <3>2. AloneStep(s)
      BY <1>4, <2>3 DEF AloneStep
    <3>3. s.op \notin {"ifRunning", "start", "poll"}
      BY <2>3
    <3> QED
      BY <1>0, <2>3, <3>1, <3>2, <3>3, Zenon DEF Alone, EachStep
  <2>4. Given(Write(reg, w, n)) /\ Given(Put(reg, w, n))
    BY <2>1, <2>2, <2>a, <2>b
  <2> HIDE DEF Given
  <2> QED
    BY <2>3, <2>4, Zenon
<1>5. ASSUME NEW reg, NEW s, NEW n, NEW l, NEW t, NEW m, reg # Adc12, s \in {reg, Adc12},
             d \notin Counting \/ (n = TRUE /\ m = TRUE),
             Plain(reg) \/ RightSet(reg, l, t, d, c)
      PROVE  /\ Paired(Read(s, n), PutMsg(reg, l, t, m), d, c)
             /\ Paired(Read(s, n), WriteMsg(reg, l, t, m), d, c)
  <2>1. /\ PutMsg(reg, l, t, m).op = "putMsg" /\ PutMsg(reg, l, t, m).reg = reg
        /\ PutMsg(reg, l, t, m).clear = l /\ PutMsg(reg, l, t, m).set = t
        /\ m = TRUE => CountedStep(PutMsg(reg, l, t, m))
    BY DEF PutMsg, CountedStep
  <2>2. /\ WriteMsg(reg, l, t, m).op = "writeMsg" /\ WriteMsg(reg, l, t, m).reg = reg
        /\ WriteMsg(reg, l, t, m).clear = l /\ WriteMsg(reg, l, t, m).set = t
        /\ m = TRUE => CountedStep(WriteMsg(reg, l, t, m))
    BY DEF WriteMsg, CountedStep
  <2>a. PutMsg(reg, l, t, m).op \in OfMsg /\ WriteMsg(reg, l, t, m).op \in OfMsg
    BY <2>1, <2>2 DEF OfMsg
  <2>3. Alone(Read(s, n), d, c) /\ Read(s, n).op = "read" /\ Read(s, n).reg = s
    <3>1. Read(s, n).op = "read" /\ Read(s, n).reg = s
      BY DEF Read
    <3> QED
      BY <1>3, <1>5, <3>1, Zenon
  <2>4. ASSUME NEW q, q.op \in OfMsg, q.reg = reg, q.clear = l, q.set = t,
               m = TRUE => CountedStep(q)
        PROVE  Paired(Read(s, n), q, d, c)
    <3>1. Right(q, d, c)
      BY <1>2, <1>5, <2>4, Zenon DEF Right, RightSet
    <3>2. PairStep(Read(s, n), q)
      BY <1>5, <2>3, <2>4 DEF PairStep
    <3>3. q.op \notin {"ifRunning", "start", "poll"}
      BY <2>4 DEF OfMsg
    <3> QED
      BY <1>0, <1>5, <2>3, <2>4, <3>1, <3>2, <3>3, Zenon DEF Paired, Alone, EachStep
  <2>5. Paired(Read(s, n), PutMsg(reg, l, t, m), d, c)
    BY <2>1, <2>4, <2>a, Zenon
  <2>6. Paired(Read(s, n), WriteMsg(reg, l, t, m), d, c)
    BY <2>2, <2>4, <2>a, Zenon
  <2> QED
    BY <2>5, <2>6
<1>6. ASSUME NEW s, s.op \in {"write", "si5325"} \/ (s.op = "spi" /\ s.unit = AdcInterface),
             CountedStep(s), Plain(s.reg)
      PROVE  Alone(s, d, c)
  <2>1. AloneStep(s)
    BY <1>6 DEF AloneStep, Plain
  <2>2. s.op \notin {"ifRunning", "start", "poll"}
    BY <1>6
  <2> QED
    BY <1>0, <1>2, <1>6, <2>1, <2>2, Zenon DEF Alone, EachStep
<1>7. \A name \in {"ADC_SPI", "SI5325", "OSC"} : \A x : Plain(<<name, x>>) /\ Plain(R(name))
  BY PlainNames DEF Named
<1>8. \A gr, addr, v : Alone(AdcSpi(gr, addr, v), d, c)
  <2>1. \A gr, addr, v : /\ AdcSpi(gr, addr, v).op = "spi" /\ CountedStep(AdcSpi(gr, addr, v))
                         /\ Plain(AdcSpi(gr, addr, v).reg)
                         /\ AdcSpi(gr, addr, v).unit = AdcInterface
    BY <1>7 DEF AdcSpi, CountedStep
  <2> QED
    BY <1>6, <2>1, Zenon
<1>9. \A addr, v : Alone(Si5325(addr, v), d, c)
  <2>1. \A addr, v : /\ Si5325(addr, v).op = "si5325" /\ CountedStep(Si5325(addr, v))
                     /\ Plain(Si5325(addr, v).reg)
    BY <1>7 DEF Si5325, Si5325Register, CountedStep
  <2> QED
    BY <1>6, <2>1, Zenon
<1>10. Alone(Oscillator, d, c)
  <2>1. Oscillator.op = "write" /\ CountedStep(Oscillator) /\ Plain(Oscillator.reg)
    BY <1>7 DEF Oscillator, CountedStep
  <2> QED
    BY <1>6, <2>1, Zenon
<1>11. \A reg : Plain(reg) => reg # Adc12
  BY DEF Plain
<1> QED
  BY <1>3, <1>4, <1>5, <1>8, <1>9, <1>10, <1>11, Zenon

LEMMA OneFits ==
  ASSUME NEW d, NEW c, NEW s, Alone(s, d, c) PROVE Fits(<<s>>, d, c)
BY TuplesFit, Zenon

LEMMA TwoFit ==
  ASSUME NEW d, NEW c, NEW s, NEW t, Alone(s, d, c), Alone(t, d, c) PROVE Fits(<<s, t>>, d, c)
BY TuplesFit, Zenon

LEMMA PairFits ==
  ASSUME NEW d, NEW c, NEW s, NEW t, Paired(s, t, d, c) PROVE Fits(<<s, t>>, d, c)
BY TuplesFit, Zenon

\* The switches of a register.
LEMMA SwitchesOf ==
  /\ \A v \in Switches : v[1] = "Sis3302" /\ v[3] = R("CONTROL_STATUS") =>
       v[2] = "user_led_on" /\ v[4] = 0 /\ v[5] = {16}
  /\ \A v \in Switches : v[1] = "Sis3302" /\ v[3] = R("ACQUISITION_CONTROL") =>
       /\ v[5] = {16}
       /\ \/ v[2] = "enable_int_stop" /\ v[4] = 6
          \/ v[2] = "enable_ext_lemo" /\ v[4] = 8
  /\ \A v \in Switches : v[1] = "Sis3302" /\ v[3] = R("EVENT_CONFIG_ALL_ADC") =>
       v[2] = "enable_event_length_stop" /\ v[4] = 5 /\ v[5] = {}
  /\ \A v \in Switches : v[1] = "Sis3350" /\ v[3] = R("0x0") =>
       /\ v[5] = {16}
       /\ \/ v[2] = "user_led_on" /\ v[4] = 0
          \/ v[2] = "invert_ext_lemo" /\ v[4] = 4
  /\ \A v \in Switches : v[1] = "Sis3350" /\ v[3] = R("0x10") =>
       v[2] = "enable_ext_lemo" /\ v[4] = 8 /\ v[5] = {16}
  /\ \A v \in Switches : v[1] = "Sis3316" /\ v[3] = R("NIM_INPUT_CONTROL") =>
       /\ v[5] = {}
       /\ \/ v[2] = "enable_ext_trg" /\ v[4] = 4
          \/ v[2] = "invert_ext_trg" /\ v[4] = 5
          \/ v[2] = "enable_ext_clk" /\ v[4] = 0
  /\ \A v \in Switches : v[1] = "Sis3316" /\ v[3] = R("ACQUISITION_CONTROL") =>
       v[2] = "enable_ext_trg" /\ v[4] = 8 /\ v[5] = {}
  /\ \A v \in Switches : \A x : v[1] = "Sis3316" /\ v[3] = <<"CH1_4_EVENT_CONFIG", x>> =>
       /\ v[5] = {}
       /\ \/ v[2] = "enable_ext_trg" /\ v[4] = 27
          \/ v[2] = "enable_int_trg" /\ v[4] = 2
BY DEF Switches, R

\* The two halves of a register.
LEMMA JKBits ==
  ASSUME NEW word, NEW b \in 0..15
  PROVE  /\ b \in JK(word) <=> b \in word
         /\ b + 16 \in JK(word) <=> (b + 16 \in word \/ b \notin word)
BY DEF JK

\* The code of a clock has three bits.
LEMMA ClockBits ==
  ASSUME NEW clk
  PROVE  /\ ClockCode(clk) \in 0..5
         /\ \A v \in 0..5 : 10 \notin Bits(v) /\ 12 \notin Bits(v)
<1>1. ClockCode(clk) \in 0..5
  BY DEF ClockCode
<1>2. 2^10 = 1024 /\ 2^12 = 4096
  BY SMT
<1>3. \A v \in 0..5 : v \div 1024 = 0 /\ v \div 4096 = 0 /\ 0 % 2 = 0
  BY SMT
<1>4. \A v : /\ 10 \in Bits(v) => (v \div 2^10) % 2 = 1
             /\ 12 \in Bits(v) => (v \div 2^12) % 2 = 1
  BY DEF Bits
<1> HIDE DEF Bits
<1> QED
  BY <1>1, <1>2, <1>3, <1>4, SMT

\* A step that writes a register.
Sets(p, reg) == \E i \in DOMAIN p : p[i].op \in Writing /\ p[i].reg = reg

LEMMA SetsJoined ==
  ASSUME NEW p, NEW q, NEW reg, Is(p), Is(q), Sets(p, reg) \/ Sets(q, reg)
  PROVE  Sets(p \o q, reg)
<1> DEFINE r == p \o q
<1>1. /\ Len(p) \in Nat /\ Len(q) \in Nat
      /\ DOMAIN p = 1..Len(p) /\ DOMAIN q = 1..Len(q)
      /\ DOMAIN r = 1..(Len(p) + Len(q))
      /\ \A i \in 1..Len(p) : r[i] = p[i]
      /\ \A i \in 1..Len(q) : r[Len(p) + i] = q[i]
  BY Joined
<1> HIDE DEF r
<1>2. CASE Sets(p, reg)
  <2>1. PICK i \in DOMAIN p : p[i].op \in Writing /\ p[i].reg = reg
    BY <1>2 DEF Sets
  <2>2. i \in DOMAIN r /\ r[i] = p[i]
    BY <1>1
  <2> QED
    BY <2>1, <2>2 DEF Sets, r
<1>3. CASE Sets(q, reg)
  <2>1. PICK i \in DOMAIN q : q[i].op \in Writing /\ q[i].reg = reg
    BY <1>3 DEF Sets
  <2>2. Len(p) + i \in DOMAIN r /\ r[Len(p) + i] = q[i]
    BY <1>1
  <2> QED
    BY <2>1, <2>2 DEF Sets, r
<1> QED
  BY <1>2, <1>3

LEMMA Sis3302Fits ==
  ASSUME NEW c
  PROVE  /\ Fits(Sis3302LoadConfig(c), "Sis3302", c)
         /\ \A w \in Switches : w[1] = "Sis3302" => Sets(Sis3302LoadConfig(c), w[3])
<1> DEFINE d == "Sis3302"
<1>0. d \in Devices /\ d \in Counting
  BY DEF Devices, Counting
<1>1. Fits(Sis3302Find, d, c)
  <2>1. Plain(R("KEY_RESET"))
    BY PlainNames DEF Named
  <2> QED
    BY <1>0, <2>1, TuplesFit, StepKinds DEF Sis3302Find
<1>2. Fits(Sis3302Control(c), d, c) /\ Sets(Sis3302Control(c), R("CONTROL_STATUS"))
  <2> DEFINE on == (IF "invert_ext_lemo" \in c.opts THEN {4} ELSE {})
                      \cup (IF "user_led_on" \in c.opts THEN {0} ELSE {})
             word == JK(on) \cap {0, 16}
  <2>1. RightWord(R("CONTROL_STATUS"), word, d, c)
    <3>1. 0 \in word <=> "user_led_on" \in c.opts
      BY JKBits
    <3>2. 16 \in word <=> "user_led_on" \notin c.opts
      <4>1. 0 + 16 \in JK(on) <=> (0 + 16 \in on \/ 0 \notin on)
        BY JKBits
      <4>2. 0 + 16 = 16 /\ 16 \notin on
        OBVIOUS
      <4> QED
        BY <4>1, <4>2
    <3> HIDE DEF word
    <3> QED
      BY <3>1, <3>2, SwitchesOf DEF RightWord
  <2> HIDE DEF word
  <2>2. Sis3302Control(c) = << Put(R("CONTROL_STATUS"), word, TRUE),
                               Read(R("CONTROL_STATUS"), TRUE) >>
    BY Zenon DEF Sis3302Control, word
  <2>3. R("CONTROL_STATUS") # Adc12
    BY DEF R, Adc12
  <2>4. Fits(Sis3302Control(c), d, c)
    BY <1>0, <2>1, <2>2, <2>3, TwoFit, StepKinds, Zenon
  <2>5. Sets(Sis3302Control(c), R("CONTROL_STATUS"))
    <3>1. 1 \in DOMAIN Sis3302Control(c)
          /\ Sis3302Control(c)[1] = Put(R("CONTROL_STATUS"), word, TRUE)
      BY <2>2
    <3> QED
      BY <3>1 DEF Sets, Put, Writing
  <2> QED
    BY <2>4, <2>5
<1>3. Fits(Sis3302Acquisition(c), d, c) /\ Sets(Sis3302Acquisition(c), R("ACQUISITION_CONTROL"))
  <2> DEFINE clock == IF "enable_ext_clk" \in c.opts THEN 5
                      ELSE ClockCode(Numbers["int_clk_setting_MHz"])
             high == Up(Bits(clock), 12)
             on == (IF "enable_int_stop" \in c.opts THEN {6} ELSE {})
                      \cup (IF "enable_ext_lemo" \in c.opts THEN {8} ELSE {}) \cup high
             word == JK(on) \cap (4..8 \cup 10..14 \cup 20..24 \cup 26..30)
  <2>1. 6 \notin high /\ 8 \notin high /\ 22 \notin high /\ 24 \notin high
    <3>1. clock \in 0..5
      BY ClockBits
    <3>2. 10 \notin Bits(clock) /\ 12 \notin Bits(clock) /\ \A b \in Bits(clock) : b \in 0..30
      <4>1. \A b \in Bits(clock) : b \in 0..30
        BY DEF Bits
      <4> HIDE DEF clock
      <4> QED
        BY <3>1, <4>1, ClockBits, Zenon
    <3> HIDE DEF clock
    <3> QED
      BY <3>2 DEF Up
  <2> HIDE DEF high
  <2>2. /\ 6 \in word <=> "enable_int_stop" \in c.opts
        /\ 8 \in word <=> "enable_ext_lemo" \in c.opts
        /\ 22 \in word <=> "enable_int_stop" \notin c.opts
        /\ 24 \in word <=> "enable_ext_lemo" \notin c.opts
    <3>1. /\ 6 \in on <=> "enable_int_stop" \in c.opts
          /\ 8 \in on <=> "enable_ext_lemo" \in c.opts
          /\ 22 \notin on /\ 24 \notin on
      BY <2>1
    <3> HIDE DEF on
    <3>2. /\ 6 \in JK(on) <=> 6 \in on
          /\ 6 + 16 \in JK(on) <=> (6 + 16 \in on \/ 6 \notin on)
      BY JKBits
    <3>3. /\ 8 \in JK(on) <=> 8 \in on
          /\ 8 + 16 \in JK(on) <=> (8 + 16 \in on \/ 8 \notin on)
      BY JKBits
    <3>4. 6 + 16 = 22 /\ 8 + 16 = 24
      OBVIOUS
    <3> QED
      BY <3>1, <3>2, <3>3, <3>4
  <2>3. Sis3302Acquisition(c) = << Put(R("ACQUISITION_CONTROL"), word, TRUE),
                                   Read(R("ACQUISITION_CONTROL"), TRUE) >>
    BY Zenon DEF Sis3302Acquisition, high
  <2> HIDE DEF word
  <2>4. RightWord(R("ACQUISITION_CONTROL"), word, d, c)
    BY <2>2, SwitchesOf DEF RightWord
  <2>5. R("ACQUISITION_CONTROL") # Adc12
    BY DEF R, Adc12
  <2>6. Fits(Sis3302Acquisition(c), d, c)
    BY <1>0, <2>3, <2>4, <2>5, TwoFit, StepKinds, Zenon
  <2>7. Sets(Sis3302Acquisition(c), R("ACQUISITION_CONTROL"))
    <3>1. 1 \in DOMAIN Sis3302Acquisition(c)
          /\ Sis3302Acquisition(c)[1] = Put(R("ACQUISITION_CONTROL"), word, TRUE)
      BY <2>3
    <3> QED
      BY <3>1 DEF Sets, Put, Writing
  <2> QED
    BY <2>6, <2>7
<1>4. Fits(Sis3302Event(c), d, c) /\ Sets(Sis3302Event(c), R("EVENT_CONFIG_ALL_ADC"))
  <2> DEFINE p == Sis3302Event(c)
             reg == R("EVENT_CONFIG_ALL_ADC")
             set == IF "enable_event_length_stop" \in c.opts THEN {5} ELSE {}
  <2>1. /\ p \in Seq({p[1], p[2], p[3], p[4], p[5], p[6], p[7]}) /\ Len(p) = 7
        /\ p[4] = PutMsg(reg, {}, set, TRUE)
    BY DEF Sis3302Event
  <2>2. /\ Plain(R("START_DELAY")) /\ Plain(R("STOP_DELAY")) /\ Plain(R("SAMPLE_LENGTH_ALL_ADC"))
        /\ Plain(R("PRETRIGGER_DELAY_ALL_ADC")) /\ Plain(R("ADC_MEMORY_PAGE"))
    BY PlainNames DEF Named
  <2>3. RightSet(reg, {}, set, d, c) /\ reg # Adc12 /\ Adc12 \in {reg, Adc12}
    <3>1. reg # Adc12
      BY DEF R, Adc12
    <3>2. 5 \in set <=> "enable_event_length_stop" \in c.opts
      OBVIOUS
    <3> HIDE DEF set
    <3> QED
      BY <3>1, <3>2, SwitchesOf DEF RightSet
  <2> DEFINE v == Bits(Numbers["start_delay"])
             w == Bits(Numbers["stop_delay"])
             x == Bits(c.trace_len - 4 + 512) \cap 2..23
             y == Bits(Numbers["pretrigger_samples"])
  <2>a. /\ p[1] = Put(R("START_DELAY"), v, TRUE)
        /\ p[2] = Put(R("STOP_DELAY"), w, TRUE)
        /\ p[3] = Read(Adc12, TRUE)
        /\ p[5] = Put(R("SAMPLE_LENGTH_ALL_ADC"), x, TRUE)
        /\ p[6] = Put(R("PRETRIGGER_DELAY_ALL_ADC"), y, TRUE)
        /\ p[7] = Put(R("ADC_MEMORY_PAGE"), {}, TRUE)
    BY Zenon DEF Sis3302Event, Adc12
  <2> HIDE DEF p, set, reg, v, w, x, y
  <2>4. Paired(p[3], p[4], d, c)
    <3>1. Paired(Read(Adc12, TRUE), PutMsg(reg, {}, set, TRUE), d, c)
      BY <1>0, <2>3, StepKinds, Zenon
    <3>2. p[3] = Read(Adc12, TRUE) /\ p[4] = PutMsg(reg, {}, set, TRUE)
      BY <2>1, <2>a, Zenon
    <3> QED
      BY <3>1, <3>2, Zenon
  <2>5. /\ Alone(p[1], d, c) /\ Alone(p[2], d, c) /\ Alone(p[3], d, c)
        /\ Alone(p[5], d, c) /\ Alone(p[6], d, c) /\ Alone(p[7], d, c)
    <3>1. Alone(Put(R("START_DELAY"), v, TRUE), d, c) /\ Alone(Put(R("STOP_DELAY"), w, TRUE), d, c)
      BY <1>0, <2>2, StepKinds, Zenon
    <3>2. Alone(Read(Adc12, TRUE), d, c)
      BY <1>0, StepKinds, Zenon
    <3>3. /\ Alone(Put(R("SAMPLE_LENGTH_ALL_ADC"), x, TRUE), d, c)
          /\ Alone(Put(R("PRETRIGGER_DELAY_ALL_ADC"), y, TRUE), d, c)
          /\ Alone(Put(R("ADC_MEMORY_PAGE"), {}, TRUE), d, c)
      BY <1>0, <2>2, StepKinds, Zenon
    <3> QED
      BY <2>a, <3>1, <3>2, <3>3, Zenon
  <2>b. \A i \in 1..Len(p) : i = 1 \/ i = 2 \/ i = 3 \/ i = 4 \/ i = 5 \/ i = 6 \/ i = 7
    BY <2>1
  <2>c. /\ AloneStep(p[1]) /\ AloneStep(p[2]) /\ AloneStep(p[3]) /\ AloneStep(p[5])
        /\ AloneStep(p[6]) /\ AloneStep(p[7]) /\ PairStep(p[3], p[4])
    BY <2>4, <2>5, Zenon DEF Alone, Paired
  <2>d. /\ EachStep(p[1], d, c) /\ EachStep(p[2], d, c) /\ EachStep(p[3], d, c)
        /\ EachStep(p[4], d, c) /\ EachStep(p[5], d, c) /\ EachStep(p[6], d, c)
        /\ EachStep(p[7], d, c)
    BY <2>4, <2>5, Zenon DEF Alone, Paired
  <2>6. \A i \in 1..Len(p) : AloneStep(p[i]) \/ (i # 1 /\ PairStep(p[i - 1], p[i]))
    <3>1. 4 # 1 /\ 4 - 1 = 3
      OBVIOUS
    <3> QED
      BY <2>b, <2>c, <3>1
  <2>7. \A i \in 1..Len(p) : EachStep(p[i], d, c)
    BY <2>b, <2>d, Zenon
  <2>8. Fits(p, d, c)
    BY <2>1, <2>6, <2>7, StepsFit
  <2>9. Sets(p, reg)
    <3>1. 4 \in DOMAIN p
      BY <2>1, IsOfSeq
    <3> QED
      BY <2>1, <3>1 DEF Sets, PutMsg, Writing
  <2> QED
    BY <2>8, <2>9 DEF p, reg
<1> DEFINE p == Sis3302Find \o Sis3302Control(c) \o Sis3302Acquisition(c) \o Sis3302Event(c)
<1>5. Fits(p, d, c)
  BY <1>1, <1>2, <1>3, <1>4, FitsJoined, Zenon
<1>6. /\ Sets(p, R("CONTROL_STATUS")) /\ Sets(p, R("ACQUISITION_CONTROL"))
      /\ Sets(p, R("EVENT_CONFIG_ALL_ADC"))
  <2>1. \A q : Fits(q, d, c) => Is(q)
    BY DEF Fits, Formed
  <2> DEFINE q == Sis3302Find \o Sis3302Control(c)
             r == q \o Sis3302Acquisition(c)
  <2>2. Fits(q, d, c) /\ Fits(r, d, c)
    BY <1>1, <1>2, <1>3, FitsJoined, Zenon
  <2>3. Sets(q, R("CONTROL_STATUS"))
    BY <1>1, <1>2, <2>1, SetsJoined, Zenon
  <2>4. Sets(r, R("CONTROL_STATUS")) /\ Sets(r, R("ACQUISITION_CONTROL"))
    BY <1>3, <2>1, <2>2, <2>3, SetsJoined, Zenon
  <2> QED
    BY <1>4, <2>1, <2>2, <2>4, SetsJoined, Zenon
<1>7. \A w \in Switches : w[1] = d =>
        w[3] \in {R("CONTROL_STATUS"), R("ACQUISITION_CONTROL"), R("EVENT_CONFIG_ALL_ADC")}
  BY DEF Switches
<1> HIDE DEF p
<1>8. \A w \in Switches : w[1] = d => Sets(p, w[3])
  BY <1>6, <1>7
<1> QED
  BY <1>5, <1>8, Zenon DEF p, Sis3302LoadConfig

\* What one of several sequences sets, all of them joined set.
LEMMA FlatSets ==
  ASSUME NEW n \in Nat \ {0}, NEW s, NEW reg, \A i \in 1..n : Is(s[i]), Sets(s[1], reg)
  PROVE  Sets(FlattenSeq([i \in 1..n |-> s[i]]), reg)
<1> DEFINE v == [i \in 1..n |-> s[i]]
<1>1. Len(v) = n /\ \A i \in 1..n : v[i] = s[i]
  OBVIOUS
<1> HIDE DEF v
<1>2. PICK f : Joins(f, v, n) /\ FlattenSeq(v) = f[n]
  BY <1>1, FlattenJoins
<1>3. f[1] = v[1] /\ \A i \in 2..n : f[i] = f[i - 1] \o v[i]
  BY <1>2, JoinsValues
<1> DEFINE T == {i \in 1..n : Is(f[i]) /\ Sets(f[i], reg)}
<1>4. 1 \in T
  <2>1. 1 \in 1..n
    OBVIOUS
  <2> QED
    BY <1>1, <1>3, <2>1
<1>5. ASSUME NEW i \in 2..n, i - 1 \in T PROVE i \in T
  <2>1. i \in 1..n /\ Is(v[i])
    BY <1>1
  <2>2. Is(f[i - 1]) /\ Sets(f[i - 1], reg) /\ f[i] = f[i - 1] \o v[i]
    BY <1>3, <1>5
  <2>3. Is(f[i - 1] \o v[i])
    BY <2>1, <2>2, Joined
  <2>4. Sets(f[i - 1] \o v[i], reg)
    BY <2>1, <2>2, SetsJoined
  <2> QED
    BY <2>1, <2>2, <2>3, <2>4
<1>6. T \in SUBSET (1..n) /\ n \in 1..n
  OBVIOUS
<1>7. \A i \in 2..n : i - 1 \in T => i \in T
  BY <1>5
<1> HIDE DEF T
<1>8. n \in T
  BY <1>4, <1>6, <1>7, OneAfterAnother
<1> QED
  BY <1>2, <1>8 DEF T, v

LEMMA EachSets ==
  ASSUME NEW steps, NEW reg, \A gr \in Groups : Is(steps[gr]), Sets(steps[0], reg)
  PROVE  Sets(EachGroup(steps), reg)
<1> DEFINE s == [i \in 1..NumGroups |-> steps[i - 1]]
<1>1. NumGroups \in Nat \ {0} /\ \A i \in 1..NumGroups : i - 1 \in Groups
  BY LoadConfigAssumption DEF Groups
<1>2. (\A i \in 1..NumGroups : s[i] = steps[i - 1]) /\ s = [i \in 1..NumGroups |-> s[i]]
  OBVIOUS
<1>3. EachGroup(steps) = FlattenSeq(s)
  BY Zenon DEF EachGroup
<1> HIDE DEF s
<1>4. \A i \in 1..NumGroups : Is(s[i])
  BY <1>1, <1>2, Zenon
<1>5. Sets(s[1], reg)
  <2>1. 1 \in 1..NumGroups /\ 1 - 1 = 0
    BY <1>1
  <2> QED
    BY <1>2, <2>1
<1>6. Sets(FlattenSeq([i \in 1..NumGroups |-> s[i]]), reg)
  BY <1>1, <1>4, <1>5, FlatSets
<1> QED
  BY <1>2, <1>3, <1>6, Zenon

\* The steps of the Sis3316; only three of its pieces write a switch's register.
LEMMA Sis3316Kinds ==
  ASSUME NEW c
  PROVE  /\ \A reg : Alone(Read(reg, TRUE), "Sis3316", c)
         /\ \A reg, w : Plain(reg) => /\ Alone(Write(reg, w, TRUE), "Sis3316", c)
                                      /\ Alone(Put(reg, w, TRUE), "Sis3316", c)
         /\ \A gr, addr, v : Alone(AdcSpi(gr, addr, v), "Sis3316", c)
         /\ \A addr, v : Alone(Si5325(addr, v), "Sis3316", c)
         /\ Alone(Oscillator, "Sis3316", c)
<1>1. "Sis3316" \in Devices
  BY DEF Devices
<1> DEFINE d == "Sis3316"
<1> HIDE DEF d
<1>2. d \in Devices
  BY <1>1 DEF d
<1>3. /\ \A reg : Alone(Read(reg, TRUE), d, c)
      /\ \A reg, w : Plain(reg) => /\ Alone(Write(reg, w, TRUE), d, c)
                                   /\ Alone(Put(reg, w, TRUE), d, c)
      /\ \A gr, addr, v : Alone(AdcSpi(gr, addr, v), d, c)
      /\ \A addr, v : Alone(Si5325(addr, v), d, c)
      /\ Alone(Oscillator, d, c)
  BY <1>2, StepKinds, Zenon
<1> QED
  BY <1>3, Zenon DEF d

Sis3316Plain == {
  "KEY_RESET", "KEY_DISARM", "CH1_4_SPI_CTRL", "SAMPLE_CLOCK_DISTRIBUTION_CONTROL",
  "KEY_ADC_CLOCK_DCM_RESET", "CH1_4_INPUT_TAP_DELAY", "CH1_4_CHANNEL_HEADER",
  "CH1_4_DAC_OFFSET_CTRL", "CH1_4_TRIGGER_GATE_WINDOW_LENGTH", "CH1_4_RAW_DATA_BUFFER_CONFIG",
  "CH1_4_EXTENDED_RAW_DATA_BUFFER_CONFIG", "CH1_4_PRE_TRIGGER_DELAY",
  "CH1_4_DATAFORMAT_CONFIG", "CH1_4_ADDRESS_THRESHOLD", "LEMO_OUT_CO_SELECT",
  "LEMO_OUT_TO_SELECT", "KEY_TIMESTAMP_CLR", "KEY_DISARM_AND_ARM_BANK1" }

LEMMA Sis3316Names ==
  \A name \in Sis3316Plain : Plain(R(name)) /\ \A x : Plain(<<name, x>>)
<1>1. \A name \in Sis3316Plain : name \notin Named \cup {"EVENT_CONFIG_ADC12"}
  BY DEF Sis3316Plain, Named
<1> QED
  BY <1>1, PlainNames

LEMMA Sis3316AdcsFit ==
  ASSUME NEW c
  PROVE  /\ \A w : Fits(AdcOutput(w), "Sis3316", c)
         /\ Fits(Sis3316Adcs, "Sis3316", c)
<1> DEFINE d == "Sis3316"
<1>1. ASSUME NEW w PROVE Fits(AdcOutput(w), d, c)
  <2> DEFINE one(gr) == << Write(<<"CH1_4_SPI_CTRL", gr>>, w, TRUE) >>
  <2>1. \A gr : Plain(<<"CH1_4_SPI_CTRL", gr>>)
    BY Sis3316Names DEF Sis3316Plain
  <2>2. \A gr \in Groups : Fits(one(gr), d, c)
    BY <2>1, OneFits, Sis3316Kinds, Zenon
  <2>3. AdcOutput(w) = EachGroup([gr \in Groups |-> one(gr)])
    BY Zenon DEF AdcOutput
  <2> HIDE DEF one
  <2> QED
    BY <2>2, <2>3, FitsEach
<1>2. ASSUME NEW addr, NEW v PROVE Fits(AdcRegister(addr, v), d, c)
  <2>1. \A gr \in Groups : Fits(<< AdcSpi(gr, addr, v) >>, d, c)
    BY OneFits, Sis3316Kinds, Zenon
  <2> QED
    BY <2>1, FitsEach DEF AdcRegister
<1>3. Fits(Sis3316Adcs, d, c)
  <2>1. \A v : /\ Fits(AdcOutput(v), d, c) /\ Fits(AdcRegister(0, v), d, c)
               /\ Fits(AdcRegister(20, v), d, c) /\ Fits(AdcRegister(24, v), d, c)
               /\ Fits(AdcRegister(255, v), d, c)
    BY <1>1, <1>2, Zenon
  <2> DEFINE a == AdcOutput({})
             r == AdcRegister(0, Bits(36))
             s == AdcRegister(20, Bits(64))
             t == AdcRegister(24, Bits(192))
             u == AdcRegister(255, {0})
             z == AdcOutput({24})
  <2>2. Fits(a, d, c) /\ Fits(r, d, c) /\ Fits(s, d, c)
    BY <2>1, Zenon
  <2>3. Fits(t, d, c) /\ Fits(u, d, c) /\ Fits(z, d, c)
    BY <2>1, Zenon
  <2>4. Sis3316Adcs = a \o r \o s \o t \o u \o z
    BY Zenon DEF Sis3316Adcs
  <2> HIDE DEF a, r, s, t, u, z
  <2> QED
    BY <2>2, <2>3, <2>4, FitsJoined, Zenon
<1> QED
  BY <1>1, <1>3, Zenon

LEMMA Sis3316StartFits ==
  ASSUME NEW c
  PROVE  /\ Fits(Sis3316Find, "Sis3316", c) /\ Fits(Sis3316Reset, "Sis3316", c)
         /\ Fits(NimInput(c), "Sis3316", c) /\ Fits(Sis3316Clock(c), "Sis3316", c)
         /\ Sets(NimInput(c), R("NIM_INPUT_CONTROL"))
<1> DEFINE d == "Sis3316"
<1>1. Fits(Sis3316Find, d, c)
  <2> DEFINE one(gr) == << Read(<<"CH1_4_FIRMWARE", gr>>, TRUE) >>
             u == << Read(R("CONTROL_STATUS"), TRUE), Read(R("MODID"), TRUE),
                     Read(R("HARDWARE_VERSION"), TRUE) >>
             w == << Read(R("INTERNAL_TEMPERATURE"), TRUE) >>
  <2>1. \A gr \in Groups : Fits(one(gr), d, c)
    BY OneFits, Sis3316Kinds, Zenon
  <2>2. Fits(u, d, c)
    <3>1. \A q, r, s : Fits(<< Read(q, TRUE), Read(r, TRUE), Read(s, TRUE) >>, d, c)
      BY TuplesFit, Sis3316Kinds, Zenon
    <3> QED
      BY <3>1, Zenon
  <2>3. Fits(w, d, c)
    BY OneFits, Sis3316Kinds, Zenon
  <2>4. Sis3316Find = u \o EachGroup([gr \in Groups |-> one(gr)]) \o w
    BY Zenon DEF Sis3316Find
  <2> HIDE DEF one, u, w
  <2>5. Fits(EachGroup([gr \in Groups |-> one(gr)]), d, c)
    BY <2>1, FitsEach
  <2> QED
    BY <2>2, <2>3, <2>4, <2>5, FitsJoined, Zenon
<1>2. Fits(Sis3316Reset, d, c)
  <2>1. Plain(R("KEY_RESET")) /\ Plain(R("KEY_DISARM"))
    BY Sis3316Names DEF Sis3316Plain
  <2> QED
    BY <2>1, TwoFit, Sis3316Kinds, Zenon DEF Sis3316Reset
<1>3. Fits(NimInput(c), d, c) /\ Sets(NimInput(c), R("NIM_INPUT_CONTROL"))
  <2> DEFINE reg == R("NIM_INPUT_CONTROL")
             word == (IF "enable_ext_trg" \in c.opts THEN {4} ELSE {})
                       \cup (IF "invert_ext_trg" \in c.opts THEN {5} ELSE {})
                       \cup (IF "enable_ext_clk" \in c.opts THEN {0} ELSE {})
  <2>1. /\ 4 \in word <=> "enable_ext_trg" \in c.opts
        /\ 5 \in word <=> "invert_ext_trg" \in c.opts
        /\ 0 \in word <=> "enable_ext_clk" \in c.opts
    OBVIOUS
  <2>2. NimInput(c) = << Put(reg, word, TRUE) >>
    BY Zenon DEF NimInput
  <2> HIDE DEF word
  <2>3. RightWord(reg, word, d, c)
    BY <2>1, SwitchesOf DEF RightWord
  <2>4. reg # Adc12
    BY DEF R, Adc12
  <2>5. d \in Devices
    BY DEF Devices
  <2>6. Alone(Put(reg, word, TRUE), d, c)
    BY <2>3, <2>4, <2>5, StepKinds, Zenon
  <2>7. Fits(NimInput(c), d, c)
    BY <2>2, <2>6, OneFits, Zenon
  <2>8. Sets(NimInput(c), reg)
    <3>1. 1 \in DOMAIN NimInput(c) /\ NimInput(c)[1] = Put(reg, word, TRUE)
      BY <2>2
    <3> QED
      BY <3>1 DEF Sets, Put, Writing
  <2> QED
    BY <2>7, <2>8
<1>4. Fits(Sis3316Clock(c), d, c)
  <2>1. /\ Plain(R("KEY_DISARM")) /\ Plain(R("SAMPLE_CLOCK_DISTRIBUTION_CONTROL"))
        /\ Plain(R("KEY_ADC_CLOCK_DCM_RESET"))
    BY Sis3316Names DEF Sis3316Plain
  <2> DEFINE ext == << Write(R("SAMPLE_CLOCK_DISTRIBUTION_CONTROL"), {0, 1}, TRUE) >>
             chip == << Si5325(136, Bits(128)), Si5325(0, {1}), Si5325(11, {1}),
                        Si5325(136, Bits(64)) >>
             osc == << Oscillator >>
             dcm == << Write(R("KEY_ADC_CLOCK_DCM_RESET"), {}, TRUE) >>
  <2>2. Fits(Disarm, d, c) /\ Fits(ext, d, c) /\ Fits(dcm, d, c)
    <3>1. Fits(Disarm, d, c)
      BY <2>1, OneFits, Sis3316Kinds, Zenon DEF Disarm
    <3>2. Fits(ext, d, c)
      BY <2>1, OneFits, Sis3316Kinds, Zenon
    <3>3. Fits(dcm, d, c)
      BY <2>1, OneFits, Sis3316Kinds, Zenon
    <3> QED
      BY <3>1, <3>2, <3>3
  <2>3. Fits(chip, d, c)
    <3>1. \A x, y : Alone(Si5325(x, y), d, c)
      BY Sis3316Kinds, Zenon
    <3> DEFINE s1 == Si5325(136, Bits(128))
               s2 == Si5325(0, {1})
               s3 == Si5325(11, {1})
               s4 == Si5325(136, Bits(64))
    <3>2. Alone(s1, d, c) /\ Alone(s2, d, c) /\ Alone(s3, d, c) /\ Alone(s4, d, c)
      BY <3>1, Zenon
    <3>3. chip = << s1, s2, s3, s4 >>
      OBVIOUS
    <3> HIDE DEF s1, s2, s3, s4, chip
    <3>4. Fits(<< s1, s2, s3, s4 >>, d, c)
      BY <3>2, TuplesFit, Zenon
    <3> QED
      BY <3>3, <3>4, Zenon
  <2>4. Fits(osc, d, c)
    BY OneFits, Sis3316Kinds, Zenon
  <2>5. Sis3316Clock(c) = Disarm \o (IF "enable_ext_clk" \in c.opts
                                     THEN ext \o NimInput(c) \o chip ELSE osc) \o dcm
    BY Zenon DEF Sis3316Clock
  <2> HIDE DEF ext, chip, osc, dcm
  <2>6. Fits(ext \o NimInput(c) \o chip, d, c)
    BY <1>3, <2>2, <2>3, FitsJoined, Zenon
  <2>7. Fits(IF "enable_ext_clk" \in c.opts THEN ext \o NimInput(c) \o chip ELSE osc, d, c)
    BY <2>4, <2>6
  <2> QED
    BY <2>2, <2>5, <2>7, FitsJoined, Zenon
<1> QED
  BY <1>1, <1>2, <1>3, <1>4, Zenon

LEMMA Sis3316GroupsFit ==
  ASSUME NEW c
  PROVE  /\ Fits(TapDelay, "Sis3316", c) /\ Fits(ChannelHeaders, "Sis3316", c)
         /\ Fits(DacOffsets(c), "Sis3316", c) /\ Fits(BufferLengths(c), "Sis3316", c)
         /\ Fits(PreTrigger, "Sis3316", c) /\ Fits(DataFormat(c), "Sis3316", c)
<1> DEFINE d == "Sis3316"
<1>0. \A x : /\ Plain(<<"CH1_4_INPUT_TAP_DELAY", x>>) /\ Plain(<<"CH1_4_CHANNEL_HEADER", x>>)
             /\ Plain(<<"CH1_4_DAC_OFFSET_CTRL", x>>)
             /\ Plain(<<"CH1_4_TRIGGER_GATE_WINDOW_LENGTH", x>>)
             /\ Plain(<<"CH1_4_RAW_DATA_BUFFER_CONFIG", x>>)
             /\ Plain(<<"CH1_4_EXTENDED_RAW_DATA_BUFFER_CONFIG", x>>)
             /\ Plain(<<"CH1_4_PRE_TRIGGER_DELAY", x>>) /\ Plain(<<"CH1_4_DATAFORMAT_CONFIG", x>>)
             /\ Plain(<<"CH1_4_ADDRESS_THRESHOLD", x>>)
  BY Sis3316Names DEF Sis3316Plain
<1>1. Fits(TapDelay, d, c)
  <2> DEFINE w == Bits(768 + Numbers["iob_tap_delay"])
             one(v, gr) == << Write(<<"CH1_4_INPUT_TAP_DELAY", gr>>, v, TRUE) >>
  <2>1. TapDelay = EachGroup([gr \in Groups |-> one(8..11, gr)])
                     \o EachGroup([gr \in Groups |-> one(w, gr)])
    BY DEF TapDelay
  <2> HIDE DEF w
  <2>2. \A v : \A gr \in Groups : Fits(one(v, gr), d, c)
    BY <1>0, OneFits, Sis3316Kinds, Zenon
  <2> HIDE DEF one
  <2>3. ASSUME NEW v PROVE Fits(EachGroup([gr \in Groups |-> one(v, gr)]), d, c)
    BY <2>2, FitsEach
  <2> DEFINE low == 8..11
             a == EachGroup([gr \in Groups |-> one(low, gr)])
             b == EachGroup([gr \in Groups |-> one(w, gr)])
  <2>4. Fits(a, d, c) /\ Fits(b, d, c) /\ TapDelay = a \o b
    BY <2>1, <2>3, Zenon
  <2> HIDE DEF a, b
  <2> QED
    BY <2>4, FitsJoined, Zenon
<1>2. Fits(ChannelHeaders, d, c)
  <2> DEFINE w(gr) == Bits(4194304 * gr)
             one(gr) == << Put(<<"CH1_4_CHANNEL_HEADER", gr>>, w(gr), TRUE) >>
  <2>1. ChannelHeaders = EachGroup([gr \in Groups |-> one(gr)])
    BY SMT DEF ChannelHeaders
  <2> HIDE DEF w
  <2>2. \A gr \in Groups : Fits(one(gr), d, c)
    BY <1>0, OneFits, Sis3316Kinds, Zenon
  <2> HIDE DEF one
  <2> QED
    BY <2>1, <2>2, FitsEach
<1>3. Fits(DacOffsets(c), d, c)
  <2> DEFINE v == {31, 25} \cup 20..23
                    \cup Up(Low(Bits(Numbers["dac_voltage_offset"]), 16), 4)
             addr(gr) == <<"CH1_4_DAC_OFFSET_CTRL", gr>>
             three(gr) == << Write(addr(gr), {31, 27, 23, 22, 21, 20, 0}, TRUE),
                             Put(addr(gr), v, TRUE),
                             Write(addr(gr), {30, 31}, TRUE) >>
             back(gr) == << Read(<<"CH1_4_DAC_OFFSET_READBACK", gr>>, TRUE) >>
  <2>1. DacOffsets(c) = (IF "set_voltage_offset" \in c.opts
                            THEN EachGroup([gr \in Groups |-> three(gr)]) ELSE <<>>)
                           \o EachGroup([gr \in Groups |-> back(gr)])
    BY DEF DacOffsets
  <2> HIDE DEF v
  <2>2. \A gr \in Groups : Fits(three(gr), d, c) /\ Fits(back(gr), d, c)
    <3>1. \A w : \A gr \in Groups : /\ Alone(Write(addr(gr), w, TRUE), d, c)
                                    /\ Alone(Put(addr(gr), w, TRUE), d, c)
      BY <1>0, Sis3316Kinds, Zenon
    <3>2. \A gr \in Groups : Fits(back(gr), d, c)
      BY OneFits, Sis3316Kinds, Zenon
    <3> HIDE DEF addr
    <3> QED
      BY <3>1, <3>2, TuplesFit, Zenon
  <2> HIDE DEF three, back
  <2>3. /\ Fits(EachGroup([gr \in Groups |-> three(gr)]), d, c)
        /\ Fits(EachGroup([gr \in Groups |-> back(gr)]), d, c)
    BY <2>2, FitsEach
  <2>4. Fits(<<>>, d, c)
    BY NoneFits, Zenon
  <2> QED
    BY <2>1, <2>3, <2>4, FitsJoined
<1>4. Fits(BufferLengths(c), d, c)
  <2> DEFINE two(gr) == << Put(<<"CH1_4_TRIGGER_GATE_WINDOW_LENGTH", gr>>,
                               Low(Bits(c.trace_len - 2), 16), TRUE),
                           Put(<<"CH1_4_RAW_DATA_BUFFER_CONFIG", gr>>,
                               Up(Bits(c.trace_len), 16), TRUE) >>
             one(gr) == << Put(<<"CH1_4_EXTENDED_RAW_DATA_BUFFER_CONFIG", gr>>,
                               Low(Bits(c.trace_len), 25), TRUE) >>
             all(gr) == two(gr) \o (IF c.trace_len > 65535 THEN one(gr) ELSE <<>>)
  <2>1. \A gr \in Groups : Fits(two(gr), d, c) /\ Fits(one(gr), d, c)
    BY <1>0, TwoFit, OneFits, Sis3316Kinds, Zenon
  <2>2. BufferLengths(c) = EachGroup([gr \in Groups |-> all(gr)])
    BY SMT DEF BufferLengths
  <2>3. Fits(<<>>, d, c)
    BY NoneFits, Zenon
  <2> HIDE DEF two, one
  <2>4. \A gr \in Groups : Fits(all(gr), d, c)
    BY <2>1, <2>3, FitsJoined, SMT
  <2> HIDE DEF all
  <2> QED
    BY <2>2, <2>4, FitsEach
<1>5. Fits(PreTrigger, d, c)
  <2> DEFINE one(gr) == << Put(<<"CH1_4_PRE_TRIGGER_DELAY", gr>>,
                               Low(Bits(Numbers["pretrigger_samples"]), 14), TRUE) >>
  <2>1. PreTrigger = EachGroup([gr \in Groups |-> one(gr)])
    BY Zenon DEF PreTrigger
  <2>2. \A gr \in Groups : Fits(one(gr), d, c)
    BY <1>0, OneFits, Sis3316Kinds, Zenon
  <2> HIDE DEF one
  <2> QED
    BY <2>1, <2>2, FitsEach
<1>6. Fits(DataFormat(c), d, c)
  <2> DEFINE two(gr) ==
        << Write(<<"CH1_4_DATAFORMAT_CONFIG", gr>>, {}, TRUE),
           Write(<<"CH1_4_ADDRESS_THRESHOLD", gr>>, Bits(2 + c.trace_len \div 2), TRUE) >>
  <2>1. DataFormat(c) = EachGroup([gr \in Groups |-> two(gr)])
    BY Zenon DEF DataFormat
  <2>2. \A gr \in Groups : Fits(two(gr), d, c)
    BY <1>0, TwoFit, Sis3316Kinds, Zenon
  <2> HIDE DEF two
  <2> QED
    BY <2>1, <2>2, FitsEach
<1> QED
  BY <1>1, <1>2, <1>3, <1>4, <1>5, <1>6, Zenon

LEMMA Sis3316TriggerFits ==
  ASSUME NEW c
  PROVE  /\ Fits(EventConfig(c), "Sis3316", c)
         /\ Sets(EventConfig(c), <<"CH1_4_EVENT_CONFIG", 0>>)
         /\ Fits(Sis3316Outputs(c), "Sis3316", c)
         /\ Sets(Sis3316Outputs(c), R("ACQUISITION_CONTROL"))
         /\ Fits(Sis3316Arm, "Sis3316", c)
<1> DEFINE d == "Sis3316"
<1>0. d \in Devices
  BY DEF Devices
<1>1. /\ Fits(EventConfig(c), d, c)
      /\ Sets(EventConfig(c), <<"CH1_4_EVENT_CONFIG", 0>>)
  <2> DEFINE set == (IF "enable_ext_trg" \in c.opts THEN {3, 11, 19, 27} ELSE {})
                      \cup (IF "enable_int_trg" \in c.opts THEN {2, 10, 18, 26} ELSE {})
             reg(gr) == <<"CH1_4_EVENT_CONFIG", gr>>
             two(gr) == << Read(reg(gr), TRUE), PutMsg(reg(gr), {}, set, TRUE) >>
  <2>1. EventConfig(c) = EachGroup([gr \in Groups |-> two(gr)])
    BY Zenon DEF EventConfig
  <2>2. /\ 27 \in set <=> "enable_ext_trg" \in c.opts
        /\ 2 \in set <=> "enable_int_trg" \in c.opts
    OBVIOUS
  <2> HIDE DEF set
  <2>3. \A gr \in Groups : reg(gr) # Adc12
    BY DEF R, Adc12
  <2>4. \A gr \in Groups : RightSet(reg(gr), {}, set, d, c)
    BY <2>2, SwitchesOf DEF RightSet
  <2> HIDE DEF reg
  <2>5. \A gr \in Groups : Fits(two(gr), d, c)
    BY <1>0, <2>3, <2>4, PairFits, StepKinds, Zenon
  <2>6. Sets(two(0), reg(0))
    <3>1. 2 \in DOMAIN two(0) /\ two(0)[2] = PutMsg(reg(0), {}, set, TRUE)
      OBVIOUS
    <3> QED
      BY <3>1 DEF Sets, PutMsg, Writing
  <2>7. \A gr \in Groups : Is(two(gr))
    BY <2>5, Zenon DEF Fits, Formed
  <2> HIDE DEF two
  <2>8. Fits(EventConfig(c), d, c)
    BY <2>1, <2>5, FitsEach
  <2>9. Sets(EventConfig(c), reg(0))
    <3> DEFINE steps == [gr \in Groups |-> two(gr)]
    <3>1. (\A gr \in Groups : Is(steps[gr])) /\ Sets(steps[0], reg(0))
      <4>1. 0 \in Groups
        BY LoadConfigAssumption DEF Groups
      <4> QED
        BY <2>6, <2>7, <4>1
    <3> HIDE DEF steps
    <3>2. Sets(EachGroup(steps), reg(0))
      BY <3>1, EachSets
    <3> QED
      BY <2>1, <3>2, Zenon DEF steps
  <2> QED
    BY <2>8, <2>9 DEF reg
<1>2. Fits(Sis3316Outputs(c), d, c) /\ Sets(Sis3316Outputs(c), R("ACQUISITION_CONTROL"))
  <2> DEFINE reg == R("ACQUISITION_CONTROL")
             word == {10} \cup (IF "enable_ext_trg" \in c.opts THEN {8} ELSE {})
  <2>1. Sis3316Outputs(c) = << Put(reg, word, TRUE), Write(R("LEMO_OUT_CO_SELECT"), {0}, TRUE),
                               Write(R("LEMO_OUT_TO_SELECT"), {25}, TRUE),
                               Write(R("KEY_TIMESTAMP_CLR"), {0}, TRUE) >>
    BY Zenon DEF Sis3316Outputs
  <2>2. 8 \in word <=> "enable_ext_trg" \in c.opts
    OBVIOUS
  <2> HIDE DEF word
  <2>3. RightWord(reg, word, d, c)
    BY <2>2, SwitchesOf DEF RightWord
  <2>4. reg # Adc12
    BY DEF R, Adc12
  <2>5. Alone(Put(reg, word, TRUE), d, c)
    BY <1>0, <2>3, <2>4, StepKinds, Zenon
  <2>6. /\ Plain(R("LEMO_OUT_CO_SELECT")) /\ Plain(R("LEMO_OUT_TO_SELECT"))
        /\ Plain(R("KEY_TIMESTAMP_CLR"))
    BY Sis3316Names DEF Sis3316Plain
  <2>7. \A w : /\ Alone(Write(R("LEMO_OUT_CO_SELECT"), w, TRUE), d, c)
               /\ Alone(Write(R("LEMO_OUT_TO_SELECT"), w, TRUE), d, c)
               /\ Alone(Write(R("KEY_TIMESTAMP_CLR"), w, TRUE), d, c)
    BY <2>6, Sis3316Kinds, Zenon
  <2>8. Fits(Sis3316Outputs(c), d, c)
    BY <2>1, <2>5, <2>7, TuplesFit, Zenon
  <2>9. Sets(Sis3316Outputs(c), reg)
    <3>1. /\ 1 \in DOMAIN Sis3316Outputs(c)
          /\ Sis3316Outputs(c)[1] = Put(reg, word, TRUE)
      BY <2>1
    <3> QED
      BY <3>1 DEF Sets, Put, Writing
  <2> QED
    BY <2>8, <2>9
<1>3. Fits(Sis3316Arm, d, c)
  <2>1. Plain(R("KEY_DISARM_AND_ARM_BANK1"))
    BY Sis3316Names DEF Sis3316Plain
  <2> QED
    BY <2>1, OneFits, Sis3316Kinds, Zenon DEF Sis3316Arm
<1> QED
  BY <1>1, <1>2, <1>3

LEMMA Sis3316Fits ==
  ASSUME NEW c
  PROVE  /\ Fits(Sis3316LoadConfig(c), "Sis3316", c)
         /\ \A w \in Switches : w[1] = "Sis3316" => Sets(Sis3316LoadConfig(c), w[3])
<1> DEFINE d == "Sis3316"
<1>1. /\ Fits(Sis3316Find, d, c) /\ Fits(Sis3316Reset, d, c) /\ Fits(Sis3316Adcs, d, c)
      /\ Fits(NimInput(c), d, c) /\ Fits(Sis3316Clock(c), d, c) /\ Fits(AdcOutput({24}), d, c)
  BY Sis3316StartFits, Sis3316AdcsFit, Zenon
<1>2. /\ Fits(TapDelay, d, c) /\ Fits(ChannelHeaders, d, c) /\ Fits(DacOffsets(c), d, c)
      /\ Fits(BufferLengths(c), d, c) /\ Fits(PreTrigger, d, c) /\ Fits(DataFormat(c), d, c)
  BY Sis3316GroupsFit, Zenon
<1>3. /\ Fits(EventConfig(c), d, c) /\ Fits(Sis3316Outputs(c), d, c) /\ Fits(Sis3316Arm, d, c)
  BY Sis3316TriggerFits, Zenon
<1>4. \A x, y : Fits(x, d, c) /\ Fits(y, d, c) => Fits(x \o y, d, c)
  BY FitsJoined, Zenon
<1>5. ASSUME NEW x, NEW y, NEW reg, Fits(x, d, c), Fits(y, d, c), Sets(x, reg) \/ Sets(y, reg)
      PROVE  Sets(x \o y, reg)
  <2>1. Is(x) /\ Is(y)
    BY <1>5 DEF Fits, Formed
  <2> QED
    BY <1>5, <2>1, SetsJoined
<1> DEFINE nim == R("NIM_INPUT_CONTROL")
           acq == R("ACQUISITION_CONTROL")
           event == <<"CH1_4_EVENT_CONFIG", 0>>
           p1 == Sis3316Find \o Sis3316Reset
           p2 == p1 \o Sis3316Adcs
           p3 == p2 \o NimInput(c)
           p4 == p3 \o Sis3316Clock(c)
           p5 == p4 \o AdcOutput({24})
           p6 == p5 \o TapDelay
           p7 == p6 \o ChannelHeaders
           p8 == p7 \o DacOffsets(c)
           p9 == p8 \o BufferLengths(c)
           p10 == p9 \o PreTrigger
           p11 == p10 \o EventConfig(c)
           p12 == p11 \o DataFormat(c)
           p13 == p12 \o Sis3316Outputs(c)
           p14 == p13 \o Sis3316Arm
<1>6. Sis3316LoadConfig(c) = p14
  BY Zenon DEF Sis3316LoadConfig
<1>7. Sets(NimInput(c), nim) /\ Sets(EventConfig(c), event) /\ Sets(Sis3316Outputs(c), acq)
  BY Sis3316StartFits, Sis3316TriggerFits, Zenon
<1> HIDE DEF nim, acq, event
<1>8. Fits(p2, d, c)
  BY <1>1, <1>4, Zenon
<1> HIDE DEF p2
<1>9. Fits(p3, d, c) /\ Sets(p3, nim)
  BY <1>1, <1>4, <1>5, <1>7, <1>8, Zenon
<1> HIDE DEF p3
<1>10. Fits(p4, d, c) /\ Sets(p4, nim)
  BY <1>1, <1>4, <1>5, <1>9, Zenon
<1> HIDE DEF p4
<1>11. Fits(p5, d, c) /\ Sets(p5, nim)
  BY <1>1, <1>4, <1>5, <1>10, Zenon
<1> HIDE DEF p5
<1>12. Fits(p6, d, c) /\ Sets(p6, nim)
  BY <1>2, <1>4, <1>5, <1>11, Zenon
<1> HIDE DEF p6
<1>13. Fits(p7, d, c) /\ Sets(p7, nim)
  BY <1>2, <1>4, <1>5, <1>12, Zenon
<1> HIDE DEF p7
<1>14. Fits(p8, d, c) /\ Sets(p8, nim)
  BY <1>2, <1>4, <1>5, <1>13, Zenon
<1> HIDE DEF p8
<1>15. Fits(p9, d, c) /\ Sets(p9, nim)
  BY <1>2, <1>4, <1>5, <1>14, Zenon
<1> HIDE DEF p9
<1>16. Fits(p10, d, c) /\ Sets(p10, nim)
  BY <1>2, <1>4, <1>5, <1>15, Zenon
<1> HIDE DEF p10
<1>17. Fits(p11, d, c) /\ Sets(p11, nim) /\ Sets(p11, event)
  BY <1>3, <1>4, <1>5, <1>7, <1>16, Zenon
<1> HIDE DEF p11
<1>18. Fits(p12, d, c) /\ Sets(p12, nim) /\ Sets(p12, event)
  BY <1>2, <1>4, <1>5, <1>17, Zenon
<1> HIDE DEF p12
<1>19. Fits(p13, d, c) /\ Sets(p13, nim) /\ Sets(p13, event) /\ Sets(p13, acq)
  BY <1>3, <1>4, <1>5, <1>7, <1>18, Zenon
<1> HIDE DEF p13
<1>20. Fits(p14, d, c) /\ Sets(p14, nim) /\ Sets(p14, event) /\ Sets(p14, acq)
  BY <1>3, <1>4, <1>5, <1>19, Zenon
<1> HIDE DEF p14
<1>21. \A w \in Switches : w[1] = d => w[3] \in {nim, event, acq}
  BY DEF Switches, nim, event, acq
<1>22. \A w \in Switches : w[1] = d => Sets(p14, w[3])
  BY <1>20, <1>21
<1> QED
  BY <1>6, <1>20, <1>22, Zenon

\* The steps of the boards that count no errors.
LEMMA LoggedKinds ==
  ASSUME NEW d \in Devices \ Counting, NEW c
  PROVE  /\ \A reg, n : Alone(Read(reg, n), d, c)
         /\ \A reg, w, n : Plain(reg) => Alone(Write(reg, w, n), d, c) /\ Alone(Put(reg, w, n), d, c)
         /\ \A reg, w, n : reg # Adc12 /\ RightWord(reg, w, d, c) => Alone(Put(reg, w, n), d, c)
         /\ \A reg, n, l, t, m : Plain(reg) =>
              /\ Paired(Read(reg, n), PutMsg(reg, l, t, m), d, c)
              /\ Paired(Read(reg, n), WriteMsg(reg, l, t, m), d, c)
<1>1. d \in Devices /\ d \notin Counting
  OBVIOUS
<1>2. /\ \A reg, n : Alone(Read(reg, n), d, c)
      /\ \A reg, w, n : Plain(reg) => Alone(Write(reg, w, n), d, c) /\ Alone(Put(reg, w, n), d, c)
  BY <1>1, StepKinds, Zenon
<1>3. \A reg, w, n : reg # Adc12 /\ RightWord(reg, w, d, c) => Alone(Put(reg, w, n), d, c)
  BY <1>1, StepKinds, Zenon
<1>4. ASSUME NEW reg, NEW n, NEW l, NEW t, NEW m, Plain(reg)
      PROVE  /\ Paired(Read(reg, n), PutMsg(reg, l, t, m), d, c)
             /\ Paired(Read(reg, n), WriteMsg(reg, l, t, m), d, c)
  <2>1. reg \in {reg, Adc12}
    OBVIOUS
  <2> QED
    BY <1>1, <1>4, <2>1, StepKinds, Zenon
<1> QED
  BY <1>2, <1>3, <1>4, Zenon

\* A start of a unit, and a poll.
LEMMA UnitSteps ==
  ASSUME NEW d \in Devices \ Counting, NEW c, NEW u, NEW reg
  PROVE  /\ EachStep(Poll(u, reg), d, c)
         /\ \A w : Plain(reg) => EachStep(StartOf(u, reg, w), d, c)
<1>1. d \notin Counting /\ d # "reads"
  BY DEF Devices
<1>2. Right(Poll(u, reg), d, c) /\ Poll(u, reg).op # "ifRunning"
  BY DEF Right, Poll, Writing
<1>3. ASSUME NEW w, Plain(reg) PROVE EachStep(StartOf(u, reg, w), d, c)
  <2>1. StartOf(u, reg, w).op # "ifRunning" /\ StartOf(u, reg, w).reg = reg
    BY DEF StartOf
  <2>2. Right(StartOf(u, reg, w), d, c)
    BY <1>3, <2>1, Zenon DEF Right, Plain
  <2> QED
    BY <1>1, <2>1, <2>2, Zenon DEF EachStep
<1> QED
  BY <1>1, <1>2, <1>3, Zenon DEF EachStep

\* Each value of a DAC is waited for before the next.
LEMMA DacFits ==
  ASSUME NEW reg, NEW channel, NEW value, NEW data, NEW c, Plain(data), Plain(reg)
  PROVE  Fits(Dac(reg, channel, value, data), "Sis3350", c)
<1> DEFINE d == "Sis3350"
           p == Dac(reg, channel, value, data)
<1>0. d \in Devices \ Counting
  BY DEF Devices, Counting
<1>1. /\ p \in Seq({p[1], p[2], p[3], p[4], p[5]}) /\ Len(p) = 5
      /\ p[1] = Put(data, value, FALSE)
      /\ p[2] = StartOf(reg, reg, channel \cup {0}) /\ p[3] = Poll(reg, reg)
      /\ p[4] = StartOf(reg, reg, channel \cup {1}) /\ p[5] = Poll(reg, reg)
  BY DEF Dac
<1> HIDE DEF p
<1>2. Is(p) /\ DOMAIN p = 1..5
  BY <1>1, IsOfSeq
<1>3. /\ p[1].op = "put" /\ p[1].reg = data /\ p[2].op = "start" /\ p[2].reg = reg
      /\ p[2].unit = reg /\ p[3].op = "poll" /\ p[3].unit = reg
      /\ p[4].op = "start" /\ p[4].unit = reg /\ p[4].reg = reg
      /\ p[5].op = "poll" /\ p[5].unit = reg
  BY <1>1 DEF Put, StartOf, Poll
<1>4. \A i \in DOMAIN p : i = 1 \/ i = 2 \/ i = 3 \/ i = 4 \/ i = 5
  BY <1>2
<1>5. /\ EachStep(p[1], d, c) /\ EachStep(p[2], d, c) /\ EachStep(p[3], d, c)
      /\ EachStep(p[4], d, c) /\ EachStep(p[5], d, c)
  <2>1. EachStep(p[1], d, c)
    <3>1. Alone(Put(data, value, FALSE), d, c)
      BY <1>0, LoggedKinds, Zenon
    <3> QED
      BY <1>1, <3>1, Zenon DEF Alone
  <2>2. EachStep(Poll(reg, reg), d, c) /\ \A w : EachStep(StartOf(reg, reg, w), d, c)
    BY <1>0, UnitSteps, Zenon
  <2> QED
    BY <1>1, <2>1, <2>2, Zenon
<1>6. \A i \in DOMAIN p : EachStep(p[i], d, c)
  BY <1>4, <1>5, Zenon
<1>7. \A i \in DOMAIN p : p[i].op \in {"put", "start", "poll"} /\ (p[i].op # "poll" => p[i].reg # Adc12)
  <2>1. data # Adc12 /\ reg # Adc12
    BY DEF Plain
  <2> QED
    BY <1>3, <1>4, <2>1
<1>8. Formed(p)
  BY <1>2, <1>7 DEF Formed, Kinds, OfMsg, Writing
<1>9. PolledAfter(p)
  BY <1>2, <1>3 DEF PolledAfter, PollAt
<1>10. d # "Caen1742"
  OBVIOUS
<1> QED
  BY <1>6, <1>8, <1>9, <1>10, Zenon DEF Fits, p

Sis3350Plain == {
  "0x400", "0x1c", "0x34", "0x38", "0x50", "0x54", "0x01000020", "0x01000024",
  "0x02000050", "0x02000054", "0x02000048", "0x410" }

LEMMA Sis3350Names ==
  \A name \in Sis3350Plain : Plain(R(name)) /\ \A x : Plain(<<name, x>>)
<1>1. \A name \in Sis3350Plain : name \notin Named \cup {"EVENT_CONFIG_ADC12"}
  BY DEF Sis3350Plain, Named
<1> QED
  BY <1>1, PlainNames

LEMMA Sis3350ControlFits ==
  ASSUME NEW c
  PROVE  /\ Fits(Sis3350Control(c), "Sis3350", c)
         /\ Sets(Sis3350Control(c), R("0x0")) /\ Sets(Sis3350Control(c), R("0x10"))
<1> DEFINE d == "Sis3350"
           p == Sis3350Control(c)
           status == (IF "invert_ext_lemo" \in c.opts THEN {4} ELSE {})
                       \cup (IF "user_led_on" \in c.opts THEN {0} ELSE {})
           acquisition == {0} \cup (IF "enable_ext_lemo" \in c.opts THEN {8} ELSE {})
           kept == {0, 1, 2, 5, 6, 8, 9, 12, 13}
           low == R("0x0")
           high == R("0x10")
           v == JK(status) \cap {0, 4, 16, 20}
           w == JK(acquisition) \cap (kept \cup Up(kept, 16))
<1>0. d \in Devices \ Counting
  BY DEF Devices, Counting
<1>1. p = << Put(low, v, FALSE), Read(low, FALSE), Put(high, w, FALSE), Read(high, FALSE) >>
  BY Zenon DEF Sis3350Control
<1>2. /\ 0 \in v <=> "user_led_on" \in c.opts
      /\ 4 \in v <=> "invert_ext_lemo" \in c.opts
      /\ 16 \in v <=> "user_led_on" \notin c.opts
      /\ 20 \in v <=> "invert_ext_lemo" \notin c.opts
  <2>1. /\ 0 \in status <=> "user_led_on" \in c.opts
        /\ 4 \in status <=> "invert_ext_lemo" \in c.opts
        /\ 16 \notin status /\ 20 \notin status
    OBVIOUS
  <2> HIDE DEF status
  <2>2. /\ 0 \in JK(status) <=> 0 \in status
        /\ 0 + 16 \in JK(status) <=> (0 + 16 \in status \/ 0 \notin status)
    BY JKBits
  <2>3. /\ 4 \in JK(status) <=> 4 \in status
        /\ 4 + 16 \in JK(status) <=> (4 + 16 \in status \/ 4 \notin status)
    BY JKBits
  <2>4. 0 + 16 = 16 /\ 4 + 16 = 20
    OBVIOUS
  <2> QED
    BY <2>1, <2>2, <2>3, <2>4
<1>3. /\ 8 \in w <=> "enable_ext_lemo" \in c.opts
      /\ 24 \in w <=> "enable_ext_lemo" \notin c.opts
  <2>1. /\ 8 \in acquisition <=> "enable_ext_lemo" \in c.opts
        /\ 24 \notin acquisition
    OBVIOUS
  <2> HIDE DEF acquisition
  <2>2. /\ 8 \in JK(acquisition) <=> 8 \in acquisition
        /\ 8 + 16 \in JK(acquisition) <=> (8 + 16 \in acquisition \/ 8 \notin acquisition)
    BY JKBits
  <2>3. 8 \in kept /\ 24 \in Up(kept, 16) /\ 8 + 16 = 24
    BY DEF Up
  <2> QED
    BY <2>1, <2>2, <2>3
<1> HIDE DEF v, w, p
<1>4. RightWord(low, v, d, c)
  <2>1. 0 + 16 = 16 /\ 4 + 16 = 20
    OBVIOUS
  <2> QED
    BY <1>2, <2>1, SwitchesOf DEF RightWord
<1>5. RightWord(high, w, d, c)
  <2>1. 8 + 16 = 24
    OBVIOUS
  <2> QED
    BY <1>3, <2>1, SwitchesOf DEF RightWord
<1>6. low # Adc12 /\ high # Adc12
  BY DEF R, Adc12
<1>7. Alone(Put(low, v, FALSE), d, c) /\ Alone(Put(high, w, FALSE), d, c)
  BY <1>0, <1>4, <1>5, <1>6, LoggedKinds, Zenon
<1>8. Alone(Read(low, FALSE), d, c) /\ Alone(Read(high, FALSE), d, c)
  BY <1>0, LoggedKinds, Zenon
<1>9. Fits(p, d, c)
  BY <1>1, <1>7, <1>8, TuplesFit, Zenon
<1>10. Sets(p, low) /\ Sets(p, high)
  <2>1. /\ 1 \in DOMAIN p /\ p[1] = Put(low, v, FALSE)
        /\ 3 \in DOMAIN p /\ p[3] = Put(high, w, FALSE)
    BY <1>1
  <2> QED
    BY <2>1 DEF Sets, Put, Writing
<1> QED
  BY <1>9, <1>10 DEF p

LEMMA Sis3350PiecesFit ==
  ASSUME NEW c
  PROVE  /\ Fits(Sis3350Find, "Sis3350", c) /\ Fits(Sis3350Clock, "Sis3350", c)
         /\ Fits(Sis3350Threshold, "Sis3350", c) /\ Fits(Sis3350Buffer(c), "Sis3350", c)
         /\ Fits(Sis3350Offsets, "Sis3350", c) /\ Fits(Sis3350Gains, "Sis3350", c)
         /\ Fits(Sis3350Arm, "Sis3350", c)
<1> DEFINE d == "Sis3350"
<1>0. d \in Devices \ Counting
  BY DEF Devices, Counting
<1>a. /\ Plain(R("0x400")) /\ Plain(R("0x1c")) /\ Plain(R("0x34")) /\ Plain(R("0x38"))
      /\ Plain(R("0x50")) /\ Plain(R("0x54")) /\ Plain(R("0x01000020"))
      /\ Plain(R("0x01000024")) /\ Plain(R("0x410"))
      /\ \A x : /\ Plain(<<"0x02000050", x>>) /\ Plain(<<"0x02000054", x>>)
                /\ Plain(<<"0x02000048", x>>)
  BY Sis3350Names DEF Sis3350Plain
<1>b. /\ \A reg : Alone(Read(reg, FALSE), d, c)
      /\ \A reg, w : Plain(reg) => Alone(Write(reg, w, FALSE), d, c) /\ Alone(Put(reg, w, FALSE), d, c)
  BY <1>0, LoggedKinds, Zenon
<1>1. Fits(Sis3350Find, d, c)
  BY <1>a, <1>b, TuplesFit, Zenon DEF Sis3350Find
<1>2. Fits(Sis3350Clock, d, c)
  <2> DEFINE v == Bits(20)
  <2>1. Sis3350Clock = << Put(R("0x1c"), v, FALSE), Put(R("0x34"), {}, FALSE),
                          Put(R("0x38"), {0}, FALSE) >>
    BY Zenon DEF Sis3350Clock
  <2> HIDE DEF v
  <2> QED
    BY <1>a, <1>b, <2>1, TuplesFit, Zenon
<1>3. Fits(Sis3350Threshold, d, c)
  <2> DEFINE v == Bits(35000)
  <2>1. Sis3350Threshold = Dac(R("0x50"), {4}, v, R("0x54")) \o << Read(R("0x70"), FALSE) >>
    BY SMT DEF Sis3350Threshold
  <2> HIDE DEF v
  <2>2. Fits(Dac(R("0x50"), {4}, v, R("0x54")), d, c)
    BY <1>a, DacFits
  <2>3. Fits(<< Read(R("0x70"), FALSE) >>, d, c)
    BY <1>b, OneFits, Zenon
  <2> QED
    BY <2>1, <2>2, <2>3, FitsJoined, Zenon
<1>4. Fits(Sis3350Buffer(c), d, c)
  BY <1>a, <1>b, TwoFit, Zenon DEF Sis3350Buffer
<1>5. Fits(Sis3350Offsets, d, c)
  <2> DEFINE v == Bits((3300050 + (337777 * Numbers["channel_offset"]) \div 1000) \div 100)
             one(ch) == Dac(<<"0x02000050", ch \div 2>>, IF ch % 2 = 1 THEN {4} ELSE {},
                            v, <<"0x02000054", ch \div 2>>)
  <2>1. Sis3350Offsets = EachGroup([ch \in Groups |-> one(ch)])
    BY SMT DEF Sis3350Offsets
  <2> HIDE DEF v
  <2>2. \A ch \in Groups : Fits(one(ch), d, c)
    BY <1>a, DacFits, Zenon
  <2> HIDE DEF one
  <2> QED
    BY <2>1, <2>2, FitsEach
<1>6. Fits(Sis3350Gains, d, c)
  <2> DEFINE one(ch) == << Put(<<"0x02000048", ch>>, Bits(Numbers["channel_gain"]), FALSE) >>
  <2>1. Sis3350Gains = EachGroup([ch \in Groups |-> one(ch)])
    BY DEF Sis3350Gains
  <2>2. \A ch \in Groups : Fits(one(ch), d, c)
    BY <1>a, <1>b, OneFits, Zenon
  <2> HIDE DEF one
  <2> QED
    BY <2>1, <2>2, FitsEach
<1>7. Fits(Sis3350Arm, d, c)
  BY <1>a, <1>b, OneFits, Zenon DEF Sis3350Arm
<1> QED
  BY <1>1, <1>2, <1>3, <1>4, <1>5, <1>6, <1>7, Zenon

LEMMA Sis3350Fits ==
  ASSUME NEW c
  PROVE  /\ Fits(Sis3350LoadConfig(c), "Sis3350", c)
         /\ \A w \in Switches : w[1] = "Sis3350" => Sets(Sis3350LoadConfig(c), w[3])
<1> DEFINE d == "Sis3350"
           low == R("0x0")
           high == R("0x10")
           p1 == Sis3350Find \o Sis3350Control(c)
           p2 == p1 \o Sis3350Clock
           p3 == p2 \o Sis3350Threshold
           p4 == p3 \o Sis3350Buffer(c)
           p5 == p4 \o Sis3350Offsets
           p6 == p5 \o Sis3350Gains
           p7 == p6 \o Sis3350Arm
<1>1. Sis3350LoadConfig(c) = p7
  BY Zenon DEF Sis3350LoadConfig
<1>2. /\ Fits(Sis3350Find, d, c) /\ Fits(Sis3350Clock, d, c) /\ Fits(Sis3350Threshold, d, c)
      /\ Fits(Sis3350Buffer(c), d, c) /\ Fits(Sis3350Offsets, d, c)
      /\ Fits(Sis3350Gains, d, c) /\ Fits(Sis3350Arm, d, c)
  BY Sis3350PiecesFit, Zenon
<1>3. /\ Fits(Sis3350Control(c), d, c)
      /\ Sets(Sis3350Control(c), low) /\ Sets(Sis3350Control(c), high)
  BY Sis3350ControlFits, Zenon
<1>4. \A x, y : Fits(x, d, c) /\ Fits(y, d, c) => Fits(x \o y, d, c)
  BY FitsJoined, Zenon
<1>5. ASSUME NEW x, NEW y, NEW reg, Fits(x, d, c), Fits(y, d, c), Sets(x, reg) \/ Sets(y, reg)
      PROVE  Sets(x \o y, reg)
  <2>1. Is(x) /\ Is(y)
    BY <1>5 DEF Fits, Formed
  <2> QED
    BY <1>5, <2>1, SetsJoined
<1> HIDE DEF low, high
<1>6. Fits(p1, d, c) /\ Sets(p1, low) /\ Sets(p1, high)
  BY <1>2, <1>3, <1>4, <1>5, Zenon
<1> HIDE DEF p1
<1>7. Fits(p2, d, c) /\ Sets(p2, low) /\ Sets(p2, high)
  BY <1>2, <1>4, <1>5, <1>6, Zenon
<1> HIDE DEF p2
<1>8. Fits(p3, d, c) /\ Sets(p3, low) /\ Sets(p3, high)
  BY <1>2, <1>4, <1>5, <1>7, Zenon
<1> HIDE DEF p3
<1>9. Fits(p4, d, c) /\ Sets(p4, low) /\ Sets(p4, high)
  BY <1>2, <1>4, <1>5, <1>8, Zenon
<1> HIDE DEF p4
<1>10. Fits(p5, d, c) /\ Sets(p5, low) /\ Sets(p5, high)
  BY <1>2, <1>4, <1>5, <1>9, Zenon
<1> HIDE DEF p5
<1>11. Fits(p6, d, c) /\ Sets(p6, low) /\ Sets(p6, high)
  BY <1>2, <1>4, <1>5, <1>10, Zenon
<1> HIDE DEF p6
<1>12. Fits(p7, d, c) /\ Sets(p7, low) /\ Sets(p7, high)
  BY <1>2, <1>4, <1>5, <1>11, Zenon
<1> HIDE DEF p7
<1>13. \A w \in Switches : w[1] = d => w[3] \in {low, high}
  BY DEF Switches, low, high
<1>14. \A w \in Switches : w[1] = d => Sets(p7, w[3])
  BY <1>12, <1>13
<1> QED
  BY <1>1, <1>12, <1>14, Zenon

(***************************************************************************)
(* The Caen1742, which has no switches, and starts units and waits.        *)
(***************************************************************************)
LEMMA NoSwitches == ASSUME NEW s, NEW c PROVE Right(s, "Caen1742", c)
BY DEF Right, Switches

CaenPlain == {
  "0xef24", "0x8100", "0x8120", "0x8000", "0x811c", "0x10d4", "0x10dc", "0x8020", "0x80d8",
  "0x8114", "0x1098", "0x10cc", "0x810c", "0xef1c", "0xef00", "0xef28" }

LEMMA CaenNames ==
  \A name \in CaenPlain : Plain(R(name)) /\ \A x : Plain(Group(name, x))
<1>1. \A name \in CaenPlain : name \notin Named \cup {"EVENT_CONFIG_ADC12"}
  BY DEF CaenPlain, Named
<1> QED
  BY <1>1, PlainNames DEF Group

\* What is read first; "reads" says that nothing is written.
LEMMA CaenFindFits ==
  ASSUME NEW d \in {"Caen1742", "reads"}, NEW c
  PROVE  Fits(CaenFind, d, c)
<1>1. ASSUME NEW reg PROVE Alone(Read(reg, FALSE), d, c)
  <2>1. d \notin Counting
    BY DEF Counting
  <2>2. Read(reg, FALSE).op = "read"
    BY DEF Read
  <2>3. Right(Read(reg, FALSE), d, c)
    BY <2>2 DEF Right, Writing
  <2> QED
    BY <2>1, <2>2, <2>3 DEF Alone, AloneStep, EachStep
<1> DEFINE p == << Read(R("0xf034"), FALSE), Read(R("0xf080"), FALSE), Read(R("0xf084"), FALSE),
                   Read(R("0xf040"), FALSE), Read(R("0xf044"), FALSE), Read(R("0xf048"), FALSE),
                   Read(R("0xf04c"), FALSE) >>
           two(gr) == << Read(Group("0x1088", gr), FALSE), Read(Group("0x10a0", gr), FALSE) >>
<1>2. CaenFind = p \o EachGroup([gr \in Groups |-> two(gr)])
  BY Zenon DEF CaenFind
<1>3. /\ p \in Seq({p[1], p[2], p[3], p[4], p[5], p[6], p[7]}) /\ Len(p) = 7
  OBVIOUS
<1>4. /\ Alone(p[1], d, c) /\ Alone(p[2], d, c) /\ Alone(p[3], d, c) /\ Alone(p[4], d, c)
      /\ Alone(p[5], d, c) /\ Alone(p[6], d, c) /\ Alone(p[7], d, c)
  <2>1. /\ p[1] = Read(R("0xf034"), FALSE) /\ p[2] = Read(R("0xf080"), FALSE)
        /\ p[3] = Read(R("0xf084"), FALSE) /\ p[4] = Read(R("0xf040"), FALSE)
        /\ p[5] = Read(R("0xf044"), FALSE) /\ p[6] = Read(R("0xf048"), FALSE)
        /\ p[7] = Read(R("0xf04c"), FALSE)
    BY Zenon
  <2> HIDE DEF p
  <2> QED
    BY <1>1, <2>1, Zenon
<1> HIDE DEF p
<1>5. \A i \in 1..Len(p) : AloneStep(p[i]) /\ EachStep(p[i], d, c)
  <2>1. \A i \in 1..Len(p) : i = 1 \/ i = 2 \/ i = 3 \/ i = 4 \/ i = 5 \/ i = 6 \/ i = 7
    BY <1>3
  <2> QED
    BY <1>4, <2>1, Zenon DEF Alone
<1>6. Fits(p, d, c)
  BY <1>3, <1>5, StepsFit
<1>7. \A gr \in Groups : Fits(two(gr), d, c)
  BY <1>1, TwoFit, Zenon
<1> HIDE DEF two
<1>8. Fits(EachGroup([gr \in Groups |-> two(gr)]), d, c)
  BY <1>7, FitsEach
<1> QED
  BY <1>2, <1>6, <1>8, FitsJoined, Zenon

LEMMA CaenPiecesFit ==
  ASSUME NEW c
  PROVE  /\ Fits(CaenGroups, "Caen1742", c) /\ Fits(CaenTrace, "Caen1742", c)
         /\ Fits(CaenFlash(c), "Caen1742", c) /\ Fits(CaenTriggers, "Caen1742", c)
         /\ Fits(CaenRun, "Caen1742", c)
<1> DEFINE d == "Caen1742"
<1>0. d \in Devices \ Counting
  BY DEF Devices, Counting
<1>1. /\ Plain(R("0x8120")) /\ Plain(R("0x8000")) /\ Plain(R("0x811c")) /\ Plain(R("0x8020"))
      /\ Plain(R("0x80d8")) /\ Plain(R("0x8114")) /\ Plain(R("0x810c")) /\ Plain(R("0xef1c"))
      /\ Plain(R("0xef00")) /\ Plain(R("0x8100")) /\ Plain(R("0xef28"))
  BY CaenNames DEF CaenPlain
<1>2. \A reg, clear, set : Plain(reg) =>
        Fits(Change(reg, clear, set), d, c) /\ Fits(Assign(reg, clear, set), d, c)
  BY <1>0, PairFits, LoggedKinds, Zenon DEF Change, Assign
<1>3. /\ \A reg : Alone(Read(reg, FALSE), d, c)
      /\ \A reg, w : Plain(reg) => Alone(Write(reg, w, FALSE), d, c)
  BY <1>0, LoggedKinds, Zenon
<1>4. Fits(CaenGroups, d, c)
  <2>1. /\ Fits(Change(R("0x8120"), {}, 0..3), d, c)
        /\ Fits(Change(R("0x8000"), {}, {6, 8, 11}), d, c)
        /\ Fits(Change(R("0x811c"), {}, 2..5), d, c)
    BY <1>1, <1>2, Zenon
  <2> QED
    BY <2>1, FitsJoined, Zenon DEF CaenGroups
<1>5. Fits(CaenTrace, d, c)
  <2> DEFINE v == Bits(SamplingSetting(Numbers["sampling_rate"]))
             w == Bits((1023 * Numbers["pretrigger_delay"]) \div 100)
  <2>1. CaenTrace = Change(R("0x8020"), {0, 1}, {}) \o << Write(R("0x80d8"), v, FALSE) >>
                      \o Assign(R("0x8114"), 0..8, w)
    BY DEF CaenTrace
  <2> HIDE DEF v, w
  <2>2. /\ Fits(Change(R("0x8020"), {0, 1}, {}), d, c)
        /\ Fits(Assign(R("0x8114"), 0..8, w), d, c)
    BY <1>1, <1>2
  <2>3. Fits(<< Write(R("0x80d8"), v, FALSE) >>, d, c)
    BY <1>1, <1>3, OneFits, Zenon
  <2> QED
    BY <2>1, <2>2, <2>3, FitsJoined, Zenon
<1>6. Fits(CaenTriggers, d, c)
  <2> DEFINE a == Change(R("0x810c"), {}, {30, 31})
             b == << Read(R("0xef1c"), FALSE), Write(R("0xef1c"), {0}, FALSE),
                     Read(R("0xef00"), FALSE), Write(R("0xef00"), {4}, FALSE) >>
  <2>1. Fits(a, d, c)
    BY <1>1, <1>2, Zenon
  <2>2. Fits(b, d, c)
    BY <1>1, <1>3, TuplesFit, Zenon
  <2>3. CaenTriggers = a \o b
    BY Zenon DEF CaenTriggers
  <2> HIDE DEF a, b
  <2> QED
    BY <2>1, <2>2, <2>3, FitsJoined, Zenon
<1>7. Fits(CaenRun, d, c)
  <2> DEFINE p == << Poll(Board, R("0x8104")) >>
             a == Assign(R("0x8100"), {}, {2})
             b == << Write(R("0xef28"), {}, FALSE) >>
  <2>1. Fits(p, d, c)
    <3>1. p \in Seq({p[1]}) /\ Len(p) = 1 /\ p[1] = Poll(Board, R("0x8104"))
      OBVIOUS
    <3> HIDE DEF p
    <3>2. Is(p) /\ DOMAIN p = 1..1
      BY <3>1, IsOfSeq
    <3>3. p[1].op = "poll" /\ EachStep(p[1], d, c)
      <4>1. Poll(Board, R("0x8104")).op = "poll"
        BY DEF Poll
      <4> QED
        BY <1>0, <3>1, <4>1, UnitSteps, Zenon
    <3>4. \A i \in DOMAIN p : p[i].op = "poll" /\ EachStep(p[i], d, c)
      <4>1. \A i \in DOMAIN p : i = 1
        BY <3>2
      <4> QED
        BY <3>3, <4>1, Zenon
    <3>5. Formed(p)
      BY <3>2, <3>4 DEF Formed, Kinds, OfMsg, Writing
    <3>6. PolledBefore(p)
      BY <3>4 DEF PolledBefore
    <3>7. d # "Sis3350"
      OBVIOUS
    <3> QED
      BY <3>4, <3>5, <3>6, <3>7, Zenon DEF Fits
  <2>2. Fits(a, d, c)
    BY <1>1, <1>2, Zenon
  <2>3. Fits(b, d, c)
    BY <1>1, <1>3, OneFits, Zenon
  <2>4. CaenRun = p \o a \o b
    BY Zenon DEF CaenRun
  <2> HIDE DEF p, a, b
  <2> QED
    BY <2>1, <2>2, <2>3, <2>4, FitsJoined, Zenon
<1>8. Fits(CaenFlash(c), d, c)
  <2> DEFINE one(gr) == << Write(Group("0x10cc", gr), {}, FALSE) >>
  <2>1. \A gr : Plain(Group("0x10cc", gr))
    BY CaenNames DEF CaenPlain
  <2>2. \A gr \in Groups : Fits(one(gr), d, c)
    BY <1>3, <2>1, OneFits, Zenon
  <2>3. Fits(<<>>, d, c)
    BY NoneFits
  <2>4. CaenFlash(c) = IF "write_correction_data_csv" \in c.opts
                       THEN EachGroup([gr \in Groups |-> one(gr)]) ELSE <<>>
    BY Zenon DEF CaenFlash
  <2> HIDE DEF one
  <2>5. Fits(EachGroup([gr \in Groups |-> one(gr)]), d, c)
    BY <2>2, FitsEach
  <2> QED
    BY <2>3, <2>4, <2>5, Zenon
<1> QED
  BY <1>4, <1>5, <1>6, <1>7, <1>8

LEMMA CaenThresholdsFit ==
  ASSUME NEW c
  PROVE  Fits(CaenThresholds, "Caen1742", c) /\ Fits(CaenOffsets, "Caen1742", c)
<1> DEFINE d == "Caen1742"
<1>0. d \in Devices \ Counting
  BY DEF Devices, Counting
<1>1. ASSUME NEW u, NEW reg, NEW v, NEW s, Plain(reg)
      PROVE  Fits(<< Poll(u, s), StartOf(u, reg, v) >>, d, c)
  <2> DEFINE p == << Poll(u, s), StartOf(u, reg, v) >>
  <2>1. /\ p \in Seq({p[1], p[2]}) /\ Len(p) = 2
        /\ p[1] = Poll(u, s) /\ p[2] = StartOf(u, reg, v)
    OBVIOUS
  <2> HIDE DEF p
  <2>2. Is(p) /\ DOMAIN p = 1..2
    BY <2>1, IsOfSeq
  <2>3. /\ p[1].op = "poll" /\ p[1].unit = u /\ p[2].op = "start" /\ p[2].unit = u
        /\ p[2].reg = reg
    BY <2>1 DEF Poll, StartOf
  <2>4. EachStep(p[1], d, c) /\ EachStep(p[2], d, c)
    BY <1>0, <1>1, <2>1, UnitSteps, Zenon
  <2>5. \A i \in DOMAIN p : i = 1 \/ i = 2
    BY <2>2
  <2>6. \A i \in DOMAIN p : EachStep(p[i], d, c)
    BY <2>4, <2>5, Zenon
  <2>7. \A i \in DOMAIN p : p[i].op \in {"poll", "start"} /\ (p[i].op = "start" => p[i].reg # Adc12)
    <3>1. reg # Adc12
      BY <1>1 DEF Plain
    <3> QED
      BY <2>3, <2>5, <3>1
  <2>8. Formed(p)
    BY <2>2, <2>7 DEF Formed, Kinds, OfMsg, Writing
  <2>9. PolledBefore(p)
    BY <2>2, <2>3 DEF PolledBefore, PollAt
  <2>10. d # "Sis3350"
    OBVIOUS
  <2> QED
    BY <2>6, <2>8, <2>9, <2>10, Zenon DEF Fits, p
<1>a. \A gr : /\ Plain(Group("0x10d4", gr)) /\ Plain(Group("0x10dc", gr))
              /\ Plain(Group("0x1098", gr))
  BY CaenNames DEF CaenPlain
<1>2. Fits(CaenThresholds, d, c)
  <2> DEFINE v == Bits(20934)
             four(i) == LET gr == 2 * (i - 1) IN
               << Poll(Group("spi", gr), Group("0x1088", gr)),
                  StartOf(Group("spi", gr), Group("0x10d4", gr), v),
                  Poll(Group("spi", gr), Group("0x1088", gr)),
                  StartOf(Group("spi", gr), Group("0x10dc", gr), {15}) >>
             s == [i \in 1..2 |-> four(i)]
  <2>1. CaenThresholds = FlattenSeq(s) \o << Read(R("0x8120"), FALSE) >>
    BY SMT DEF CaenThresholds
  <2> HIDE DEF v
  <2>2. ASSUME NEW i \in 1..2 PROVE Fits(four(i), d, c)
    <3> DEFINE gr == 2 * (i - 1)
               w == Poll(Group("spi", gr), Group("0x1088", gr))
               x == StartOf(Group("spi", gr), Group("0x10d4", gr), v)
               z == StartOf(Group("spi", gr), Group("0x10dc", gr), {15})
    <3>1. Fits(<<w, x>>, d, c) /\ Fits(<<w, z>>, d, c)
      BY <1>1, <1>a, Zenon
    <3>2. four(i) = <<w, x, w, z>>
      BY Zenon
    <3> HIDE DEF w, x, z, four
    <3>3. Fits(<<w, x>> \o <<w, z>>, d, c)
      BY <3>1, FitsJoined, Zenon
    <3>4. <<w, x, w, z>> = <<w, x>> \o <<w, z>>
      OBVIOUS
    <3> QED
      BY <3>2, <3>3, <3>4, Zenon
  <2> HIDE DEF four
  <2>3. s = [i \in 1..2 |-> s[i]] /\ \A i \in 1..2 : s[i] = four(i)
    OBVIOUS
  <2> HIDE DEF s
  <2>4. Fits(FlattenSeq([i \in 1..2 |-> s[i]]), d, c)
    <3>1. \A i \in 1..2 : Fits(s[i], d, c)
      BY <2>2, <2>3, Zenon
    <3>2. 2 \in Nat
      OBVIOUS
    <3> QED
      BY <3>1, <3>2, FitsFlat, Zenon
  <2>5. Fits(<< Read(R("0x8120"), FALSE) >>, d, c)
    BY <1>0, OneFits, LoggedKinds, Zenon
  <2> QED
    BY <2>1, <2>3, <2>4, <2>5, FitsJoined, Zenon
<1>3. Fits(CaenOffsets, d, c)
  <2> DEFINE v == Bits(Dac16(Numbers["channel_offset"]))
             two(gr) == << Poll(Group("spi", gr), Group("0x1088", gr)),
                           StartOf(Group("spi", gr), Group("0x1098", gr), v) >>
  <2>1. CaenOffsets = EachGroup([gr \in Groups |-> two(gr)])
    BY Zenon DEF CaenOffsets
  <2>2. \A gr \in Groups : Fits(two(gr), d, c)
    BY <1>1, <1>a, Zenon
  <2> HIDE DEF two
  <2> QED
    BY <2>1, <2>2, FitsEach
<1> QED
  BY <1>2, <1>3

(***************************************************************************)
(* The four programs.                                                      *)
(***************************************************************************)
StartAt(p, i, u) == i \in DOMAIN p /\ p[i].op = "start" /\ p[i].unit = u

\* Between two starts of a unit it is waited for.
Waits(p) ==
  \A i, j \in DOMAIN p :
    i < j /\ p[i].op = "start" /\ StartAt(p, j, p[i].unit)
      => \E k \in (i + 1)..(j - 1) : PollAt(p, k, p[i].unit)

LEMMA PolledWaits ==
  ASSUME NEW p, Is(p), PolledAfter(p) \/ PolledBefore(p)
  PROVE  Waits(p)
<1>1. DOMAIN p = 1..Len(p) /\ Len(p) \in Nat
  BY IsOfSeq DEF Is
<1> SUFFICES ASSUME NEW i \in DOMAIN p, NEW j \in DOMAIN p, i < j, p[i].op = "start",
                    StartAt(p, j, p[i].unit)
             PROVE  \E k \in (i + 1)..(j - 1) : PollAt(p, k, p[i].unit)
  BY DEF Waits
<1>2. i \in Nat /\ j \in Nat
  BY <1>1
<1>3. \A k : PollAt(p, k, p[i].unit) => k # i /\ k # j
  <2>1. p[j].op = "start"
    BY DEF StartAt
  <2> QED
    BY <2>1 DEF PollAt
<1>4. CASE PolledAfter(p)
  <2>1. PollAt(p, i + 1, p[i].unit)
    BY <1>4 DEF PolledAfter
  <2>2. i + 1 # j
    BY <1>3, <2>1
  <2>3. i + 1 \in (i + 1)..(j - 1)
    BY <1>2, <2>2
  <2> QED
    BY <2>1, <2>3
<1>5. CASE PolledBefore(p)
  <2>1. PollAt(p, j - 1, p[i].unit)
    BY <1>5 DEF PolledBefore, StartAt
  <2>2. j - 1 # i
    BY <1>3, <2>1
  <2>3. j - 1 \in (i + 1)..(j - 1)
    BY <1>2, <2>2
  <2> QED
    BY <2>1, <2>3
<1> QED
  BY <1>4, <1>5

\* What is skipped reads a register, which no step has written before, and clears
\* its bit 2.
Jumps(p) ==
  \A i \in DOMAIN p : p[i].op = "ifRunning" =>
    /\ p[i].n = 2 /\ i + 3 \in DOMAIN p
    /\ p[i + 1].op = "read" /\ p[i + 1].reg = R("0x8100")
    /\ p[i + 2].op = "putMsg" /\ p[i + 2].reg = R("0x8100")
    /\ p[i + 2].clear = {2} /\ p[i + 2].set = {}
    /\ \A j \in 1..i : p[j].op \in Writing => p[j].reg # R("0x8100")

\* What the steps rely on.
Good(p, d, c) ==
  /\ Formed(p) /\ Waits(p) /\ Jumps(p) /\ 1 \in DOMAIN p
  /\ \A i \in DOMAIN p :
       /\ d \in Counting => CountedStep(p[i]) /\ p[i].op # "start" /\ p[i].op # "poll"
       /\ Right(p[i], d, c)
  /\ \A w \in Switches : w[1] = d => Sets(p, w[3])

LEMMA FitsGood ==
  ASSUME NEW p, NEW d \in {"Sis3302", "Sis3316", "Sis3350"}, NEW c, Fits(p, d, c),
         \A w \in Switches : w[1] = d => Sets(p, w[3])
  PROVE  Good(p, d, c)
<1>1. Formed(p) /\ Is(p) /\ DOMAIN p = 1..Len(p) /\ Len(p) \in Nat
  <2>1. Formed(p) /\ Is(p)
    BY DEF Fits, Formed
  <2> QED
    BY <2>1, IsOfSeq DEF Is
<1>2. 1 \in DOMAIN p
  <2>1. \E reg : Sets(p, reg)
    <3>1. \E w \in Switches : w[1] = d
      BY DEF Switches
    <3> QED
      BY <3>1
  <2>2. DOMAIN p # {}
    BY <2>1 DEF Sets
  <2> QED
    BY <1>1, <2>2
<1>3. \A i \in DOMAIN p : EachStep(p[i], d, c)
  BY DEF Fits
<1>4. Jumps(p)
  <2>1. \A i \in DOMAIN p : p[i].op # "ifRunning"
    BY <1>3 DEF EachStep
  <2> QED
    BY <2>1, Zenon DEF Jumps
<1>5. Waits(p)
  <2>1. CASE d = "Sis3350"
    BY <1>1, <2>1, PolledWaits DEF Fits
  <2>2. CASE d # "Sis3350"
    <3>1. d \in Counting
      BY <2>2 DEF Counting
    <3>2. \A i \in DOMAIN p : p[i].op # "start"
      BY <1>3, <3>1 DEF EachStep
    <3> QED
      BY <3>2, Zenon DEF Waits
  <2> QED
    BY <2>1, <2>2
<1>6. \A i \in DOMAIN p :
        /\ d \in Counting => CountedStep(p[i]) /\ p[i].op # "start" /\ p[i].op # "poll"
        /\ Right(p[i], d, c)
  BY <1>3, Zenon DEF EachStep
<1> QED
  BY <1>1, <1>2, <1>4, <1>5, <1>6, Zenon DEF Good

\* The steps for a running board.
LEMMA CaenResetSteps ==
  /\ Is(CaenReset) /\ Len(CaenReset) = 5 /\ Formed(CaenReset) /\ PolledBefore(CaenReset)
  /\ \A i \in 1..5 : CaenReset[i].op = "ifRunning" => i = 3
  /\ CaenReset[3].op = "ifRunning" /\ CaenReset[3].n = 2
  /\ CaenReset[4].op = "read" /\ CaenReset[4].reg = R("0x8100")
  /\ CaenReset[5].op = "putMsg" /\ CaenReset[5].reg = R("0x8100")
  /\ CaenReset[5].clear = {2} /\ CaenReset[5].set = {}
  /\ \A i \in 1..3 : CaenReset[i].op \in Writing => CaenReset[i].reg # R("0x8100")
<1> DEFINE p == CaenReset
<1>1. /\ p \in Seq({p[1], p[2], p[3], p[4], p[5]}) /\ Len(p) = 5
      /\ p[1] = Write(R("0xef24"), {}, FALSE) /\ p[2] = Read(R("0x8104"), FALSE)
      /\ p[3] = IfRunning(2) /\ p[4] = Read(R("0x8100"), FALSE)
      /\ p[5] = PutMsg(R("0x8100"), {2}, {}, FALSE)
  BY DEF CaenReset
<1> HIDE DEF p
<1>2. Is(p) /\ DOMAIN p = 1..5
  BY <1>1, IsOfSeq
<1>3. /\ p[1].op = "write" /\ p[1].reg = R("0xef24") /\ p[2].op = "read"
      /\ p[3].op = "ifRunning" /\ p[3].n = 2
      /\ p[4].op = "read" /\ p[4].reg = R("0x8100")
      /\ p[5].op = "putMsg" /\ p[5].reg = R("0x8100")
      /\ p[5].clear = {2} /\ p[5].set = {}
  <2>1. p[1].op = "write" /\ p[1].reg = R("0xef24")
    BY <1>1 DEF Write
  <2>2. p[2].op = "read" /\ p[4].op = "read" /\ p[4].reg = R("0x8100")
    BY <1>1 DEF Read
  <2>3. p[3].op = "ifRunning" /\ p[3].n = 2
    <3>1. \A n : IfRunning(n).op = "ifRunning" /\ IfRunning(n).n = n
      BY DEF IfRunning
    <3> QED
      BY <1>1, <3>1
  <2> DEFINE off == FALSE
             two == {2}
             none == {}
             reg == R("0x8100")
  <2>4. p[5] = PutMsg(reg, two, none, off)
    BY <1>1, Zenon
  <2> HIDE DEF off, two, none, reg
  <2>5. p[5].op = "putMsg" /\ p[5].reg = reg /\ p[5].clear = two /\ p[5].set = none
    BY <2>4 DEF PutMsg
  <2> QED
    BY <2>1, <2>2, <2>3, <2>5 DEF two, none, reg
<1>4. /\ R("0xef24") # Adc12 /\ R("0x8100") # Adc12 /\ R("0xef24") # R("0x8100")
  BY DEF R, Adc12
<1>5. \A i \in 1..5 : i = 1 \/ i = 2 \/ i = 3 \/ i = 4 \/ i = 5
  OBVIOUS
<1>6. \A i \in 1..5 : /\ p[i].op \in {"write", "read", "ifRunning", "putMsg"}
                      /\ p[i].op \in {"write", "putMsg"} => p[i].reg # Adc12
                      /\ p[i].op = "putMsg" => i = 5
                      /\ p[i].op = "ifRunning" => i = 3
  BY <1>3, <1>4, <1>5
<1>7. Formed(p)
  <2>1. ASSUME NEW i \in DOMAIN p, p[i].op \in OfMsg
        PROVE  i - 1 \in DOMAIN p /\ p[i - 1].op = "read" /\ p[i - 1].reg \in {p[i].reg, Adc12}
    <3>1. i = 5
      BY <1>2, <1>6, <2>1 DEF OfMsg
    <3>2. i - 1 = 4 /\ 4 \in DOMAIN p
      BY <1>2, <3>1
    <3> QED
      BY <1>3, <3>1, <3>2
  <2>2. \A i \in DOMAIN p : /\ p[i].op \in Kinds /\ p[i].op # "spi"
                            /\ p[i].op \in Writing => p[i].reg # Adc12
    BY <1>2, <1>6 DEF Kinds, Writing
  <2> QED
    BY <1>2, <2>1, <2>2, Zenon DEF Formed
<1>8. PolledBefore(p)
  BY <1>2, <1>6 DEF PolledBefore
<1>9. \A i \in 1..3 : p[i].op \in Writing => p[i].reg # R("0x8100")
  <2>1. \A i \in 1..3 : i = 1 \/ i = 2 \/ i = 3
    OBVIOUS
  <2> QED
    BY <1>3, <1>4, <2>1 DEF Writing
<1> QED
  BY <1>1, <1>2, <1>3, <1>6, <1>7, <1>8, <1>9 DEF p

LEMMA CaenGood ==
  ASSUME NEW c
  PROVE  Good(CaenLoadConfig(c), "Caen1742", c)
<1> DEFINE d == "Caen1742"
           f == CaenFind
           z == CaenReset
           h1 == (f \o z) \o CaenGroups
           h2 == h1 \o CaenThresholds
           h3 == h2 \o CaenTrace
           h4 == h3 \o CaenOffsets
           h5 == (h4 \o CaenFlash(c)) \o CaenTriggers
           h == h5 \o CaenRun
<1>1. CaenLoadConfig(c) = h
  BY Zenon DEF CaenLoadConfig
\* A program whose first steps are those for a running board.
<1> DEFINE Led(x) ==
             /\ Formed(x) /\ PolledBefore(x) /\ Len(f) + 5 <= Len(x)
             /\ \A i \in 1..(Len(f) + 5) : x[i] = (f \o z)[i]
             /\ \A i \in DOMAIN x : i > Len(f) + 5 => x[i].op # "ifRunning"
<1>2. /\ Fits(f, d, c) /\ \A i \in DOMAIN f : f[i].op = "read"
  <2>1. Fits(f, "reads", c)
    BY CaenFindFits
  <2> QED
    BY <2>1, CaenFindFits DEF Fits, EachStep
<1>3. /\ Fits(CaenGroups, d, c) /\ Fits(CaenThresholds, d, c) /\ Fits(CaenTrace, d, c)
      /\ Fits(CaenOffsets, d, c) /\ Fits(CaenFlash(c), d, c)
      /\ Fits(CaenTriggers, d, c) /\ Fits(CaenRun, d, c)
  BY CaenPiecesFit, CaenThresholdsFit, Zenon
<1> HIDE DEF f, z
<1>4. /\ Is(f) /\ Len(f) \in Nat /\ DOMAIN f = 1..Len(f)
      /\ Is(z) /\ Len(z) = 5 /\ DOMAIN z = 1..5
      /\ Is(f \o z) /\ Len(f \o z) = Len(f) + 5 /\ DOMAIN (f \o z) = 1..(Len(f) + 5)
      /\ \A i \in 1..Len(f) : (f \o z)[i] = f[i]
      /\ \A i \in 1..5 : (f \o z)[Len(f) + i] = z[i]
  <2>1. Is(f)
    BY <1>2 DEF Fits, Formed
  <2>2. Is(z) /\ Len(z) = 5
    BY CaenResetSteps DEF z
  <2>3. /\ Is(f \o z) /\ Len(f) \in Nat
        /\ DOMAIN f = 1..Len(f) /\ DOMAIN z = 1..Len(z)
        /\ Len(f \o z) = Len(f) + Len(z) /\ DOMAIN (f \o z) = 1..(Len(f) + Len(z))
        /\ \A i \in 1..Len(f) : (f \o z)[i] = f[i]
        /\ \A i \in 1..Len(z) : (f \o z)[Len(f) + i] = z[i]
    <3>1. Is(f) /\ Is(z)
      BY <2>1, <2>2
    <3>2. Is(f \o z) /\ Len(f) \in Nat
      BY <3>1, Joined
    <3>3. DOMAIN f = 1..Len(f) /\ DOMAIN z = 1..Len(z)
      BY <3>1, Joined
    <3>4. Len(f \o z) = Len(f) + Len(z) /\ DOMAIN (f \o z) = 1..(Len(f) + Len(z))
      BY <3>1, Joined
    <3>5. \A i \in 1..Len(f) : (f \o z)[i] = f[i]
      BY <3>1, Joined
    <3>6. \A i \in 1..Len(z) : (f \o z)[Len(f) + i] = z[i]
      BY <3>1, Joined
    <3> QED
      BY <3>2, <3>3, <3>4, <3>5, <3>6
  <2> QED
    BY <2>1, <2>2, <2>3
<1>5. Led(f \o z)
  <2>1. Formed(f) /\ PolledBefore(f) /\ Formed(z) /\ PolledBefore(z)
    BY <1>2, CaenResetSteps DEF Fits, z
  <2>2. Formed(f \o z) /\ PolledBefore(f \o z)
    BY <1>4, <2>1, FormedJoined, PolledJoined
  <2> QED
    BY <1>4, <2>2
<1>6. ASSUME NEW x, NEW y, Led(x), Fits(y, d, c) PROVE Led(x \o y)
  <2>1. Formed(x) /\ PolledBefore(x) /\ Formed(y) /\ PolledBefore(y) /\ Is(x) /\ Is(y)
    BY <1>6 DEF Fits, Formed
  <2>2. Formed(x \o y) /\ PolledBefore(x \o y)
    BY <2>1, FormedJoined, PolledJoined
  <2> DEFINE r == x \o y
  <2>3. /\ Len(x) \in Nat /\ Len(y) \in Nat /\ DOMAIN x = 1..Len(x) /\ DOMAIN y = 1..Len(y)
        /\ Len(r) = Len(x) + Len(y) /\ DOMAIN r = 1..(Len(x) + Len(y))
        /\ \A i \in 1..Len(x) : r[i] = x[i]
        /\ \A i \in 1..Len(y) : r[Len(x) + i] = y[i]
    BY <2>1, Joined
  <2> HIDE DEF r
  <2>4. \A i \in DOMAIN y : y[i].op # "ifRunning"
    BY <1>6 DEF Fits, EachStep
  <2>5. Len(f) + 5 <= Len(r) /\ \A i \in 1..(Len(f) + 5) : r[i] = (f \o z)[i]
    BY <1>4, <1>6, <2>3
  <2>6. ASSUME NEW i \in DOMAIN r, i > Len(f) + 5 PROVE r[i].op # "ifRunning"
    <3>1. CASE i <= Len(x)
      BY <1>6, <2>3, <2>6, <3>1
    <3>2. CASE i > Len(x)
      <4>1. i - Len(x) \in 1..Len(y) /\ Len(x) + (i - Len(x)) = i
        BY <2>3, <3>2
      <4> QED
        BY <2>3, <2>4, <4>1
    <3> QED
      BY <2>3, <3>1, <3>2
  <2> QED
    BY <2>2, <2>5, <2>6 DEF r
<1> HIDE DEF Led
<1>7. Led(h1)
  BY <1>3, <1>5, <1>6, Zenon
<1>8. Led(h5)
  BY <1>3, <1>6, <1>7, Zenon
<1>9. Led(h)
  BY <1>3, <1>6, <1>8, Zenon
<1>10. Len(h) > Len(f) + 5
  <2> HIDE DEF h5
  <2>1. Is(h5) /\ Is(CaenRun) /\ Len(h5) >= Len(f) + 5
    BY <1>3, <1>8, <1>4 DEF Led, Fits, Formed
  <2>2. Len(CaenRun) > 0
    <3> DEFINE a == << Poll(Board, R("0x8104")) >> \o Assign(R("0x8100"), {}, {2})
               b == << Write(R("0xef28"), {}, FALSE) >>
    <3>1. CaenRun = a \o b
      BY Zenon DEF CaenRun
    <3>2. Is(a) /\ Is(b) /\ Len(b) = 1
      <4>1. << Poll(Board, R("0x8104")) >> \in Seq({Poll(Board, R("0x8104"))})
        OBVIOUS
      <4>2. ASSUME NEW s, NEW t PROVE <<s, t>> \in Seq({s, t}) /\ <<s>> \in Seq({s}) /\ Len(<<s>>) = 1
        OBVIOUS
      <4>3. \A s, t : Is(<<s, t>>) /\ Is(<<s>>)
        BY <4>2, IsOfSeq
      <4>4. Is(<< Poll(Board, R("0x8104")) >>) /\ Is(Assign(R("0x8100"), {}, {2})) /\ Is(b)
        BY <4>3, Zenon DEF Assign
      <4>5. Is(a)
        BY <4>4, Joined
      <4> QED
        BY <4>2, <4>4, <4>5
    <3> HIDE DEF a, b
    <3>3. Len(a) \in Nat /\ Len(a \o b) = Len(a) + Len(b)
      BY <3>2, Joined
    <3> QED
      BY <3>1, <3>2, <3>3
  <2>3. Len(h) = Len(h5) + Len(CaenRun) /\ Len(h5) \in Nat /\ Len(CaenRun) \in Nat
    BY <2>1, Joined
  <2> QED
    BY <1>4, <2>1, <2>2, <2>3
<1> HIDE DEF h
<1>11. Formed(h) /\ PolledBefore(h) /\ Is(h) /\ DOMAIN h = 1..Len(h) /\ Len(h) \in Nat
  <2>1. Formed(h) /\ PolledBefore(h) /\ Is(h)
    BY <1>9 DEF Led, Formed
  <2> QED
    BY <2>1, IsOfSeq DEF Is
<1>12. Jumps(h)
  <2> SUFFICES ASSUME NEW i \in DOMAIN h, h[i].op = "ifRunning"
               PROVE  /\ h[i].n = 2 /\ i + 3 \in DOMAIN h
                      /\ h[i + 1].op = "read" /\ h[i + 1].reg = R("0x8100")
                      /\ h[i + 2].op = "putMsg" /\ h[i + 2].reg = R("0x8100")
                      /\ h[i + 2].clear = {2} /\ h[i + 2].set = {}
                      /\ \A j \in 1..i : h[j].op \in Writing => h[j].reg # R("0x8100")
    BY Zenon DEF Jumps
  <2>1. /\ \A k \in 1..(Len(f) + 5) : h[k] = (f \o z)[k]
        /\ \A k \in DOMAIN h : k > Len(f) + 5 => h[k].op # "ifRunning"
    BY <1>9 DEF Led
  <2>2. \A k \in 1..Len(f) : h[k] = f[k]
    BY <1>4, <2>1
  <2>3. \A k \in 1..5 : h[Len(f) + k] = z[k]
    BY <1>4, <2>1
  <2>4. i = Len(f) + 3
    <3>1. i > Len(f)
      BY <1>2, <1>4, <1>11, <2>2
    <3>2. i <= Len(f) + 5
      BY <1>4, <1>11, <2>1
    <3>3. i - Len(f) \in 1..5 /\ Len(f) + (i - Len(f)) = i
      BY <1>4, <1>11, <3>1, <3>2
    <3>4. z[i - Len(f)].op = "ifRunning"
      BY <2>3, <3>3
    <3>5. i - Len(f) = 3
      BY <3>3, <3>4, CaenResetSteps DEF z
    <3> QED
      BY <1>4, <3>3, <3>5
  <2>5. h[i] = z[3] /\ h[i + 1] = z[4] /\ h[i + 2] = z[5] /\ i + 3 \in DOMAIN h
    <3>1. i + 1 = Len(f) + 4 /\ i + 2 = Len(f) + 5 /\ 3 \in 1..5 /\ 4 \in 1..5 /\ 5 \in 1..5
      BY <1>4, <2>4
    <3>2. i + 3 \in DOMAIN h
      BY <1>4, <1>10, <1>11, <2>4
    <3> QED
      BY <2>3, <2>4, <3>1, <3>2
  <2>6. ASSUME NEW j \in 1..i, h[j].op \in Writing PROVE h[j].reg # R("0x8100")
    <3>1. CASE j <= Len(f)
      <4>1. h[j].op = "read"
        BY <1>2, <1>4, <2>2, <3>1
      <4> QED
        BY <2>6, <4>1 DEF Writing
    <3>2. CASE j > Len(f)
      <4>1. j - Len(f) \in 1..3 /\ j - Len(f) \in 1..5 /\ Len(f) + (j - Len(f)) = j
        BY <1>4, <2>4, <3>2
      <4>2. h[j] = z[j - Len(f)]
        BY <2>3, <4>1
      <4> QED
        BY <2>6, <4>1, <4>2, CaenResetSteps DEF z
    <3> QED
      BY <1>4, <3>1, <3>2
  <2> QED
    BY <2>5, <2>6, CaenResetSteps, Zenon DEF z
<1>13. Waits(h)
  BY <1>11, PolledWaits
<1>14. 1 \in DOMAIN h
  BY <1>4, <1>10, <1>11
<1>15. d \notin Counting /\ \A w \in Switches : w[1] # d
  BY DEF Counting, Switches
<1>16. Good(h, d, c)
  BY <1>11, <1>12, <1>13, <1>14, <1>15, NoSwitches, Zenon DEF Good
<1> QED
  BY <1>1, <1>16

LEMMA ProgramGood ==
  ASSUME NEW d \in Devices, NEW c
  PROVE  Good(ProgramOf(d, c), d, c)
<1>1. CASE d = "Sis3302"
  BY <1>1, Sis3302Fits, FitsGood DEF ProgramOf
<1>2. CASE d = "Sis3350"
  BY <1>2, Sis3350Fits, FitsGood DEF ProgramOf
<1>3. CASE d = "Sis3316"
  BY <1>3, Sis3316Fits, FitsGood DEF ProgramOf
<1>4. CASE d = "Caen1742"
  BY <1>4, CaenGood DEF ProgramOf
<1> QED
  BY <1>1, <1>2, <1>3, <1>4 DEF Devices

(***************************************************************************)
(* The units that are busy have been started and not waited for.           *)
(***************************************************************************)
Pending(p, next, units) ==
  \A u \in units \ {AdcInterface} : \E i \in 1..(next - 1) :
    StartAt(p, i, u) /\ \A k \in (i + 1)..(next - 1) : ~PollAt(p, k, u)

\* The next step may be any but the poll of one of them.
LEMMA PendingNext ==
  ASSUME NEW p, NEW n \in Nat, NEW units, Pending(p, n, units),
         \A u \in units \ {AdcInterface} : ~PollAt(p, n, u)
  PROVE  Pending(p, n + 1, units)
<1> SUFFICES ASSUME NEW u \in units \ {AdcInterface}
             PROVE  \E i \in 1..(n + 1 - 1) :
                      StartAt(p, i, u) /\ \A k \in (i + 1)..(n + 1 - 1) : ~PollAt(p, k, u)
  BY DEF Pending
<1>1. PICK i \in 1..(n - 1) : StartAt(p, i, u) /\ \A k \in (i + 1)..(n - 1) : ~PollAt(p, k, u)
  BY DEF Pending
<1>2. i \in 1..(n + 1 - 1)
  OBVIOUS
<1>3. ASSUME NEW k \in (i + 1)..(n + 1 - 1) PROVE ~PollAt(p, k, u)
  <2>1. k = n \/ k \in (i + 1)..(n - 1)
    OBVIOUS
  <2> QED
    BY <1>1, <2>1
<1> QED
  BY <1>1, <1>2, <1>3

\* A start makes its unit one of them.
LEMMA PendingStart ==
  ASSUME NEW p, NEW n \in Nat, NEW units, NEW u, StartAt(p, n, u), n > 0,
         Pending(p, n, units)
  PROVE  Pending(p, n + 1, units) /\ Pending(p, n + 1, units \cup {u})
<1>1. \A v : ~PollAt(p, n, v)
  BY DEF StartAt, PollAt
<1>2. Pending(p, n + 1, units)
  BY <1>1, PendingNext
<1>3. n \in 1..(n + 1 - 1) /\ \A k \in (n + 1)..(n + 1 - 1) : ~PollAt(p, k, u)
  OBVIOUS
<1>4. ASSUME NEW v \in (units \cup {u}) \ {AdcInterface}
      PROVE  \E i \in 1..(n + 1 - 1) :
               StartAt(p, i, v) /\ \A k \in (i + 1)..(n + 1 - 1) : ~PollAt(p, k, v)
  <2>1. CASE v = u
    BY <1>3, <2>1
  <2>2. CASE v \in units
    BY <1>2, <2>2 DEF Pending
  <2> QED
    BY <2>1, <2>2
<1> QED
  BY <1>2, <1>4 DEF Pending

\* And it was none, because it is waited for before it is started again.
LEMMA StartNotPending ==
  ASSUME NEW p, NEW n \in DOMAIN p, NEW units, NEW u, NEW d, NEW c, Good(p, d, c),
         StartAt(p, n, u), Pending(p, n, units)
  PROVE  u \notin units \ {AdcInterface}
<1> SUFFICES ASSUME u \in units \ {AdcInterface} PROVE FALSE
  OBVIOUS
<1>1. PICK i \in 1..(n - 1) : StartAt(p, i, u) /\ \A k \in (i + 1)..(n - 1) : ~PollAt(p, k, u)
  BY DEF Pending
<1>2. DOMAIN p = 1..Len(p) /\ Len(p) \in Nat
  BY IsOfSeq DEF Good, Formed, Is
<1>3. i \in DOMAIN p /\ i < n /\ p[i].op = "start" /\ p[i].unit = u
  BY <1>1, <1>2 DEF StartAt
<1>4. \E k \in (i + 1)..(n - 1) : PollAt(p, k, p[i].unit)
  BY <1>3 DEF Good, Waits
<1> QED
  BY <1>1, <1>3, <1>4

\* Steps that are skipped wait for nothing.
Jump(s) == s.op = "ifRunning"

LEMMA PendingJump ==
  ASSUME NEW p, NEW n \in DOMAIN p, NEW units, NEW d, NEW c, Good(p, d, c), Jump(p[n]),
         Pending(p, n, units), NEW m \in {n + 1, n + 3}
  PROVE  m \in DOMAIN p /\ Pending(p, m, units)
<1>1. DOMAIN p = 1..Len(p) /\ Len(p) \in Nat
  BY IsOfSeq DEF Good, Formed, Is
<1>2. /\ n + 3 \in DOMAIN p /\ p[n + 1].op = "read" /\ p[n + 2].op = "putMsg"
  BY Zenon DEF Good, Jumps, Jump
<1>3. m \in DOMAIN p /\ n < m /\ m \in Nat /\ n \in Nat /\ m <= n + 3
  BY <1>1, <1>2
<1>4. \A k \in n..(m - 1) : \A u : ~PollAt(p, k, u)
  <2> SUFFICES ASSUME NEW k \in n..(m - 1) PROVE \A u : ~PollAt(p, k, u)
    OBVIOUS
  <2>1. k = n \/ k = n + 1 \/ k = n + 2
    BY <1>3
  <2>2. p[k].op # "poll"
    BY <1>2, <2>1 DEF Jump
  <2> QED
    BY <2>2 DEF PollAt
<1>5. Pending(p, m, units)
  <2> SUFFICES ASSUME NEW u \in units \ {AdcInterface}
               PROVE  \E i \in 1..(m - 1) :
                        StartAt(p, i, u) /\ \A k \in (i + 1)..(m - 1) : ~PollAt(p, k, u)
    BY DEF Pending
  <2>1. PICK i \in 1..(n - 1) : StartAt(p, i, u) /\ \A k \in (i + 1)..(n - 1) : ~PollAt(p, k, u)
    BY DEF Pending
  <2> HIDE DEF Pending
  <2>2. i \in 1..(m - 1)
    <3>1. i \in Int /\ 1 <= i /\ i <= n - 1
      BY <1>3
    <3> QED
      BY <1>3, <3>1
  <2>3. ASSUME NEW k \in (i + 1)..(m - 1) PROVE ~PollAt(p, k, u)
    <3>1. k \in (i + 1)..(n - 1) \/ k \in n..(m - 1)
      BY <1>3, <2>2
    <3> QED
      BY <1>4, <2>1, <3>1
  <2> QED
    BY <2>1, <2>2, <2>3
<1> QED
  BY <1>3, <1>5

(***************************************************************************)
(* The registers, were every step to succeed.                              *)
(***************************************************************************)
Beginning == [regs |-> Untouched, read |-> {}]
Follows(f, n) ==
  f = [i \in 0..n |-> IF i = 0 THEN Beginning ELSE Succeed(f[i - 1], program[i])]

LEMMA FollowsExists ==
  ASSUME NEW n \in Nat
  PROVE  \E f : Follows(f, n)
<1> DEFINE S == {m \in 1..(n + 1) : \E f : Follows(f, m - 1)}
<1>1. 1 \in S
  <2> DEFINE f == [i \in 0..0 |-> Beginning]
  <2>1. f = [i \in 0..0 |-> IF i = 0 THEN Beginning ELSE Succeed(f[i - 1], program[i])]
    OBVIOUS
  <2>2. 1 - 1 = 0 /\ 1 \in 1..(n + 1)
    OBVIOUS
  <2> HIDE DEF f
  <2>3. Follows(f, 0)
    BY <2>1, Zenon DEF Follows
  <2> QED
    BY <2>2, <2>3
<1>2. ASSUME NEW k \in 2..(n + 1), k - 1 \in S PROVE k \in S
  <2> DEFINE m == k - 1
  <2>0. m \in 1..n /\ k \in 1..(n + 1)
    OBVIOUS
  <2>1. PICK f : Follows(f, m - 1)
    BY <1>2
  <2> HIDE DEF m
  <2> DEFINE g == [i \in 0..m |-> IF i = m THEN Succeed(f[m - 1], program[m]) ELSE f[i]]
  <2>2. \A i \in 0..m : g[i] = IF i = m THEN Succeed(f[m - 1], program[m]) ELSE f[i]
    OBVIOUS
  <2>3. DOMAIN g = 0..m /\ g = [i \in 0..m |-> g[i]]
    OBVIOUS
  <2> HIDE DEF g
  <2>4. \A i \in 0..(m - 1) : f[i] = IF i = 0 THEN Beginning ELSE Succeed(f[i - 1], program[i])
    BY <2>1 DEF Follows
  <2>5. ASSUME NEW i \in 0..m
        PROVE  g[i] = IF i = 0 THEN Beginning ELSE Succeed(g[i - 1], program[i])
    <3>1. CASE i = m
      <4>1. i # 0 /\ m - 1 \in 0..m /\ m - 1 # m
        BY <2>0, <3>1
      <4>2. g[m - 1] = f[m - 1]
        BY <2>2, <4>1
      <4>3. m \in 0..m
        BY <2>0
      <4>4. g[m] = Succeed(f[m - 1], program[m])
        BY <2>2, <4>3
      <4> QED
        BY <3>1, <4>1, <4>2, <4>4
    <3>2. CASE i # m
      <4>1. i \in 0..(m - 1)
        BY <2>0, <3>2
      <4>2. g[i] = f[i]
        BY <2>2, <3>2
      <4>3. i # 0 => i - 1 \in 0..m /\ i - 1 # m
        BY <2>0, <4>1
      <4>4. i # 0 => g[i - 1] = f[i - 1]
        BY <2>2, <4>3
      <4> QED
        BY <2>4, <4>1, <4>2, <4>4
    <3> QED
      BY <3>1, <3>2
  <2>6. Follows(g, m)
    <3>1. g = [i \in 0..m |-> IF i = 0 THEN Beginning ELSE Succeed(g[i - 1], program[i])]
      BY <2>3, <2>5
    <3> QED
      BY <3>1, Zenon DEF Follows
  <2> QED
    BY <2>0, <2>6 DEF m
<1>3. \A k \in 2..(n + 1) : k - 1 \in S => k \in S
  BY <1>2
<1>4. S \in SUBSET (1..(n + 1)) /\ n + 1 \in Nat \ {0} /\ n + 1 \in 1..(n + 1) /\ (n + 1) - 1 = n
  OBVIOUS
<1> HIDE DEF S
<1>5. n + 1 \in S
  BY <1>1, <1>3, <1>4, OneAfterAnother
<1> QED
  BY <1>4, <1>5 DEF S

LEMMA AfterValues ==
  ASSUME Len(program) \in Nat
  PROVE  /\ After[0] = Beginning
         /\ \A n \in 1..Len(program) : After[n] = Succeed(After[n - 1], program[n])
<1> DEFINE l == Len(program)
           f == CHOOSE g : g = [i \in 0..l |-> IF i = 0 THEN [regs |-> Untouched, read |-> {}]
                                               ELSE Succeed(g[i - 1], program[i])]
<1>1. After = f
  BY Zenon DEF After
<1> HIDE DEF l
<1>2. \E g : Follows(g, l)
  BY FollowsExists DEF l
<1>3. Follows(f, l)
  BY <1>2, Zenon DEF Follows, Beginning
<1> HIDE DEF f
<1>4. Follows(After, l) /\ l \in Nat
  BY <1>1, <1>3 DEF l
<1>5. \A i \in 0..l : After[i] = IF i = 0 THEN Beginning ELSE Succeed(After[i - 1], program[i])
  <2>1. ASSUME NEW a, Follows(a, l)
        PROVE  \A i \in 0..l : a[i] = IF i = 0 THEN Beginning ELSE Succeed(a[i - 1], program[i])
    BY <2>1 DEF Follows
  <2> QED
    BY <1>4, <2>1, Zenon
<1>6. 0 \in 0..l /\ \A n \in 1..l : n \in 0..l /\ n # 0
  BY <1>4
<1> QED
  BY <1>5, <1>6, Zenon DEF l

LEMMA FromZero ==
  ASSUME NEW n \in Nat, NEW S \in SUBSET (0..n), 0 \in S, \A i \in 1..n : i - 1 \in S => i \in S
  PROVE  S = 0..n
<1> DEFINE T == {k \in 1..(n + 1) : k - 1 \in S}
<1>1. T \in SUBSET (1..(n + 1)) /\ n + 1 \in Nat \ {0}
  OBVIOUS
<1>2. 1 \in T
  <2>1. 1 \in 1..(n + 1) /\ 1 - 1 = 0
    OBVIOUS
  <2> QED
    BY <2>1
<1>3. ASSUME NEW k \in 2..(n + 1), k - 1 \in T PROVE k \in T
  <2>1. k - 1 \in 1..n /\ (k - 1) - 1 \in S /\ k \in 1..(n + 1)
    BY <1>3
  <2> QED
    BY <2>1
<1>4. \A k \in 2..(n + 1) : k - 1 \in T => k \in T
  BY <1>3
<1>5. T = 1..(n + 1)
  <2> HIDE DEF T
  <2> QED
    BY <1>1, <1>2, <1>4, OneAfterAnother
<1>6. ASSUME NEW i \in 0..n PROVE i \in S
  <2>1. i + 1 \in 1..(n + 1) /\ (i + 1) - 1 = i
    OBVIOUS
  <2>2. i + 1 \in T
    BY <1>5, <2>1
  <2> QED
    BY <2>1, <2>2
<1> QED
  BY <1>6

LEMMA WritingKinds ==
  /\ "read" \notin Writing /\ "poll" \notin Writing /\ "ifRunning" \notin Writing
  /\ OfMsg \subseteq Writing /\ "read" \notin OfMsg
  /\ \A o \in {"write", "put", "start", "spi", "si5325"} : o \in Writing /\ o \notin OfMsg
BY DEF Writing, OfMsg

\* What a step does to the registers.
LEMMA SucceedKinds ==
  ASSUME NEW state, NEW s
  PROVE  /\ s.op = "read" => /\ Succeed(state, s).regs = state.regs
                             /\ Succeed(state, s).read = state.regs[s.reg]
         /\ s.op \in Writing =>
              Succeed(state, s).regs = [state.regs EXCEPT ![s.reg] = Word(s, state.read)]
         /\ s.op \notin Writing \cup {"read"} => Succeed(state, s) = state
<1>1. ASSUME s.op = "read"
      PROVE  /\ Succeed(state, s).regs = state.regs
             /\ Succeed(state, s).read = state.regs[s.reg]
  BY <1>1, WritingKinds DEF Succeed
<1>2. ASSUME s.op \in Writing
      PROVE  Succeed(state, s).regs = [state.regs EXCEPT ![s.reg] = Word(s, state.read)]
  BY <1>2, WritingKinds DEF Succeed
<1>3. ASSUME s.op \notin Writing \cup {"read"} PROVE Succeed(state, s) = state
  BY <1>3 DEF Succeed
<1> QED
  BY <1>1, <1>2, <1>3

\* The same of the steps of the program; the program's registers stay what they are.
LEMMA AfterSteps ==
  ASSUME NEW d, NEW c, Good(program, d, c)
  PROVE  /\ Len(program) \in Nat /\ DOMAIN program = 1..Len(program)
         /\ After[0].regs = Untouched
         /\ \A n \in 1..Len(program) :
              /\ program[n].op = "read" => After[n].read = After[n].regs[program[n].reg]
              /\ program[n].op \in Writing =>
                   After[n].regs = [After[n - 1].regs EXCEPT
                     ![program[n].reg] = Word(program[n], After[n - 1].read)]
              /\ program[n].op \notin Writing => After[n].regs = After[n - 1].regs
         /\ \A n \in 0..Len(program) : DOMAIN After[n].regs = DOMAIN Untouched
<1>1. Len(program) \in Nat /\ DOMAIN program = 1..Len(program)
  BY IsOfSeq DEF Good, Formed, Is
<1>2. /\ After[0] = Beginning
      /\ \A n \in 1..Len(program) : After[n] = Succeed(After[n - 1], program[n])
  BY <1>1, AfterValues
<1>3. After[0].regs = Untouched
  BY <1>2 DEF Beginning
<1>4. ASSUME NEW n \in 1..Len(program)
      PROVE  /\ program[n].op = "read" => After[n].read = After[n].regs[program[n].reg]
             /\ program[n].op \in Writing =>
                  After[n].regs = [After[n - 1].regs EXCEPT
                    ![program[n].reg] = Word(program[n], After[n - 1].read)]
             /\ program[n].op \notin Writing => After[n].regs = After[n - 1].regs
  <2> DEFINE a == After[n - 1]
             b == After[n]
             s == program[n]
  <2>1. b = Succeed(a, s)
    BY <1>2
  <2> HIDE DEF a, b, s
  <2>2. /\ s.op = "read" => b.regs = a.regs /\ b.read = a.regs[s.reg]
        /\ s.op \in Writing => b.regs = [a.regs EXCEPT ![s.reg] = Word(s, a.read)]
        /\ s.op \notin Writing \cup {"read"} => b = a
    BY <2>1, SucceedKinds, Zenon
  <2>3. /\ s.op = "read" => b.read = b.regs[s.reg]
        /\ s.op \notin Writing => b.regs = a.regs
    BY <2>2
  <2> QED
    BY <2>2, <2>3 DEF a, b, s
<1> DEFINE S == {n \in 0..Len(program) : DOMAIN After[n].regs = DOMAIN Untouched}
<1>5. S = 0..Len(program)
  <2>1. 0 \in S
    BY <1>1, <1>3
  <2>2. ASSUME NEW n \in 1..Len(program), n - 1 \in S PROVE n \in S
    <3>1. DOMAIN After[n - 1].regs = DOMAIN Untouched /\ n \in 0..Len(program)
      BY <2>2
    <3>2. CASE program[n].op \in Writing
      <4> DEFINE f == After[n - 1].regs
      <4>1. After[n].regs = [f EXCEPT ![program[n].reg] = Word(program[n], After[n - 1].read)]
        BY <1>4, <3>2
      <4> HIDE DEF f
      <4>2. DOMAIN After[n].regs = DOMAIN f
        BY <4>1
      <4> QED
        BY <3>1, <4>2 DEF f
    <3>3. CASE program[n].op \notin Writing
      BY <1>4, <3>1, <3>3
    <3> QED
      BY <3>2, <3>3
  <2>3. S \in SUBSET (0..Len(program)) /\ \A n \in 1..Len(program) : n - 1 \in S => n \in S
    BY <2>2
  <2> HIDE DEF S
  <2> QED
    BY <1>1, <2>1, <2>3, FromZero
<1> QED
  BY <1>1, <1>3, <1>4, <1>5

\* A register that has not been written yet is untouched.
LEMMA Unwritten ==
  ASSUME NEW d, NEW c, Good(program, d, c), NEW r \in DOMAIN Untouched,
         NEW m \in 0..Len(program),
         \A j \in 1..m : program[j].op \in Writing => program[j].reg # r
  PROVE  After[m].regs[r] = Untouched[r]
<1>1. Len(program) \in Nat /\ After[0].regs = Untouched
  BY AfterSteps
<1> DEFINE S == {i \in 0..m : After[i].regs[r] = Untouched[r]}
<1>2. 0 \in S
  BY <1>1
<1>3. ASSUME NEW i \in 1..m, i - 1 \in S PROVE i \in S
  <2>1. i \in 1..Len(program) /\ i \in 0..m /\ After[i - 1].regs[r] = Untouched[r]
    BY <1>1, <1>3
  <2>2. DOMAIN After[i - 1].regs = DOMAIN Untouched
    <3>1. i - 1 \in 0..Len(program)
      BY <1>1, <2>1
    <3> QED
      BY <3>1, AfterSteps
  <2>3. After[i].regs[r] = After[i - 1].regs[r]
    <3>1. CASE program[i].op \in Writing
      <4> DEFINE f == After[i - 1].regs
                 w == Word(program[i], After[i - 1].read)
      <4>1. After[i].regs = [f EXCEPT ![program[i].reg] = w]
        BY <2>1, <3>1, AfterSteps
      <4>2. r \in DOMAIN f
        BY <2>2
      <4> HIDE DEF f, w
      <4>3. After[i].regs[r] = f[r]
        BY <3>1, <4>1, <4>2
      <4> QED
        BY <4>3 DEF f
    <3>2. CASE program[i].op \notin Writing
      BY <2>1, <3>2, AfterSteps
    <3> QED
      BY <3>1, <3>2
  <2> QED
    BY <2>1, <2>3
<1>4. S \in SUBSET (0..m) /\ m \in Nat /\ m \in 0..m /\ \A i \in 1..m : i - 1 \in S => i \in S
  BY <1>1, <1>3
<1> HIDE DEF S
<1>5. m \in S
  BY <1>2, <1>4, FromZero
<1> QED
  BY <1>5 DEF S
(***************************************************************************)
(* The invariant.                                                          *)
(***************************************************************************)
Untroubled == failed = {} /\ ~slow

LoadInv ==
  /\ device \in Devices /\ Good(program, device, conf)
  /\ pc \in {-1, 0} \cup DOMAIN program
  /\ LoadsWait
  /\ pc > 0 /\ Untroubled => Pending(program, pc, busy)

LEMMA LoadInit == Init => LoadInv
<1> SUFFICES ASSUME Init PROVE LoadInv
  OBVIOUS
<1>1. device \in Devices /\ Good(program, device, conf)
  BY ProgramGood DEF Init
<1>2. pc = 1 /\ busy = {} /\ early = {}
  BY DEF Init
<1> QED
  BY <1>1, <1>2 DEF LoadInv, LoadsWait, Pending, Good

\* Where a step leaves the program.
LEMMA GoesOn ==
  ASSUME Good(program, device, conf), pc \in DOMAIN program, NEW errors, GoOn(errors)
  PROVE  pc' \in {-1, 0} \/ (pc' = pc + 1 /\ pc + 1 \in DOMAIN program)
<1>1. DOMAIN program = 1..Len(program) /\ Len(program) \in Nat
  BY IsOfSeq DEF Good, Formed, Is
<1> QED
  BY <1>1 DEF GoOn

\* A step that starts nothing and ends no poll.
LEMMA PlainStep ==
  ASSUME LoadInv, pc \in DOMAIN program, \A u : ~PollAt(program, pc, u),
         NEW errors, GoOn(errors), UNCHANGED <<device, conf, program, busy, early, slow>>,
         failed = {} \/ failed' # {}
  PROVE  LoadInv'
<1>1. pc' \in {-1, 0} \/ (pc' = pc + 1 /\ pc + 1 \in DOMAIN program)
  BY GoesOn DEF LoadInv
<1>2. DOMAIN program = 1..Len(program) /\ Len(program) \in Nat
  BY IsOfSeq DEF LoadInv, Good, Formed, Is
<1>3. ASSUME pc' > 0, Untroubled' PROVE Pending(program, pc', busy)
  <2>1. pc > 0 /\ Untroubled
    BY <1>2, <1>3 DEF Untroubled
  <2>2. pc' = pc + 1 /\ pc \in Nat
    BY <1>1, <1>2, <1>3
  <2> QED
    BY <2>1, <2>2, PendingNext DEF LoadInv
<1> QED
  BY <1>1, <1>3 DEF LoadInv, LoadsWait, Untroubled

LEMMA LoadNext == LoadInv /\ [Next]_vars => LoadInv'
<1> SUFFICES ASSUME LoadInv, [Next]_vars PROVE LoadInv'
  OBVIOUS
<1> USE DEF LoadInv
<1>1. DOMAIN program = 1..Len(program) /\ Len(program) \in Nat /\ Formed(program)
  BY IsOfSeq DEF Good, Formed, Is
<1>2. \A kind : At(kind) => pc \in DOMAIN program /\ program[pc].op = kind
  BY <1>1 DEF At, Step
<1>3. \A kind, u : At(kind) /\ kind # "poll" => ~PollAt(program, pc, u)
  BY <1>2 DEF PollAt
<1>4. Fail => failed' # {}
  BY DEF Fail
<1>5. \A errors : Failed(errors) => GoOn(nerrors')
  BY DEF Failed
<1>6. CASE ReadStep
  <2>1. pc \in DOMAIN program /\ \A u : ~PollAt(program, pc, u)
    BY <1>2, <1>3, <1>6 DEF ReadStep
  <2>2. PICK e : GoOn(e)
    BY <1>5, <1>6 DEF ReadStep
  <2>3. failed = {} \/ failed' # {}
    BY <1>4, <1>6 DEF ReadStep
  <2>4. UNCHANGED <<device, conf, program, busy, early, slow>>
    BY <1>6 DEF ReadStep
  <2> QED
    BY <2>1, <2>2, <2>3, <2>4, PlainStep
<1>7. CASE WriteStep
  <2>1. pc \in DOMAIN program /\ \A u : ~PollAt(program, pc, u)
    BY <1>2, <1>3, <1>7, Zenon DEF WriteStep
  <2>2. PICK e : GoOn(e)
    BY <1>5, <1>7, Zenon DEF WriteStep
  <2>3. failed = {} \/ failed' # {}
    BY <1>4, <1>7, Zenon DEF WriteStep
  <2>4. UNCHANGED <<device, conf, program, busy, early, slow>>
    BY <1>7, Zenon DEF WriteStep
  <2> QED
    BY <2>1, <2>2, <2>3, <2>4, PlainStep
<1>8. CASE Start
  <2>1. pc \in DOMAIN program /\ StartAt(program, pc, program[pc].unit)
    BY <1>2, <1>8 DEF Start, StartAt
  <2> DEFINE u == program[pc].unit
  <2>2. /\ early' = IF u \in busy /\ ~slow /\ failed = {} THEN early \cup {u} ELSE early
        /\ program' = program /\ device' = device /\ conf' = conf /\ slow' = slow /\ GoOn(nerrors)
        /\ \/ busy' = busy \cup {u} /\ failed' = failed
           \/ failed' # {} /\ busy' = busy
    BY <1>4, <1>8 DEF Start, Early, Step
  <2>3. pc' \in {-1, 0} \/ (pc' = pc + 1 /\ pc + 1 \in DOMAIN program)
    BY <2>1, <2>2, GoesOn
  <2>4. Untroubled => Pending(program, pc, busy)
    BY <1>1, <2>1
  <2>5. Untroubled => u \notin busy \ {AdcInterface}
    BY <2>1, <2>4, StartNotPending
  <2>6. LoadsWait'
    BY <2>2, <2>5 DEF Untroubled, LoadsWait
  <2>7. ASSUME pc' > 0, Untroubled' PROVE Pending(program, pc', busy')
    <3>1. Untroubled /\ busy' = busy \cup {u}
      BY <2>2, <2>7 DEF Untroubled
    <3>2. pc' = pc + 1 /\ pc \in Nat /\ pc > 0
      BY <1>1, <2>1, <2>3, <2>7
    <3>3. Pending(program, pc + 1, busy \cup {u})
      BY <2>1, <2>4, <3>1, <3>2, PendingStart
    <3> QED
      BY <3>1, <3>2, <3>3
  <2> QED
    BY <2>2, <2>3, <2>6, <2>7 DEF Untroubled
<1>9. CASE AdcSpiWrites
  <2>1. pc \in DOMAIN program /\ program[pc].op = "spi"
    BY <1>2, <1>9 DEF AdcSpiWrites
  <2>2. program[pc].unit = AdcInterface /\ \A u : ~PollAt(program, pc, u)
    BY <1>1, <2>1 DEF Formed, PollAt
  <2>3. busy' \subseteq busy \cup {AdcInterface} /\ early' \subseteq early \cup {AdcInterface}
    BY <1>9, <2>2 DEF AdcSpiWrites, Early, Step
  <2>4. PICK e : GoOn(e)
    BY <1>5, <1>9 DEF AdcSpiWrites
  <2>5. failed' = failed \/ failed' # {}
    BY <1>4, <1>9 DEF AdcSpiWrites
  <2>6. program' = program /\ device' = device /\ conf' = conf /\ slow' = slow
    BY <1>9 DEF AdcSpiWrites
  <2>7. pc' \in {-1, 0} \/ (pc' = pc + 1 /\ pc + 1 \in DOMAIN program)
    BY <2>1, <2>4, GoesOn
  <2>8. ASSUME pc' > 0, Untroubled' PROVE Pending(program, pc', busy')
    <3>1. pc' = pc + 1 /\ pc \in Nat /\ pc > 0 /\ Untroubled
      BY <1>1, <2>1, <2>5, <2>6, <2>7, <2>8 DEF Untroubled
    <3>2. Pending(program, pc + 1, busy)
      BY <2>2, <3>1, PendingNext
    <3> QED
      BY <2>3, <3>1, <3>2 DEF Pending
  <2>9. LoadsWait'
    BY <2>3 DEF LoadsWait
  <2> QED
    BY <2>6, <2>7, <2>8, <2>9 DEF Untroubled
<1>10. CASE PollStep
  <2>1. pc \in DOMAIN program
    BY <1>2, <1>10 DEF PollStep
  <2>2. program' = program /\ device' = device /\ conf' = conf /\ busy' = busy /\ early' = early
    BY <1>10 DEF PollStep
  <2>3. \/ program[pc].unit \notin busy /\ GoOn(nerrors) /\ slow' = slow /\ failed' = failed
        \/ pc' = pc /\ slow' = slow /\ failed' = failed
        \/ (slow' \/ failed' # {}) /\ (GoOn(nerrors) \/ pc' = pc)
    BY <1>4, <1>10 DEF PollStep, Step
  <2>4. pc' \in {-1, 0} \/ pc' \in DOMAIN program
    BY <2>1, <2>3, GoesOn
  <2>5. LoadsWait'
    BY <2>2 DEF LoadsWait
  <2>6. ASSUME pc' > 0, Untroubled' PROVE Pending(program, pc', busy)
    <3>1. CASE pc' = pc
      BY <2>3, <2>6, <3>1, PendingNext DEF Untroubled
    <3>2. CASE pc' # pc
      <4>1. program[pc].unit \notin busy /\ GoOn(nerrors) /\ slow' = slow /\ failed' = failed
        BY <2>3, <2>6, <3>2 DEF Untroubled
      <4>2. pc' = pc + 1 /\ pc \in Nat /\ pc > 0 /\ Untroubled
        BY <1>1, <2>1, <2>6, <4>1, GoesOn DEF Untroubled
      <4>3. \A u \in busy \ {AdcInterface} : ~PollAt(program, pc, u)
        BY <4>1 DEF PollAt
      <4> QED
        BY <4>2, <4>3, PendingNext
    <3> QED
      BY <3>1, <3>2
  <2> QED
    BY <2>2, <2>4, <2>5, <2>6 DEF Untroubled
<1>11. CASE IfRunningStep
  <2>1. pc \in DOMAIN program /\ Jump(program[pc])
    BY <1>2, <1>11, Zenon DEF IfRunningStep, Jump
  <2>2. pc' \in {pc + 1, pc + 3} /\ UNCHANGED <<device, conf, program, busy, early, slow, failed>>
    <3>0. program[pc].n = 2
      BY <2>1, Zenon DEF Good, Jumps, Jump
    <3>1. program[pc].n = 2 /\ pc + 1 + 2 = pc + 3
      BY <1>1, <2>1, <3>0
    <3> QED
      BY <1>11, <3>1, Zenon DEF IfRunningStep, Step
  <2> HIDE DEF LoadInv
  <2>3. Good(program, device, conf) /\ LoadsWait /\ (Untroubled => Pending(program, pc, busy))
    BY <1>1, <2>1 DEF LoadInv
  <2>4. ASSUME NEW units, Pending(program, pc, units)
        PROVE  pc' \in DOMAIN program /\ Pending(program, pc', units)
    BY <2>1, <2>2, <2>3, <2>4, PendingJump, Zenon
  <2>5. pc' \in DOMAIN program
    BY <2>4 DEF Pending
  <2> QED
    BY <2>2, <2>3, <2>4, <2>5 DEF LoadInv, LoadsWait, Untroubled
<1>12. CASE BoardDone
  <2>1. busy' \subseteq busy /\ UNCHANGED <<device, conf, program, pc, early, failed, slow>>
    BY <1>12 DEF BoardDone
  <2> QED
    BY <2>1 DEF LoadsWait, Pending, Untroubled
<1>13. CASE UNCHANGED vars
  BY <1>13 DEF vars, LoadsWait, Untroubled
<1>14. CASE Si5325Writes
  <2>1. pc \in DOMAIN program /\ \A u : ~PollAt(program, pc, u)
    BY <1>2, <1>3, <1>14, Zenon DEF Si5325Writes
  <2>2. PICK e : GoOn(e)
    BY <1>5, <1>14, Zenon DEF Si5325Writes
  <2>3. failed = {} \/ failed' # {}
    BY <1>4, <1>14, Zenon DEF Si5325Writes
  <2>4. UNCHANGED <<device, conf, program, busy, early, slow>>
    BY <1>14, Zenon DEF Si5325Writes
  <2> QED
    BY <2>1, <2>2, <2>3, <2>4, PlainStep
<1> QED
  BY <1>6, <1>7, <1>8, <1>9, <1>10, <1>11, <1>12, <1>13, <1>14, Zenon DEF Next

\* A unit is loaded only when the board has taken what came before, whatever the
\* configuration and however long it takes (LoadConfig() of all four boards).
THEOREM LoadsWaitCorrect == Spec => []LoadsWait
<1>1. LoadInv => LoadsWait
  BY DEF LoadInv
<1> QED
  BY <1>1, LoadInit, LoadNext, PTL DEF Spec

(***************************************************************************)
(* The failures that the boards that count them do not count.              *)
(***************************************************************************)
Uncounted(i) == program[i].op \in {"spi", "si5325"} \/ program[i].reg = R("OSC")

CountInv ==
  /\ nerrors \in Nat /\ failed \subseteq DOMAIN program
  /\ device \in Counting /\ nerrors = 0 => \A i \in failed : Uncounted(i)
  /\ device \in Counting /\ pc = 0 => nerrors = 0

LEMMA CountInit == Init => CountInv
BY DEF Init, CountInv

LEMMA CountStep ==
  ASSUME CountInv, pc \in DOMAIN program, DOMAIN program \subseteq Nat \ {0},
         nerrors' \in Nat, nerrors' >= nerrors, GoOn(nerrors'),
         UNCHANGED <<device, program>>, failed' \subseteq failed \cup {pc},
         device \in Counting /\ pc \in failed' /\ nerrors' = nerrors => pc \in failed \/ Uncounted(pc)
  PROVE  CountInv'
<1>1. failed' \subseteq DOMAIN program
  BY DEF CountInv
<1>2. ASSUME device \in Counting, nerrors' = 0 PROVE \A i \in failed' : Uncounted(i)
  <2>1. nerrors = 0 /\ nerrors' = nerrors
    BY <1>2 DEF CountInv
  <2> QED
    BY <1>2, <2>1 DEF CountInv
<1>3. ASSUME device \in Counting, pc' = 0 PROVE nerrors' = 0
  <2>1. pc + 1 # 0
    OBVIOUS
  <2> QED
    BY <1>3, <2>1 DEF GoOn
<1> QED
  BY <1>1, <1>2, <1>3 DEF CountInv, Uncounted

LEMMA CountNext == LoadInv /\ CountInv /\ [Next]_vars => CountInv'
<1> SUFFICES ASSUME LoadInv, CountInv, [Next]_vars PROVE CountInv'
  OBVIOUS
<1>1. DOMAIN program = 1..Len(program) /\ Len(program) \in Nat /\ Good(program, device, conf)
  BY IsOfSeq DEF LoadInv, Good, Formed, Is
<1>2. \A kind : At(kind) => pc \in DOMAIN program /\ program[pc].op = kind
  BY <1>1 DEF At, Step, LoadInv
<1>3. DOMAIN program \subseteq Nat \ {0} /\ nerrors \in Nat
  BY <1>1 DEF CountInv
<1>4. Fail => failed' = failed \cup {pc}
  BY DEF Fail
<1>5. Counts \in Nat /\ (Counts = 0 => Step.counts # TRUE)
  <2>1. Counts = 1 \/ (Counts = 0 /\ ~Step.counts)
    BY Zenon DEF Counts
  <2>2. ~Step.counts => Step.counts # TRUE
    BY Zenon
  <2>3. 0 \in Nat /\ 1 \in Nat /\ 0 # 1
    OBVIOUS
  <2> QED
    BY <2>1, <2>2, <2>3, Zenon
<1>6. \A errors : Failed(errors) => nerrors' = nerrors + errors /\ GoOn(nerrors')
  BY DEF Failed
<1>7. pc \in DOMAIN program /\ device \in Counting =>
        /\ CountedStep(Step) /\ Step.op # "start" /\ Step.op # "poll"
  BY <1>1, Zenon DEF Good, Step
<1>8. ASSUME pc \in DOMAIN program, UNCHANGED <<device, program>>,
             \/ UNCHANGED <<nerrors, failed>> /\ GoOn(nerrors)
             \/ Fail /\ Failed(Counts)
      PROVE  CountInv'
  <2>1. CASE UNCHANGED <<nerrors, failed>> /\ GoOn(nerrors)
    <3>1. nerrors' \in Nat /\ nerrors' >= nerrors /\ GoOn(nerrors') /\ failed' = failed
      BY <1>3, <2>1
    <3> QED
      BY <1>3, <1>8, <3>1, CountStep
  <2>2. CASE Fail /\ Failed(Counts)
    <3>1. nerrors' = nerrors + Counts /\ GoOn(nerrors') /\ failed' = failed \cup {pc}
      BY <1>4, <1>6, <2>2
    <3>2. nerrors' \in Nat /\ nerrors' >= nerrors /\ (nerrors' = nerrors => Counts = 0)
      BY <1>3, <1>5, <3>1
    <3>3. device \in Counting /\ nerrors' = nerrors => Uncounted(pc)
      BY <1>5, <1>7, <1>8, <3>2 DEF CountedStep, Uncounted, Step
    <3> QED
      BY <1>3, <1>8, <3>1, <3>2, <3>3, CountStep
  <2> QED
    BY <1>8, <2>1, <2>2
<1>9. CASE ReadStep
  <2>1. pc \in DOMAIN program /\ UNCHANGED <<device, program>>
    BY <1>2, <1>9 DEF ReadStep
  <2>2. (UNCHANGED <<nerrors, failed>> /\ GoOn(nerrors)) \/ (Fail /\ Failed(Counts))
    BY <1>9 DEF ReadStep
  <2> QED
    BY <1>8, <2>1, <2>2
<1>10. CASE WriteStep
  <2>1. pc \in DOMAIN program /\ UNCHANGED <<device, program>>
    BY <1>2, <1>10, Zenon DEF WriteStep
  <2>2. (UNCHANGED <<nerrors, failed>> /\ GoOn(nerrors)) \/ (Fail /\ Failed(Counts))
    BY <1>10, Zenon DEF WriteStep
  <2> QED
    BY <1>8, <2>1, <2>2
<1>11. CASE Start \/ PollStep
  <2>1. pc \in DOMAIN program /\ (Step.op = "start" \/ Step.op = "poll")
    BY <1>2, <1>11, Zenon DEF Start, PollStep, Step
  <2>2. UNCHANGED <<device, program, nerrors>> /\ (failed' = failed \/ Fail)
    BY <1>11, Zenon DEF Start, PollStep
  <2>3. device \notin Counting
    BY <1>7, <2>1
  <2> QED
    BY <1>4, <2>1, <2>2, <2>3 DEF CountInv
<1>12. CASE AdcSpiWrites \/ Si5325Writes
  <2>1. /\ pc \in DOMAIN program /\ UNCHANGED <<device, program>>
        /\ program[pc].op \in {"spi", "si5325"}
    BY <1>2, <1>12 DEF AdcSpiWrites, Si5325Writes
  <2>2. \/ UNCHANGED <<nerrors, failed>> /\ GoOn(nerrors)
        \/ Fail /\ (Failed(0) \/ Failed(1))
    BY <1>12, Zenon DEF AdcSpiWrites, Si5325Writes
  <2>3. /\ nerrors' \in Nat /\ nerrors' >= nerrors /\ GoOn(nerrors')
        /\ failed' \subseteq failed \cup {pc}
    <3>1. CASE UNCHANGED <<nerrors, failed>> /\ GoOn(nerrors)
      BY <1>3, <3>1
    <3>2. CASE Fail /\ (Failed(0) \/ Failed(1))
      BY <1>3, <1>4, <1>6, <3>2
    <3> QED
      BY <2>2, <3>1, <3>2
  <2> QED
    BY <1>3, <2>1, <2>3, CountStep DEF Uncounted
<1>13. CASE IfRunningStep
  <2>1. pc \in DOMAIN program /\ Jump(program[pc])
    BY <1>2, <1>13, Zenon DEF IfRunningStep, Jump
  <2>2. UNCHANGED <<device, program, nerrors, failed>>
    BY <1>13, Zenon DEF IfRunningStep
  <2>3. pc' # 0
    <3>0. program[pc].n = 2
      BY <1>1, <2>1, Zenon DEF Good, Jumps, Jump
    <3>1. pc' = pc + 1 \/ pc' = pc + 1 + 2
      BY <1>13, <3>0, Zenon DEF IfRunningStep, Step
    <3> QED
      BY <1>3, <2>1, <3>1
  <2> QED
    BY <2>2, <2>3 DEF CountInv, Uncounted
<1>14. CASE BoardDone
  BY <1>14 DEF BoardDone, CountInv, Uncounted
<1>15. CASE UNCHANGED vars
  BY <1>15 DEF vars, CountInv, Uncounted
<1> QED
  BY <1>9, <1>10, <1>11, <1>12, <1>13, <1>14, <1>15, Zenon DEF Next

(***************************************************************************)
(* A register is what it would be without failures, or one of the steps    *)
(* that make it failed.                                                    *)
(***************************************************************************)
Disturbs(i, r) ==
  \/ program[i].op \in Writing /\ program[i].reg = r
  \/ /\ program[i].op = "read" /\ i < Len(program)
     /\ program[i + 1].op \in OfMsg /\ program[i + 1].reg = r
  \/ Misdirects(i, r)

\* The last step that is done.
Done == IF pc > 0 THEN pc - 1 ELSE Len(program)

RegsInv ==
  /\ DOMAIN regs = DOMAIN Untouched
  /\ \A r \in DOMAIN regs :
       regs[r] = After[Done].regs[r] \/ \E i \in failed : Disturbs(i, r)
  /\ pc > 1 /\ program[pc - 1].op = "read" /\ pc - 1 \notin failed =>
       msg = regs[program[pc - 1].reg]

LEMMA AfterSame ==
  ASSUME UNCHANGED <<program, conf>>
  PROVE  Untouched' = Untouched /\ After' = After
<1>1. Untouched' = Untouched
  BY DEF Untouched
<1> HIDE DEF Untouched
<1>2. After' = After
  BY <1>1 DEF After
<1> QED
  BY <1>1, <1>2

\* The registers the program names.
LEMMA StepsRegs ==
  ASSUME NEW i \in DOMAIN program
  PROVE  program[i].reg \in DOMAIN Untouched
<1>1. DOMAIN Untouched = {program[k].reg : k \in DOMAIN program}
  BY Zenon DEF Untouched
<1> HIDE DEF Untouched
<1>2. program[i].reg \in {program[k].reg : k \in DOMAIN program}
  OBVIOUS
<1> QED
  BY <1>1, <1>2, Zenon

\* What a board that runs does more is no more than was there.
LEMMA Skipped ==
  ASSUME NEW d, NEW c, Good(program, d, c), NEW n \in DOMAIN program, Jump(program[n]),
         NEW r \in DOMAIN Untouched
  PROVE  After[n + 2].regs[r] = After[n - 1].regs[r]
<1> DEFINE s == R("0x8100")
<1>1. Len(program) \in Nat /\ DOMAIN program = 1..Len(program)
  BY AfterSteps
<1>2. /\ n + 3 \in DOMAIN program
      /\ program[n + 1].op = "read" /\ program[n + 1].reg = s
      /\ program[n + 2].op = "putMsg" /\ program[n + 2].reg = s
      /\ program[n + 2].clear = {2} /\ program[n + 2].set = {}
      /\ \A j \in 1..n : program[j].op \in Writing => program[j].reg # s
  BY Zenon DEF Good, Jumps, Jump
<1>3. program[n].op \notin Writing
  BY WritingKinds DEF Jump
<1>a. s # R("0x8104")
  BY DEF R
<1> HIDE DEF s
<1>4. Untouched[s] = {17} /\ s \in DOMAIN Untouched
  <2>1. n + 1 \in DOMAIN program
    BY <1>1, <1>2
  <2>2. s \in DOMAIN Untouched
    BY <1>2, <2>1, StepsRegs
  <2>3. s # R("0x8104")
    BY <1>a
  <2>4. Untouched[s] = Foreign
    BY <2>2, <2>3 DEF Untouched
  <2> QED
    BY <2>2, <2>4 DEF Foreign
<1>5. n \in 1..Len(program) /\ n + 1 \in 1..Len(program) /\ n + 2 \in 1..Len(program)
      /\ n + 1 - 1 = n /\ n + 2 - 1 = n + 1 /\ n + 1 \in 0..Len(program)
  BY <1>1, <1>2
<1>6. After[n].regs = After[n - 1].regs
  BY <1>3, <1>5, AfterSteps
<1>7. After[n + 1].regs = After[n].regs /\ After[n + 1].read = After[n + 1].regs[s]
  <2>1. program[n + 1].op \notin Writing
    BY <1>2, WritingKinds
  <2>2. \A k \in 1..Len(program) : program[k].op \notin Writing => After[k].regs = After[k - 1].regs
    BY AfterSteps
  <2>3. \A k \in 1..Len(program) : program[k].op = "read" => After[k].read = After[k].regs[program[k].reg]
    BY AfterSteps
  <2> QED
    BY <1>2, <1>5, <2>1, <2>2, <2>3
<1>8. After[n + 1].regs[s] = {17}
  <2>1. ASSUME NEW j \in 1..(n + 1), program[j].op \in Writing PROVE program[j].reg # s
    <3>1. j \in 1..n \/ j = n + 1
      BY <1>5
    <3> QED
      BY <1>2, <2>1, <3>1, WritingKinds
  <2> QED
    BY <1>4, <1>5, <2>1, Unwritten
<1> DEFINE f == After[n + 1].regs
           w == Word(program[n + 2], After[n + 1].read)
<1>9. After[n + 2].regs = [f EXCEPT ![s] = w]
  <2>1. program[n + 2].op \in Writing
    BY <1>2, WritingKinds DEF OfMsg
  <2>2. \A k \in 1..Len(program) : program[k].op \in Writing =>
          After[k].regs = [After[k - 1].regs EXCEPT
                             ![program[k].reg] = Word(program[k], After[k - 1].read)]
    BY AfterSteps
  <2>3. n + 2 \in 1..Len(program) /\ (n + 2) - 1 = n + 1
    BY <1>5
  <2>4. After[n + 2].regs = [After[(n + 2) - 1].regs EXCEPT
                              ![program[n + 2].reg] = Word(program[n + 2], After[(n + 2) - 1].read)]
    BY <2>1, <2>2, <2>3, Zenon
  <2> QED
    BY <1>2, <2>3, <2>4
<1>10. w = {17}
  <2>1. Word(program[n + 2], After[n + 1].read) =
          (After[n + 1].read \ program[n + 2].clear) \cup program[n + 2].set
    BY <1>2, Zenon DEF Word
  <2> QED
    BY <1>2, <1>7, <1>8, <2>1
<1>11. f[s] = w /\ f = After[n - 1].regs
  BY <1>6, <1>7, <1>8, <1>10
<1> HIDE DEF f, w
<1> QED
  BY <1>9, <1>11

\* What the steps of RegsInv's proof have in common.
LEMMA OneStep ==
  ASSUME LoadInv, RegsInv, CountInv, pc \in DOMAIN program
  PROVE  /\ Good(program, device, conf)
         /\ Len(program) \in Nat /\ DOMAIN program = 1..Len(program)
         /\ pc \in 1..Len(program) /\ Done = pc - 1 /\ pc - 1 \in 0..Len(program)
         /\ failed \subseteq DOMAIN program
         /\ DOMAIN regs = DOMAIN Untouched /\ program[pc].reg \in DOMAIN regs
         /\ DOMAIN After[pc - 1].regs = DOMAIN regs
         /\ program[pc].op \in Writing => After[pc].regs =
              [After[pc - 1].regs EXCEPT ![program[pc].reg] = Word(program[pc], After[pc - 1].read)]
         /\ program[pc].op \notin Writing => After[pc].regs = After[pc - 1].regs
         /\ \A r \in DOMAIN regs :
              regs[r] = After[pc - 1].regs[r] \/ \E i \in failed : Disturbs(i, r)
<1>1. Good(program, device, conf) /\ failed \subseteq DOMAIN program
  BY DEF LoadInv, CountInv
<1>2. Len(program) \in Nat /\ DOMAIN program = 1..Len(program)
  BY <1>1, AfterSteps
<1>3. pc \in 1..Len(program) /\ Done = pc - 1 /\ pc - 1 \in 0..Len(program)
  BY <1>2 DEF Done
<1>4. DOMAIN regs = DOMAIN Untouched /\ program[pc].reg \in DOMAIN regs
  BY StepsRegs DEF RegsInv
<1>5. DOMAIN After[pc - 1].regs = DOMAIN regs
  BY <1>1, <1>3, <1>4, AfterSteps
<1>6. /\ program[pc].op \in Writing => After[pc].regs =
           [After[pc - 1].regs EXCEPT ![program[pc].reg] = Word(program[pc], After[pc - 1].read)]
      /\ program[pc].op \notin Writing => After[pc].regs = After[pc - 1].regs
  BY <1>1, <1>3, AfterSteps
<1>7. \A r \in DOMAIN regs :
        regs[r] = After[pc - 1].regs[r] \/ \E i \in failed : Disturbs(i, r)
  <2>1. \A r \in DOMAIN regs :
          regs[r] = After[Done].regs[r] \/ \E i \in failed : Disturbs(i, r)
    BY DEF RegsInv
  <2>2. Done = pc - 1
    BY <1>3
  <2> QED
    BY <2>1, <2>2
<1> QED
  BY <1>1, <1>2, <1>3, <1>4, <1>5, <1>6, <1>7

\* The next step.
LEMMA OneOn ==
  ASSUME LoadInv, RegsInv, CountInv, pc \in DOMAIN program, NEW errors, GoOn(errors),
         UNCHANGED <<program, conf>>
  PROVE  /\ Done' = pc /\ (pc' > 1 => pc' - 1 = pc)
         /\ Untouched' = Untouched /\ After' = After
         /\ \A i, r : Disturbs(i, r)' <=> Disturbs(i, r)
<1>1. Len(program) \in Nat /\ pc \in 1..Len(program)
  BY OneStep
<1>2. (pc' = pc + 1 /\ pc < Len(program)) \/ (pc' \in {-1, 0} /\ pc = Len(program))
  BY <1>1 DEF GoOn
<1>3. Done' = pc /\ (pc' > 1 => pc' - 1 = pc)
  BY <1>1, <1>2 DEF Done
<1>4. \A i, r : Disturbs(i, r)' <=> Disturbs(i, r)
  BY DEF Disturbs, Misdirects
<1> QED
  BY <1>3, <1>4, AfterSame

\* A step that writes nothing, or fails, with a word that goes astray or not.
LEMMA RegsStay ==
  ASSUME LoadInv, RegsInv, CountInv, pc \in DOMAIN program, NEW errors, GoOn(errors),
         UNCHANGED <<program, conf>>, failed \subseteq failed', DOMAIN regs' = DOMAIN regs,
         \A r \in DOMAIN regs : regs'[r] = regs[r] \/ (pc \in failed' /\ Misdirects(pc, r)),
         program[pc].op \in Writing => pc \in failed',
         program[pc].op = "read" =>
           UNCHANGED regs /\ (msg' = regs[program[pc].reg] \/ pc \in failed')
  PROVE  RegsInv'
<1>1. /\ DOMAIN regs = DOMAIN Untouched /\ program[pc].reg \in DOMAIN regs
      /\ DOMAIN After[pc - 1].regs = DOMAIN regs
      /\ program[pc].op \in Writing => After[pc].regs =
           [After[pc - 1].regs EXCEPT ![program[pc].reg] = Word(program[pc], After[pc - 1].read)]
      /\ program[pc].op \notin Writing => After[pc].regs = After[pc - 1].regs
      /\ \A r \in DOMAIN regs :
           regs[r] = After[pc - 1].regs[r] \/ \E i \in failed : Disturbs(i, r)
  BY OneStep, Zenon
<1>2. /\ Done' = pc /\ (pc' > 1 => pc' - 1 = pc)
      /\ Untouched' = Untouched /\ After' = After
      /\ \A i, r : Disturbs(i, r)' <=> Disturbs(i, r)
  BY OneOn, Zenon
<1>3. ASSUME NEW r \in DOMAIN regs
      PROVE  regs'[r] = After[pc].regs[r] \/ \E i \in failed' : Disturbs(i, r)
  <2> DEFINE f == After[pc - 1].regs
             w == Word(program[pc], After[pc - 1].read)
             g == After[pc].regs
  <2>1. /\ program[pc].op \in Writing => g = [f EXCEPT ![program[pc].reg] = w]
        /\ program[pc].op \notin Writing => g = f
        /\ r \in DOMAIN f
        /\ regs[r] = f[r] \/ \E i \in failed : Disturbs(i, r)
    BY <1>1, Zenon
  <2> HIDE DEF f, w, g
  <2>2. CASE program[pc].op \in Writing /\ program[pc].reg = r
    <3>1. pc \in failed' /\ Disturbs(pc, r)
      BY <2>2 DEF Disturbs
    <3> QED
      BY <3>1
  <2>3. CASE ~(program[pc].op \in Writing /\ program[pc].reg = r)
    <3>1. g[r] = f[r]
      BY <2>1, <2>3
    <3>2. regs'[r] = regs[r] \/ \E i \in failed' : Disturbs(i, r)
      BY Zenon DEF Disturbs
    <3> QED
      BY <2>1, <3>1, <3>2 DEF g
  <2> QED
    BY <2>2, <2>3
<1>4. ASSUME pc' > 1, program[pc' - 1].op = "read", pc' - 1 \notin failed'
      PROVE  msg' = regs'[program[pc' - 1].reg]
  BY <1>2, <1>4
<1> QED
  <2>1. DOMAIN regs' = DOMAIN Untouched'
    BY <1>1, <1>2
  <2>2. \A r \in DOMAIN regs' :
          regs'[r] = After'[Done'].regs[r] \/ \E i \in failed' : Disturbs(i, r)'
    BY <1>2, <1>3
  <2>3. pc' > 1 /\ program'[pc' - 1].op = "read" /\ pc' - 1 \notin failed' =>
          msg' = regs'[program'[pc' - 1].reg]
    BY <1>4
  <2> QED
    BY <2>1, <2>2, <2>3 DEF RegsInv

\* A step that writes its register: a word made of msg is made of what the step
\* before it read, or the register is disturbed already.
LEMMA RegsSet ==
  ASSUME LoadInv, RegsInv, CountInv, pc \in DOMAIN program, NEW errors, GoOn(errors),
         UNCHANGED <<program, conf>>, failed \subseteq failed',
         program[pc].op \in Writing,
         regs' = [regs EXCEPT ![program[pc].reg] = Word(program[pc], msg)]
  PROVE  RegsInv'
<1> DEFINE s == program[pc]
           f == After[pc - 1].regs
           w == Word(s, After[pc - 1].read)
           g == After[pc].regs
<1>1. /\ DOMAIN regs = DOMAIN Untouched /\ s.reg \in DOMAIN regs
      /\ DOMAIN f = DOMAIN regs
      /\ g = [f EXCEPT ![s.reg] = w]
      /\ \A r \in DOMAIN regs : regs[r] = f[r] \/ \E i \in failed : Disturbs(i, r)
  BY OneStep, Zenon
<1>2. /\ Done' = pc /\ (pc' > 1 => pc' - 1 = pc)
      /\ Untouched' = Untouched /\ After' = After
      /\ \A i, r : Disturbs(i, r)' <=> Disturbs(i, r)
  BY OneOn, Zenon
<1>3. /\ Good(program, device, conf) /\ Len(program) \in Nat /\ DOMAIN program = 1..Len(program)
      /\ pc \in 1..Len(program) /\ pc - 1 \in 0..Len(program) /\ failed \subseteq DOMAIN program
  BY OneStep, Zenon
<1>4. Word(s, msg) = w \/ \E i \in failed : Disturbs(i, s.reg)
  <2>1. CASE s.op \notin OfMsg
    <3>1. \A read : Word(s, read) = s.word
      BY <2>1, Zenon DEF Word, OfMsg
    <3> QED
      BY <3>1
  <2>2. CASE s.op \in OfMsg
    <3> DEFINE b == program[pc - 1]
    <3>1. pc - 1 \in DOMAIN program /\ b.op = "read" /\ b.reg \in {s.reg, Adc12}
      BY <1>3, <2>2, Zenon DEF Good, Formed
    <3>2. pc - 1 \in 1..Len(program) /\ pc > 1 /\ pc - 1 < Len(program) /\ (pc - 1) + 1 = pc
      BY <1>3, <3>1
    <3>3. CASE pc - 1 \in failed
      <4>1. Disturbs(pc - 1, s.reg)
        BY <2>2, <3>1, <3>2 DEF Disturbs
      <4> QED
        BY <3>3, <4>1
    <3>4. CASE pc - 1 \notin failed
      <4>1. msg = regs[b.reg]
        BY <3>1, <3>2, <3>4 DEF RegsInv
      <4>2. After[pc - 1].read = f[b.reg]
        BY <1>3, <3>1, <3>2, AfterSteps
      <4>3. b.reg \in DOMAIN regs
        BY <1>1, <3>1, StepsRegs
      <4>4. regs[b.reg] = f[b.reg] \/ \E i \in failed : Disturbs(i, b.reg)
        BY <1>1, <4>3
      <4>5. CASE regs[b.reg] = f[b.reg]
        BY <4>1, <4>2, <4>5
      <4>6. CASE \E i \in failed : Disturbs(i, b.reg)
        <5>1. PICK i \in failed : Disturbs(i, b.reg)
          BY <4>6
        <5>2. \A j \in DOMAIN program : program[j].op \in Writing => program[j].reg # Adc12
          BY <1>3, Zenon DEF Good, Formed
        <5>3. b.reg # Adc12
          <6>1. i \in DOMAIN program /\ i \in Nat
            BY <1>3
          <6>2. i < Len(program) => i + 1 \in DOMAIN program
            BY <1>3, <6>1
          <6> QED
            BY <5>1, <5>2, <6>1, <6>2, WritingKinds DEF Disturbs, Misdirects, Adc12, R
        <5>4. b.reg = s.reg
          BY <3>1, <5>3
        <5> QED
          BY <5>1, <5>4
      <4> QED
        BY <4>4, <4>5, <4>6
    <3> QED
      BY <3>3, <3>4
  <2> QED
    BY <2>1, <2>2
<1>5. s.op # "read"
  BY WritingKinds
<1>6. regs' = [regs EXCEPT ![s.reg] = Word(s, msg)]
  OBVIOUS
<1> HIDE DEF f, w, g, s
<1>7. ASSUME NEW r \in DOMAIN regs
      PROVE  regs'[r] = g[r] \/ \E i \in failed' : Disturbs(i, r)
  <2>1. CASE r = s.reg
    <3>1. regs'[r] = Word(s, msg) /\ g[r] = w
      BY <1>1, <1>6, <2>1
    <3> QED
      BY <1>4, <2>1, <3>1
  <2>2. CASE r # s.reg
    <3>1. regs'[r] = regs[r] /\ g[r] = f[r]
      BY <1>1, <1>6, <2>2
    <3> QED
      BY <1>1, <3>1
  <2> QED
    BY <2>1, <2>2
<1>8. DOMAIN regs' = DOMAIN regs
  BY <1>6
<1>9. DOMAIN regs' = DOMAIN Untouched'
  BY <1>1, <1>2, <1>8
<1>10. \A r \in DOMAIN regs' :
         regs'[r] = After'[Done'].regs[r] \/ \E i \in failed' : Disturbs(i, r)'
  BY <1>2, <1>7, <1>8 DEF g
<1>11. pc' > 1 /\ program'[pc' - 1].op = "read" /\ pc' - 1 \notin failed' =>
         msg' = regs'[program'[pc' - 1].reg]
  BY <1>2, <1>5 DEF s
<1> QED
  BY <1>9, <1>10, <1>11 DEF RegsInv

\* The steps for a board that runs, taken or skipped.
LEMMA RegsJump ==
  ASSUME LoadInv, RegsInv, CountInv, pc \in DOMAIN program, Jump(program[pc]),
         pc' \in {pc + 1, pc + 3}, UNCHANGED <<program, conf, regs, msg, failed>>
  PROVE  RegsInv'
<1>1. /\ DOMAIN regs = DOMAIN Untouched
      /\ program[pc].op \notin Writing => After[pc].regs = After[pc - 1].regs
      /\ \A r \in DOMAIN regs :
           regs[r] = After[pc - 1].regs[r] \/ \E i \in failed : Disturbs(i, r)
      /\ Good(program, device, conf) /\ Len(program) \in Nat
      /\ DOMAIN program = 1..Len(program) /\ pc \in 1..Len(program)
  BY OneStep, Zenon
<1>2. Untouched' = Untouched /\ After' = After
  BY AfterSame
<1>3. \A i, r : Disturbs(i, r)' <=> Disturbs(i, r)
  BY DEF Disturbs, Misdirects
<1>4. After[pc].regs = After[pc - 1].regs
  BY <1>1, WritingKinds DEF Jump
<1>5. \A r \in DOMAIN regs : After[pc + 2].regs[r] = After[pc - 1].regs[r]
  BY <1>1, Skipped
<1>6. (pc' = pc + 1 /\ Done' = pc /\ pc' - 1 = pc)
      \/ (pc' = pc + 3 /\ Done' = pc + 2 /\ pc' - 1 = pc + 2)
  BY <1>1 DEF Done
<1>7. program[pc].op # "read" /\ program[pc + 2].op # "read"
  <2>1. program[pc + 2].op = "putMsg"
    BY <1>1, Zenon DEF Good, Jumps, Jump
  <2> QED
    BY <2>1 DEF Jump
<1>8. \A r \in DOMAIN regs : After[Done'].regs[r] = After[pc - 1].regs[r]
  <2>1. CASE Done' = pc
    BY <1>4, <2>1
  <2>2. CASE Done' = pc + 2
    BY <1>5, <2>2
  <2> QED
    BY <1>6, <2>1, <2>2
<1>9. \A r \in DOMAIN regs' :
        regs'[r] = After'[Done'].regs[r] \/ \E i \in failed' : Disturbs(i, r)'
  BY <1>1, <1>2, <1>3, <1>8
<1>10. ~(program'[pc' - 1].op = "read")
  BY <1>6, <1>7
<1> QED
  BY <1>1, <1>2, <1>9, <1>10 DEF RegsInv

\* No step of the program.
LEMMA RegsSame ==
  ASSUME RegsInv, UNCHANGED <<program, conf, pc, regs, msg>>, failed \subseteq failed'
  PROVE  RegsInv'
<1>1. Untouched' = Untouched /\ After' = After
  BY AfterSame
<1>2. /\ \A i, r : Disturbs(i, r)' <=> Disturbs(i, r)
      /\ Done' = Done
  BY DEF Disturbs, Misdirects, Done
<1>3. /\ DOMAIN regs = DOMAIN Untouched
      /\ \A r \in DOMAIN regs :
           regs[r] = After[Done].regs[r] \/ \E i \in failed : Disturbs(i, r)
      /\ pc > 1 /\ program[pc - 1].op = "read" /\ pc - 1 \notin failed =>
           msg = regs[program[pc - 1].reg]
  BY DEF RegsInv
<1>4. /\ DOMAIN regs' = DOMAIN Untouched'
      /\ \A r \in DOMAIN regs' :
           regs'[r] = After'[Done'].regs[r] \/ \E i \in failed' : Disturbs(i, r)'
      /\ pc' > 1 /\ program'[pc' - 1].op = "read" /\ pc' - 1 \notin failed' =>
           msg' = regs'[program'[pc' - 1].reg]
  BY <1>1, <1>2, <1>3
<1> QED
  BY <1>4 DEF RegsInv

LEMMA RegsInit == Init => RegsInv
<1> SUFFICES ASSUME Init PROVE RegsInv
  OBVIOUS
<1>1. pc = 1 /\ regs = Untouched
  BY DEF Init
<1>2. Good(program, device, conf)
  BY ProgramGood DEF Init
<1>3. After[0].regs = Untouched
  BY <1>2, AfterSteps
<1>4. Done = 0 /\ ~(pc > 1)
  BY <1>1 DEF Done
<1> HIDE DEF Untouched
<1> QED
  BY <1>1, <1>3, <1>4 DEF RegsInv

LEMMA RegsNext == LoadInv /\ CountInv /\ RegsInv /\ [Next]_vars => RegsInv'
<1> SUFFICES ASSUME LoadInv, CountInv, RegsInv, [Next]_vars PROVE RegsInv'
  OBVIOUS
<1>1. DOMAIN program = 1..Len(program) /\ Len(program) \in Nat
  BY IsOfSeq DEF LoadInv, Good, Formed, Is
<1>2. \A kind : At(kind) => pc \in DOMAIN program /\ program[pc].op = kind
  BY <1>1 DEF At, Step, LoadInv
<1>3. Fail => failed \subseteq failed' /\ pc \in failed'
  BY DEF Fail
<1>4. \A errors : Failed(errors) => GoOn(nerrors')
  BY DEF Failed
<1>5. \A r, word : Set(r, word) => regs' = [regs EXCEPT ![r] = word]
  BY DEF Set
<1>6. CASE ReadStep
  <2>1. pc \in DOMAIN program /\ program[pc].op = "read"
    BY <1>2, <1>6 DEF ReadStep
  <2>2. PICK e : GoOn(e)
    BY <1>4, <1>6 DEF ReadStep
  <2>3. UNCHANGED <<program, conf, regs>> /\ failed \subseteq failed'
    BY <1>3, <1>6 DEF ReadStep
  <2>4. msg' = regs[program[pc].reg] \/ pc \in failed'
    BY <1>3, <1>6 DEF ReadStep, Step
  <2>5. program[pc].op \notin Writing
    BY <2>1, WritingKinds
  <2> QED
    BY <2>1, <2>2, <2>3, <2>4, <2>5, RegsStay
<1>7. ASSUME pc \in DOMAIN program, program[pc].op \in Writing, UNCHANGED <<program, conf>>,
             NEW e, GoOn(e), failed \subseteq failed',
             \/ Set(program[pc].reg, Word(program[pc], msg))
             \/ pc \in failed' /\ UNCHANGED regs
      PROVE  RegsInv'
  <2>1. CASE Set(program[pc].reg, Word(program[pc], msg))
    <3>1. regs' = [regs EXCEPT ![program[pc].reg] = Word(program[pc], msg)]
      BY <1>5, <2>1
    <3> QED
      BY <1>7, <3>1, RegsSet
  <2>2. CASE pc \in failed' /\ UNCHANGED regs
    <3>1. program[pc].op # "read"
      BY <1>7, WritingKinds
    <3> QED
      BY <1>7, <2>2, <3>1, RegsStay
  <2> QED
    BY <1>7, <2>1, <2>2
<1>8. CASE WriteStep
  <2>1. At("write") \/ At("put") \/ At("putMsg") \/ At("writeMsg")
    BY <1>8, Zenon DEF WriteStep
  <2>2. pc \in DOMAIN program /\ program[pc].op \in Writing
    BY <1>2, <2>1, Zenon DEF Writing
  <2>3. PICK e : GoOn(e)
    BY <1>4, <1>8, Zenon DEF WriteStep
  <2>4. UNCHANGED <<program, conf>>
    BY <1>8, Zenon DEF WriteStep
  <2>5. failed \subseteq failed'
    BY <1>3, <1>8, Zenon DEF WriteStep
  <2>6. \/ Set(program[pc].reg, Word(program[pc], msg))
        \/ pc \in failed' /\ UNCHANGED regs
    BY <1>3, <1>8, Zenon DEF WriteStep, Step
  <2> QED
    BY <1>7, <2>2, <2>3, <2>4, <2>5, <2>6
<1>9. CASE Start
  <2>1. pc \in DOMAIN program /\ program[pc].op = "start"
    BY <1>2, <1>9, Zenon DEF Start
  <2>2. program[pc].op \in Writing /\ Word(program[pc], msg) = program[pc].word
    BY <2>1, WritingKinds DEF Word
  <2>3. GoOn(nerrors) /\ UNCHANGED <<program, conf>> /\ failed \subseteq failed'
    BY <1>3, <1>9, Zenon DEF Start
  <2>4. \/ Set(program[pc].reg, Word(program[pc], msg))
        \/ pc \in failed' /\ UNCHANGED regs
    BY <1>3, <1>9, <2>2, Zenon DEF Start, Step
  <2> QED
    BY <1>7, <2>1, <2>2, <2>3, <2>4
<1>10. CASE AdcSpiWrites
  <2>1. pc \in DOMAIN program /\ program[pc].op = "spi"
    BY <1>2, <1>10, Zenon DEF AdcSpiWrites
  <2>2. program[pc].op \in Writing /\ Word(program[pc], msg) = program[pc].word
    BY <2>1, WritingKinds DEF Word
  <2>3. PICK e : GoOn(e)
    BY <1>4, <1>10, Zenon DEF AdcSpiWrites
  <2>4. UNCHANGED <<program, conf>> /\ failed \subseteq failed'
    BY <1>3, <1>10, Zenon DEF AdcSpiWrites
  <2>5. \/ Set(program[pc].reg, Word(program[pc], msg))
        \/ pc \in failed' /\ UNCHANGED regs
    BY <1>3, <1>10, <2>2, Zenon DEF AdcSpiWrites, Step
  <2> QED
    BY <1>7, <2>1, <2>2, <2>3, <2>4, <2>5
<1>11. CASE PollStep
  <2>1. pc \in DOMAIN program /\ program[pc].op = "poll"
    BY <1>2, <1>11 DEF PollStep
  <2>2. UNCHANGED <<program, conf, regs, msg>> /\ failed \subseteq failed'
    BY <1>3, <1>11 DEF PollStep
  <2>3. GoOn(nerrors) \/ pc' = pc
    BY <1>11 DEF PollStep
  <2>4. program[pc].op \notin Writing /\ program[pc].op # "read"
    BY <2>1, WritingKinds
  <2>5. CASE GoOn(nerrors)
    BY <2>1, <2>2, <2>4, <2>5, RegsStay
  <2>6. CASE pc' = pc
    BY <2>2, <2>6, RegsSame
  <2> QED
    BY <2>3, <2>5, <2>6
<1>12. CASE IfRunningStep
  <2>1. pc \in DOMAIN program /\ Jump(program[pc])
    BY <1>2, <1>12, Zenon DEF IfRunningStep, Jump
  <2>2. UNCHANGED <<program, conf, regs, msg, failed>>
    BY <1>12, Zenon DEF IfRunningStep
  <2>3. pc' \in {pc + 1, pc + 3}
    <3>1. program[pc].n = 2
      BY <2>1, Zenon DEF LoadInv, Good, Jumps, Jump
    <3>2. pc' = pc + 1 \/ pc' = pc + 1 + 2
      BY <1>12, <3>1, Zenon DEF IfRunningStep, Step
    <3> QED
      BY <1>1, <2>1, <3>2
  <2> QED
    BY <2>1, <2>2, <2>3, RegsJump
<1>13. CASE BoardDone
  BY <1>13, RegsSame DEF BoardDone
<1>14. CASE UNCHANGED vars
  BY <1>14, RegsSame DEF vars
<1>15. CASE Si5325Writes
  <2>1. pc \in DOMAIN program /\ program[pc].op = "si5325"
    BY <1>2, <1>15, Zenon DEF Si5325Writes
  <2>2. program[pc].op \in Writing /\ Word(program[pc], msg) = program[pc].word
    BY <2>1, WritingKinds DEF Word
  <2>3. PICK e : GoOn(e)
    BY <1>4, <1>15, Zenon DEF Si5325Writes
  <2>4. UNCHANGED <<program, conf>> /\ failed \subseteq failed'
    BY <1>3, <1>15, Zenon DEF Si5325Writes
  <2>5. \/ Set(program[pc].reg, Word(program[pc], msg))
        \/ pc \in failed' /\ UNCHANGED regs
        \/ pc \in failed' /\ \E a : Set(Si5325Register(a), program[pc].word)
    BY <1>3, <1>15, <2>2, Zenon DEF Si5325Writes, Step
  <2>6. CASE pc \in failed' /\ \E a : Set(Si5325Register(a), program[pc].word)
    <3>1. PICK a : regs' = [regs EXCEPT ![<<"SI5325", a>>] = program[pc].word]
      BY <1>5, <2>6 DEF Si5325Register
    <3>2. ASSUME NEW r \in DOMAIN regs
          PROVE  regs'[r] = regs[r] \/ (pc \in failed' /\ Misdirects(pc, r))
      BY <2>1, <2>6, <3>1 DEF Misdirects
    <3>3. DOMAIN regs' = DOMAIN regs /\ program[pc].op # "read"
      BY <2>1, <3>1
    <3> QED
      BY <2>1, <2>3, <2>4, <2>6, <3>2, <3>3, RegsStay
  <2> QED
    BY <1>7, <2>1, <2>2, <2>3, <2>4, <2>5, <2>6
<1> QED
  BY <1>6, <1>8, <1>9, <1>10, <1>11, <1>12, <1>13, <1>14, <1>15, Zenon DEF Next

\* A LoadConfig() that returns has configured the board: a register is as without
\* failures, or a step that makes it failed; and in the boards that count errors
\* only the writes they do not count did.
THEOREM ReturnedConfiguredCorrect == Spec => []ReturnedConfigured
<1>1. LoadInv /\ CountInv /\ RegsInv => ReturnedConfigured
  <2> SUFFICES ASSUME LoadInv, CountInv, RegsInv, pc = 0 PROVE ReturnedConfigured
    BY DEF ReturnedConfigured, Returned
  <2>1. Done = Len(program)
    BY DEF Done
  <2>2. \A i, r : Disturbs(i, r) => Touches(i, r) \/ Misdirects(i, r)
    BY DEF Disturbs, Touches, OfMsg
  <2>3. \A r \in DOMAIN regs :
          regs[r] # After[Len(program)].regs[r] =>
            \E i \in failed : Touches(i, r) \/ Misdirects(i, r)
    BY <2>1, <2>2 DEF RegsInv
  <2>4. device \in Counting => \A i \in failed : program[i].op \in {"spi", "si5325"} \/ program[i].reg = R("OSC")
    BY DEF CountInv, Uncounted
  <2> QED
    BY <2>3, <2>4, Zenon DEF ReturnedConfigured
<1> QED
  BY <1>1, LoadInit, LoadNext, CountInit, CountNext, RegsInit, RegsNext, PTL DEF Spec

(***************************************************************************)
(* Without failures the registers are what the program makes them: the     *)
(* steps that write a switch's register write what the switch says.        *)
(***************************************************************************)
LEMMA SwitchBits ==
  ASSUME NEW w \in Switches
  PROVE  w[3] # R("0x8104") /\ w[4] # 17
BY DEF Switches, R

\* A switch's bit is on only if the switch is; once the register is written, it is
\* on or off as the switch is.
OnlyIfOn(w, n) == w[4] \in After[n].regs[w[3]] => w[2] \in conf.opts
AsSwitched(w, n) ==
  /\ w[4] \in After[n].regs[w[3]] <=> w[2] \in conf.opts
  /\ \A k \in w[5] : w[4] + k \in After[n].regs[w[3]] <=> w[2] \notin conf.opts
Written(w, n) == \E j \in 1..n : program[j].op \in Writing /\ program[j].reg = w[3]

\* Untouched registers but for 0x8104.
LEMMA AsFound ==
  ASSUME NEW r \in DOMAIN Untouched, r # R("0x8104")
  PROVE  Untouched[r] = {17}
<1>1. Untouched[r] = Foreign
  BY DEF Untouched
<1> QED
  BY <1>1 DEF Foreign

\* What a step writes to the switch's register.
LEMMA SwitchWritten ==
  ASSUME Good(program, device, conf), NEW w \in Switches, w[1] = device,
         NEW n \in 1..Len(program), program[n].op \in Writing, program[n].reg = w[3],
         OnlyIfOn(w, n - 1)
  PROVE  AsSwitched(w, n)
<1> DEFINE s == program[n]
           f == After[n - 1].regs
           read == After[n - 1].read
           v == Word(s, read)
<1>1. Len(program) \in Nat /\ DOMAIN program = 1..Len(program) /\ n \in DOMAIN program
  BY AfterSteps
<1>2. n - 1 \in 0..Len(program)
  BY <1>1
<1>3. DOMAIN f = DOMAIN Untouched /\ w[3] \in DOMAIN f
  <2>1. w[3] \in DOMAIN Untouched
    BY <1>1, StepsRegs
  <2> QED
    BY <1>2, <2>1, AfterSteps
<1>4. After[n].regs = [f EXCEPT ![w[3]] = v]
  BY AfterSteps
<1>5. Right(s, device, conf)
  BY <1>1, Zenon DEF Good
<1> DEFINE g == After[n].regs
<1>6. g[w[3]] = v
  <2> HIDE DEF f, v, g
  <2>1. g = [f EXCEPT ![w[3]] = v]
    BY <1>4 DEF g
  <2> QED
    BY <1>3, <2>1
<1>7. CASE s.op \notin OfMsg
  <2>1. v = s.word
    BY <1>7, Zenon DEF Word, OfMsg
  <2>2. /\ w[4] \in s.word <=> w[2] \in conf.opts
        /\ \A k \in w[5] : w[4] + k \in s.word <=> w[2] \notin conf.opts
    BY <1>5, <1>7, Zenon DEF Right
  <2> QED
    BY <1>6, <2>1, <2>2, Zenon DEF AsSwitched
<1>8. CASE s.op \in OfMsg
  <2>1. w[5] = {} /\ w[4] \notin s.clear /\ (w[4] \in s.set <=> w[2] \in conf.opts)
    BY <1>5, <1>8, Zenon DEF Right
  <2>2. v = (read \ s.clear) \cup s.set
    BY <1>8, Zenon DEF Word, OfMsg
  <2>3. w[4] \in read => w[2] \in conf.opts
    <3> DEFINE b == program[n - 1]
    <3>1. n - 1 \in DOMAIN program /\ b.op = "read" /\ b.reg \in {s.reg, Adc12}
      BY <1>1, <1>8, Zenon DEF Good, Formed
    <3>2. read = f[b.reg]
      <4>1. n - 1 \in 1..Len(program)
        BY <1>1, <3>1
      <4>2. \A i \in 1..Len(program) : program[i].op = "read" => After[i].read = After[i].regs[program[i].reg]
        BY AfterSteps
      <4> QED
        BY <3>1, <4>1, <4>2
    <3>3. CASE b.reg = s.reg
      BY <3>2, <3>3 DEF OnlyIfOn
    <3>4. CASE b.reg = Adc12
      <4>1. Adc12 \in DOMAIN Untouched
        BY <3>1, <3>4, StepsRegs
      <4>2. Adc12 # R("0x8104")
        BY DEF Adc12, R
      <4>3. Untouched[Adc12] = {17}
        BY <4>1, <4>2, AsFound
      <4>4. \A j \in DOMAIN program : program[j].op \in Writing => program[j].reg # Adc12
        BY Zenon DEF Good, Formed
      <4>5. f[Adc12] = Untouched[Adc12]
        <5>1. ASSUME NEW j \in 1..(n - 1), program[j].op \in Writing PROVE program[j].reg # Adc12
          <6>1. j \in DOMAIN program
            BY <1>1
          <6> QED
            BY <4>4, <5>1, <6>1
        <5> QED
          BY <1>2, <4>1, <5>1, Unwritten
      <4>6. w[4] # 17
        BY SwitchBits
      <4> QED
        BY <3>2, <3>4, <4>3, <4>5, <4>6
    <3> QED
      BY <3>1, <3>3, <3>4
  <2>4. w[4] \in v <=> w[2] \in conf.opts
    <3> HIDE DEF v, s, read
    <3> QED
      BY <2>1, <2>2, <2>3
  <2> QED
    BY <1>6, <2>1, <2>4 DEF AsSwitched
<1> QED
  BY <1>7, <1>8

\* So it is after every step.
LEMMA SwitchAfter ==
  ASSUME Good(program, device, conf), NEW w \in Switches, w[1] = device,
         w[3] \in DOMAIN Untouched, NEW n \in 0..Len(program)
  PROVE  OnlyIfOn(w, n) /\ (Written(w, n) => AsSwitched(w, n))
<1> DEFINE P(m) == OnlyIfOn(w, m) /\ (Written(w, m) => AsSwitched(w, m))
           S == {m \in 0..Len(program) : P(m)}
<1>1. Len(program) \in Nat /\ After[0].regs = Untouched
  BY AfterSteps
<1>2. P(0)
  <2>1. Untouched[w[3]] = {17} /\ w[4] # 17
    BY AsFound, SwitchBits
  <2>2. ~Written(w, 0)
    BY DEF Written
  <2>3. OnlyIfOn(w, 0)
    BY <1>1, <2>1 DEF OnlyIfOn
  <2> QED
    BY <2>2, <2>3
<1>3. ASSUME NEW m \in 1..Len(program), P(m - 1) PROVE P(m)
  <2>1. CASE program[m].op \in Writing /\ program[m].reg = w[3]
    <3>1. AsSwitched(w, m)
      BY <1>3, <2>1, SwitchWritten
    <3> QED
      BY <3>1, Zenon DEF OnlyIfOn, AsSwitched
  <2>2. CASE ~(program[m].op \in Writing /\ program[m].reg = w[3])
    <3> DEFINE f == After[m - 1].regs
               g == After[m].regs
    <3>1. DOMAIN f = DOMAIN Untouched
      <4>1. m - 1 \in 0..Len(program)
        BY <1>1
      <4> QED
        BY <4>1, AfterSteps
    <3>2. g[w[3]] = f[w[3]]
      <4> DEFINE v == Word(program[m], After[m - 1].read)
      <4>1. /\ program[m].op \in Writing => g = [f EXCEPT ![program[m].reg] = v]
            /\ program[m].op \notin Writing => g = f
        BY AfterSteps
      <4> HIDE DEF f, g, v
      <4> QED
        BY <2>2, <3>1, <4>1
    <3>3. Written(w, m) => Written(w, m - 1)
      <4> SUFFICES ASSUME NEW j \in 1..m, program[j].op \in Writing, program[j].reg = w[3]
                   PROVE  Written(w, m - 1)
        BY DEF Written
      <4>1. j # m
        BY <2>2
      <4>2. j \in 1..(m - 1)
        BY <4>1
      <4> QED
        BY <4>2 DEF Written
    <3> QED
      BY <1>3, <3>2, <3>3, Zenon DEF OnlyIfOn, AsSwitched
  <2> QED
    BY <2>1, <2>2
<1> HIDE DEF P
<1>4. S \in SUBSET (0..Len(program)) /\ 0 \in S /\ \A m \in 1..Len(program) : m - 1 \in S => m \in S
  <2>1. 0 \in S
    BY <1>1, <1>2
  <2>2. ASSUME NEW m \in 1..Len(program), m - 1 \in S PROVE m \in S
    <3>1. m \in 0..Len(program)
      OBVIOUS
    <3> QED
      BY <1>3, <2>2, <3>1
  <2> QED
    BY <2>1, <2>2
<1> HIDE DEF S
<1>5. n \in S
  BY <1>1, <1>4, FromZero
<1>6. P(n)
  BY <1>5 DEF S
<1> QED
  BY <1>6 DEF P

\* Every switch of the configuration file has the effect it says, on and off, in
\* all four boards, whatever the configuration (when no access fails).
THEOREM SwitchesTakeEffectCorrect == Spec => []SwitchesTakeEffect
<1>1. LoadInv /\ CountInv /\ RegsInv => SwitchesTakeEffect
  <2> SUFFICES ASSUME LoadInv, CountInv, RegsInv, pc = 0, failed = {},
                      NEW w \in Switches, w[1] = device
               PROVE  /\ w[4] \in regs[w[3]] <=> w[2] \in conf.opts
                      /\ \A k \in w[5] : w[4] + k \in regs[w[3]] <=> w[2] \notin conf.opts
    BY Zenon DEF SwitchesTakeEffect, Returned
  <2>1. Good(program, device, conf) /\ Done = Len(program)
    BY DEF LoadInv, Done
  <2>2. Len(program) \in Nat /\ DOMAIN program = 1..Len(program)
    BY <2>1, AfterSteps
  <2>3. Written(w, Len(program))
    <3>1. Sets(program, w[3])
      BY <2>1, Zenon DEF Good
    <3> QED
      BY <2>2, <3>1 DEF Sets, Written
  <2>4. w[3] \in DOMAIN Untouched
    BY <2>2, <2>3, StepsRegs DEF Written
  <2>5. AsSwitched(w, Len(program))
    <3>1. Len(program) \in 0..Len(program)
      BY <2>2
    <3> QED
      BY <2>1, <2>3, <2>4, <3>1, SwitchAfter
  <2>6. regs[w[3]] = After[Len(program)].regs[w[3]]
    BY <2>1, <2>4 DEF RegsInv
  <2> QED
    BY <2>5, <2>6, Zenon DEF AsSwitched
<1> QED
  BY <1>1, LoadInit, LoadNext, CountInit, CountNext, RegsInit, RegsNext, PTL DEF Spec
=============================================================================
