-------------------------- MODULE Caen1742Samples --------------------------
(***************************************************************************)
(* What GetEvent of a Caen1742 does to the samples: unpacking the words of *)
(* an event, and the corrections of cell, peak and time.                   *)
(*                                                                         *)
(* A group samples into a ring of cells, from a cell that differs from     *)
(* event to event; each cell has an offset and a width of its own.         *)
(* The floating-point arithmetic is exact here, on signals that are        *)
(* straight lines, over cells whose times are whole numbers.               *)
(***************************************************************************)
EXTENDS Integers, Sequences, FiniteSets, SequencesExt, FiniteSetsExt

CONSTANTS
  kNumAdcGroups,
  kNumAdcSamples,    \* 1024 in the code; a multiple of 8
  SampleTime,        \* time between two samples of the corrected trace
  CellTime,          \* the time of each cell in its ring (of all groups)
  Startcells,        \* bound: the cells events start at
  MaxEvents          \* bound: events

VARIABLES
  ev,            \* the event the board gives: per group, if it is there
  pc,
  trace,         \* the bundle's traces of the channels and, behind them, of the
                 \* groups' triggers
  startcells,    \* GetEvent: per group
  time, initialized,    \* statics of TimeCorrection
  n

vars == <<ev, pc, trace, startcells, time, initialized, n>>

Groups == 0..(kNumAdcGroups - 1)
PerGroup == 8
kNumAdcChannels == kNumAdcGroups * PerGroup
Channels == 0..(kNumAdcChannels - 1)
Samples == 0..(kNumAdcSamples - 1)
GroupOf(ch) == ch \div PerGroup

(***************************************************************************)
(* The board (external): what it sampled, and the words it sends.          *)
(***************************************************************************)
Cell(ch, c) == (3 * ch + 5 * c) % 7
NSample(ch, j) == (ch + j) % 3

\* The time at which the j-th sample was taken, from the start cell.
TakenAt(start, j) ==
  (CellTime[(start + j) % kNumAdcSamples] - CellTime[start])
    % (kNumAdcSamples * SampleTime)

Line(ch, t) == 100 + ch + 2 * t

Raw(ch, j) ==
  LET start == ev[GroupOf(ch)].startcell
  IN  Line(ch, TakenAt(start, j)) + Cell(ch, (start + j) % kNumAdcSamples) + NSample(ch, j)

TriggerRaw(g, j) == 2000 + 10 * g + j

Bits(v) == {b \in 0..11 : (v \div 2^b) % 2 = 1}

\* Eight samples of twelve bits in three words.
Triple(v) ==
  LET all == UNION {{12 * (i - 1) + b : b \in Bits(v[i])} : i \in 1..8}
  IN  [w \in 1..3 |-> {b - 32 * (w - 1) : b \in all \cap (32 * (w - 1))..(32 * w - 1)}]

GroupWords(g) ==
  IF ~ev[g].present THEN <<>>
  ELSE <<[size |-> 3 * kNumAdcSamples, trg |-> ev[g].trg, startcell |-> ev[g].startcell]>>
    \o FlattenSeq([s \in 1..kNumAdcSamples |->
         Triple([i \in 1..8 |-> Raw(g * PerGroup + i - 1, s - 1)])])
    \o (IF ev[g].trg
        THEN FlattenSeq([s \in 1..(kNumAdcSamples \div 8) |->
               Triple([i \in 1..8 |-> TriggerRaw(g, 8 * (s - 1) + i - 1)])])
        ELSE <<>>)
    \o <<"timestamp">>

Buffer ==
  <<"size", [g \in Groups |-> ev[g].present], "counter", "trigger time">>
    \o FlattenSeq([i \in 1..kNumAdcGroups |-> GroupWords(i - 1)])

(***************************************************************************)
(* GetEvent.                                                               *)
(***************************************************************************)
\* (word >> from) & a mask of len bits, and a shift to the left.
Field(word, from, len) == {b - from : b \in word \cap from..(from + len - 1)}
Up(bits, k) == {b + k : b \in bits}
Number(bits) == FoldSet(LAMBDA b, sum : sum + 2^b, 0, bits)

chdata(ln0, ln1, ln2) ==
  << Field(ln0, 0, 12), Field(ln0, 12, 12),
     Field(ln0, 24, 8) \cup Up(Field(ln1, 0, 4), 8),
     Field(ln1, 4, 12), Field(ln1, 16, 12),
     Field(ln1, 28, 4) \cup Up(Field(ln2, 0, 8), 4),
     Field(ln2, 8, 12), Field(ln2, 20, 12) >>

At(buffer, i) == chdata(buffer[i], buffer[i + 1], buffer[i + 2])

\* One group: at is start_idx, counted from 1.
UnpackGroup(buffer, acc, g) ==
  IF ~buffer[2][g] THEN acc
  ELSE
    LET header == buffer[acc.at]
        start == acc.at + 1
        stop == start + header.size
        last == IF header.trg THEN stop + header.size \div 8 ELSE stop
        mine == {ch \in Channels : GroupOf(ch) = g}
    IN  [at |-> last + 1,
         startcells |-> [acc.startcells EXCEPT ![g] = header.startcell],
         trace |->
           [ch \in DOMAIN acc.trace |->
              IF ch \in mine
              THEN [s \in Samples |->
                      IF start + 3 * s < stop
                      THEN Number(At(buffer, start + 3 * s)[(ch % PerGroup) + 1])
                      ELSE acc.trace[ch][s]]
              ELSE IF ch = kNumAdcChannels + g /\ header.trg
              THEN [s \in Samples |->
                      Number(At(buffer, stop + 3 * (s \div 8))[(s % 8) + 1])]
              ELSE acc.trace[ch]]]

GetEvent ==
  /\ pc = "read"
  /\ LET buffer == Buffer
         out == FoldLeft(LAMBDA acc, g : UnpackGroup(buffer, acc, g),
                         [at |-> 5, startcells |-> [g \in Groups |-> 0], trace |-> trace],
                         [i \in 1..kNumAdcGroups |-> i - 1])
     IN  trace' = out.trace /\ startcells' = out.startcells
  /\ pc' = "cell"
  /\ UNCHANGED <<ev, time, initialized, n>>

\* Seeded fault: the offsets are taken from cell 0 on, whatever the start cell.
CellCorrection_FromZero ==
  /\ pc = "cell"
  /\ trace' = [ch \in DOMAIN trace |-> IF ch \notin Channels THEN trace[ch]
       ELSE [j \in Samples |-> (trace[ch][j] - Cell(ch, j) - NSample(ch, j)) % 65536]]
  /\ pc' = "peak"
  /\ UNCHANGED <<ev, startcells, time, initialized, n>>

\* Samples are unsigned 16-bit numbers.
CellCorrection ==
  /\ pc = "cell"
  /\ trace' = [ch \in DOMAIN trace |-> IF ch \notin Channels THEN trace[ch]
       ELSE [j \in Samples |->
               LET k == (startcells[GroupOf(ch)] + j) % kNumAdcSamples
               IN  (trace[ch][j] - Cell(ch, k) - NSample(ch, j)) % 65536]]
  /\ pc' = "peak"
  /\ UNCHANGED <<ev, startcells, time, initialized, n>>

\* The spikes are taken out of a copy of the traces (line 735), which is dropped.
PeakCorrection ==
  /\ pc = "peak" /\ pc' = "time"
  /\ UNCHANGED <<ev, trace, startcells, time, initialized, n>>

\* Seeded fault: the ring's end is not added where the cells begin again.
TimeAxis_NoWrap(start) ==
  [j \in Samples |-> CellTime[(start + j) % kNumAdcSamples] - CellTime[start]]

\* The sum of the steps from cell to cell; one that is not positive has
\* crossed the end of the ring.
TimeAxis(start) ==
  LET step(j) == LET dt == CellTime[(start + j) % kNumAdcSamples]
                           - CellTime[(start + j - 1) % kNumAdcSamples]
                 IN  IF dt > 0 THEN dt ELSE dt + kNumAdcSamples * SampleTime
  IN  [j \in Samples |-> FoldSet(LAMBDA i, sum : sum + step(i), 0, 1..j)]

\* The first of two neighbours between which (or before which) a time lies.
Neighbour(axis, t) ==
  Min({k \in 0..(kNumAdcSamples - 3) : axis[k + 1] >= t} \cup {kNumAdcSamples - 2})

Interpolated(tr, axis) ==
  [j \in Samples |->
     IF j = 0 THEN tr[0]
     ELSE LET k == Neighbour(axis, j * SampleTime)
          IN  tr[k] + (((tr[k + 1] - tr[k]) * (j * SampleTime - axis[k]))
                         \div (axis[k + 1] - axis[k]))]

\* The times are computed once, from the start cells of the first event.
TimeCorrection ==
  /\ pc = "time"
  /\ time' = IF initialized THEN time ELSE [g \in Groups |-> TimeAxis(startcells[g])]
  /\ initialized' = TRUE
  /\ trace' = [ch \in DOMAIN trace |->
                 IF ch \in Channels THEN Interpolated(trace[ch], time'[GroupOf(ch)])
                 ELSE trace[ch]]
  /\ pc' = "done"
  /\ UNCHANGED <<ev, startcells, n>>

Events == [Groups -> [present : BOOLEAN, trg : BOOLEAN, startcell : Startcells]]

NextEvent ==
  /\ pc = "done" /\ n < MaxEvents
  /\ n' = n + 1 /\ ev' \in Events /\ pc' = "read"
  /\ UNCHANGED <<trace, startcells, time, initialized>>

Init ==
  /\ ev \in Events /\ pc = "read" /\ n = 1
  /\ trace = [ch \in 0..(kNumAdcChannels + kNumAdcGroups - 1) |-> [s \in Samples |-> 0]]
  /\ startcells = [g \in Groups |-> 0]
  /\ time = [g \in Groups |-> [s \in Samples |-> 0]] /\ initialized = FALSE

Next == GetEvent \/ CellCorrection \/ PeakCorrection \/ TimeCorrection \/ NextEvent

Spec == Init /\ [][Next]_vars

(***************************************************************************)
(* Properties.                                                             *)
(***************************************************************************)
Present(ch) == ev[GroupOf(ch)].present

\* The unpacked traces are the samples that were taken, each channel its own,
\* whichever groups and triggers are in the event.
UnpackedWhole ==
  pc = "cell" =>
    /\ \A ch \in Channels, j \in Samples : Present(ch) => trace[ch][j] = Raw(ch, j)
    /\ \A g \in Groups, j \in Samples : ev[g].present /\ ev[g].trg
         => trace[kNumAdcChannels + g][j] = TriggerRaw(g, j)

\* The cell correction leaves the signal at the times its samples were taken.
OffsetsGone ==
  pc = "peak" => \A ch \in Channels, j \in Samples :
    Present(ch) => trace[ch][j] = Line(ch, TakenAt(ev[GroupOf(ch)].startcell, j))

\* The time correction gives the signal at even times, for an event whose
\* groups start where those of the first event did (line 840).
EvenTimes ==
  pc = "done" => \A ch \in Channels, j \in Samples :
    Present(ch) /\ (\A s \in Samples : time[GroupOf(ch)][s]
                                        = TakenAt(ev[GroupOf(ch)].startcell, s))
      => trace[ch][j] = Line(ch, j * SampleTime)

\* In particular the first event's.
FirstEventEven ==
  pc = "done" /\ n = 1 => \A ch \in Channels, j \in Samples :
    Present(ch) => trace[ch][j] = Line(ch, j * SampleTime)
=============================================================================
