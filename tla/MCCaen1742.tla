----------------------------- MODULE MCCaen1742 -----------------------------
(* Caen1742 boards for TLC: the readout, the correction table or the samples.  *)
EXTENDS Integers, Sequences, FiniteSets

CONSTANTS
  Boards, NumAdcGroups, MaxEvents, MaxFails, MaxLives,   \* the readout
  FlashChannels, MaxRetries, MaxFlashFails                \* the table

ASSUME CaenAssumption ==
  /\ IsFiniteSet(Boards) /\ NumAdcGroups \in Nat \ {0}
  /\ MaxEvents \in Nat /\ MaxFails \in Nat /\ MaxLives \in Nat
  /\ FlashChannels \subseteq 0..31 /\ FlashChannels # {}
  /\ MaxRetries \in Nat /\ MaxFlashFails \in Nat

VARIABLES
  part, pc, table, fails,
  active, run, stored, thread_live_, lives, event, left, bundle, correction_loaded,
  pushed, seen, fired,                                               \* the readout
  ch, at, count, selected, file, from, damaged,                    \* the table
  ev, trace, startcells, time, initialized, n                        \* the samples

Readout == INSTANCE Caen1742
Flash == INSTANCE Caen1742Flash WITH Channels <- FlashChannels, MaxFails <- MaxFlashFails
Samples == INSTANCE Caen1742Samples
  WITH kNumAdcGroups <- 2, kNumAdcSamples <- 8, SampleTime <- 2,
       CellTime <- [c \in 0..7 |-> <<0, 1, 4, 6, 9, 10, 12, 15>>[c + 1]],
       Startcells <- {0, 5}

shared == <<pc, table, fails>>
readout == <<active, run, stored, thread_live_, lives, event, left, bundle,
             correction_loaded, pushed, seen, fired>>
flash == <<ch, at, count, selected, file, from, damaged>>
samples == <<ev, trace, startcells, time, initialized, n>>

NoReadout ==
  /\ active = {} /\ run = 0 /\ stored = [b \in Boards |-> <<>>]
  /\ thread_live_ = [b \in Boards |-> FALSE] /\ lives = 0 /\ event = 0
  /\ left = 0 /\ bundle = 0 /\ correction_loaded = 0 /\ pushed = <<>> /\ seen = 0
  /\ fired = 0
NoFlash ==
  /\ ch = 0 /\ at = 0 /\ count = 0 /\ selected = 0 /\ file = 0
  /\ from = 0 /\ damaged = 0
NoSamples ==
  /\ ev = 0 /\ trace = 0 /\ startcells = 0 /\ time = 0 /\ initialized = 0 /\ n = 0

MCInit ==
  \/ part = "readout" /\ Readout!Init /\ NoFlash /\ NoSamples
  \/ part = "flash" /\ Flash!Init /\ NoReadout /\ NoSamples /\ pc = 0
  \/ part = "samples" /\ Samples!Init /\ NoReadout /\ NoFlash /\ table = 0 /\ fails = 0

InPart(p) == part = p /\ UNCHANGED part

Thread(b) == InPart("readout") /\ Readout!WorkLoop(b) /\ UNCHANGED <<flash, samples>>

MCNext ==
  \/ /\ InPart("readout") /\ Readout!Next /\ UNCHANGED <<flash, samples>>
     /\ Cardinality(active) = 1 \/ UNCHANGED lives   \* bound: restarts of one board
  \/ InPart("flash") /\ Flash!Next /\ UNCHANGED <<pc, readout, samples>>
  \/ InPart("samples") /\ Samples!Next /\ UNCHANGED <<table, fails, readout, flash>>

MCSpec ==
  /\ MCInit /\ [][MCNext]_<<part, shared, readout, flash, samples>>
  /\ \A b \in Boards : WF_<<shared, readout>>(Thread(b))

(***************************************************************************)
(* Properties.                                                             *)
(***************************************************************************)
\* The groups of the event that was read are its own, corrected once.
EventInItsGroups == part = "readout" => Readout!EventInItsGroups

\* An event of a board whose thread lives on comes out, unless a read fails.
EventsComeOut ==
  \A e \in 1..MaxEvents, b \in Boards :
    (part = "readout" /\ fails = MaxFails /\ \E i \in DOMAIN stored[b] : stored[b][i].id = e)
      ~> (~thread_live_[b] \/ \E i \in DOMAIN pushed : pushed[i].event = e)

\* A failure damages its own page of the table and the next one of its group at most.
DamageStaysWithItsPage ==
  part = "flash" => Flash!DamageStaysWithItsPage

\* The samples are unpacked whole, and the corrections give the signal.
SignalRestored ==
  part = "samples" =>
    Samples!UnpackedWhole /\ Samples!OffsetsGone /\ Samples!EvenTimes /\ Samples!FirstEventEven
=============================================================================
