----------------------------- MODULE MCSis3316 -----------------------------
(* The readout of a Sis3316 and the setting of its oscillator for TLC.  The  *)
(* program does one of the two: the other's variables stay put.              *)
EXTENDS Sis3316, FiniteSets

CONSTANTS HighSpeed, N1, Reference

ASSUME OscAssumption ==
  HighSpeed \subseteq 0..255 /\ N1 \subseteq 0..255 /\ Reference \in [1..6 -> 0..255]

VARIABLES
  part,
  hs, n1, step, stopping, rd, bus, pointer, reg, failed     \* the oscillator

Osc == INSTANCE Sis3316Osc WITH pc <- step

MCReference == <<1, 66, 3, 4, 5, 6>>

osc == <<hs, n1, step, stopping, rd, bus, pointer, reg, failed>>

MCInit ==
  /\ part \in {"readout", "oscillator"}
  /\ Init /\ Osc!Init
  /\ part = "readout" => /\ hs = (CHOOSE h \in HighSpeed : TRUE)
                          /\ n1 = (CHOOSE n \in N1 : TRUE) /\ rd[1] = 0

InPart(p) == part = p /\ UNCHANGED part

ReadoutThread ==
  InPart("readout") /\ WorkLoop /\ UNCHANGED osc

OscStep == InPart("oscillator") /\ Osc!Next /\ UNCHANGED vars

MCNext ==
  \/ InPart("readout") /\ Next /\ UNCHANGED osc
  \/ OscStep

MCSpec ==
  /\ MCInit /\ [][MCNext]_<<part, vars, osc>>
  /\ WF_vars(ReadoutThread) /\ WF_osc(OscStep)

(***************************************************************************)
(* Properties.                                                             *)
(***************************************************************************)
\* The oscillator ends up as asked, and its bus free.
FrequencySet == Osc!FrequencySet

\* Its frequency changes only while it is frozen, unless an access failed.
ChangedWhileFrozen ==
  [][\A r \in Osc!Freq..(Osc!Freq + 5) : reg'[r] # reg[r] => Osc!Frozen \/ failed # {}]_reg
=============================================================================
