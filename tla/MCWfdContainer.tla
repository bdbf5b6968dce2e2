----------------------------- MODULE MCWfdContainer ----------------------------
(* WfdContainer for TLC: two experiments, which have a worker of each class *)
(* between them.  The cfg file names the first, the variable experiment     *)
(* says which of the two runs.                                              *)
EXTENDS WfdContainer

VARIABLE experiment

Struck == <<"Sis3302", "Sis3316">>
Buffering == <<"Caen1742", "Sis3350">>

Second == INSTANCE WfdContainer WITH Device <- Buffering

MCInit ==
  \/ experiment = Struck /\ Init
  \/ experiment = Buffering /\ Second!Init

MCNext ==
  /\ UNCHANGED experiment
  /\ \/ experiment = Struck /\ Next
     \/ experiment = Buffering /\ Second!Next

MCSpec == MCInit /\ [][MCNext]_<<vars, experiment>>
================================================================================
