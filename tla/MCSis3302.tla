------------------------------- MODULE MCSis3302 -------------------------------
(* Model-checking instance of Sis3302: the cfg file chooses how triggers   *)
(* are spaced and whether the bus fails.                                   *)
EXTENDS Sis3302
================================================================================
