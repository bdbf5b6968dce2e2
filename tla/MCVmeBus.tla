------------------------------- MODULE MCVmeBus --------------------------------
(* Model-checking instances of VmeBus. *)
EXTENDS VmeBus
================================================================================
