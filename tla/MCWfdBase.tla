------------------------------- MODULE MCWfdBase -------------------------------
(* Model-checking instances of WfdBase; the cfg files name the device.     *)
EXTENDS WfdBase
================================================================================
