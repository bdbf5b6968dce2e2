----------------------------- MODULE MCIoBoard -----------------------------
(* IoBoard for TLC: every client on an octet of its own; the trigger, the    *)
(* multiplexer and the bits on sextets that share octets; all on one octet.  *)
EXTENDS IoBoard

Octet(n) == [sextet |-> FALSE, id |-> n]
Sextet(n) == [sextet |-> TRUE, id |-> n]

Wiring(trigger, mux, bits, motor) ==
  [c \in Clients |->
     IF c = "trigger" THEN trigger ELSE IF c = "mux" THEN mux
     ELSE IF c = "bits" THEN bits ELSE motor]

MCLayouts == {
  Wiring(Octet(0), Octet(1), Octet(1), Octet(2)),
  Wiring(Sextet(0), Sextet(1), Sextet(1), Octet(2)),
  Wiring(Octet(2), Octet(2), Octet(2), Octet(2)) }

MCMasks == {{1, 3}}
MCChannels == {{0, 4}}
=============================================================================
