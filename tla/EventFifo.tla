------------------------------- MODULE EventFifo -------------------------------
(***************************************************************************)
(* What a digitizer worker promises to the thread that builds events: the  *)
(* events it collects wait in a queue and come out oldest first, each of   *)
(* them once; the only events that never come out are those a caller       *)
(* flushes and, for a worker that drops (Sis3350), the oldest of a queue   *)
(* that has grown beyond its limit.  No threads, no locks, no flags.       *)
(* Events are numbered in the order in which they are collected.           *)
(***************************************************************************)
EXTENDS Integers, Sequences

CONSTANTS Events,     \* the numbers events may carry
          Limit,      \* the queue length beyond which the oldest event may go
          Drops       \* whether this worker drops events at all

VARIABLES pending,    \* the events waiting to be taken
          taken       \* the events handed to callers, in order

fifoVars == <<pending, taken>>

(* The newest event the queue has ever let out or still holds. *)
Newest == IF pending # <<>> THEN pending[Len(pending)]
          ELSE IF taken # <<>> THEN taken[Len(taken)]
          ELSE 0

Init == pending = <<>> /\ taken = <<>>

(* A newly collected event is younger than every event before it.  A       *)
(* worker that drops does so before it collects the next one.              *)
Put == /\ Drops => Len(pending) <= Limit
       /\ \E e \in Events : e > Newest /\ pending' = Append(pending, e)
       /\ UNCHANGED taken

Take == /\ pending # <<>>
        /\ taken' = Append(taken, Head(pending))
        /\ pending' = Tail(pending)

Clear == pending' = <<>> /\ UNCHANGED taken

DropOldest == /\ Drops
              /\ Len(pending) > Limit
              /\ pending' = Tail(pending)
              /\ UNCHANGED taken

Next == Put \/ Take \/ Clear \/ DropOldest

Spec == Init /\ [][Next]_fifoVars
================================================================================
