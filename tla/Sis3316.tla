------------------------------ MODULE Sis3316 ------------------------------
(***************************************************************************)
(* The readout of a Sis3316: the board's two memory banks and the work     *)
(* thread that swaps and reads them (EventAvailable and GetEvent).         *)
(*                                                                         *)
(* The board samples into the armed bank.  Arming a bank closes the other  *)
(* one, which the "previous sample address" register then describes, and   *)
(* empties the armed one.  The thread does not read which bank is armed:   *)
(* it keeps bank2_armed_flag.  Every register access may fail on the bus;  *)
(* a failed read leaves the variable it was for as it was.  The client     *)
(* stops and starts the readout with go_time_, which the thread tests      *)
(* between two events and again before it swaps the banks.                 *)
(***************************************************************************)
EXTENDS Integers, Sequences

CONSTANTS
  NumCh,        \* channels of the board
  MaxEvents,    \* bound: triggers
  MaxFails      \* bound: failures of bus accesses

ASSUME Sis3316Assumption == NumCh \in Nat \ {0} /\ MaxEvents \in Nat /\ MaxFails \in Nat

VARIABLES
  armed,              \* board: the bank it samples into
  count,              \* board: events in a bank since it was armed
  memory,             \* board: the event at the beginning of a bank
  previous,           \* board: the bank that was closed last, 0: none was
  bank2_armed_flag,
  go_time_,           \* the client wants data (StartWorker, StopWorker)
  pc,                 \* "poll", "swap", "address", "trace", "push"
  ch, msg,            \* GetEvent: its channel and what msg was last used for
  data, bundle,       \* statics: the event they hold (of each channel), 0: none
  pushed,             \* history: the bundles that were pushed, and how
  seen,               \* history: the event that was seen last, 0: the flag of
                      \* the banks was wrong then or an access failed since
  fired, fails        \* bounds

board == <<armed, count, memory, previous>>
vars == <<board, bank2_armed_flag, go_time_, pc, ch, msg, data, bundle, pushed, seen,
          fired, fails>>

Banks == {1, 2}
Channels == 1..NumCh
Other(b) == 3 - b

(***************************************************************************)
(* The board (external).                                                   *)
(***************************************************************************)

\* A bank that is not read in time takes the next events behind the first.
Trigger ==
  /\ fired < MaxEvents
  /\ fired' = fired + 1
  /\ count' = [count EXCEPT ![armed] = @ + 1]
  /\ memory' = [memory EXCEPT ![armed] = IF count[armed] = 0 THEN fired + 1 ELSE @]
  /\ UNCHANGED <<armed, previous, bank2_armed_flag, go_time_, pc, ch, msg, data, bundle,
                 pushed, seen, fails>>

\* KEY_DISARM_AND_ARM_BANK1 and 2.
ArmBank(b) ==
  /\ armed' = b /\ previous' = armed
  /\ count' = [count EXCEPT ![b] = 0]
  /\ UNCHANGED memory

(***************************************************************************)
(* The client: StartWorker and StopWorker.                                 *)
(***************************************************************************)
StartStop ==
  /\ go_time_' = ~go_time_
  /\ UNCHANGED <<board, bank2_armed_flag, pc, ch, msg, data, bundle, pushed, seen,
                 fired, fails>>

(***************************************************************************)
(* The work thread.                                                        *)
(***************************************************************************)
\* The flag tells which bank is armed.
InSync == bank2_armed_flag <=> armed = 2

Fail == fails < MaxFails /\ fails' = fails + 1 /\ seen' = 0

\* The address threshold flag of ACQUISITION_CONTROL.  When the register
\* cannot be read at all, msg is 0 and there is no event.
EventAvailable ==
  /\ pc = "poll" /\ go_time_ /\ count[armed] > 0
  /\ pc' = "swap"
  /\ seen' = IF InSync THEN memory[armed] ELSE 0
  /\ UNCHANGED <<board, bank2_armed_flag, go_time_, ch, msg, data, bundle, pushed,
                 fired, fails>>

\* The readout was stopped after the register was read: the banks stay as they
\* are and the event waits in its bank.
NoSwap ==
  /\ pc = "swap" /\ ~go_time_
  /\ pc' = "poll"
  /\ UNCHANGED <<board, bank2_armed_flag, go_time_, ch, msg, data, bundle, pushed,
                 seen, fired, fails>>

\* Seeded fault: the bank that is armed is armed again.
SwapTarget_Same == IF bank2_armed_flag THEN 2 ELSE 1

SwapTarget == IF bank2_armed_flag THEN 1 ELSE 2

\* The flag is set inside the loop that tries the write: it flips even if
\* no try succeeds.
Swap ==
  /\ pc = "swap" /\ go_time_
  /\ \/ ArmBank(SwapTarget) /\ UNCHANGED <<fails, seen>>
     \/ Fail /\ UNCHANGED board
  /\ bank2_armed_flag' = ~bank2_armed_flag
  /\ pc' = "address" /\ ch' = 1 /\ msg' = "unset"
  /\ UNCHANGED <<go_time_, data, bundle, pushed, fired>>

\* The bank GetEvent reads, by the flag.
ClosedBank == IF bank2_armed_flag THEN 1 ELSE 2

\* The register describes the closed bank and there are data; when it keeps
\* describing the other bank the loop gives up, when there are none GetEvent
\* returns: the bundle is pushed as it is.
ReadAddress ==
  /\ pc = "address"
  /\ pc' = IF previous = ClosedBank /\ count[previous] > 0 THEN "trace" ELSE "push"
  /\ UNCHANGED <<board, bank2_armed_flag, go_time_, ch, msg, data, bundle, pushed,
                 seen, fired, fails>>

\* A failed read tests what msg was last used for.  For the first channel
\* that is anything; later it is the start word of the transfer before, whose
\* bank bit fits and whose address is 0, which reads as "no data".
ReadAddressFails ==
  /\ pc = "address" /\ Fail
  /\ pc' \in IF msg = "unset" THEN {"address", "trace", "push"} ELSE {"push"}
  /\ UNCHANGED <<board, bank2_armed_flag, go_time_, ch, msg, data, bundle, pushed, fired>>

\* Seeded fault: the transfer does not wait for the trace's end.
ReadChannel_Early ==
  /\ pc = "trace"
  /\ data' \in {memory[ClosedBank], data} /\ UNCHANGED <<fails, seen>>
  /\ bundle' = [bundle EXCEPT ![ch] = data']
  /\ msg' = "start word"
  /\ IF ch < NumCh THEN ch' = ch + 1 /\ pc' = "address"
     ELSE UNCHANGED ch /\ pc' = "push"
  /\ UNCHANGED <<board, bank2_armed_flag, go_time_, pushed, fired>>

\* The transfer of one channel: start it, read the trace, stop it.  When the
\* start or every try of the trace fails, the data are the ones of the channel
\* before, or no event's.
ReadChannel ==
  /\ pc = "trace"
  /\ \/ data' = memory[ClosedBank] /\ UNCHANGED <<fails, seen>>
     \/ Fail /\ data' \in {data, 0}
  /\ bundle' = [bundle EXCEPT ![ch] = data']
  /\ msg' = "start word"
  /\ IF ch < NumCh THEN ch' = ch + 1 /\ pc' = "address"
     ELSE UNCHANGED ch /\ pc' = "push"
  /\ UNCHANGED <<board, bank2_armed_flag, go_time_, pushed, fired>>

Push ==
  /\ pc = "push"
  /\ pushed' = Append(pushed, [trace |-> bundle, event |-> seen])
  /\ pc' = "poll"
  /\ UNCHANGED <<board, bank2_armed_flag, go_time_, ch, msg, data, bundle, seen, fired,
                 fails>>

\* LoadConfig has disarmed the board, armed bank 1 and cleared the flag.
Init ==
  /\ armed = 1 /\ previous = 0
  /\ count = [b \in Banks |-> 0] /\ memory = [b \in Banks |-> 0]
  /\ bank2_armed_flag = FALSE /\ go_time_ = FALSE
  /\ pc = "poll" /\ ch = 1 /\ msg = "unset"
  /\ data = 0 /\ bundle = [c \in Channels |-> 0]
  /\ pushed = <<>> /\ seen = 0
  /\ fired = 0 /\ fails = 0

GetEvent == ReadAddress \/ ReadAddressFails \/ ReadChannel \/ Push

WorkLoop == EventAvailable \/ NoSwap \/ Swap \/ GetEvent

Next == Trigger \/ StartStop \/ WorkLoop

Spec == Init /\ [][Next]_vars

\* The thread goes on; an access need not fail.
FairSpec == Spec /\ WF_vars(WorkLoop)

(***************************************************************************)
(* Properties.                                                             *)
(***************************************************************************)
BoardOK ==
  /\ armed \in Banks /\ previous \in {0} \cup Banks
  /\ count \in [Banks -> Nat] /\ memory \in [Banks -> Nat] /\ fired \in Nat

ThreadOK ==
  /\ pc \in {"poll", "swap", "address", "trace", "push"}
  /\ ch \in Channels /\ msg \in {"unset", "start word"}
  /\ data \in Nat /\ bundle \in [Channels -> Nat]

HistoryOK ==
  /\ pushed \in Seq([trace : [Channels -> Nat], event : Nat])
  /\ seen \in Nat /\ fails \in 0..MaxFails

TypeOK ==
  BoardOK /\ ThreadOK /\ HistoryOK /\ bank2_armed_flag \in BOOLEAN /\ go_time_ \in BOOLEAN

Whole(b, e) == b.trace = [c \in Channels |-> e]

\* A bundle is the event that was seen, in every channel, unless an access
\* failed in between or the flag was wrong already: then it may be the bundle
\* before once more, or a mixture of two events (GetEvent, lines 777 and 783).
BundleIsTheEvent ==
  \A i \in DOMAIN pushed : pushed[i].event # 0 => Whole(pushed[i], pushed[i].event)

\* No event is seen twice, and none after a later one (the swap of the banks).
SeenOnceInOrder ==
  \A i, j \in DOMAIN pushed :
    i < j /\ pushed[i].event # 0 /\ pushed[j].event # 0
      => pushed[i].event < pushed[j].event

\* The flag goes wrong only when an access failed (line 709).
InSyncUntilAFailure == fails = 0 => InSync

\* What comes out, without a failure, is whole, once and in order.
EventsOnceWhole == BundleIsTheEvent /\ SeenOnceInOrder /\ InSyncUntilAFailure

\* Once no access fails any more and the flag is right, the event at the head
\* of the armed bank comes out whole, or the readout is stopped.
HeadComesOut ==
  \A e \in 1..MaxEvents :
    (fails = MaxFails /\ InSync /\ pc = "poll" /\ count[armed] > 0 /\ memory[armed] = e)
      ~> (~go_time_ \/ \E i \in DOMAIN pushed : Whole(pushed[i], e))

=============================================================================
