--------------------------- MODULE Sis3316Proofs ---------------------------
(***************************************************************************)
(* The readout of a Sis3316, for any number of channels, triggers and      *)
(* failures.  The invariant follows the event that was seen (seen # 0:     *)
(* nothing has failed since): through the swap it is the head of the bank  *)
(* that is armed, then of the one that was closed, and the channels that   *)
(* were read hold it.                                                      *)
(*                                                                         *)
(* Then the setting of its oscillator: its 37 operations one by one, and   *)
(* what each finds and leaves while nothing has failed.                    *)
(***************************************************************************)
EXTENDS MCSis3316, TLAPS

Reads == pc \in {"address", "trace", "push"}

\* Where the event that was seen is.
SeenBeforeSwap ==
  pc = "swap" /\ seen # 0 => InSync /\ count[armed] > 0 /\ memory[armed] = seen

SeenAfterSwap ==
  Reads /\ seen # 0 =>
    /\ InSync /\ previous = ClosedBank /\ count[previous] > 0
    /\ memory[previous] = seen /\ seen <= fired
    /\ count[armed] > 0 => seen < memory[armed]

\* The channels that were read hold it.
ReadSoFar ==
  Reads /\ seen # 0 =>
    \A c \in Channels : c < ch \/ pc = "push" => bundle[c] = seen

\* Whatever was pushed is older than what the armed bank holds, and than what
\* is being read.
Older ==
  \A i \in DOMAIN pushed : pushed[i].event # 0 =>
    /\ pushed[i].event <= fired
    /\ count[armed] > 0 => pushed[i].event < memory[armed]
    /\ pc # "poll" /\ seen # 0 => pushed[i].event < seen

HeadsFired == \A b \in Banks : memory[b] <= fired

Follows ==
  /\ SeenBeforeSwap /\ SeenAfterSwap /\ ReadSoFar /\ Older /\ HeadsFired
  /\ BundleIsTheEvent /\ SeenOnceInOrder

ReadoutInv == TypeOK /\ InSyncUntilAFailure /\ Follows

(***************************************************************************)
(* The flag of the banks, and a failure.                                   *)
(***************************************************************************)
\* The bank that is armed according to the flag.
FlagBank == IF bank2_armed_flag THEN 2 ELSE 1

LEMMA FlagNames ==
  ASSUME NEW flag, NEW a \in Banks
  PROVE  (flag <=> a = 2) <=> a = (IF flag THEN 2 ELSE 1)
<1>1. a = 1 \/ a = 2
  BY DEF Banks
<1>2. CASE flag
  BY <1>2
<1>3. CASE ~flag
  <2>1. (IF flag THEN 2 ELSE 1) = 1
    BY <1>3
  <2>2. (flag <=> a = 2) <=> ~(a = 2)
    BY <1>3
  <2> QED
    BY <1>1, <2>1, <2>2
<1> QED
  BY <1>2, <1>3

LEMMA BankFacts ==
  ASSUME armed \in Banks
  PROVE  /\ FlagBank \in Banks
         /\ SwapTarget = Other(FlagBank) /\ ClosedBank = Other(FlagBank)
         /\ InSync <=> armed = FlagBank
<1>1. CASE bank2_armed_flag
  <2>1. FlagBank = 2 /\ SwapTarget = 1 /\ ClosedBank = 1
    BY <1>1 DEF FlagBank, SwapTarget, ClosedBank
  <2>2. InSync <=> armed = 2
    BY <1>1 DEF InSync
  <2> QED
    BY <2>1, <2>2 DEF Banks, Other
<1>2. CASE ~bank2_armed_flag
  <2>1. FlagBank = 1 /\ SwapTarget = 2 /\ ClosedBank = 2
    BY <1>2 DEF FlagBank, SwapTarget, ClosedBank
  <2>2. InSync <=> ~(armed = 2)
    BY <1>2 DEF InSync
  <2> QED
    BY <2>1, <2>2 DEF Banks, Other
<1> QED
  BY <1>1, <1>2

LEMMA FlagFlips == bank2_armed_flag' = ~bank2_armed_flag => FlagBank' = Other(FlagBank)
<1> SUFFICES ASSUME bank2_armed_flag' = ~bank2_armed_flag PROVE FlagBank' = Other(FlagBank)
  OBVIOUS
<1>1. CASE bank2_armed_flag
  <2>1. ~bank2_armed_flag'
    BY <1>1
  <2>2. FlagBank = 2 /\ FlagBank' = 1
    BY <1>1, <2>1 DEF FlagBank
  <2> QED
    BY <2>2 DEF Other
<1>2. CASE ~bank2_armed_flag
  <2>1. bank2_armed_flag'
    BY <1>2
  <2>2. FlagBank = 1 /\ FlagBank' = 2
    BY <1>2, <2>1 DEF FlagBank
  <2> QED
    BY <2>2 DEF Other
<1> QED
  BY <1>1, <1>2

LEMMA FlagStays == bank2_armed_flag' = bank2_armed_flag => FlagBank' = FlagBank
BY DEF FlagBank

LEMMA FailFacts ==
  ASSUME fails \in 0..MaxFails, Fail
  PROVE  fails' \in 0..MaxFails /\ fails' # 0 /\ seen' = 0
BY Sis3316Assumption DEF Fail

(***************************************************************************)
(* The initial state and the types.                                        *)
(***************************************************************************)
LEMMA InitReadout == Init => ReadoutInv
<1> SUFFICES ASSUME Init PROVE ReadoutInv
  OBVIOUS
<1>1. TypeOK
  <2>1. BoardOK
    BY DEF Init, BoardOK, Banks
  <2>2. ThreadOK
    BY Sis3316Assumption DEF Init, ThreadOK, Channels
  <2>3. HistoryOK
    BY Sis3316Assumption DEF Init, HistoryOK
  <2>4. bank2_armed_flag \in BOOLEAN /\ go_time_ \in BOOLEAN
    BY DEF Init
  <2> QED
    BY <2>1, <2>2, <2>3, <2>4 DEF TypeOK
<1>2. SeenBeforeSwap /\ SeenAfterSwap /\ ReadSoFar /\ HeadsFired
  BY DEF Init, SeenBeforeSwap, SeenAfterSwap, ReadSoFar, HeadsFired, Reads, Banks
<1>3. Older /\ BundleIsTheEvent /\ SeenOnceInOrder /\ InSyncUntilAFailure
  BY DEF Init, Older, BundleIsTheEvent, SeenOnceInOrder, InSyncUntilAFailure, InSync
<1> QED
  BY <1>1, <1>2, <1>3 DEF ReadoutInv, Follows

\* The types.
LEMMA TypeStep == TypeOK /\ [Next]_vars => TypeOK'
<1> SUFFICES ASSUME TypeOK, [Next]_vars PROVE TypeOK'
  OBVIOUS
<1>0. BoardOK /\ ThreadOK /\ HistoryOK /\ bank2_armed_flag \in BOOLEAN
     /\ go_time_ \in BOOLEAN
  BY DEF TypeOK
<1>f. fails \in 0..MaxFails /\ armed \in Banks
  BY <1>0 DEF HistoryOK, BoardOK
<1>b. SwapTarget \in Banks /\ ClosedBank \in Banks
  BY <1>f, BankFacts DEF Banks, Other
<1>1. bank2_armed_flag' \in BOOLEAN
  <2>1. CASE Swap
    BY <2>1 DEF Swap
  <2>2. CASE Trigger \/ StartStop \/ EventAvailable \/ NoSwap \/ GetEvent \/ UNCHANGED vars
    BY <1>0, <2>2 DEF Trigger, StartStop, EventAvailable, NoSwap, GetEvent, ReadAddress, ReadAddressFails,
                      ReadChannel, Push, vars, board
  <2> QED
    BY <2>1, <2>2 DEF Next, WorkLoop
<1>2. BoardOK'
  <2>1. CASE Trigger
    <3>1. count[armed] + 1 \in Nat /\ fired + 1 \in Nat
      BY <1>0 DEF BoardOK
    <3>2. count' \in [Banks -> Nat]
      BY <1>0, <2>1, <3>1 DEF Trigger, BoardOK
    <3>3. memory' \in [Banks -> Nat]
      BY <1>0, <2>1, <3>1 DEF Trigger, BoardOK
    <3> QED
      BY <1>0, <2>1, <3>1, <3>2, <3>3 DEF Trigger, BoardOK
  <2>2. CASE Swap
    <3>1. CASE ArmBank(SwapTarget)
      BY <1>0, <1>b, <2>2, <3>1 DEF Swap, ArmBank, BoardOK
    <3>2. CASE UNCHANGED board
      BY <1>0, <2>2, <3>2 DEF Swap, board, BoardOK
    <3> QED
      BY <2>2, <3>1, <3>2 DEF Swap
  <2>3. CASE StartStop \/ EventAvailable \/ NoSwap \/ GetEvent \/ UNCHANGED vars
    <3>1. UNCHANGED <<board, fired>>
      BY <2>3 DEF StartStop, EventAvailable, NoSwap, GetEvent, ReadAddress, ReadAddressFails, ReadChannel,
                  Push, vars
    <3> QED
      BY <1>0, <3>1 DEF board, BoardOK
  <2> QED
    BY <2>1, <2>2, <2>3 DEF Next, WorkLoop
<1>3. ThreadOK'
  <2>1. CASE ReadChannel
    <3>1. data' \in Nat
      <4>1. memory[ClosedBank] \in Nat
        BY <1>0, <1>b DEF BoardOK
      <4>2. data' = memory[ClosedBank] \/ data' = data \/ data' = 0
        BY <2>1 DEF ReadChannel
      <4>3. data \in Nat
        BY <1>0 DEF ThreadOK
      <4> QED
        BY <4>1, <4>2, <4>3
    <3>2. bundle' \in [Channels -> Nat]
      BY <1>0, <2>1, <3>1 DEF ReadChannel, ThreadOK
    <3>3. ch' \in Channels
      <4>1. ch \in 1..NumCh /\ NumCh \in Nat
        BY <1>0, Sis3316Assumption DEF ThreadOK, Channels
      <4>2. CASE ch < NumCh
        <5>1. ch' = ch + 1
          BY <2>1, <4>2 DEF ReadChannel
        <5> QED
          BY <4>1, <4>2, <5>1 DEF Channels
      <4>3. CASE ~(ch < NumCh)
        <5>1. ch' = ch
          BY <2>1, <4>3 DEF ReadChannel
        <5> QED
          BY <4>1, <5>1 DEF Channels
      <4> QED
        BY <4>2, <4>3
    <3>4. pc' \in {"address", "push"} /\ msg' = "start word"
      BY <2>1 DEF ReadChannel
    <3> QED
      BY <3>1, <3>2, <3>3, <3>4 DEF ThreadOK
  <2>2. CASE Swap
    <3>1. 1 \in Channels
      BY Sis3316Assumption DEF Channels
    <3>2. pc' = "address" /\ ch' = 1 /\ msg' = "unset" /\ UNCHANGED <<data, bundle>>
      BY <2>2 DEF Swap
    <3> QED
      BY <1>0, <3>1, <3>2 DEF ThreadOK
  <2>3. CASE ReadAddressFails
    <3>1. pc' \in {"address", "trace", "push"}
      BY <2>3 DEF ReadAddressFails
    <3>2. UNCHANGED <<ch, msg, data, bundle>>
      BY <2>3 DEF ReadAddressFails
    <3> QED
      BY <1>0, <3>1, <3>2 DEF ThreadOK
  <2>4. CASE Trigger \/ StartStop \/ EventAvailable \/ NoSwap \/ ReadAddress \/ Push \/ UNCHANGED vars
    <3>1. UNCHANGED <<ch, msg, data, bundle>> /\ pc' \in {pc, "swap", "trace", "push", "poll"}
      BY <2>4 DEF Trigger, StartStop, EventAvailable, NoSwap, ReadAddress, Push, vars
    <3> QED
      BY <1>0, <3>1 DEF ThreadOK
  <2> QED
    BY <2>1, <2>2, <2>3, <2>4 DEF Next, WorkLoop, GetEvent
<1>4. HistoryOK'
  <2>1. fails' \in 0..MaxFails /\ seen' \in Nat
    <3>1. CASE Fail
      BY <1>f, <3>1, FailFacts
    <3>2. CASE UNCHANGED <<fails, seen>>
      BY <1>0, <3>2 DEF HistoryOK
    <3>3. CASE EventAvailable
      BY <1>0, <3>3 DEF EventAvailable, BoardOK, HistoryOK
    <3>4. CASE Trigger \/ StartStop \/ NoSwap \/ Swap \/ GetEvent \/ UNCHANGED vars
      BY <3>1, <3>2, <3>4 DEF Trigger, StartStop, NoSwap, Swap, GetEvent, ReadAddress, ReadAddressFails,
                              ReadChannel, Push, vars
    <3> QED
      BY <3>3, <3>4 DEF Next, WorkLoop
  <2>2. pushed' \in Seq([trace : [Channels -> Nat], event : Nat])
    <3>1. CASE Push
      <4>1. [trace |-> bundle, event |-> seen] \in [trace : [Channels -> Nat], event : Nat]
        BY <1>0 DEF ThreadOK, HistoryOK
      <4> QED
        BY <1>0, <3>1, <4>1 DEF Push, HistoryOK
    <3>2. CASE UNCHANGED pushed
      BY <1>0, <3>2 DEF HistoryOK
    <3>3. ~Push => UNCHANGED pushed
      BY DEF Next, WorkLoop, Trigger, StartStop, EventAvailable, NoSwap, Swap, GetEvent, ReadAddress, ReadAddressFails,
             ReadChannel, vars
    <3> QED
      BY <3>1, <3>2, <3>3
  <2> QED
    BY <2>1, <2>2 DEF HistoryOK
<1>5. go_time_' \in BOOLEAN
  BY <1>0 DEF Next, WorkLoop, Trigger, StartStop, EventAvailable, NoSwap, Swap, GetEvent,
              ReadAddress, ReadAddressFails, ReadChannel, Push, vars
<1> QED
  BY <1>1, <1>2, <1>3, <1>4, <1>5 DEF TypeOK

(***************************************************************************)
(* The flag is right until an access fails.                                *)
(***************************************************************************)
\* After a swap that reaches the board the flag is right, whatever it was.
LEMMA SwapFacts ==
  ASSUME TypeOK, Swap, ArmBank(SwapTarget)
  PROVE  /\ FlagBank' = armed' /\ armed' = Other(FlagBank) /\ armed' \in Banks
         /\ previous' = armed /\ count' = [count EXCEPT ![armed'] = 0]
         /\ memory' = memory
<1>1. armed \in Banks
  BY DEF TypeOK, BoardOK
<1>2. FlagBank' = Other(FlagBank)
  BY FlagFlips DEF Swap
<1>3. armed' = SwapTarget /\ previous' = armed /\ memory' = memory
  BY DEF ArmBank
<1>4. count' = [count EXCEPT ![armed'] = 0]
  BY DEF ArmBank
<1> QED
  BY <1>1, <1>2, <1>3, <1>4, BankFacts DEF Banks, Other

LEMMA SyncStep ==
  TypeOK /\ TypeOK' /\ InSyncUntilAFailure /\ [Next]_vars => InSyncUntilAFailure'
<1> SUFFICES ASSUME TypeOK, TypeOK', InSyncUntilAFailure, [Next]_vars, fails' = 0
             PROVE  armed' = FlagBank'
  <2>1. armed' \in Banks => (InSync' <=> armed' = FlagBank')
    BY FlagNames DEF InSync, FlagBank
  <2> QED
    BY <2>1 DEF InSyncUntilAFailure, TypeOK, BoardOK
<1>1. fails \in 0..MaxFails /\ armed \in Banks
  BY DEF TypeOK, HistoryOK, BoardOK
<1>2. ~Fail
  BY <1>1, FailFacts
<1>3. CASE Swap
  BY <1>2, <1>3, SwapFacts DEF Swap
<1>4. CASE Trigger \/ StartStop \/ EventAvailable \/ NoSwap \/ GetEvent \/ UNCHANGED vars
  <2>1. UNCHANGED <<armed, bank2_armed_flag, fails>>
    BY <1>2, <1>4 DEF Trigger, StartStop, EventAvailable, NoSwap, GetEvent, ReadAddress, ReadAddressFails,
                      ReadChannel, Push, vars, board
  <2> QED
    BY <1>1, <2>1, FlagStays, BankFacts DEF InSyncUntilAFailure
<1> QED
  BY <1>3, <1>4 DEF Next, WorkLoop

(***************************************************************************)
(* Following the event, one lemma for each action.                         *)
(***************************************************************************)
LEMMA PushedFacts ==
  ASSUME TypeOK, NEW i \in DOMAIN pushed
  PROVE  pushed[i] \in [trace : [Channels -> Nat], event : Nat] /\ pushed[i].event \in Nat
<1>1. pushed \in Seq([trace : [Channels -> Nat], event : Nat])
  BY DEF TypeOK, HistoryOK
<1>2. ASSUME NEW R, pushed \in Seq(R) PROVE pushed[i] \in R
  BY <1>2
<1> QED
  BY <1>1, <1>2

\* The parts of the invariant, with the bank the flag tells.
LEMMA SeenFacts ==
  ASSUME TypeOK, Follows, seen # 0, pc # "poll"
  PROVE  /\ armed = FlagBank
         /\ pc = "swap" => count[armed] > 0 /\ memory[armed] = seen
         /\ Reads => /\ previous = ClosedBank /\ previous \in Banks /\ previous # armed
                     /\ count[previous] > 0 /\ memory[previous] = seen
                     /\ seen <= fired
                     /\ count[armed] > 0 => seen < memory[armed]
<1>1. armed \in Banks /\ pc \in {"swap", "address", "trace", "push"}
  BY DEF TypeOK, BoardOK, ThreadOK
<1>2. InSync
  BY <1>1 DEF Follows, SeenBeforeSwap, SeenAfterSwap, Reads
<1>3. armed = FlagBank
  BY <1>1, <1>2, BankFacts
<1>4. ClosedBank \in Banks /\ ClosedBank # armed
  BY <1>1, <1>3, BankFacts DEF Banks, Other
<1> QED
  BY <1>3, <1>4 DEF Follows, SeenBeforeSwap, SeenAfterSwap, Reads

\* Showing the parts about the event that is seen, in the next state.
LEMMA SeenNext ==
  ASSUME TypeOK',
         seen' # 0 /\ pc' # "poll" =>
           /\ armed' = FlagBank'
           /\ pc' = "swap" => count'[armed'] > 0 /\ memory'[armed'] = seen'
           /\ Reads' => /\ previous' = ClosedBank'
                        /\ count'[previous'] > 0 /\ memory'[previous'] = seen'
                        /\ seen' <= fired'
                        /\ count'[armed'] > 0 => seen' < memory'[armed']
  PROVE  SeenBeforeSwap' /\ SeenAfterSwap'
<1>1. armed' \in Banks => (InSync' <=> armed' = FlagBank')
  BY FlagNames DEF InSync, FlagBank
<1>2. armed' \in Banks
  BY DEF TypeOK, BoardOK
<1> QED
  BY <1>1, <1>2 DEF SeenBeforeSwap, SeenAfterSwap, Reads

\* A failure, before it anything: the event is not followed any more.
LEMMA FailStep ==
  ASSUME TypeOK, TypeOK', Follows, seen' = 0, UNCHANGED <<board, pushed, fired>>
  PROVE  Follows'
<1>1. SeenBeforeSwap' /\ SeenAfterSwap' /\ ReadSoFar'
  BY DEF SeenBeforeSwap, SeenAfterSwap, ReadSoFar
<1>2. Older' /\ HeadsFired'
  BY DEF Follows, Older, HeadsFired, board
<1>3. BundleIsTheEvent' /\ SeenOnceInOrder'
  BY DEF Follows, BundleIsTheEvent, SeenOnceInOrder, Whole
<1> QED
  BY <1>1, <1>2, <1>3 DEF Follows

LEMMA TriggerStep == ASSUME TypeOK, TypeOK', Follows, Trigger PROVE Follows'
<1>1. /\ armed \in Banks /\ fired \in Nat
      /\ count \in [Banks -> Nat] /\ memory \in [Banks -> Nat]
  BY DEF TypeOK, BoardOK
<1>2. UNCHANGED <<armed, previous, bank2_armed_flag, pc, ch, bundle, pushed, seen>>
  BY DEF Trigger
<1>3. /\ count'[armed] > 0 /\ fired' = fired + 1
      /\ memory'[armed] = IF count[armed] = 0 THEN fired + 1 ELSE memory[armed]
  BY <1>1 DEF Trigger
<1>4. \A b \in Banks : b # armed => count'[b] = count[b] /\ memory'[b] = memory[b]
  BY <1>1 DEF Trigger
<1>5. FlagBank' = FlagBank /\ ClosedBank' = ClosedBank /\ Reads' = Reads
  BY <1>2, FlagStays DEF ClosedBank, Reads
<1>6. SeenBeforeSwap' /\ SeenAfterSwap'
  <2>1. ASSUME seen # 0, pc # "poll"
        PROVE  /\ armed = FlagBank
               /\ pc = "swap" => memory'[armed] = seen
               /\ Reads => /\ previous = ClosedBank /\ count'[previous] > 0
                           /\ memory'[previous] = seen /\ seen <= fired'
                           /\ seen < memory'[armed]
    <3>1. seen \in Nat
      BY DEF TypeOK, HistoryOK
    <3>2. CASE pc = "swap"
      BY <1>1, <1>3, <2>1, <3>2, SeenFacts DEF Reads
    <3>3. CASE pc # "swap"
      <4>1. count[armed] = 0 \/ count[armed] > 0
        BY <1>1
      <4> QED
        BY <1>1, <1>3, <1>4, <2>1, <3>1, <3>3, <4>1, SeenFacts
    <3> QED
      BY <3>2, <3>3
  <2> QED
    BY <1>2, <1>3, <1>5, <2>1, SeenNext
<1>7. ReadSoFar'
  BY <1>2, <1>5 DEF Follows, ReadSoFar
<1>8. Older' /\ HeadsFired'
  <2>1. \A b \in Banks : memory[b] <= fired
    BY DEF Follows, HeadsFired
  <2>2. HeadsFired'
    BY <1>1, <1>3, <1>4, <2>1 DEF HeadsFired
  <2>3. ASSUME NEW i \in DOMAIN pushed, pushed[i].event # 0
        PROVE  /\ pushed[i].event <= fired' /\ pushed[i].event < memory'[armed]
               /\ pc # "poll" /\ seen # 0 => pushed[i].event < seen
    <3>1. pushed[i].event \in Nat
      BY PushedFacts
    <3>2. /\ pushed[i].event <= fired
          /\ count[armed] > 0 => pushed[i].event < memory[armed]
          /\ pc # "poll" /\ seen # 0 => pushed[i].event < seen
      BY <2>3 DEF Follows, Older
    <3>3. count[armed] = 0 \/ count[armed] > 0
      BY <1>1
    <3> QED
      BY <1>1, <1>3, <3>1, <3>2, <3>3
  <2> QED
    BY <1>2, <2>2, <2>3 DEF Older
<1>9. BundleIsTheEvent' /\ SeenOnceInOrder'
  BY <1>2 DEF Follows, BundleIsTheEvent, SeenOnceInOrder, Whole
<1> QED
  BY <1>6, <1>7, <1>8, <1>9 DEF Follows

LEMMA EventAvailableStep ==
  ASSUME TypeOK, TypeOK', Follows, EventAvailable PROVE Follows'
<1>1. /\ UNCHANGED <<armed, count, memory, previous, fired, bank2_armed_flag, pushed>>
      /\ count[armed] > 0 /\ pc' = "swap"
  BY DEF EventAvailable, board
<1>2. seen' # 0 => armed = FlagBank /\ seen' = memory[armed]
  <2>1. armed \in Banks
    BY DEF TypeOK, BoardOK
  <2> QED
    BY <2>1, BankFacts DEF EventAvailable
<1>3. SeenBeforeSwap' /\ SeenAfterSwap' /\ ReadSoFar'
  <2>1. ~Reads' /\ FlagBank' = FlagBank
    BY <1>1, FlagStays DEF Reads
  <2> QED
    BY <1>1, <1>2, <2>1, SeenNext DEF ReadSoFar
<1>4. Older' /\ HeadsFired'
  BY <1>1, <1>2 DEF Follows, Older, HeadsFired
<1>5. BundleIsTheEvent' /\ SeenOnceInOrder'
  BY <1>1 DEF Follows, BundleIsTheEvent, SeenOnceInOrder, Whole
<1> QED
  BY <1>3, <1>4, <1>5 DEF Follows

LEMMA SwapStep == ASSUME TypeOK, TypeOK', Follows, Swap PROVE Follows'
<1>1. pc = "swap" /\ pc' = "address" /\ ch' = 1 /\ UNCHANGED <<pushed, fired>>
  BY DEF Swap
<1>2. CASE Fail /\ UNCHANGED board
  <2>1. seen' = 0
    BY <1>2 DEF Fail
  <2> QED
    BY <1>1, <1>2, <2>1, FailStep
<1>3. CASE ArmBank(SwapTarget) /\ UNCHANGED <<fails, seen>>
  <2>1. /\ FlagBank' = armed' /\ armed' \in Banks /\ armed' = Other(FlagBank)
        /\ previous' = armed /\ memory' = memory /\ seen' = seen
        /\ count' = [count EXCEPT ![armed'] = 0]
    BY <1>3, SwapFacts
  <2>2. /\ armed \in Banks /\ count \in [Banks -> Nat]
        /\ armed' \in Banks
    BY <2>1 DEF TypeOK, BoardOK
  <2>3. count'[armed'] = 0
    BY <2>1, <2>2
  <2>4. ClosedBank' = Other(FlagBank')
    <3>1. CASE bank2_armed_flag'
      BY <3>1 DEF ClosedBank, FlagBank, Other
    <3>2. CASE ~bank2_armed_flag'
      BY <3>2 DEF ClosedBank, FlagBank, Other
    <3> QED
      BY <3>1, <3>2
  <2>5. ASSUME seen # 0
        PROVE  /\ previous' = ClosedBank' /\ count'[previous'] > 0
               /\ memory'[previous'] = seen /\ seen <= fired
    <3>1. armed = FlagBank /\ count[armed] > 0 /\ memory[armed] = seen
      BY <1>1, <2>5, SeenFacts
    <3>2. armed' # armed /\ Other(armed') = armed
      BY <2>1, <2>2, <3>1 DEF Other, Banks
    <3>3. count'[armed] = count[armed]
      BY <2>1, <2>2, <3>2
    <3>4. memory[armed] <= fired
      BY <2>2 DEF Follows, HeadsFired
    <3> QED
      BY <2>1, <2>4, <3>1, <3>2, <3>3, <3>4
  <2>6. SeenBeforeSwap' /\ SeenAfterSwap'
    BY <1>1, <2>1, <2>3, <2>5, SeenNext
  <2>7. ReadSoFar'
    <3>1. \A c \in Channels : ~(c < ch') /\ pc' # "push"
      BY <1>1 DEF Channels
    <3> QED
      BY <3>1 DEF ReadSoFar
  <2>8. Older' /\ HeadsFired'
    BY <1>1, <2>1, <2>3 DEF Follows, Older, HeadsFired
  <2>9. BundleIsTheEvent' /\ SeenOnceInOrder'
    BY <1>1 DEF Follows, BundleIsTheEvent, SeenOnceInOrder, Whole
  <2> QED
    BY <2>6, <2>7, <2>8, <2>9 DEF Follows
<1> QED
  BY <1>2, <1>3 DEF Swap

LEMMA ReadAddressStep ==
  ASSUME TypeOK, TypeOK', Follows, ReadAddress PROVE Follows'
<1>1. /\ pc = "address" /\ pc' \in {"trace", "push"}
      /\ UNCHANGED <<armed, count, memory, previous, fired, bank2_armed_flag, pushed,
                     seen, ch, bundle>>
  BY DEF ReadAddress, board
<1>2. FlagBank' = FlagBank /\ ClosedBank' = ClosedBank /\ Reads /\ Reads'
  BY <1>1, FlagStays DEF ClosedBank, Reads
<1>3. SeenBeforeSwap' /\ SeenAfterSwap'
  BY <1>1, <1>2, SeenFacts, SeenNext
<1>4. ReadSoFar'
  <2>1. seen # 0 => pc' = "trace"
    BY <1>1, <1>2, SeenFacts DEF ReadAddress
  <2> QED
    BY <1>1, <1>2, <2>1 DEF Follows, ReadSoFar
<1>5. Older' /\ HeadsFired'
  BY <1>1 DEF Follows, Older, HeadsFired
<1>6. BundleIsTheEvent' /\ SeenOnceInOrder'
  BY <1>1 DEF Follows, BundleIsTheEvent, SeenOnceInOrder, Whole
<1> QED
  BY <1>3, <1>4, <1>5, <1>6 DEF Follows

LEMMA ReadChannelStep ==
  ASSUME TypeOK, TypeOK', Follows, ReadChannel PROVE Follows'
<1>1. /\ pc = "trace" /\ pc' \in {"address", "push"}
      /\ UNCHANGED <<armed, count, memory, previous, fired, bank2_armed_flag, pushed>>
      /\ bundle' = [bundle EXCEPT ![ch] = data']
  BY DEF ReadChannel, board
<1>2. FlagBank' = FlagBank /\ ClosedBank' = ClosedBank /\ Reads /\ Reads'
  BY <1>1, FlagStays DEF ClosedBank, Reads
<1>3. CASE Fail
  <2>1. seen' = 0
    BY <1>3 DEF Fail
  <2> QED
    BY <1>1, <2>1, FailStep DEF board
<1>4. CASE data' = memory[ClosedBank] /\ UNCHANGED <<fails, seen>>
  <2>1. SeenBeforeSwap' /\ SeenAfterSwap'
    BY <1>1, <1>2, <1>4, SeenFacts, SeenNext
  <2>2. ReadSoFar'
    <3> SUFFICES ASSUME seen # 0, NEW c \in Channels, c < ch' \/ pc' = "push"
                 PROVE  bundle'[c] = seen
      BY <1>4 DEF ReadSoFar
    <3>1. data' = seen
      BY <1>1, <1>2, <1>4, SeenFacts
    <3>2. ch \in Channels /\ bundle \in [Channels -> Nat]
      BY DEF TypeOK, ThreadOK
    <3>3. c = ch \/ c < ch
      <4>1. CASE ch < NumCh
        <5>1. ch' = ch + 1 /\ pc' = "address"
          BY <4>1 DEF ReadChannel
        <5> QED
          BY <3>2, <5>1, Sis3316Assumption DEF Channels
      <4>2. CASE ~(ch < NumCh)
        BY <3>2, <4>2, Sis3316Assumption DEF Channels
      <4> QED
        BY <4>1, <4>2
    <3>4. c < ch => bundle[c] = seen
      BY <1>1, <1>2 DEF Follows, ReadSoFar
    <3>5. bundle'[c] = IF c = ch THEN data' ELSE bundle[c]
      BY <1>1, <3>2
    <3>6. c < ch => c # ch
      BY <3>2, Sis3316Assumption DEF Channels
    <3> QED
      BY <3>1, <3>3, <3>4, <3>5, <3>6
  <2>3. Older' /\ HeadsFired'
    BY <1>1, <1>4 DEF Follows, Older, HeadsFired
  <2>4. BundleIsTheEvent' /\ SeenOnceInOrder'
    BY <1>1 DEF Follows, BundleIsTheEvent, SeenOnceInOrder, Whole
  <2> QED
    BY <2>1, <2>2, <2>3, <2>4 DEF Follows
<1> QED
  BY <1>3, <1>4 DEF ReadChannel

LEMMA PushStep == ASSUME TypeOK, TypeOK', Follows, Push PROVE Follows'
<1> DEFINE new == [trace |-> bundle, event |-> seen]
<1>1. /\ pc = "push" /\ pc' = "poll" /\ pushed' = Append(pushed, new)
      /\ UNCHANGED <<armed, count, memory, previous, fired, bank2_armed_flag, seen>>
  BY DEF Push, board
<1>2. Reads /\ ~Reads'
  BY <1>1 DEF Reads
<1>3. /\ pushed \in Seq([trace : [Channels -> Nat], event : Nat])
      /\ new \in [trace : [Channels -> Nat], event : Nat]
  BY DEF TypeOK, HistoryOK, ThreadOK
<1>4. /\ Len(pushed) \in Nat /\ DOMAIN pushed = 1..Len(pushed)
      /\ DOMAIN pushed' = 1..(Len(pushed) + 1)
      /\ pushed'[Len(pushed) + 1] = new
      /\ \A i \in DOMAIN pushed : pushed'[i] = pushed[i]
  <2> HIDE DEF new
  <2> QED
    BY <1>1, <1>3
<1>5. \A i \in DOMAIN pushed' : i \in DOMAIN pushed \/ i = Len(pushed) + 1
  BY <1>4
<1>6. SeenBeforeSwap' /\ SeenAfterSwap' /\ ReadSoFar'
  BY <1>1, <1>2 DEF SeenBeforeSwap, SeenAfterSwap, ReadSoFar
<1>7. Older' /\ HeadsFired'
  <2>1. seen # 0 => seen <= fired /\ (count[armed] > 0 => seen < memory[armed])
    BY <1>1, <1>2, SeenFacts
  <2>2. ASSUME NEW i \in DOMAIN pushed', pushed'[i].event # 0
        PROVE  /\ pushed'[i].event <= fired
               /\ count[armed] > 0 => pushed'[i].event < memory[armed]
    <3>1. CASE i \in DOMAIN pushed
      BY <1>4, <2>2, <3>1 DEF Follows, Older
    <3>2. CASE i = Len(pushed) + 1
      BY <1>4, <2>1, <2>2, <3>2
    <3> QED
      BY <1>5, <3>1, <3>2
  <2> QED
    BY <1>1, <2>2 DEF Follows, Older, HeadsFired
<1>8. BundleIsTheEvent'
  <2> SUFFICES ASSUME NEW i \in DOMAIN pushed', pushed'[i].event # 0
               PROVE  Whole(pushed'[i], pushed'[i].event)
    BY DEF BundleIsTheEvent
  <2>1. CASE i \in DOMAIN pushed
    BY <1>4, <2>1 DEF Follows, BundleIsTheEvent
  <2>2. CASE i = Len(pushed) + 1
    <3>1. pushed'[i].event = seen /\ pushed'[i].trace = bundle
      BY <1>4, <2>2
    <3>2. \A c \in Channels : bundle[c] = seen
      BY <1>1, <1>2, <3>1 DEF Follows, ReadSoFar
    <3>3. bundle \in [Channels -> Nat]
      BY DEF TypeOK, ThreadOK
    <3>4. bundle = [c \in Channels |-> seen]
      BY <3>2, <3>3
    <3> QED
      BY <3>1, <3>4 DEF Whole
  <2> QED
    BY <1>5, <2>1, <2>2
<1>9. SeenOnceInOrder'
  <2> SUFFICES ASSUME NEW i \in DOMAIN pushed', NEW j \in DOMAIN pushed',
                      i < j, pushed'[i].event # 0, pushed'[j].event # 0
               PROVE  pushed'[i].event < pushed'[j].event
    BY DEF SeenOnceInOrder
  <2>1. i \in DOMAIN pushed
    BY <1>4
  <2>2. CASE j \in DOMAIN pushed
    BY <1>4, <2>1, <2>2 DEF Follows, SeenOnceInOrder
  <2>3. CASE j = Len(pushed) + 1
    <3>1. pushed'[j].event = seen /\ pushed'[i] = pushed[i]
      BY <1>4, <2>1, <2>3
    <3> QED
      BY <1>1, <2>1, <3>1 DEF Follows, Older
  <2> QED
    BY <1>5, <2>2, <2>3
<1> QED
  BY <1>6, <1>7, <1>8, <1>9 DEF Follows

LEMMA StutterStep == ASSUME Follows, UNCHANGED vars PROVE Follows'
BY DEF Follows, SeenBeforeSwap, SeenAfterSwap, ReadSoFar, Older, HeadsFired, Reads, InSync,
       ClosedBank, BundleIsTheEvent, SeenOnceInOrder, Whole, vars, board

\* The readout is stopped or started, or stopped between the test and the swap.
LEMMA GoTimeStep == ASSUME Follows, StartStop \/ NoSwap PROVE Follows'
<1>1. /\ UNCHANGED <<board, bank2_armed_flag, ch, bundle, pushed, seen, fired>>
      /\ pc' = pc \/ pc' = "poll"
  BY DEF StartStop, NoSwap
<1>2. SeenBeforeSwap' /\ SeenAfterSwap' /\ ReadSoFar'
  BY <1>1 DEF Follows, SeenBeforeSwap, SeenAfterSwap, ReadSoFar, Reads, InSync, ClosedBank,
              board
<1>3. Older' /\ HeadsFired' /\ BundleIsTheEvent' /\ SeenOnceInOrder'
  BY <1>1 DEF Follows, Older, HeadsFired, BundleIsTheEvent, SeenOnceInOrder, Whole, board
<1> QED
  BY <1>2, <1>3 DEF Follows

(***************************************************************************)
(* The theorems.                                                           *)
(***************************************************************************)
LEMMA ReadoutStep == ReadoutInv /\ [Next]_vars => ReadoutInv'
<1> SUFFICES ASSUME ReadoutInv, [Next]_vars PROVE ReadoutInv'
  OBVIOUS
<1>1. TypeOK /\ Follows /\ InSyncUntilAFailure
  BY DEF ReadoutInv
<1>2. TypeOK'
  BY <1>1, TypeStep
<1>3. InSyncUntilAFailure'
  BY <1>1, <1>2, SyncStep
<1>4. Follows'
  <2>1. CASE ReadAddressFails
    <3>1. seen' = 0 /\ UNCHANGED <<board, pushed, fired>>
      BY <2>1 DEF ReadAddressFails, Fail
    <3> QED
      BY <1>1, <1>2, <3>1, FailStep
  <2>2. CASE Trigger
    BY <1>1, <1>2, <2>2, TriggerStep
  <2>3. CASE EventAvailable
    BY <1>1, <1>2, <2>3, EventAvailableStep
  <2>4. CASE Swap
    BY <1>1, <1>2, <2>4, SwapStep
  <2>5. CASE ReadAddress
    BY <1>1, <1>2, <2>5, ReadAddressStep
  <2>6. CASE ReadChannel
    BY <1>1, <1>2, <2>6, ReadChannelStep
  <2>7. CASE Push
    BY <1>1, <1>2, <2>7, PushStep
  <2>8. CASE UNCHANGED vars
    BY <1>1, <2>8, StutterStep
  <2>9. CASE StartStop \/ NoSwap
    BY <1>1, <2>9, GoTimeStep
  <2> QED
    BY <2>1, <2>2, <2>3, <2>4, <2>5, <2>6, <2>7, <2>8, <2>9 DEF Next, WorkLoop, GetEvent
<1> QED
  BY <1>1, <1>2, <1>3, <1>4 DEF ReadoutInv

\* The types of the readout's state.
THEOREM TypeCorrect == Spec => []TypeOK
<1>1. Init => TypeOK
  BY InitReadout DEF ReadoutInv
<1> QED
  BY <1>1, TypeStep, PTL DEF Spec

\* Whatever fails: a bundle whose event was followed to the end is that event
\* in every channel, no event is pushed twice or after a later one, and the
\* flag of the banks is right as long as no access failed (EventAvailable and
\* GetEvent of the Sis3316).
THEOREM EventsOnceWholeCorrect == Spec => []EventsOnceWhole
<1>1. ReadoutInv => EventsOnceWhole
  BY DEF ReadoutInv, Follows, EventsOnceWhole
<1> QED
  BY InitReadout, ReadoutStep, <1>1, PTL DEF Spec

(***************************************************************************)
(* The oscillator's program: what comes at each of its 37 operations.      *)
(***************************************************************************)
Ops == {Osc!Start, Osc!Stop} \cup {Osc!Byte(b) : b \in 0..255}
         \cup {Osc!WrByte(i) : i \in 1..6} \cup {Osc!RdByte(i) : i \in 1..6}

LEMMA ReadOutIs ==
  LET w == Osc!ReadOut
  IN  /\ w \in Seq(Ops) /\ Len(w) = 12 /\ w[1] = Osc!Start
      /\ w[2] = Osc!Byte(170) /\ w[3] = Osc!Byte(13) /\ w[4] = Osc!Start
      /\ w[5] = Osc!Byte(171) /\ \A i \in 1..6 : w[5 + i] = Osc!RdByte(i)
      /\ w[12] = Osc!Stop
BY DEF Osc!ReadOut, Osc!Chip, Osc!Freq, Ops

LEMMA FreezeIs ==
  LET w == Osc!Freeze
  IN  /\ w \in Seq(Ops) /\ Len(w) = 5 /\ w[1] = Osc!Start /\ w[2] = Osc!Byte(170)
      /\ w[3] = Osc!Byte(137) /\ w[4] = Osc!Byte(16) /\ w[5] = Osc!Stop
BY DEF Osc!Freeze, Osc!FreezeDCO, Osc!Written, Osc!Chip, Ops

LEMMA DividerIs ==
  LET w == Osc!Divider
  IN  /\ w \in Seq(Ops) /\ Len(w) = 10 /\ w[1] = Osc!Start /\ w[2] = Osc!Byte(170)
      /\ w[3] = Osc!Byte(13) /\ \A i \in 1..6 : w[3 + i] = Osc!WrByte(i)
      /\ w[10] = Osc!Stop
BY DEF Osc!Divider, Osc!Written, Osc!Chip, Osc!Freq, Ops

LEMMA UnfreezeIs ==
  LET w == Osc!Unfreeze
  IN  /\ w \in Seq(Ops) /\ Len(w) = 5 /\ w[1] = Osc!Start /\ w[2] = Osc!Byte(170)
      /\ w[3] = Osc!Byte(137) /\ w[4] = Osc!Byte(0) /\ w[5] = Osc!Stop
BY DEF Osc!Unfreeze, Osc!FreezeDCO, Osc!Written, Osc!Chip, Ops

LEMMA TakeOverIs ==
  LET w == Osc!TakeOver
  IN  /\ w \in Seq(Ops) /\ Len(w) = 5 /\ w[1] = Osc!Start /\ w[2] = Osc!Byte(170)
      /\ w[3] = Osc!Byte(135) /\ w[4] = Osc!Byte(64) /\ w[5] = Osc!Stop
BY DEF Osc!TakeOver, Osc!NewFreq, Osc!Written, Osc!Chip, Ops

\* x, of length l, is s, of length n, and then t, of length m.
IsJoin(x, l, S, s, n, t, m) ==
  Len(s) = n /\ Len(t) = m /\ l = n + m /\ x = s \o t =>
    /\ x \in Seq(S) /\ Len(x) = l
    /\ \A i \in 1..n : x[i] = s[i]
    /\ \A i \in 1..m : x[n + i] = t[i]

LEMMA Joined ==
  \A S : \A s, t \in Seq(S) : \A n, m, l, x : IsJoin(x, l, S, s, n, t, m)
<1> TAKE S
<1> TAKE s, t \in Seq(S)
<1> TAKE n, m, l, x
<1> SUFFICES ASSUME Len(s) = n, Len(t) = m, l = n + m, x = s \o t
             PROVE  /\ x \in Seq(S) /\ Len(x) = l
                    /\ \A i \in 1..n : x[i] = s[i]
                    /\ \A i \in 1..m : x[n + i] = t[i]
  BY DEF IsJoin
<1> QED
  BY SMTT(30)

P(k) == Osc!SetOscFreqHSN1[k]

LEMMA ProgramIs ==
  /\ Len(Osc!SetOscFreqHSN1) = 37
  /\ \A i \in 1..12 : P(i) = Osc!ReadOut[i]
  /\ \A i \in 1..5 : P(12 + i) = Osc!Freeze[i]
  /\ \A i \in 1..10 : P(17 + i) = Osc!Divider[i]
  /\ \A i \in 1..5 : P(27 + i) = Osc!Unfreeze[i]
  /\ \A i \in 1..5 : P(32 + i) = Osc!TakeOver[i]
<1> DEFINE S == Ops
           s == Osc!ReadOut
           t == Osc!Freeze
           u == Osc!Divider
           v == Osc!Unfreeze
           w == Osc!TakeOver
           f == s \o t
           g == f \o u
           h == g \o v
           x == h \o w
<1>a. /\ s \in Seq(S) /\ Len(s) = 12 /\ t \in Seq(S) /\ Len(t) = 5
      /\ u \in Seq(S) /\ Len(u) = 10 /\ v \in Seq(S) /\ Len(v) = 5
      /\ w \in Seq(S) /\ Len(w) = 5
  BY ReadOutIs, FreezeIs, DividerIs, UnfreezeIs, TakeOverIs, Zenon
<1>b. Osc!SetOscFreqHSN1 = x
  BY DEF Osc!SetOscFreqHSN1
<1> HIDE DEF S, s, t, u, v, w
<1>c. f = s \o t /\ g = f \o u /\ h = g \o v /\ x = h \o w
  OBVIOUS
<1> HIDE DEF f, g, h, x
<1>0. /\ 5 \in Nat /\ 10 \in Nat /\ 12 \in Nat /\ 17 \in Nat /\ 27 \in Nat /\ 32 \in Nat
      /\ 37 \in Nat /\ 17 = 12 + 5 /\ 27 = 17 + 10 /\ 32 = 27 + 5 /\ 37 = 32 + 5
  OBVIOUS
<1>1. /\ f \in Seq(S) /\ Len(f) = 17
      /\ \A i \in 1..12 : f[i] = s[i]
      /\ \A i \in 1..5 : f[12 + i] = t[i]
  <2>1. IsJoin(f, 17, S, s, 12, t, 5)
    BY <1>0, <1>a, <1>c, Joined, Zenon
  <2> QED
    BY <1>0, <1>a, <1>c, <2>1, Zenon DEF IsJoin
<1>2. /\ g \in Seq(S) /\ Len(g) = 27
      /\ \A i \in 1..17 : g[i] = f[i]
      /\ \A i \in 1..10 : g[17 + i] = u[i]
  <2>1. IsJoin(g, 27, S, f, 17, u, 10)
    BY <1>0, <1>a, <1>c, <1>1, Joined, ZenonT(60)
  <2> QED
    BY <1>0, <1>a, <1>c, <1>1, <2>1, Zenon DEF IsJoin
<1>3. /\ h \in Seq(S) /\ Len(h) = 32
      /\ \A i \in 1..27 : h[i] = g[i]
      /\ \A i \in 1..5 : h[27 + i] = v[i]
  <2>1. IsJoin(h, 32, S, g, 27, v, 5)
    BY <1>0, <1>a, <1>c, <1>2, Joined, ZenonT(60)
  <2> QED
    BY <1>0, <1>a, <1>c, <1>2, <2>1, Zenon DEF IsJoin
<1>4. /\ Len(x) = 37
      /\ \A i \in 1..32 : x[i] = h[i]
      /\ \A i \in 1..5 : x[32 + i] = w[i]
  <2>1. IsJoin(x, 37, S, h, 32, w, 5)
    BY <1>0, <1>a, <1>c, <1>3, Joined, ZenonT(60)
  <2> QED
    BY <1>0, <1>a, <1>c, <1>3, <2>1, Zenon DEF IsJoin
<1>5. /\ \A i \in 1..12 : i \in 1..17
      /\ \A i \in 1..17 : i \in 1..27
      /\ \A i \in 1..27 : i \in 1..32
      /\ \A i \in 1..5 : 12 + i \in 1..17
      /\ \A i \in 1..10 : 17 + i \in 1..27
      /\ \A i \in 1..5 : 27 + i \in 1..32
  OBVIOUS
<1>6. \A i \in 1..27 : x[i] = g[i]
  BY <1>3, <1>4, <1>5, Zenon
<1>7. \A i \in 1..17 : x[i] = f[i]
  BY <1>2, <1>5, <1>6, Zenon
<1>8. \A i \in 1..12 : x[i] = s[i]
  BY <1>1, <1>5, <1>7, Zenon
<1>9. \A i \in 1..5 : x[12 + i] = t[i]
  <2>1. \A i \in 1..5 : 12 + i \in 1..17 /\ f[12 + i] = t[i]
    BY <1>1, <1>5
  <2> QED
    BY <1>7, <2>1, Zenon
<1>10. \A i \in 1..10 : x[17 + i] = u[i]
  <2>1. \A i \in 1..10 : 17 + i \in 1..27 /\ g[17 + i] = u[i]
    BY <1>2, <1>5
  <2> QED
    BY <1>6, <2>1, Zenon
<1>11. \A i \in 1..5 : x[27 + i] = v[i]
  <2>1. \A i \in 1..5 : 27 + i \in 1..32 /\ h[27 + i] = v[i]
    BY <1>3, <1>5
  <2>2. \A i \in 1..32 : x[i] = h[i]
    BY <1>4
  <2> QED
    BY <2>1, <2>2, Zenon
<1> QED
  BY <1>b, <1>4, <1>8, <1>9, <1>10, <1>11, Zenon DEF P, s, t, u, v, w

\* What is done at each of them.
Starts == {1, 4, 13, 18, 28, 33}
Stops == {12, 17, 27, 32, 37}
ChipBytes == {2, 14, 19, 29, 34}

LEMMA OperationsAre ==
  /\ \A k \in Starts : P(k) = Osc!Start
  /\ \A k \in Stops : P(k) = Osc!Stop
  /\ \A k \in ChipBytes : P(k) = Osc!Byte(170)
  /\ P(5) = Osc!Byte(171) /\ P(3) = Osc!Byte(13) /\ P(20) = Osc!Byte(13)
  /\ P(15) = Osc!Byte(137) /\ P(16) = Osc!Byte(16)
  /\ P(30) = Osc!Byte(137) /\ P(31) = Osc!Byte(0)
  /\ P(35) = Osc!Byte(135) /\ P(36) = Osc!Byte(64)
  /\ \A k \in 6..11 : P(k) = Osc!RdByte(k - 5)
  /\ \A k \in 21..26 : P(k) = Osc!WrByte(k - 20)
<1>1. /\ P(1) = Osc!Start /\ P(2) = Osc!Byte(170) /\ P(3) = Osc!Byte(13) /\ P(4) = Osc!Start
      /\ P(5) = Osc!Byte(171) /\ P(12) = Osc!Stop
      /\ \A i \in 1..6 : P(5 + i) = Osc!RdByte(i)
  BY ProgramIs, ReadOutIs
<1>2. /\ P(13) = Osc!Start /\ P(14) = Osc!Byte(170) /\ P(15) = Osc!Byte(137)
      /\ P(16) = Osc!Byte(16) /\ P(17) = Osc!Stop
  BY ProgramIs, FreezeIs
<1>3. /\ P(18) = Osc!Start /\ P(19) = Osc!Byte(170) /\ P(20) = Osc!Byte(13) /\ P(27) = Osc!Stop
      /\ \A i \in 1..6 : P(20 + i) = Osc!WrByte(i)
  BY ProgramIs, DividerIs
<1>4. /\ P(28) = Osc!Start /\ P(29) = Osc!Byte(170) /\ P(30) = Osc!Byte(137)
      /\ P(31) = Osc!Byte(0) /\ P(32) = Osc!Stop
  BY ProgramIs, UnfreezeIs
<1>5. /\ P(33) = Osc!Start /\ P(34) = Osc!Byte(170) /\ P(35) = Osc!Byte(135)
      /\ P(36) = Osc!Byte(64) /\ P(37) = Osc!Stop
  BY ProgramIs, TakeOverIs
<1>1a. \A i \in 1..6 : P(5 + i) = Osc!RdByte(i)
  BY <1>1
<1>3a. \A i \in 1..6 : P(20 + i) = Osc!WrByte(i)
  BY <1>3
<1>6. \A k \in 6..11 : P(k) = Osc!RdByte(k - 5)
  <2> TAKE k \in 6..11
  <2>1. PICK i \in 1..6 : k = 5 + i /\ k - 5 = i
    OBVIOUS
  <2>2. P(5 + i) = Osc!RdByte(i)
    BY <1>1a, <2>1, Zenon
  <2> QED
    BY <2>1, <2>2
<1>7. \A k \in 21..26 : P(k) = Osc!WrByte(k - 20)
  <2> TAKE k \in 21..26
  <2>1. PICK i \in 1..6 : k = 20 + i /\ k - 20 = i
    OBVIOUS
  <2> QED
    BY <1>3a, <2>1, Zenon
<1>8. \A k \in Starts : P(k) = Osc!Start
  BY <1>1, <1>2, <1>3, <1>4, <1>5 DEF Starts
<1>9. \A k \in Stops : P(k) = Osc!Stop
  BY <1>1, <1>2, <1>3, <1>4, <1>5 DEF Stops
<1>10. \A k \in ChipBytes : P(k) = Osc!Byte(170)
  BY <1>1, <1>2, <1>3, <1>4, <1>5 DEF ChipBytes
<1> QED
  BY <1>1, <1>2, <1>3, <1>4, <1>5, <1>6, <1>7, <1>8, <1>9, <1>10, Zenon

(***************************************************************************)
(* The oscillator while nothing has failed: where the bus and the pointer  *)
(* are when operation k comes, and what was read and written.              *)
(***************************************************************************)
BusAt(k) ==
  CASE k \in {1, 13, 18, 28, 33, 38} -> "idle"
    [] k \in {2, 5, 14, 19, 29, 34} -> "address"
    [] k \in {3, 15, 20, 30, 35} -> "pointer"
    [] k \in 6..12 -> "read"
    [] OTHER -> "write"

\* The number of the register that comes next, where it is of use.
PointerAt ==
  /\ step \in {4, 5} => pointer = 13
  /\ step \in 6..12 => pointer = 7 + step
  /\ step \in 21..27 => pointer = step - 8
  /\ step \in {16, 31} => pointer = 137
  /\ step = 36 => pointer = 135

ReadSoFarOsc == \A i \in 1..6 : step > 5 + i => rd[i] = Reference[i]

WrittenSoFar ==
  /\ \A i \in 1..6 :
       reg[12 + i] = IF step <= 20 + i THEN Reference[i] ELSE Osc!FreqHighSpeedWr[i]
  /\ reg[137] = IF step \in 17..31 THEN 16 ELSE 0
  /\ step >= 37 => reg[135] = 64

Undisturbed ==
  ~stopping /\ bus = BusAt(step) /\ PointerAt /\ ReadSoFarOsc /\ WrittenSoFar

\* Whatever failed: an error is not answered with a stop at a stop, and the
\* bus is free at the end unless the last one failed.
Stopped ==
  /\ stopping => step <= 37 /\ step \notin Stops
  /\ step = 38 => bus = "idle" \/ 37 \in failed

OscTypes ==
  /\ hs \in HighSpeed /\ n1 \in N1 /\ step \in 1..38 /\ stopping \in BOOLEAN
  /\ DOMAIN rd = 1..6

OscInv == OscTypes /\ Stopped /\ (failed = {} => Undisturbed)

OscFacts == OscTypes /\ Stopped /\ Undisturbed

LEMMA ProgramEnds == Osc!Last = 37 /\ (Osc!Done <=> step = 38)
<1>1. Len(Osc!SetOscFreqHSN1) = 37
  BY ProgramIs, Zenon
<1> QED
  BY <1>1 DEF Osc!Last, Osc!Done

LEMMA InitOsc == Osc!Init => OscInv
<1> SUFFICES ASSUME Osc!Init PROVE OscInv
  OBVIOUS
<1>1. /\ hs \in HighSpeed /\ n1 \in N1 /\ step = 1 /\ stopping = FALSE
  BY DEF Osc!Init
<1>1a. DOMAIN rd = 1..6
  BY DEF Osc!Init
<1>1b. ~stopping /\ stopping \in BOOLEAN
  BY <1>1, Zenon
<1>1c. 1 \in 1..38 /\ ~(1 = 38)
  OBVIOUS
<1>1d. OscTypes
  BY <1>1, <1>1a, <1>1b, <1>1c, Zenon DEF OscTypes
<1>1e. Stopped
  BY <1>1, <1>1b, <1>1c, Zenon DEF Stopped
<1>2. ~stopping /\ bus = BusAt(step) /\ PointerAt /\ ReadSoFarOsc
  BY DEF Osc!Init, BusAt, PointerAt, ReadSoFarOsc
<1>3. WrittenSoFar
  BY DEF Osc!Init, WrittenSoFar, Osc!Registers, Osc!Freq, Osc!FreezeDCO, Osc!NewFreq
<1> QED
  BY <1>1d, <1>1e, <1>2, <1>3, Zenon DEF OscInv, Undisturbed

(***************************************************************************)
(* What an operation does when nothing has failed before it.               *)
(***************************************************************************)
\* The values that are written back: once the registers are read they are the
\* same until the end.
LEMMA WrittenBackStays ==
  ASSUME UNCHANGED <<hs, n1, rd>>
  PROVE  Osc!FreqHighSpeedWr' = Osc!FreqHighSpeedWr
BY DEF Osc!FreqHighSpeedWr, Osc!HsBits, Osc!N1Bits

\* A byte for the chip, the register's number, a byte of data.
LEMMA TakesFacts ==
  ASSUME NEW b \in 0..255, Osc!Takes(b)
  PROVE  /\ bus = "address" /\ b = 170 => bus' = "pointer" /\ UNCHANGED <<pointer, reg>>
         /\ bus = "address" /\ b = 171 => bus' = "read" /\ UNCHANGED <<pointer, reg>>
         /\ bus = "pointer" => bus' = "write" /\ pointer' = b /\ UNCHANGED reg
         /\ bus = "write" => /\ bus' = "write" /\ pointer' = (pointer + 1) % 256
                             /\ \A r \in Osc!Registers :
                                  reg'[r] = IF r = pointer THEN b ELSE reg[r]
BY DEF Osc!Takes, Osc!Chip, Osc!oscillator

LEMMA ValuesAre ==
  /\ \A b : Osc!ValueOf(Osc!Byte(b)) = b /\ Osc!Byte(b).op = "write"
  /\ \A i : Osc!ValueOf(Osc!WrByte(i)) = Osc!FreqHighSpeedWr[i] /\ Osc!WrByte(i).op = "wr"
  /\ \A i : Osc!RdByte(i).op = "rd" /\ Osc!RdByte(i).i = i
  /\ Osc!Start.op = "start" /\ Osc!Stop.op = "stop"
BY DEF Osc!ValueOf, Osc!Byte, Osc!WrByte, Osc!RdByte, Osc!Start, Osc!Stop

LEMMA EffectsAre ==
  /\ Osc!Effect(Osc!Start) => bus' = "address" /\ UNCHANGED <<pointer, reg, rd>>
  /\ Osc!Effect(Osc!Stop) => bus' = "idle" /\ UNCHANGED <<pointer, reg, rd>>
  /\ \A b : Osc!Effect(Osc!Byte(b)) => Osc!Takes(b) /\ UNCHANGED rd
  /\ \A i : Osc!Effect(Osc!WrByte(i)) => Osc!Takes(Osc!FreqHighSpeedWr[i]) /\ UNCHANGED rd
  /\ \A i : Osc!Effect(Osc!RdByte(i)) =>
       /\ rd' = [rd EXCEPT ![i] = Osc!Gives]
       /\ pointer' = (pointer + 1) % 256 /\ UNCHANGED <<bus, reg>>
BY ValuesAre DEF Osc!Effect

\* The values that are written back are bytes.
LEMMA WrittenBytes ==
  ASSUME OscTypes, step > 12, ReadSoFarOsc
  PROVE  /\ Osc!FreqHighSpeedWr[1] = Osc!HsBits * 32 + Osc!N1Bits \div 4
         /\ Osc!FreqHighSpeedWr[2] = Reference[2] % 64
         /\ \A i \in 3..6 : Osc!FreqHighSpeedWr[i] = Reference[i]
         /\ \A i \in 1..6 : Osc!FreqHighSpeedWr[i] \in 0..255
<1>1. \A i \in 1..6 : rd[i] = Reference[i] /\ Reference[i] \in 0..255
  BY OscAssumption DEF OscTypes, ReadSoFarOsc
<1>2. n1 \in 0..255
  BY OscAssumption DEF OscTypes
<1>3. Osc!HsBits \in 0..3
  BY DEF Osc!HsBits
<1>4. Osc!N1Bits \in 0..126
  BY <1>2 DEF Osc!N1Bits
<1>5. ((Osc!N1Bits % 4) * 64 + rd[2]) % 64 = Reference[2] % 64
  BY <1>1, <1>4, SMTT(60)
<1>6. /\ Osc!FreqHighSpeedWr[1] = Osc!HsBits * 32 + Osc!N1Bits \div 4
      /\ Osc!FreqHighSpeedWr[2] = ((Osc!N1Bits % 4) * 64 + rd[2]) % 64
      /\ \A i \in 3..6 : Osc!FreqHighSpeedWr[i] = rd[i]
  BY DEF Osc!FreqHighSpeedWr
<1>7. Osc!HsBits * 32 + Osc!N1Bits \div 4 \in 0..255
  BY <1>3, <1>4
<1>8. Reference[2] % 64 \in 0..255
  BY <1>1
<1> QED
  BY <1>1, <1>5, <1>6, <1>7, <1>8

\* What the operation that comes does, where nothing has failed.
Numbers == {3, 15, 20, 30, 35}
Data == {16, 31, 36}
NumberAt(k) == CASE k \in {3, 20} -> 13 [] k \in {15, 30} -> 137 [] OTHER -> 135
DataAt(k) == CASE k = 16 -> 16 [] k = 31 -> 0 [] OTHER -> 64
OnlyWritten(b) == \A r \in Osc!Registers : reg'[r] = IF r = pointer THEN b ELSE reg[r]

LEMMA OperationIs ==
  ASSUME OscFacts, step <= 37, Osc!Effect(P(step))
  PROVE  /\ step \in Starts => bus' = "address" /\ UNCHANGED <<pointer, reg, rd>>
         /\ step \in Stops => bus' = "idle" /\ UNCHANGED <<pointer, reg, rd>>
         /\ step \in ChipBytes => bus' = "pointer" /\ UNCHANGED <<pointer, reg, rd>>
         /\ step = 5 => bus' = "read" /\ UNCHANGED <<pointer, reg, rd>>
         /\ step \in Numbers =>
              bus' = "write" /\ pointer' = NumberAt(step) /\ UNCHANGED <<reg, rd>>
         /\ step \in Data =>
              /\ bus' = "write" /\ pointer' = (pointer + 1) % 256 /\ UNCHANGED rd
              /\ OnlyWritten(DataAt(step))
         /\ step \in 21..26 =>
              /\ bus' = "write" /\ pointer' = (pointer + 1) % 256 /\ UNCHANGED rd
              /\ OnlyWritten(Osc!FreqHighSpeedWr[step - 20])
         /\ step \in 6..11 =>
              /\ rd' = [rd EXCEPT ![step - 5] = Osc!Gives]
              /\ pointer' = (pointer + 1) % 256 /\ UNCHANGED <<bus, reg>>
<1>1. step \in 1..37 /\ bus = BusAt(step)
  BY DEF OscFacts, OscTypes, Undisturbed
<1>2. /\ step \in ChipBytes \cup {5} => bus = "address"
      /\ step \in Numbers => bus = "pointer"
      /\ step \in Data \cup 21..26 => bus = "write"
  BY <1>1 DEF BusAt, ChipBytes, Numbers, Data
<1>o1. step \in Starts => P(step) = Osc!Start
  BY OperationsAre
<1>o2. step \in Stops => P(step) = Osc!Stop
  BY OperationsAre
<1>o3. step \in ChipBytes => P(step) = Osc!Byte(170)
  BY OperationsAre
<1>o4. step = 5 => P(step) = Osc!Byte(171)
  BY OperationsAre
<1>o5. step \in 21..26 => P(step) = Osc!WrByte(step - 20)
  BY OperationsAre
<1>o6. step \in 6..11 => P(step) = Osc!RdByte(step - 5)
  BY OperationsAre
<1>3. step \in Starts => bus' = "address" /\ UNCHANGED <<pointer, reg, rd>>
  BY <1>o1, EffectsAre, ZenonT(60)
<1>4. step \in Stops => bus' = "idle" /\ UNCHANGED <<pointer, reg, rd>>
  BY <1>o2, EffectsAre, ZenonT(60)
<1>5. step \in ChipBytes => Osc!Takes(170) /\ UNCHANGED rd
  BY <1>o3, EffectsAre, ZenonT(60)
<1>6. step = 5 => Osc!Takes(171) /\ UNCHANGED rd
  BY <1>o4, EffectsAre, ZenonT(60)
<1>7. step \in Numbers => P(step) = Osc!Byte(NumberAt(step)) /\ NumberAt(step) \in 0..255
  BY OperationsAre DEF Numbers, NumberAt
<1>8. step \in Data => P(step) = Osc!Byte(DataAt(step)) /\ DataAt(step) \in 0..255
  BY OperationsAre DEF Data, DataAt
<1>9. step \in Numbers => Osc!Takes(NumberAt(step)) /\ UNCHANGED rd
  BY <1>7, EffectsAre, Zenon
<1>10. step \in Data => Osc!Takes(DataAt(step)) /\ UNCHANGED rd
  BY <1>8, EffectsAre, Zenon
<1>11. step \in 21..26 => Osc!Takes(Osc!FreqHighSpeedWr[step - 20]) /\ UNCHANGED rd
  BY <1>o5, EffectsAre, ZenonT(60)
<1>12. step \in 6..11 => /\ rd' = [rd EXCEPT ![step - 5] = Osc!Gives]
                         /\ pointer' = (pointer + 1) % 256 /\ UNCHANGED <<bus, reg>>
  BY <1>o6, EffectsAre, ZenonT(60)
<1>13. step \in 21..26 => Osc!FreqHighSpeedWr[step - 20] \in 0..255
  <2> SUFFICES ASSUME step \in 21..26 PROVE Osc!FreqHighSpeedWr[step - 20] \in 0..255
    OBVIOUS
  <2>1. step > 12 /\ step - 20 \in 1..6
    OBVIOUS
  <2> QED
    BY <2>1, WrittenBytes DEF OscFacts, Undisturbed
<1> DEFINE TakesOf(b) ==
      /\ bus = "address" /\ b = 170 => bus' = "pointer" /\ UNCHANGED <<pointer, reg>>
      /\ bus = "address" /\ b = 171 => bus' = "read" /\ UNCHANGED <<pointer, reg>>
      /\ bus = "pointer" => bus' = "write" /\ pointer' = b /\ UNCHANGED reg
      /\ bus = "write" => /\ bus' = "write" /\ pointer' = (pointer + 1) % 256
                          /\ OnlyWritten(b)
<1>14. \A b \in 0..255 : Osc!Takes(b) => TakesOf(b)
  BY TakesFacts DEF OnlyWritten
<1>15. 170 \in 0..255 /\ 171 \in 0..255
  OBVIOUS
<1> HIDE DEF TakesOf
<1>16. /\ step \in ChipBytes => TakesOf(170)
       /\ step = 5 => TakesOf(171)
       /\ step \in Numbers => TakesOf(NumberAt(step))
       /\ step \in Data => TakesOf(DataAt(step))
       /\ step \in 21..26 => TakesOf(Osc!FreqHighSpeedWr[step - 20])
  <2>1. step \in ChipBytes => TakesOf(170)
    BY <1>5, <1>14, <1>15, Zenon
  <2>2. step = 5 => TakesOf(171)
    BY <1>6, <1>14, <1>15, ZenonT(60)
  <2>3. step \in Numbers => TakesOf(NumberAt(step))
    BY <1>7, <1>9, <1>14, Zenon
  <2>4. step \in Data => TakesOf(DataAt(step))
    BY <1>8, <1>10, <1>14, Zenon
  <2>5. step \in 21..26 => TakesOf(Osc!FreqHighSpeedWr[step - 20])
    BY <1>11, <1>13, <1>14, Zenon
  <2> QED
    BY <2>1, <2>2, <2>3, <2>4, <2>5, Zenon
<1>17. step \in ChipBytes => bus' = "pointer" /\ UNCHANGED <<pointer, reg, rd>>
  BY <1>2, <1>5, <1>16 DEF TakesOf
<1>18. step = 5 => bus' = "read" /\ UNCHANGED <<pointer, reg, rd>>
  BY <1>2, <1>6, <1>16 DEF TakesOf
<1>19. step \in Numbers =>
         bus' = "write" /\ pointer' = NumberAt(step) /\ UNCHANGED <<reg, rd>>
  BY <1>2, <1>9, <1>16 DEF TakesOf
<1>20. step \in Data =>
         /\ bus' = "write" /\ pointer' = (pointer + 1) % 256 /\ UNCHANGED rd
         /\ OnlyWritten(DataAt(step))
  BY <1>2, <1>10, <1>16, ZenonT(60) DEF TakesOf
<1>21. step \in 21..26 =>
         /\ bus' = "write" /\ pointer' = (pointer + 1) % 256 /\ UNCHANGED rd
         /\ OnlyWritten(Osc!FreqHighSpeedWr[step - 20])
  BY <1>2, <1>11, <1>16, ZenonT(60) DEF TakesOf
<1> QED
  BY <1>3, <1>4, <1>12, <1>17, <1>18, <1>19, <1>20, <1>21, Zenon

(***************************************************************************)
(* An operation that succeeds leaves the oscillator where the next one     *)
(* expects it.                                                             *)
(***************************************************************************)
LEMMA Steps ==
  ASSUME step \in 1..37
  PROVE  \/ step \in Starts \/ step \in Stops \/ step \in ChipBytes \/ step = 5
         \/ step \in Numbers \/ step \in Data \/ step \in 21..26 \/ step \in 6..11
BY DEF Starts, Stops, ChipBytes, Numbers, Data

Succeeds ==
  /\ step <= 37 /\ Osc!Effect(P(step)) /\ step' = step + 1 /\ stopping' = FALSE
  /\ UNCHANGED <<hs, n1>>

LEMMA BusStep == ASSUME OscFacts, Succeeds PROVE bus' = BusAt(step') /\ PointerAt'
<1>1. step \in 1..37 /\ bus = BusAt(step) /\ PointerAt /\ step' = step + 1
  BY DEF OscFacts, OscTypes, Undisturbed, Succeeds
<1> DEFINE Goal == bus' = BusAt(step') /\ PointerAt'
<1>2. CASE step \in Starts
  BY <1>1, <1>2, OperationIs DEF Starts, Succeeds, BusAt, PointerAt
<1>3. CASE step \in Stops
  BY <1>1, <1>3, OperationIs DEF Stops, Succeeds, BusAt, PointerAt
<1>4. CASE step \in ChipBytes
  BY <1>1, <1>4, OperationIs DEF ChipBytes, Succeeds, BusAt, PointerAt
<1>5. CASE step = 5
  BY <1>1, <1>5, OperationIs DEF Succeeds, BusAt, PointerAt
<1>6. CASE step \in Numbers
  BY <1>1, <1>6, OperationIs DEF Numbers, NumberAt, Succeeds, BusAt, PointerAt
<1>7. CASE step \in Data
  BY <1>1, <1>7, OperationIs DEF Data, Succeeds, BusAt, PointerAt
<1>8. CASE step \in 21..26
  BY <1>1, <1>8, OperationIs DEF Succeeds, BusAt, PointerAt
<1>9. CASE step \in 6..11
  BY <1>1, <1>9, OperationIs DEF Succeeds, BusAt, PointerAt
<1> QED
  BY <1>1, <1>2, <1>3, <1>4, <1>5, <1>6, <1>7, <1>8, <1>9, Steps

\* The registers that are known.
LEMMA RegistersAre ==
  /\ \A i \in 1..6 : 12 + i \in Osc!Registers
  /\ 135 \in Osc!Registers /\ 137 \in Osc!Registers
BY DEF Osc!Registers, Osc!Freq, Osc!FreezeDCO, Osc!NewFreq

LEMMA ReadStep == ASSUME OscFacts, Succeeds PROVE ReadSoFarOsc' /\ DOMAIN rd' = 1..6
<1>1. /\ step \in 1..37 /\ step' = step + 1 /\ DOMAIN rd = 1..6 /\ ReadSoFarOsc
      /\ PointerAt /\ WrittenSoFar /\ bus = BusAt(step)
  BY DEF OscFacts, OscTypes, Undisturbed, Succeeds
<1>2. CASE step \in 6..11
  <2> DEFINE i == step - 5
  <2>1. i \in 1..6 /\ pointer = 12 + i /\ bus = "read" /\ step <= 20 + i
    BY <1>1, <1>2 DEF PointerAt, BusAt
  <2>2. Osc!Gives = Reference[i]
    BY <1>1, <2>1, RegistersAre DEF Osc!Gives, WrittenSoFar
  <2>3. rd' = [rd EXCEPT ![i] = Reference[i]]
    BY <1>2, <2>2, OperationIs DEF Succeeds
  <2> QED
    BY <1>1, <2>1, <2>3 DEF ReadSoFarOsc
<1>3. CASE step \notin 6..11
  <2>1. UNCHANGED rd
    BY <1>1, <1>3, OperationIs, Steps DEF Succeeds
  <2>2. \A i \in 1..6 : step' > 5 + i => step > 5 + i
    BY <1>1, <1>3
  <2> QED
    BY <1>1, <2>1, <2>2 DEF ReadSoFarOsc
<1> QED
  BY <1>2, <1>3

LEMMA WrittenStep == ASSUME OscFacts, Succeeds PROVE WrittenSoFar'
<1>1. /\ step \in 1..37 /\ step' = step + 1 /\ ReadSoFarOsc
      /\ PointerAt /\ WrittenSoFar /\ OscTypes
  BY DEF OscFacts, OscTypes, Undisturbed, Succeeds
<1>2. CASE step \in Data
  <2>1. UNCHANGED <<hs, n1, rd>> /\ OnlyWritten(DataAt(step))
    BY <1>2, OperationIs DEF Succeeds
  <2>2. Osc!FreqHighSpeedWr' = Osc!FreqHighSpeedWr
    BY <2>1, WrittenBackStays
  <2>3. pointer = IF step = 36 THEN 135 ELSE 137
    BY <1>1, <1>2 DEF Data, PointerAt
  <2>4. /\ reg'[137] = IF step = 36 THEN reg[137] ELSE DataAt(step)
        /\ reg'[135] = IF step = 36 THEN 64 ELSE reg[135]
        /\ \A i \in 1..6 : reg'[12 + i] = reg[12 + i]
    BY <1>2, <2>1, <2>3, RegistersAre DEF OnlyWritten, Data, DataAt
  <2>5. \A i \in 1..6 : step' <= 20 + i <=> step <= 20 + i
    BY <1>1, <1>2 DEF Data
  <2>6. \A i \in 1..6 :
          reg'[12 + i] = IF step' <= 20 + i THEN Reference[i] ELSE Osc!FreqHighSpeedWr'[i]
    BY <1>1, <2>2, <2>4, <2>5 DEF WrittenSoFar
  <2>7. reg'[137] = IF step' \in 17..31 THEN 16 ELSE 0
    BY <1>1, <1>2, <2>4 DEF WrittenSoFar, Data, DataAt
  <2>8. step' >= 37 => reg'[135] = 64
    BY <1>1, <1>2, <2>4 DEF Data
  <2> QED
    BY <2>6, <2>7, <2>8 DEF WrittenSoFar
<1>3. CASE step \in 21..26
  <2> DEFINE k == step - 20
  <2>1. UNCHANGED <<hs, n1, rd>> /\ OnlyWritten(Osc!FreqHighSpeedWr[k])
    BY <1>3, OperationIs DEF Succeeds
  <2>2. Osc!FreqHighSpeedWr' = Osc!FreqHighSpeedWr
    BY <2>1, WrittenBackStays
  <2>3. k \in 1..6 /\ pointer = 12 + k
    BY <1>1, <1>3 DEF PointerAt
  <2>4. /\ reg'[137] = reg[137] /\ reg'[135] = reg[135]
        /\ \A i \in 1..6 : reg'[12 + i] = IF i = k THEN Osc!FreqHighSpeedWr[i] ELSE reg[12 + i]
    BY <2>1, <2>3, RegistersAre DEF OnlyWritten
  <2>5. \A i \in 1..6 : i # k => (step' <= 20 + i <=> step <= 20 + i)
    BY <1>1, <1>3
  <2>6. \A i \in 1..6 :
          reg'[12 + i] = IF step' <= 20 + i THEN Reference[i] ELSE Osc!FreqHighSpeedWr'[i]
    BY <1>1, <2>2, <2>3, <2>4, <2>5 DEF WrittenSoFar
  <2> QED
    BY <1>1, <1>3, <2>4, <2>6 DEF WrittenSoFar
<1>4. CASE step \notin Data /\ step \notin 21..26
  <2>1. UNCHANGED <<hs, n1, reg>>
    BY <1>1, <1>4, OperationIs, Steps DEF Succeeds
  <2>2. step \notin 6..11 => UNCHANGED rd
    BY <1>1, <1>4, OperationIs, Steps DEF Succeeds
  <2>3. step \notin 6..11 => Osc!FreqHighSpeedWr' = Osc!FreqHighSpeedWr
    BY <2>1, <2>2, WrittenBackStays
  <2>4. \A i \in 1..6 : step' <= 20 + i <=> step <= 20 + i
    BY <1>1, <1>4
  <2>5. \A i \in 1..6 : step \in 6..11 => step' <= 20 + i
    BY <1>1
  <2>6. \A i \in 1..6 :
          reg'[12 + i] = IF step' <= 20 + i THEN Reference[i] ELSE Osc!FreqHighSpeedWr'[i]
    BY <1>1, <2>1, <2>3, <2>4, <2>5 DEF WrittenSoFar
  <2>7. (step' \in 17..31 <=> step \in 17..31) /\ (step' >= 37 <=> step >= 37)
    BY <1>1, <1>4 DEF Data
  <2> QED
    BY <1>1, <2>1, <2>6, <2>7 DEF WrittenSoFar
<1> QED
  BY <1>2, <1>3, <1>4

(***************************************************************************)
(* Every step, whatever failed.                                            *)
(***************************************************************************)
LEMMA GoOnFacts ==
  /\ Osc!GoOn => step' = step + 1 /\ stopping' = FALSE
  /\ \A k \in Stops : Osc!StopFirst(P(k)) => Osc!GoOn
  /\ \A o : Osc!StopFirst(o) => Osc!GoOn \/ (step' = step /\ stopping' = TRUE)
<1>1. \A k \in Stops : P(k).op = "stop"
  BY OperationsAre, ValuesAre
<1> QED
  BY <1>1 DEF Osc!GoOn, Osc!StopFirst

LEMMA DomainStays ==
  ASSUME NEW o, Osc!Effect(o)
  PROVE  DOMAIN rd' = DOMAIN rd
BY DEF Osc!Effect

LEMMA Acknowledged ==
  ASSUME OscFacts, step <= 37, P(step).op \in {"write", "wr"}
  PROVE  Osc!Acknowledges
<1>1. step \in 1..37 /\ bus = BusAt(step)
  BY DEF OscFacts, OscTypes, Undisturbed
<1>2. step \notin Starts /\ step \notin Stops /\ step \notin 6..11
  BY OperationsAre, ValuesAre
<1> QED
  BY <1>1, <1>2 DEF BusAt, Starts, Stops, Osc!Acknowledges

\* What a step does to the place in the program.
LEMMA PlaceFacts ==
  ASSUME OscTypes, Stopped, Osc!Next
  PROVE  /\ UNCHANGED <<hs, n1>> /\ DOMAIN rd' = 1..6
         /\ \/ step' = step + 1 /\ stopping' = FALSE
            \/ step' = step /\ stopping' = TRUE /\ step \notin Stops
         /\ step <= 37
         /\ failed' = failed \/ failed' = failed \cup {step}
<1>1. DOMAIN rd = 1..6 /\ step \in 1..38 /\ Osc!Last = 37 /\ P(step) = Osc!SetOscFreqHSN1[step]
  BY ProgramEnds DEF OscTypes, P
<1>2. CASE Osc!Operation
  <2>1. step <= 37 /\ Osc!Effect(P(step)) /\ UNCHANGED <<hs, n1, failed>> /\ ~stopping
    BY <1>1, <1>2 DEF Osc!Operation
  <2>2. Osc!GoOn \/ Osc!StopFirst(P(step))
    BY <1>1, <1>2 DEF Osc!Operation
  <2> QED
    BY <1>1, <2>1, <2>2, GoOnFacts, DomainStays
<1>3. CASE Osc!OperationLost
  <2>1. step <= 37 /\ UNCHANGED <<hs, n1>> /\ failed' = failed \cup {step} /\ ~stopping
    BY <1>1, <1>3 DEF Osc!OperationLost, Osc!Fail
  <2>2. Osc!GoOn \/ Osc!StopFirst(P(step))
    BY <1>1, <1>3 DEF Osc!OperationLost
  <2>3. DOMAIN rd' = 1..6
    BY <1>1, <1>3 DEF Osc!OperationLost
  <2> QED
    BY <1>1, <2>1, <2>2, <2>3, GoOnFacts
<1>4. CASE Osc!PollFails
  <2>1. step <= 37 /\ UNCHANGED <<hs, n1>> /\ failed' = failed \cup {step} /\ ~stopping
    BY <1>1, <1>4 DEF Osc!PollFails, Osc!Fail
  <2>2. Osc!GoOn \/ Osc!StopFirst(P(step))
    BY <1>1, <1>4 DEF Osc!PollFails
  <2>3. DOMAIN rd' = 1..6
    BY <1>1, <1>4, DomainStays DEF Osc!PollFails
  <2> QED
    BY <1>1, <2>1, <2>2, <2>3, GoOnFacts
<1>5. CASE Osc!StopAfterError
  <2>1. stopping /\ Osc!GoOn /\ UNCHANGED <<hs, n1, rd>>
    BY <1>5 DEF Osc!StopAfterError
  <2>2. failed' = failed \/ failed' = failed \cup {step}
    BY <1>5 DEF Osc!StopAfterError, Osc!Fail
  <2>3. step <= 37
    BY <2>1 DEF Stopped
  <2> QED
    BY <1>1, <2>1, <2>2, <2>3, GoOnFacts
<1> QED
  BY <1>2, <1>3, <1>4, <1>5 DEF Osc!Next

LEMMA StoppedStep == ASSUME OscTypes, Stopped, Osc!Next PROVE Stopped'
<1>1. stopping' => step' <= 37 /\ step' \notin Stops
  BY PlaceFacts DEF Stopped
<1>2. ASSUME step' = 38 PROVE bus' = "idle" \/ 37 \in failed'
  <2>a. step <= 37 /\ (step' = step + 1 \/ step' = step)
    BY PlaceFacts
  <2>b. step \in 1..38
    BY DEF OscTypes
  <2>c. step = 37 /\ step + 1 = 38 /\ step \in Stops
    BY <1>2, <2>a, <2>b DEF Stops
  <2>1. step = 37 /\ step \in Stops /\ ~stopping /\ step + 1 = 38
    BY <2>c, Zenon DEF Stopped
  <2>2. CASE Osc!Operation
    <3>1. Osc!Effect(P(step))
      BY <2>2 DEF Osc!Operation, P
    <3>2. P(step) = Osc!Stop
      BY <2>1, OperationsAre
    <3> QED
      BY <3>1, <3>2, EffectsAre
  <2>3. CASE Osc!OperationLost
    BY <2>1, <2>3 DEF Osc!OperationLost, Osc!Fail
  <2>4. CASE Osc!PollFails
    BY <2>1, <2>4 DEF Osc!PollFails, Osc!Fail
  <2>5. CASE Osc!StopAfterError
    BY <2>1, <2>5 DEF Osc!StopAfterError
  <2> QED
    BY <2>2, <2>3, <2>4, <2>5 DEF Osc!Next
<1> QED
  BY <1>1, <1>2 DEF Stopped

\* A step after which nothing has failed is an operation that succeeds.
LEMMA OperationSucceeds == ASSUME OscFacts, Osc!Next, failed' = {} PROVE Succeeds
<1>1. ~stopping /\ OscTypes /\ Stopped
  BY DEF OscFacts, Undisturbed
<1>2. Osc!Operation
  BY <1>1 DEF Osc!Next, Osc!OperationLost, Osc!PollFails, Osc!StopAfterError, Osc!Fail
<1>3. step <= 37 /\ Osc!Effect(P(step)) /\ UNCHANGED <<hs, n1>>
  BY <1>2, ProgramEnds DEF Osc!Operation, P
<1>4. Osc!GoOn
  <2>1. P(step).op \in {"write", "wr"} => Osc!Acknowledges
    BY <1>3, Acknowledged
  <2> QED
    BY <1>2, <2>1 DEF Osc!Operation, P
<1> QED
  BY <1>3, <1>4 DEF Succeeds, Osc!GoOn

LEMMA OscStepKeeps == OscInv /\ [Osc!Next]_osc => OscInv'
<1> SUFFICES ASSUME OscInv, [Osc!Next]_osc PROVE OscInv'
  OBVIOUS
<1>1. CASE UNCHANGED osc
  <2>1. OscTypes' /\ Stopped'
    BY <1>1 DEF osc, OscInv, OscTypes, Stopped
  <2>2. failed' = {} => Undisturbed'
    BY <1>1 DEF osc, OscInv, Undisturbed, PointerAt, ReadSoFarOsc, WrittenSoFar,
                Osc!FreqHighSpeedWr, Osc!HsBits, Osc!N1Bits
  <2> QED
    BY <2>1, <2>2 DEF OscInv
<1>2. CASE Osc!Next
  <2>1. OscTypes /\ Stopped
    BY DEF OscInv
  <2>2. OscTypes'
    <3>1. /\ UNCHANGED <<hs, n1>> /\ DOMAIN rd' = 1..6 /\ step <= 37
          /\ step' = step + 1 \/ step' = step
          /\ stopping' = TRUE \/ stopping' = FALSE
      BY <1>2, <2>1, PlaceFacts, Zenon
    <3>2. hs \in HighSpeed /\ n1 \in N1 /\ step \in 1..38
      BY <2>1 DEF OscTypes
    <3>3. step' \in 1..38
      BY <3>1, <3>2
    <3>4. stopping' \in BOOLEAN
      BY <3>1, Zenon
    <3> QED
      BY <3>1, <3>2, <3>3, <3>4, Zenon DEF OscTypes
  <2>3. Stopped'
    BY <1>2, <2>1, StoppedStep
  <2>4. ASSUME failed' = {} PROVE Undisturbed'
    <3>1. failed = {}
      BY <1>2, <2>1, <2>4, PlaceFacts
    <3>2. OscFacts
      BY <3>1 DEF OscInv, OscFacts
    <3>3. Succeeds
      BY <1>2, <2>4, <3>2, OperationSucceeds
    <3>4. bus' = BusAt(step') /\ PointerAt'
      BY <3>2, <3>3, BusStep
    <3>5. ReadSoFarOsc' /\ WrittenSoFar'
      BY <3>2, <3>3, ReadStep, WrittenStep
    <3>6. ~stopping'
      BY <3>3 DEF Succeeds
    <3> QED
      BY <3>4, <3>5, <3>6 DEF Undisturbed
  <2> QED
    BY <2>2, <2>3, <2>4 DEF OscInv
<1> QED
  BY <1>1, <1>2

\* What the oscillator divides by with the values that were written to it.
LEMMA Dividers ==
  ASSUME hs \in 0..255, n1 \in 0..255, reg[14] \in 0..63,
         reg[13] = Osc!HsBits * 32 + Osc!N1Bits \div 4
  PROVE  /\ hs \in 4..7 => Osc!HighSpeedDivider = hs
         /\ n1 \in 1..127 => Osc!OutputDivider = 4 * ((n1 - 1) \div 4) + 1
<1>1. Osc!HsBits \in 0..3
  BY DEF Osc!HsBits
<1>2. Osc!N1Bits \in 0..126
  BY DEF Osc!N1Bits
<1>3. Osc!N1Bits \div 4 \in 0..31
  BY <1>2
<1>4. reg[13] \div 32 = Osc!HsBits /\ reg[13] % 32 = Osc!N1Bits \div 4
  BY <1>1, <1>3
<1>5. reg[14] \div 64 = 0
  OBVIOUS
<1>6. Osc!Freq = 13
  BY DEF Osc!Freq
<1>7. ASSUME hs \in 4..7 PROVE Osc!HighSpeedDivider = hs
  <2>1. Osc!HsBits = hs - 4
    BY <1>7 DEF Osc!HsBits
  <2>2. CASE hs = 4
    BY <1>4, <1>6, <2>1, <2>2 DEF Osc!HighSpeedDivider
  <2>3. CASE hs = 5
    BY <1>4, <1>6, <2>1, <2>3 DEF Osc!HighSpeedDivider
  <2>4. CASE hs = 6
    BY <1>4, <1>6, <2>1, <2>4 DEF Osc!HighSpeedDivider
  <2>5. CASE hs = 7
    BY <1>4, <1>6, <2>1, <2>5 DEF Osc!HighSpeedDivider
  <2> QED
    BY <1>7, <2>2, <2>3, <2>4, <2>5
<1>8. ASSUME n1 \in 1..127 PROVE Osc!OutputDivider = 4 * ((n1 - 1) \div 4) + 1
  <2>1. Osc!N1Bits = n1 - 1
    BY <1>8 DEF Osc!N1Bits
  <2> QED
    BY <1>4, <1>5, <1>6, <2>1 DEF Osc!OutputDivider
<1> QED
  BY <1>7, <1>8

\* The property, and what a step may do to the divider.
LEMMA OscIsSet == OscInv => FrequencySet
<1> SUFFICES ASSUME OscInv PROVE Osc!FrequencySet
  BY DEF FrequencySet
<1>1. Osc!Done => step = 38
  BY ProgramEnds
<1>2. Osc!Done /\ bus # "idle" => 37 \in failed
  BY <1>1 DEF OscInv, Stopped
<1>3. ASSUME Osc!Done, failed = {}
      PROVE  /\ reg[13] = Osc!HsBits * 32 + Osc!N1Bits \div 4
             /\ reg[14] = Reference[2] % 64
             /\ \A i \in 3..6 : reg[13 + i - 1] = Reference[i]
             /\ reg[137] = 0 /\ reg[135] = 64
  <2>1. step = 38 /\ OscTypes /\ ReadSoFarOsc /\ WrittenSoFar
    BY <1>1, <1>3 DEF OscInv, Undisturbed
  <2>2. \A i \in 1..6 : reg[12 + i] = Osc!FreqHighSpeedWr[i]
    BY <2>1 DEF WrittenSoFar
  <2>3. reg[137] = 0 /\ reg[135] = 64
    BY <2>1 DEF WrittenSoFar
  <2>4. /\ Osc!FreqHighSpeedWr[1] = Osc!HsBits * 32 + Osc!N1Bits \div 4
        /\ Osc!FreqHighSpeedWr[2] = Reference[2] % 64
        /\ \A i \in 3..6 : Osc!FreqHighSpeedWr[i] = Reference[i]
    BY <2>1, WrittenBytes
  <2>5. \A i \in 3..6 : 13 + i - 1 = 12 + i /\ i \in 1..6
    OBVIOUS
  <2> QED
    BY <2>2, <2>3, <2>4, <2>5
<1>4. ASSUME Osc!Done, failed = {}
      PROVE  /\ hs \in 4..7 => Osc!HighSpeedDivider = hs
             /\ n1 \in 1..127 => Osc!OutputDivider = 4 * ((n1 - 1) \div 4) + 1
             /\ reg[14] % 64 = Reference[2] % 64
  <2>1. hs \in 0..255 /\ n1 \in 0..255 /\ Reference[2] \in 0..255
    BY OscAssumption DEF OscInv, OscTypes
  <2>2. reg[14] = Reference[2] % 64
    BY <1>3, <1>4
  <2>3. reg[14] \in 0..63 /\ reg[14] % 64 = Reference[2] % 64
    BY <2>1, <2>2
  <2> QED
    BY <1>3, <1>4, <2>1, <2>3, Dividers
<1> QED
  BY <1>2, <1>3, <1>4, ProgramEnds
     DEF Osc!FrequencySet, Osc!Frozen, Osc!Freq, Osc!FreezeDCO, Osc!NewFreq

LEMMA ChangesWhileFrozen ==
  ASSUME OscInv, [Osc!Next]_osc, NEW r \in 13..18, reg'[r] # reg[r], failed = {}
  PROVE  reg[137] = 16
<1>1. OscFacts
  BY DEF OscInv, OscFacts
<1>2. Osc!Next
  BY DEF osc
<1>3. OscTypes /\ Stopped /\ WrittenSoFar /\ PointerAt /\ ~stopping
  BY <1>1 DEF OscFacts, Undisturbed
<1>4. step <= 37 /\ Osc!Effect(P(step))
  <2>1. Osc!Operation \/ Osc!PollFails
    BY <1>2, <1>3 DEF Osc!Next, Osc!OperationLost, Osc!StopAfterError, Osc!oscillator
  <2>2. step <= 37
    BY <1>2, <1>3, PlaceFacts
  <2>3. CASE Osc!Operation
    BY <2>2, <2>3 DEF Osc!Operation, P
  <2>4. CASE Osc!PollFails
    BY <2>2, <2>4 DEF Osc!PollFails, P
  <2> QED
    BY <2>1, <2>3, <2>4
<1>5. step \in Data \/ step \in 21..26
  BY <1>1, <1>3, <1>4, OperationIs, Steps DEF OscTypes
<1>6. r \in Osc!Registers
  BY DEF Osc!Registers, Osc!Freq
<1>7. step \notin Data
  <2> SUFFICES ASSUME step \in Data PROVE FALSE
    OBVIOUS
  <2>1. OnlyWritten(DataAt(step))
    BY <1>1, <1>4, OperationIs
  <2>2. pointer \in {135, 137}
    BY <1>3 DEF PointerAt, Data
  <2> QED
    BY <1>6, <2>1, <2>2 DEF OnlyWritten
<1> QED
  BY <1>3, <1>5, <1>7 DEF WrittenSoFar

(***************************************************************************)
(* The theorems.                                                           *)
(***************************************************************************)
\* Whatever the dividers asked for, the reference frequency and the accesses that
\* fail: the bus ends up free, and without a failure the oscillator (by its data
\* sheet's table) divides by the high-speed divider asked for, if it is from 4 to 7,
\* and by the output divider rounded down to 1, 5, 9 and so on (SetOscFreqHSN1).
THEOREM FrequencySetCorrect == MCSpec => []FrequencySet
<1>1. MCInit => OscInv
  BY InitOsc DEF MCInit
<1>2. OscInv /\ [MCNext]_<<part, vars, osc>> => OscInv'
  <2>1. [MCNext]_<<part, vars, osc>> => [Osc!Next]_osc
    BY DEF MCNext, OscStep
  <2> QED
    BY <2>1, OscStepKeeps
<1> QED
  BY <1>1, <1>2, OscIsSet, PTL DEF MCSpec

THEOREM ChangedWhileFrozenCorrect == MCSpec => ChangedWhileFrozen
<1> DEFINE Frozen == [\A r \in Osc!Freq..(Osc!Freq + 5) :
                        reg'[r] # reg[r] => Osc!Frozen \/ failed # {}]_reg
<1>1. MCInit => OscInv
  BY InitOsc DEF MCInit
<1>2. [MCNext]_<<part, vars, osc>> => [Osc!Next]_osc
  BY DEF MCNext, OscStep
<1>3. OscInv /\ [MCNext]_<<part, vars, osc>> => OscInv'
  BY <1>2, OscStepKeeps
<1>4. OscInv /\ [MCNext]_<<part, vars, osc>> => Frozen
  BY <1>2, ChangesWhileFrozen DEF Osc!Frozen, Osc!Freq, Osc!FreezeDCO
<1> QED
  BY <1>1, <1>3, <1>4, PTL DEF MCSpec, ChangedWhileFrozen

=============================================================================
