--------------------------- MODULE Caen1742Proofs ---------------------------
(***************************************************************************)
(* Proofs about the Caen1742 boards, for any number of boards and groups,  *)
(* and any channels whose pages are read.                                  *)
(*                                                                         *)
(* The readout: the invariant follows an event from the board into the     *)
(* bundle, group by group.  The correction table: the invariant follows    *)
(* the page that is read, and says of each group's flash what the page     *)
(* that was read from it before may have left.                             *)
(***************************************************************************)
EXTENDS MCCaen1742, FiniteSetTheorems, SequenceTheorems, WellFoundedInduction, TLAPS

(***************************************************************************)
(* The readout.                                                            *)
(***************************************************************************)
Groups == Readout!Groups
Events == [id : Nat, groups : SUBSET Groups]
Traces == [event : Nat, corrected : Nat]
Bundles == [Groups -> Traces]
Pushed ==
  [board : Boards, event : Nat, trace : Bundles, groups : SUBSET Groups, own : BOOLEAN]

BoardTypes ==
  /\ active \subseteq Boards
  /\ run \in [Boards -> BOOLEAN] /\ thread_live_ \in [Boards -> BOOLEAN]
  /\ stored \in [Boards -> Seq(Events)] /\ lives \in [Boards -> Nat]
  /\ pc \in [Boards -> {"none", "poll", "read", "unpack", "correct", "push", "ended"}]
  /\ fails \in Nat /\ fired \in Nat

BundleTypes ==
  /\ event \in [Boards -> Events] /\ left \in [Boards -> SUBSET Groups]
  /\ seen \in [Boards -> Nat]
  /\ bundle \in Bundles
  /\ correction_loaded \in BOOLEAN /\ table \in [Boards -> BOOLEAN]
  /\ pushed \in Seq(Pushed)

ReadoutTypes == BoardTypes /\ BundleTypes

\* The board has the event that is about to be read.
SomeToRead == \A b \in Boards : pc[b] = "read" => stored[b] # <<>>

\* A board that the program does not run does nothing.
Idle == \A b \in Boards \ active : pc[b] = "none" /\ ~run[b] /\ ~thread_live_[b]

\* Where the bundle has groups of the event that board b reads.
Holds(b, groups, corrected) ==
  \A g \in groups : bundle[g] = [event |-> event[b].id, corrected |-> corrected]

Following(b) ==
  /\ pc[b] \in {"unpack", "correct"} => seen[b] = event[b].id
  /\ pc[b] = "unpack" => Holds(b, event[b].groups \ left[b], 0)
  /\ pc[b] = "correct" => Holds(b, event[b].groups, 0)
  /\ pc[b] = "push" /\ seen[b] # 0 =>
       seen[b] = event[b].id /\ table[b] /\ Holds(b, event[b].groups, 1)
  /\ correction_loaded => table[b]

ItsOwn(p) ==
  p.event # 0 =>
    p.own /\ \A g \in p.groups : p.trace[g] = [event |-> p.event, corrected |-> 1]

EventFollowed ==
  \A b \in Boards : active = {b} => Following(b) /\ \A i \in DOMAIN pushed : ItsOwn(pushed[i])

ReadoutInv == ReadoutTypes /\ SomeToRead /\ Idle /\ EventFollowed

LEMMA GroupsAre == Groups = 0..(NumAdcGroups - 1) /\ {0} \subseteq Groups
BY CaenAssumption DEF Groups, Readout!Groups

LEMMA ReadoutInit == Readout!Init => ReadoutInv
<1> SUFFICES ASSUME Readout!Init PROVE ReadoutInv
  OBVIOUS
<1>1. BoardTypes
  BY DEF Readout!Init, BoardTypes, Events
<1>2. BundleTypes
  <2>1. event \in [Boards -> Events] /\ left \in [Boards -> SUBSET Groups]
    BY DEF Readout!Init, Readout!NoEvent, Events
  <2>2. bundle \in Bundles
    BY DEF Readout!Init, Bundles, Traces, Groups
  <2>3. table \in [Boards -> BOOLEAN] /\ correction_loaded \in BOOLEAN
    BY DEF Readout!Init
  <2>4. seen \in [Boards -> Nat] /\ pushed \in Seq(Pushed)
    BY DEF Readout!Init
  <2> QED
    BY <2>1, <2>2, <2>3, <2>4 DEF BundleTypes
<1>3. SomeToRead /\ Idle
  <2>1. \A b \in Boards :
          /\ pc[b] = IF b \in active THEN "poll" ELSE "none"
          /\ lives[b] = 1 /\ (run[b] <=> b \in active) /\ (thread_live_[b] <=> b \in active)
    BY DEF Readout!Init
  <2> QED
    BY <2>1 DEF SomeToRead, Idle
<1>4. EventFollowed
  BY DEF Readout!Init, EventFollowed, Following
<1> QED
  BY <1>1, <1>2, <1>3, <1>4 DEF ReadoutInv, ReadoutTypes

LEMMA AppendSome ==
  ASSUME NEW S, NEW s \in Seq(S), NEW e \in S
  PROVE  Append(s, e) # <<>>
<1>1. Len(Append(s, e)) = Len(s) + 1 /\ Len(s) \in Nat
  OBVIOUS
<1> QED
  BY <1>1

LEMMA TriggerStep ==
  ASSUME ReadoutInv, NEW b \in Boards, Readout!Trigger(b)
  PROVE  ReadoutInv'
<1>1. PICK g \in {Groups, {0}} :
        stored' = [stored EXCEPT ![b] = Append(@, [id |-> fired + 1, groups |-> g])]
  BY DEF Readout!Trigger, Groups
<1> DEFINE e == [id |-> fired + 1, groups |-> g]
<1>2. e \in Events
  <2>1. g \in SUBSET Groups
    BY GroupsAre
  <2>2. fired + 1 \in Nat
    BY DEF ReadoutInv, ReadoutTypes, BoardTypes
  <2> QED
    BY <2>1, <2>2 DEF Events
<1>3. \A c \in Boards : stored'[c] = IF c = b THEN Append(stored[b], e) ELSE stored[c]
  BY <1>1 DEF ReadoutInv, ReadoutTypes, BoardTypes
<1> HIDE DEF e
<1>4. BoardTypes'
  <2>1. stored' \in [Boards -> Seq(Events)]
    BY <1>1, <1>2 DEF ReadoutInv, ReadoutTypes, BoardTypes, e
  <2> QED
    BY <2>1 DEF Readout!Trigger, ReadoutInv, ReadoutTypes, BoardTypes
<1>5. BundleTypes'
  BY DEF Readout!Trigger, Readout!reading, ReadoutInv, ReadoutTypes, BundleTypes
<1>6. SomeToRead'
  <2>0. stored[b] \in Seq(Events)
    BY DEF ReadoutInv, ReadoutTypes, BoardTypes
  <2>1. Append(stored[b], e) # <<>>
    BY <1>2, <2>0, AppendSome, Zenon
  <2> QED
    BY <2>1, <1>3 DEF Readout!Trigger, ReadoutInv, SomeToRead
<1>7. Idle'
  BY DEF Readout!Trigger, ReadoutInv, Idle
<1>8. EventFollowed'
  BY DEF Readout!Trigger, Readout!reading, ReadoutInv, EventFollowed, Following, Holds
<1> QED
  BY <1>4, <1>5, <1>6, <1>7, <1>8 DEF ReadoutInv, ReadoutTypes

\* What a step of board b, which is not idle, has to show of the event.
LEMMA FollowedBy ==
  ASSUME ReadoutInv, NEW b \in Boards, b \in active, active' = active,
         active = {b} =>
           Following(b)' /\ (\A i \in DOMAIN pushed' : ItsOwn(pushed'[i]))
  PROVE  EventFollowed'
BY DEF EventFollowed

LEMMA NotIdle ==
  ASSUME ReadoutInv, NEW b \in Boards, pc[b] # "none" \/ thread_live_[b]
  PROVE  b \in active
BY DEF ReadoutInv, Idle

LEMMA AvailableStep ==
  ASSUME ReadoutInv, NEW b \in Boards, Readout!EventAvailable(b)
  PROVE  ReadoutInv'
<1>1. b \in active
  BY NotIdle DEF Readout!EventAvailable
<1>2. ReadoutTypes'
  BY DEF Readout!EventAvailable, Readout!reading, ReadoutInv, ReadoutTypes, BoardTypes,
    BundleTypes
<1>3. SomeToRead' /\ Idle'
  BY <1>1 DEF Readout!EventAvailable, ReadoutInv, ReadoutTypes, BoardTypes, SomeToRead, Idle
<1>4. EventFollowed'
  BY <1>1, FollowedBy, ZenonT(60) DEF Readout!EventAvailable, Readout!reading, ReadoutInv,
    ReadoutTypes, BoardTypes, EventFollowed, Following, Holds
<1> QED
  BY <1>2, <1>3, <1>4 DEF ReadoutInv

LEMMA ReadStep ==
  ASSUME ReadoutInv, NEW b \in Boards, Readout!ReadEvent(b)
  PROVE  ReadoutInv'
<1> DEFINE e == Head(stored[b])
<1>1. b \in active
  BY NotIdle DEF Readout!ReadEvent
<1>2. e \in Events /\ Tail(stored[b]) \in Seq(Events)
  BY DEF Readout!ReadEvent, ReadoutInv, ReadoutTypes, BoardTypes, SomeToRead
<1>3. /\ event' = [event EXCEPT ![b] = e] /\ left' = [left EXCEPT ![b] = e.groups]
      /\ seen' = [seen EXCEPT ![b] = e.id] /\ pc' = [pc EXCEPT ![b] = "unpack"]
      /\ stored' = [stored EXCEPT ![b] = Tail(@)]
      /\ UNCHANGED <<active, run, thread_live_, lives, bundle, correction_loaded, table,
                     pushed, fired, fails>>
  BY DEF Readout!ReadEvent
<1> HIDE DEF e
<1>4. BoardTypes'
  BY <1>2, <1>3 DEF ReadoutInv, ReadoutTypes, BoardTypes
<1>5. BundleTypes'
  BY <1>2, <1>3 DEF ReadoutInv, ReadoutTypes, BundleTypes, Events
<1>6. SomeToRead' /\ Idle'
  BY <1>1, <1>3 DEF ReadoutInv, ReadoutTypes, BoardTypes, SomeToRead, Idle
<1>7. EventFollowed'
  <2>1. event'[b] = e /\ left'[b] = e.groups /\ seen'[b] = e.id /\ pc'[b] = "unpack"
    BY <1>3 DEF ReadoutInv, ReadoutTypes, BoardTypes, BundleTypes
  <2> QED
    BY <1>1, <1>3, <2>1, FollowedBy, ZenonT(60) DEF ReadoutInv, EventFollowed, Following, Holds
<1> QED
  BY <1>4, <1>5, <1>6, <1>7 DEF ReadoutInv, ReadoutTypes

LEMMA ReadFailsStep ==
  ASSUME ReadoutInv, NEW b \in Boards, Readout!ReadEventFails(b)
  PROVE  ReadoutInv'
<1>1. b \in active
  BY NotIdle DEF Readout!ReadEventFails
<1>2. stored[b] \in Seq(Events) /\ Tail(stored[b]) \in Seq(Events)
  BY DEF Readout!ReadEventFails, ReadoutInv, ReadoutTypes, BoardTypes, SomeToRead
<1>3. /\ seen' = [seen EXCEPT ![b] = 0] /\ pc' = [pc EXCEPT ![b] = "push"]
      /\ fails' = fails + 1
      /\ stored' = stored \/ stored' = [stored EXCEPT ![b] = Tail(@)]
      /\ UNCHANGED <<active, run, thread_live_, lives, event, left, bundle, correction_loaded,
                     table, pushed, fired>>
  BY DEF Readout!ReadEventFails, Readout!Fail, Readout!reading
<1>4. BoardTypes'
  <2>1. stored' \in [Boards -> Seq(Events)]
    BY <1>2, <1>3 DEF ReadoutInv, ReadoutTypes, BoardTypes
  <2> QED
    BY <2>1, <1>3 DEF ReadoutInv, ReadoutTypes, BoardTypes
<1>5. BundleTypes'
  BY <1>3 DEF ReadoutInv, ReadoutTypes, BundleTypes
<1>6. SomeToRead' /\ Idle'
  BY <1>1, <1>3 DEF ReadoutInv, ReadoutTypes, BoardTypes, SomeToRead, Idle
<1>7. EventFollowed'
  <2>1. seen'[b] = 0 /\ pc'[b] = "push"
    BY <1>3 DEF ReadoutInv, ReadoutTypes, BoardTypes, BundleTypes
  <2> QED
    BY <1>1, <1>3, <2>1, FollowedBy, ZenonT(60) DEF ReadoutInv, EventFollowed, Following, Holds
<1> QED
  BY <1>4, <1>5, <1>6, <1>7 DEF ReadoutInv, ReadoutTypes
LEMMA UnpackStep ==
  ASSUME ReadoutInv, NEW b \in Boards, Readout!UnpackGroup(b)
  PROVE  ReadoutInv'
<1>1. b \in active
  BY NotIdle DEF Readout!UnpackGroup
<1>2. pc[b] = "unpack" /\ UNCHANGED <<active, run, stored, thread_live_, lives, event,
         correction_loaded, table, pushed, seen, fired, fails>>
  BY DEF Readout!UnpackGroup
<1>3. CASE left[b] = {}
  <2>1. pc' = [pc EXCEPT ![b] = "correct"] /\ UNCHANGED <<left, bundle>>
    BY <1>3 DEF Readout!UnpackGroup
  <2>2. BoardTypes' /\ BundleTypes'
    BY <1>2, <2>1 DEF ReadoutInv, ReadoutTypes, BoardTypes, BundleTypes
  <2>3. SomeToRead' /\ Idle'
    BY <1>1, <1>2, <2>1 DEF ReadoutInv, ReadoutTypes, BoardTypes, SomeToRead, Idle
  <2>4. EventFollowed'
    <3>1. pc'[b] = "correct"
      BY <2>1 DEF ReadoutInv, ReadoutTypes, BoardTypes
    <3> QED
      BY <1>1, <1>2, <1>3, <2>1, <3>1, FollowedBy DEF ReadoutInv, EventFollowed, Following,
        Holds
  <2> QED
    BY <2>2, <2>3, <2>4 DEF ReadoutInv, ReadoutTypes
<1>4. CASE left[b] # {}
  <2>1. PICK g : /\ bundle' = [bundle EXCEPT ![g] = [event |-> event[b].id, corrected |-> 0]]
                 /\ left' = [left EXCEPT ![b] = @ \ {g}]
                 /\ UNCHANGED pc
    BY <1>4, Zenon DEF Readout!UnpackGroup
  <2>2. BoardTypes'
    BY <1>2, <2>1 DEF ReadoutInv, ReadoutTypes, BoardTypes
  <2>3. event[b] \in Events /\ event[b].id \in Nat /\ event[b].groups \subseteq Groups
    BY DEF ReadoutInv, ReadoutTypes, BundleTypes, Events
  <2>4. bundle' \in Bundles /\ left' \in [Boards -> SUBSET Groups]
    BY <2>1, <2>3 DEF ReadoutInv, ReadoutTypes, BundleTypes, Bundles, Traces
  <2>5. BundleTypes'
    BY <1>2, <2>4 DEF ReadoutInv, ReadoutTypes, BundleTypes
  <2>6. SomeToRead' /\ Idle'
    BY <1>1, <1>2, <2>1 DEF ReadoutInv, SomeToRead, Idle
  <2>7. left'[b] = left[b] \ {g}
    BY <2>1 DEF ReadoutInv, ReadoutTypes, BundleTypes
  <2>8. \A h \in Groups : bundle'[h] = IF h = g THEN [event |-> event[b].id, corrected |-> 0]
                                                ELSE bundle[h]
    BY <2>1 DEF ReadoutInv, ReadoutTypes, BundleTypes, Bundles
  <2>9. ASSUME active = {b}
        PROVE  Holds(b, event[b].groups \ left[b], 0)' /\ Following(b)
               /\ \A i \in DOMAIN pushed : ItsOwn(pushed[i])
    BY <1>2, <2>3, <2>7, <2>8, <2>9, ZenonT(60)
    DEF ReadoutInv, EventFollowed, Following, Holds
  <2>10. EventFollowed'
    BY <1>1, <1>2, <2>1, <2>9, FollowedBy DEF Following
  <2> QED
    BY <2>2, <2>5, <2>6, <2>10 DEF ReadoutInv, ReadoutTypes
<1> QED
  BY <1>3, <1>4

LEMMA CorrectionStep ==
  ASSUME ReadoutInv, NEW b \in Boards, Readout!ApplyCorrection(b)
  PROVE  ReadoutInv'
<1>1. b \in active
  BY NotIdle DEF Readout!ApplyCorrection
<1>2. /\ pc[b] = "correct" /\ pc' = [pc EXCEPT ![b] = "push"] /\ correction_loaded' = TRUE
      /\ bundle' = [g \in Groups |-> [bundle[g] EXCEPT !.corrected = @ + 1]]
      /\ UNCHANGED <<active, run, stored, thread_live_, lives, event, left, pushed, seen,
                     fired, fails>>
  BY DEF Readout!ApplyCorrection, Groups
<1>3. table' = IF correction_loaded THEN table ELSE [table EXCEPT ![b] = TRUE]
  BY DEF Readout!ApplyCorrection
<1>4. BoardTypes'
  BY <1>2 DEF ReadoutInv, ReadoutTypes, BoardTypes
<1>5. bundle' \in Bundles
  <2>1. \A g \in Groups : bundle[g] \in Traces
    BY DEF ReadoutInv, ReadoutTypes, BundleTypes, Bundles
  <2>2. \A g \in Groups : [bundle[g] EXCEPT !.corrected = @ + 1] \in Traces
    BY <2>1 DEF Traces
  <2> QED
    BY <1>2, <2>2 DEF Bundles
<1>6. table' \in [Boards -> BOOLEAN]
  BY <1>3 DEF ReadoutInv, ReadoutTypes, BundleTypes
<1>7. BundleTypes'
  BY <1>2, <1>5, <1>6 DEF ReadoutInv, ReadoutTypes, BundleTypes
<1>8. SomeToRead' /\ Idle'
  BY <1>1, <1>2 DEF ReadoutInv, ReadoutTypes, BoardTypes, SomeToRead, Idle
<1>9. EventFollowed'
  <2>1. pc'[b] = "push"
    BY <1>2 DEF ReadoutInv, ReadoutTypes, BoardTypes
  <2>2. ASSUME active = {b}
        PROVE  /\ seen[b] = event[b].id /\ Holds(b, event[b].groups, 0)
               /\ correction_loaded => table[b]
               /\ \A i \in DOMAIN pushed : ItsOwn(pushed[i])
    BY <1>2, <2>2 DEF ReadoutInv, EventFollowed, Following
  <2>3. event[b].groups \subseteq Groups
    BY DEF ReadoutInv, ReadoutTypes, BundleTypes, Events
  <2>4. ASSUME active = {b} PROVE Holds(b, event[b].groups, 1)'
    <3>1. ASSUME NEW g \in event[b].groups
          PROVE  bundle'[g] = [event |-> event[b].id, corrected |-> 1]
      <4>1. bundle[g] = [event |-> event[b].id, corrected |-> 0] /\ g \in Groups
        BY <2>2, <2>3, <2>4, <3>1 DEF Holds
      <4> QED
        BY <4>1, <1>2
    <3> QED
      BY <3>1, <1>2 DEF Holds
  <2>5. ASSUME active = {b} PROVE table'[b]
    BY <1>3, <2>2, <2>5 DEF ReadoutInv, ReadoutTypes, BundleTypes
  <2> QED
    BY <1>1, <1>2, <2>1, <2>2, <2>4, <2>5, FollowedBy DEF Following
<1> QED
  BY <1>4, <1>7, <1>8, <1>9 DEF ReadoutInv, ReadoutTypes

LEMMA PushStep ==
  ASSUME ReadoutInv, NEW b \in Boards, Readout!Push(b)
  PROVE  ReadoutInv'
<1> DEFINE p == [board |-> b, event |-> seen[b], trace |-> bundle,
                 groups |-> event[b].groups, own |-> table[b]]
<1>1. b \in active
  BY NotIdle DEF Readout!Push
<1>2. /\ pc[b] = "push" /\ pushed' = Append(pushed, p) /\ pc' = [pc EXCEPT ![b] = "poll"]
      /\ UNCHANGED <<active, run, stored, thread_live_, lives, event, left, bundle,
                     correction_loaded, table, seen, fired, fails>>
  BY DEF Readout!Push, Readout!reading
<1>3. p \in Pushed
  <2>1. table[b] \in BOOLEAN
    BY DEF ReadoutInv, ReadoutTypes, BundleTypes
  <2>2. seen[b] \in Nat /\ event[b].groups \in SUBSET Groups /\ bundle \in Bundles
    BY DEF ReadoutInv, ReadoutTypes, BundleTypes, Events
  <2> QED
    BY <2>1, <2>2, Zenon DEF Pushed
<1>4. p.event = seen[b] /\ (p.own <=> table[b]) /\ p.groups = event[b].groups /\ p.trace = bundle
  OBVIOUS
<1> HIDE DEF p
<1>5. BoardTypes'
  BY <1>2 DEF ReadoutInv, ReadoutTypes, BoardTypes
<1>6. pushed \in Seq(Pushed) /\ pushed' \in Seq(Pushed)
  BY <1>2, <1>3 DEF ReadoutInv, ReadoutTypes, BundleTypes
<1>7. BundleTypes'
  BY <1>2, <1>6 DEF ReadoutInv, ReadoutTypes, BundleTypes
<1>8. SomeToRead' /\ Idle'
  BY <1>1, <1>2 DEF ReadoutInv, ReadoutTypes, BoardTypes, SomeToRead, Idle
<1>9. EventFollowed'
  <2>1. pc'[b] = "poll"
    BY <1>2 DEF ReadoutInv, ReadoutTypes, BoardTypes
  <2>2. ASSUME active = {b}
        PROVE  /\ seen[b] # 0 => seen[b] = event[b].id /\ table[b] /\ Holds(b, event[b].groups, 1)
               /\ correction_loaded => table[b]
               /\ \A i \in DOMAIN pushed : ItsOwn(pushed[i])
    BY <1>2, <2>2 DEF ReadoutInv, EventFollowed, Following
  <2>3. ASSUME active = {b} PROVE ItsOwn(p)
    BY <1>4, <2>2, <2>3 DEF ItsOwn, Holds
  <2>4. \A i \in DOMAIN pushed' :
         (i \in DOMAIN pushed /\ pushed'[i] = pushed[i]) \/ pushed'[i] = p
    BY <1>2, <1>3, <1>6
  <2> QED
    BY <1>1, <1>2, <2>1, <2>2, <2>3, <2>4, FollowedBy DEF Following
<1> QED
  BY <1>5, <1>7, <1>8, <1>9 DEF ReadoutInv, ReadoutTypes

LEMMA StopStep ==
  ASSUME ReadoutInv, NEW b \in Boards, Readout!StopThread(b)
  PROVE  ReadoutInv'
<1>1. /\ b \in active /\ thread_live_' = [thread_live_ EXCEPT ![b] = FALSE]
      /\ UNCHANGED <<active, run, stored, pc, lives, event, left, bundle, correction_loaded,
                     table, pushed, seen, fired, fails>>
  BY DEF Readout!StopThread, Readout!reading
<1>2. ReadoutTypes'
  BY <1>1 DEF ReadoutInv, ReadoutTypes, BoardTypes, BundleTypes
<1>3. SomeToRead' /\ Idle'
  BY <1>1 DEF ReadoutInv, ReadoutTypes, BoardTypes, SomeToRead, Idle
<1>4. EventFollowed'
  BY <1>1, FollowedBy DEF ReadoutInv, EventFollowed, Following, Holds
<1> QED
  BY <1>2, <1>3, <1>4 DEF ReadoutInv

LEMMA EndStep ==
  ASSUME ReadoutInv, NEW b \in Boards, Readout!EndOfWorkLoop(b)
  PROVE  ReadoutInv'
<1>1. b \in active
  BY NotIdle DEF Readout!EndOfWorkLoop
<1>2. /\ pc[b] = "poll" /\ pc' = [pc EXCEPT ![b] = "ended"]
      /\ \/ run' = [run EXCEPT ![b] = FALSE] /\ fails' = fails /\ seen' = seen
         \/ run' = run /\ fails' = fails + 1 /\ seen' = [seen EXCEPT ![b] = 0]
      /\ UNCHANGED <<active, stored, thread_live_, lives, event, left, bundle,
                     correction_loaded, table, pushed, fired>>
  BY DEF Readout!EndOfWorkLoop, Readout!Fail, Readout!reading
<1>3. run' \in [Boards -> BOOLEAN] /\ fails' \in Nat
  <2>1. CASE run' = [run EXCEPT ![b] = FALSE] /\ fails' = fails
    BY <2>1 DEF ReadoutInv, ReadoutTypes, BoardTypes
  <2>2. CASE run' = run /\ fails' = fails + 1
    BY <2>2 DEF ReadoutInv, ReadoutTypes, BoardTypes
  <2> QED
    BY <1>2, <2>1, <2>2
<1>4. BoardTypes'
  BY <1>2, <1>3 DEF ReadoutInv, ReadoutTypes, BoardTypes
<1>5. seen' \in [Boards -> Nat]
  <2>1. CASE seen' = seen
    BY <2>1 DEF ReadoutInv, ReadoutTypes, BundleTypes
  <2>2. CASE seen' = [seen EXCEPT ![b] = 0]
    BY <2>2 DEF ReadoutInv, ReadoutTypes, BundleTypes
  <2> QED
    BY <1>2, <2>1, <2>2
<1>6. BundleTypes'
  BY <1>2, <1>5 DEF ReadoutInv, ReadoutTypes, BundleTypes
<1>7. SomeToRead' /\ Idle'
  BY <1>1, <1>2 DEF ReadoutInv, ReadoutTypes, BoardTypes, SomeToRead, Idle
<1>9. EventFollowed'
  <2>1. pc'[b] = "ended"
    BY <1>2 DEF ReadoutInv, ReadoutTypes, BoardTypes
  <2> QED
    BY <1>1, <1>2, <2>1, FollowedBy DEF ReadoutInv, EventFollowed, Following
<1> QED
  BY <1>4, <1>6, <1>7, <1>9 DEF ReadoutInv, ReadoutTypes

LEMMA StartStep ==
  ASSUME ReadoutInv, NEW b \in Boards, Readout!StartThread(b)
  PROVE  ReadoutInv'
<1>1. b \in active
  BY NotIdle DEF Readout!StartThread
<1>2. /\ pc[b] = "ended" /\ pc' = [pc EXCEPT ![b] = "poll"]
      /\ lives' = [lives EXCEPT ![b] = @ + 1]
      /\ thread_live_' = [thread_live_ EXCEPT ![b] = TRUE]
      /\ UNCHANGED <<active, run, stored, event, left, bundle, correction_loaded, table,
                     pushed, seen, fired, fails>>
  BY DEF Readout!StartThread, Readout!reading
<1>3. thread_live_' \in [Boards -> BOOLEAN]
  BY <1>2 DEF ReadoutInv, ReadoutTypes, BoardTypes
<1>4. BoardTypes'
  BY <1>2, <1>3 DEF ReadoutInv, ReadoutTypes, BoardTypes
<1>5. BundleTypes'
  BY <1>2 DEF ReadoutInv, ReadoutTypes, BundleTypes
<1>6. SomeToRead' /\ Idle'
  BY <1>1, <1>2 DEF ReadoutInv, ReadoutTypes, BoardTypes, SomeToRead, Idle
<1>8. EventFollowed'
  <2>1. pc'[b] = "poll"
    BY <1>2 DEF ReadoutInv, ReadoutTypes, BoardTypes
  <2> QED
    BY <1>1, <1>2, <2>1, FollowedBy DEF ReadoutInv, EventFollowed, Following
<1> QED
  BY <1>4, <1>5, <1>6, <1>8 DEF ReadoutInv, ReadoutTypes

LEMMA ReadoutStep == ReadoutInv /\ [Readout!Next]_(Readout!vars) => ReadoutInv'
<1> SUFFICES ASSUME ReadoutInv, [Readout!Next]_(Readout!vars) PROVE ReadoutInv'
  OBVIOUS
<1>1. ASSUME NEW b \in Boards,
             \/ Readout!Trigger(b) \/ Readout!WorkLoop(b)
             \/ Readout!StopThread(b) \/ Readout!StartThread(b)
      PROVE  ReadoutInv'
  BY <1>1, TriggerStep, AvailableStep, ReadStep, ReadFailsStep, UnpackStep, CorrectionStep,
    PushStep, StopStep, EndStep, StartStep DEF Readout!WorkLoop, Readout!GetEvent
<1>2. CASE UNCHANGED Readout!vars
  BY <1>2, SMTT(30)
  DEF Readout!vars, Readout!reading, ReadoutInv, ReadoutTypes, BoardTypes, BundleTypes,
    SomeToRead, Idle, EventFollowed, Following, Holds
<1> QED
  BY <1>1, <1>2 DEF Readout!Next

LEMMA ReadoutShows == ReadoutInv => Readout!EventInItsGroups
<1> SUFFICES ASSUME ReadoutInv PROVE Readout!EventInItsGroups
  OBVIOUS
<1>2. ASSUME Readout!Alone PROVE \E b \in Boards : active = {b}
  <2>1. active \subseteq Boards /\ IsFiniteSet(active)
    BY CaenAssumption, FS_Subset DEF ReadoutInv, ReadoutTypes, BoardTypes
  <2>2. Cardinality(active) = 1
    BY <1>2 DEF Readout!Alone, Readout!Cardinality, Cardinality
  <2> QED
    BY <2>1, <2>2, FS_Singleton
<1> QED
  BY <1>2 DEF ReadoutInv, EventFollowed, ItsOwn, Readout!EventInItsGroups

(***************************************************************************)
(* The pages and their order.                                              *)
(***************************************************************************)
Page(c, i) == Flash!Pages(c)[i]
Last(c) == Len(Flash!Pages(c))

\* The channel that is read before channel c from the flash of its group: before the
\* first, the last one of the program's run before.
Group(c) == Flash!GroupOf(c)
Of(g) == Flash!InGroup(g)
Earlier(c) == {d \in Of(Group(c)) : d < c}
Previous(c) == Flash!Greatest(IF Earlier(c) = {} THEN Of(Group(c)) ELSE Earlier(c))

LEMMA SomeLeast ==
  ASSUME NEW S \in SUBSET (0..31), S # {}
  PROVE  /\ Flash!Least(S) \in S /\ \A d \in S : Flash!Least(S) <= d
         /\ Flash!Greatest(S) \in S /\ \A d \in S : Flash!Greatest(S) >= d
<1>0. ASSUME NEW T \in SUBSET Nat, T # {} PROVE \E c \in T : \A d \in T : c <= d
  <2> DEFINE R == OpToRel(<, Nat)
  <2>1. IsWellFoundedOn(R, Nat)
    BY NatLessThanWellFounded
  <2>2. \A i, j \in Nat : i < j => <<i, j>> \in R
    BY DEF OpToRel
  <2> HIDE DEF R
  <2>3. PICK c \in T : \A d \in T : <<d, c>> \notin R
    BY <1>0, <2>1, WFMin, Zenon
  <2>4. ASSUME NEW d \in T PROVE c <= d
    <3>1. c \in Nat /\ d \in Nat
      OBVIOUS
    <3>2. ~(d < c)
      BY <2>2, <2>3, <3>1, Zenon
    <3> QED
      BY <3>1, <3>2
  <2> QED
    BY <2>4
<1>1. \E c \in S : \A d \in S : c <= d
  <2>1. S \in SUBSET Nat
    OBVIOUS
  <2> QED
    BY <1>0, <2>1, Zenon
<1>2. \E c \in S : \A d \in S : c >= d
  <2> DEFINE T == {31 - d : d \in S}
  <2>1. T \in SUBSET Nat /\ T # {}
    <3>1. \A d \in S : 31 - d \in Nat
      OBVIOUS
    <3> QED
      BY <3>1, Zenon
  <2>2. PICK m \in T : \A d \in T : m <= d
    BY <1>0, <2>1, Zenon
  <2>3. PICK c \in S : m = 31 - c
    BY Zenon
  <2>4. \A d \in S : 31 - d \in T
    BY Zenon
  <2> QED
    BY <2>2, <2>3, <2>4
<1> QED
  BY <1>1, <1>2, Zenon DEF Flash!Least, Flash!Greatest

LEMMA PagesAre ==
  ASSUME NEW c \in 0..31
  PROVE  /\ Last(c) \in Nat /\ Last(c) >= 8 /\ DOMAIN Flash!Pages(c) = 1..Last(c)
         /\ \A i \in 1..Last(c) :
              Page(c, i) = IF i <= 4 THEN <<"cell", c, i - 1>>
                           ELSE IF i <= 8 THEN <<"nsample", c, i - 5>>
                           ELSE <<"time", c, i - 9>>
<1> DEFINE cells == [i \in 1..4 |-> <<"cell", c, i - 1>>]
           nsamples == [i \in 1..4 |-> <<"nsample", c, i - 1>>]
           times == IF c % Flash!PerGroup = 0 THEN [i \in 1..16 |-> <<"time", c, i - 1>>]
                    ELSE <<>>
           S == {"cell", "nsample", "time"} \X (0..31) \X Int
<1>1. /\ \A i \in 1..4 : cells[i] = <<"cell", c, i - 1>> /\ nsamples[i] = <<"nsample", c, i - 1>>
      /\ cells \in Seq(S) /\ Len(cells) = 4
      /\ nsamples \in Seq(S) /\ Len(nsamples) = 4
  <2>1. \A i \in 1..4 : <<"cell", c, i - 1>> \in S /\ <<"nsample", c, i - 1>> \in S
    OBVIOUS
  <2> HIDE DEF S
  <2> QED
    BY <2>1
<1>2. /\ times \in Seq(S) /\ Len(times) \in {0, 16}
      /\ \A i \in 1..Len(times) : times[i] = <<"time", c, i - 1>>
  <2>1. \A i \in 1..16 : <<"time", c, i - 1>> \in S
    OBVIOUS
  <2> HIDE DEF S
  <2>2. CASE c % Flash!PerGroup = 0
    <3> DEFINE all == [i \in 1..16 |-> <<"time", c, i - 1>>]
    <3>1. all \in Seq(S) /\ Len(all) = 16 /\ \A i \in 1..16 : all[i] = <<"time", c, i - 1>>
      BY <2>1
    <3>2. times = all
      BY <2>2
    <3> HIDE DEF all, times
    <3> QED
      BY <3>1, <3>2
  <2>3. CASE c % Flash!PerGroup # 0
    <3>1. times = <<>>
      BY <2>3
    <3> HIDE DEF times
    <3> QED
      BY <3>1
  <2> QED
    BY <2>2, <2>3
<1> DEFINE both == cells \o nsamples
<1>3. Flash!Pages(c) = both \o times
  BY DEF Flash!Pages
<1> HIDE DEF cells, nsamples, times, S
<1>4. /\ both \in Seq(S) /\ Len(both) = 8
      /\ \A i \in 1..8 : both[i] = IF i <= 4 THEN cells[i] ELSE nsamples[i - 4]
  <2>1. /\ both \in Seq(S) /\ Len(both) = Len(cells) + Len(nsamples)
        /\ \A i \in 1..(Len(cells) + Len(nsamples)) :
             both[i] = IF i <= Len(cells) THEN cells[i] ELSE nsamples[i - Len(cells)]
    BY <1>1, ConcatProperties, Zenon
  <2> HIDE DEF both
  <2> QED
    BY <1>1, <2>1
<1> HIDE DEF both
<1>5. /\ Flash!Pages(c) \in Seq(S) /\ Last(c) = 8 + Len(times)
      /\ \A i \in 1..(8 + Len(times)) : Page(c, i) = IF i <= 8 THEN both[i] ELSE times[i - 8]
  <2>1. /\ both \o times \in Seq(S) /\ Len(both \o times) = Len(both) + Len(times)
        /\ \A i \in 1..(Len(both) + Len(times)) :
             (both \o times)[i] = IF i <= Len(both) THEN both[i] ELSE times[i - Len(both)]
    BY <1>2, <1>4, ConcatProperties, Zenon
  <2> QED
    BY <1>3, <1>4, <2>1, Zenon DEF Last, Page
<1>6. Last(c) \in Nat /\ Last(c) >= 8 /\ DOMAIN Flash!Pages(c) = 1..Last(c)
  <2>1. DOMAIN Flash!Pages(c) = 1..Len(Flash!Pages(c))
    BY <1>5
  <2>2. Last(c) \in Nat /\ Last(c) >= 8
    BY <1>2, <1>5
  <2> QED
    BY <2>1, <2>2 DEF Last
<1>7. ASSUME NEW i \in 1..Last(c)
      PROVE  Page(c, i) = IF i <= 4 THEN <<"cell", c, i - 1>>
                          ELSE IF i <= 8 THEN <<"nsample", c, i - 5>>
                          ELSE <<"time", c, i - 9>>
  <2>0. i \in 1..(8 + Len(times)) /\ i \in Nat
    BY <1>5, <1>6
  <2>1. CASE i <= 4
    <3>1. i \in 1..8 /\ i \in 1..4 /\ i <= 8
      BY <2>0, <2>1
    <3>2. Page(c, i) = cells[i]
      BY <1>4, <1>5, <2>0, <2>1, <3>1, Zenon
    <3>3. cells[i] = <<"cell", c, i - 1>>
      BY <1>1, <3>1, Zenon
    <3> QED
      BY <2>1, <3>2, <3>3, Zenon
  <2>2. CASE ~(i <= 4) /\ i <= 8
    <3>1. i - 4 \in 1..4 /\ (i - 4) - 1 = i - 5 /\ i \in 1..8
      BY <2>0, <2>2
    <3>2. Page(c, i) = nsamples[i - 4]
      BY <1>4, <1>5, <2>0, <2>2, <3>1, Zenon
    <3>3. nsamples[i - 4] = <<"nsample", c, (i - 4) - 1>>
      BY <1>1, <3>1, Zenon
    <3> QED
      BY <2>2, <3>1, <3>2, <3>3, Zenon
  <2>3. CASE ~(i <= 4) /\ ~(i <= 8)
    <3>1. i - 8 \in 1..Len(times) /\ (i - 8) - 1 = i - 9
      BY <1>2, <2>0, <2>3
    <3>2. Page(c, i) = times[i - 8]
      BY <1>5, <2>0, <2>3, Zenon
    <3>3. times[i - 8] = <<"time", c, (i - 8) - 1>>
      BY <1>2, <3>1, Zenon
    <3> QED
      BY <2>3, <3>1, <3>2, <3>3, Zenon
  <2>4. i <= 4 => i <= 8
    BY <2>0
  <2> QED
    BY <2>1, <2>2, <2>3, <2>4, Zenon
<1> QED
  BY <1>6, <1>7, Zenon

LEMMA PagesDiffer ==
  ASSUME NEW c \in FlashChannels, NEW d \in FlashChannels,
         NEW i \in 1..Last(c), NEW j \in 1..Last(d), Page(c, i) = Page(d, j)
  PROVE  c = d /\ i = j
<1>1. c \in 0..31 /\ d \in 0..31
  BY CaenAssumption
<1>2. /\ Page(c, i) = IF i <= 4 THEN <<"cell", c, i - 1>>
                      ELSE IF i <= 8 THEN <<"nsample", c, i - 5>>
                      ELSE <<"time", c, i - 9>>
      /\ Page(d, j) = IF j <= 4 THEN <<"cell", d, j - 1>>
                      ELSE IF j <= 8 THEN <<"nsample", d, j - 5>>
                      ELSE <<"time", d, j - 9>>
      /\ i \in Nat /\ j \in Nat
  <2>1. Last(c) \in Nat /\ Last(d) \in Nat
    BY <1>1, PagesAre, Zenon
  <2>2. i \in Nat /\ j \in Nat
    BY <2>1
  <2> QED
    BY <1>1, <2>2, PagesAre, Zenon
<1>3. "cell" # "nsample" /\ "cell" # "time" /\ "nsample" # "time"
  OBVIOUS
<1>4. ASSUME NEW a, NEW b, NEW u, NEW v, <<a, c, u>> = <<b, d, v>>
      PROVE  a = b /\ c = d /\ u = v
  BY <1>4
<1> DEFINE x == IF i <= 4 THEN "cell" ELSE IF i <= 8 THEN "nsample" ELSE "time"
           y == IF j <= 4 THEN "cell" ELSE IF j <= 8 THEN "nsample" ELSE "time"
           u == IF i <= 4 THEN i - 1 ELSE IF i <= 8 THEN i - 5 ELSE i - 9
           v == IF j <= 4 THEN j - 1 ELSE IF j <= 8 THEN j - 5 ELSE j - 9
<1>5. Page(c, i) = <<x, c, u>> /\ Page(d, j) = <<y, d, v>>
  BY <1>2, Zenon
<1> HIDE DEF x, y, u, v
<1>6. x = y /\ c = d /\ u = v
  <2>1. <<x, c, u>> = <<y, d, v>>
    BY <1>5, Zenon
  <2> QED
    BY <1>4, <2>1, Zenon
<1>7. i = j
  BY <1>2, <1>3, <1>6 DEF x, y, u, v
<1> QED
  BY <1>6, <1>7

LEMMA ChannelOfPage ==
  ASSUME NEW c \in FlashChannels, NEW i \in 1..Last(c)
  PROVE  Page(c, i)[2] = c /\ Page(c, i) \in Flash!AllPlaces
<1>1. c \in 0..31
  BY CaenAssumption
<1>2. Page(c, i)[2] = c
  <2>1. PICK a, b : Page(c, i) = <<a, c, b>>
    BY <1>1, PagesAre, Zenon
  <2> QED
    BY <2>1
<1>3. i \in DOMAIN Flash!Pages(c)
  BY <1>1, PagesAre
<1> QED
  BY <1>2, <1>3 DEF Flash!AllPlaces, Flash!PlacesOf, Page

\* The page that is read before.
LEMMA PageBefore ==
  ASSUME NEW c \in FlashChannels, NEW i \in 1..Last(c)
  PROVE  /\ i > 1 => Flash!Before[Page(c, i)] = Page(c, i - 1)
         /\ i = 1 => Flash!Before[Page(c, i)] = Page(Previous(c), Last(Previous(c)))
<1> DEFINE p == Page(c, i)
           k == CHOOSE j \in DOMAIN Flash!Pages(p[2]) : Flash!Pages(p[2])[j] = p
           d == Previous(p[2])
<1>1. p \in Flash!AllPlaces /\ p[2] = c
  BY ChannelOfPage
<1>2. Flash!Before[p] = IF k > 1 THEN Flash!Pages(p[2])[k - 1]
                        ELSE Flash!Pages(d)[Len(Flash!Pages(d))]
  BY <1>1 DEF Flash!Before, Previous, Earlier, Of, Group
<1>3. DOMAIN Flash!Pages(c) = 1..Last(c)
  BY PagesAre, CaenAssumption
<1>4. k = i
  <2>1. i \in DOMAIN Flash!Pages(p[2]) /\ Flash!Pages(p[2])[i] = p
    BY <1>1, <1>3 DEF Page
  <2>2. k \in DOMAIN Flash!Pages(p[2]) /\ Flash!Pages(p[2])[k] = p
    BY <2>1
  <2>3. k \in 1..Last(c) /\ Page(c, k) = Page(c, i)
    BY <1>1, <1>3, <2>2 DEF Page
  <2> HIDE DEF k
  <2> QED
    BY <2>3, PagesDiffer
<1> HIDE DEF k
<1>5. CASE i > 1
  BY <1>1, <1>2, <1>4, <1>5 DEF Page
<1>6. CASE i = 1
  BY <1>1, <1>2, <1>4, <1>6 DEF Page, Last
<1> QED
  BY <1>5, <1>6

(***************************************************************************)
(* The correction table from the flash.                                    *)
(***************************************************************************)
Current == Page(ch, at)

\* The page that is read next from the flash of group g: the current one, or the first
\* one of the group, in this run of the program or in the next.
First(g) == Flash!Least(Of(g))
PageToCome(g) == IF ch # -1 /\ Group(ch) = g THEN Current ELSE Page(First(g), 1)

Suspect(p) == p \in damaged \/ Flash!Before[p] \in damaged
Right(p) == table[p] = p \/ Suspect(p)

\* Was page i of channel c read?
WasRead(c, i) == from = "device" /\ (ch = -1 \/ c < ch \/ (c = ch /\ i < at))

FlashTypes ==
  /\ ch \in FlashChannels \cup {-1} /\ from \in {"?", "device", "file"}
  /\ ch # -1 => from = "device" /\ at \in 1..Last(ch)
  /\ DOMAIN table = Flash!AllPlaces /\ DOMAIN selected = Flash!Groups

ReadSoFarRight ==
  \A c \in FlashChannels : \A i \in 1..Last(c) : WasRead(c, i) => Right(Page(c, i))

\* A flash was left selected at the page before, or at this one.
SelectedByFailure == \A g \in Flash!Groups : selected[g] => Suspect(PageToCome(g))

FlashInv == FlashTypes /\ ReadSoFarRight /\ SelectedByFailure

LEMMA ChannelFacts ==
  /\ FlashChannels \in SUBSET (0..31) /\ FlashChannels # {}
  /\ \A c \in FlashChannels : c \in Int /\ c >= 0 /\ Last(c) \in Nat /\ Last(c) >= 8
<1>1. FlashChannels \in SUBSET (0..31) /\ FlashChannels # {}
  BY CaenAssumption
<1>2. ASSUME NEW c \in FlashChannels
      PROVE  c \in Int /\ c >= 0 /\ Last(c) \in Nat /\ Last(c) >= 8
  <2>1. c \in 0..31
    BY <1>1
  <2>2. Last(c) \in Nat /\ Last(c) >= 8
    BY <2>1, PagesAre, Zenon
  <2> QED
    BY <2>1, <2>2
<1> QED
  BY <1>1, <1>2

\* The channels of one group, and the groups in the order of the channels.
LEMMA GroupFacts ==
  ASSUME NEW c \in FlashChannels
  PROVE  /\ Group(c) \in Flash!Groups /\ c \in Of(Group(c))
         /\ Of(Group(c)) \in SUBSET FlashChannels /\ Of(Group(c)) \in SUBSET (0..31)
         /\ First(Group(c)) \in FlashChannels /\ Group(First(Group(c))) = Group(c)
         /\ \A d \in Of(Group(c)) : First(Group(c)) <= d
         /\ \A d \in FlashChannels : c <= d => Group(c) <= Group(d)
         /\ \A d \in FlashChannels : Group(d) = Group(c) <=> d \in Of(Group(c))
         /\ Group(c) \in Int
<1>1. FlashChannels \in SUBSET (0..31)
  BY ChannelFacts
<1>2. Group(c) \in Flash!Groups /\ c \in Of(Group(c)) /\ Of(Group(c)) \in SUBSET FlashChannels
  BY DEF Group, Of, Flash!Groups, Flash!InGroup
<1>3. Of(Group(c)) \in SUBSET (0..31) /\ Of(Group(c)) # {}
  BY <1>1, <1>2
<1>4. First(Group(c)) \in Of(Group(c)) /\ \A d \in Of(Group(c)) : First(Group(c)) <= d
  BY <1>3, SomeLeast, Zenon DEF First
<1>5. First(Group(c)) \in FlashChannels /\ Group(First(Group(c))) = Group(c)
  <2>1. \A d \in Of(Group(c)) : Group(d) = Group(c)
    BY DEF Of, Group, Flash!InGroup
  <2> QED
    BY <1>2, <1>4, <2>1
<1>6. /\ \A d \in FlashChannels : c <= d => Group(c) <= Group(d)
      /\ Group(c) \in Int
  <2>1. ASSUME NEW d \in FlashChannels, c <= d PROVE Group(c) <= Group(d)
    <3>1. c \in 0..31 /\ d \in 0..31
      BY <1>1
    <3> QED
      BY <2>1, <3>1 DEF Group, Flash!GroupOf, Flash!PerGroup
  <2>2. c \in 0..31
    BY <1>1
  <2>3. Group(c) \in Int
    BY <2>2 DEF Group, Flash!GroupOf, Flash!PerGroup
  <2> QED
    BY <2>1, <2>3
<1>7. \A d \in FlashChannels : Group(d) = Group(c) <=> d \in Of(Group(c))
  BY DEF Of, Group, Flash!InGroup
<1> QED
  BY <1>2, <1>3, <1>4, <1>5, <1>6, <1>7

\* The channel after c, or none.  When it is of the same group, c is the one before
\* it; otherwise it is the first of its group, and c is the last of its own.
LEMMA NextChannelIs ==
  ASSUME NEW c \in FlashChannels
  PROVE  LET after == Flash!NextChannel(c)
         IN  \/ /\ after = -1 /\ \A d \in FlashChannels : d <= c
                /\ Previous(First(Group(c))) = c
             \/ /\ after \in FlashChannels /\ after > c
                /\ \A d \in FlashChannels : d < after => d <= c
                /\ \/ Group(after) = Group(c) /\ Previous(after) = c
                   \/ /\ Group(after) # Group(c) /\ after = First(Group(after))
                      /\ Previous(First(Group(c))) = c
<1> DEFINE later == {d \in FlashChannels : d > c}
           after == Flash!NextChannel(c)
           g == Group(c)
<1>0. /\ FlashChannels \in SUBSET (0..31)
      /\ \A d \in FlashChannels : d \in Int
  BY ChannelFacts
<1>g. /\ c \in Of(g) /\ Of(g) \in SUBSET FlashChannels /\ Of(g) \in SUBSET (0..31)
      /\ First(g) \in FlashChannels /\ Group(First(g)) = g
      /\ \A d \in Of(g) : First(g) <= d
  BY GroupFacts
<1>l. ASSUME \A d \in Of(g) : d <= c PROVE Previous(First(g)) = c
  <2>1. Earlier(First(g)) = {}
    <3>1. ASSUME NEW d \in Of(g) PROVE ~(d < First(g))
      <4>1. d \in Int /\ First(g) \in Int /\ First(g) <= d
        BY <1>0, <1>g
      <4> QED
        BY <4>1
    <3> QED
      BY <1>g, <3>1, Zenon DEF Earlier
  <2>2. Previous(First(g)) = Flash!Greatest(Of(g))
    BY <1>g, <2>1, Zenon DEF Previous
  <2>3. Previous(First(g)) \in Of(g) /\ \A d \in Of(g) : Previous(First(g)) >= d
    <3>1. Of(g) # {}
      BY <1>g
    <3>2. Flash!Greatest(Of(g)) \in Of(g) /\ \A d \in Of(g) : Flash!Greatest(Of(g)) >= d
      BY <1>g, <3>1, SomeLeast
    <3> QED
      BY <2>2, <3>2
  <2>4. /\ Previous(First(g)) \in Int /\ c \in Int
        /\ Previous(First(g)) <= c /\ Previous(First(g)) >= c
    BY <1>0, <1>g, <1>l, <2>3, Zenon
  <2> QED
    BY <2>4
<1>1. CASE later = {}
  <2>1. after = -1
    BY <1>1 DEF Flash!NextChannel
  <2>2. \A d \in FlashChannels : d <= c
    BY <1>0, <1>1
  <2>3. Previous(First(g)) = c
    BY <1>g, <1>l, <2>2
  <2> QED
    BY <2>1, <2>2, <2>3
<1>2. CASE later # {}
  <2>1. later \in SUBSET (0..31)
    BY <1>0
  <2>2. after = Flash!Least(later)
    BY <1>2 DEF Flash!NextChannel
  <2> HIDE DEF after
  <2>3. after \in later /\ \A d \in later : after <= d
    BY <1>2, <2>1, <2>2, SomeLeast, Zenon
  <2>4. after \in FlashChannels /\ after > c
    BY <2>3
  <2>5. ASSUME NEW d \in FlashChannels, d < after PROVE d <= c
    <3>1. d \in Int /\ c \in Int /\ after \in Int
      BY <1>0, <2>4, Zenon
    <3>2. d > c => after <= d
      BY <2>3
    <3> QED
      BY <2>5, <3>1, <3>2
  <2>6. CASE Group(after) = g
    <3>1. Earlier(after) \in SUBSET (0..31) /\ c \in Earlier(after)
      BY <1>0, <1>g, <2>4, <2>6 DEF Earlier
    <3>2. Previous(after) \in Earlier(after) /\ \A d \in Earlier(after) : Previous(after) >= d
      BY <3>1, SomeLeast, Zenon DEF Previous
    <3>3. Previous(after) \in FlashChannels /\ Previous(after) < after /\ Previous(after) >= c
      BY <1>g, <2>6, <3>1, <3>2 DEF Earlier
    <3>4. Previous(after) <= c /\ Previous(after) \in Int /\ c \in Int
      BY <1>0, <2>5, <3>3, Zenon
    <3>5. Previous(after) = c
      BY <3>3, <3>4
    <3> QED
      BY <2>4, <2>5, <2>6, <3>5 DEF after
  <2>7. CASE Group(after) # g
    <3>1. g < Group(after) /\ g \in Int /\ Group(after) \in Int
      <4>1. g <= Group(after) /\ g \in Int /\ Group(after) \in Int
        <5>1. c <= after
          BY <1>0, <2>4
        <5> QED
          BY <2>4, <5>1, GroupFacts
      <4> QED
        BY <2>7, <4>1
    <3>2. \A d \in Of(g) : d <= c
      <4>1. ASSUME NEW d \in Of(g), ~(d <= c) PROVE FALSE
        <5>1. d \in FlashChannels /\ Group(d) = g
          BY <1>g, GroupFacts
        <5>2. after <= d
          BY <1>0, <2>3, <4>1, <5>1
        <5>3. Group(after) <= Group(d)
          BY <2>4, <5>1, <5>2, GroupFacts
        <5> QED
          BY <3>1, <5>1, <5>3
      <4> QED
        BY <4>1
    <3>3. after = First(Group(after))
      <4> DEFINE f == First(Group(after))
      <4>1. f \in FlashChannels /\ Group(f) = Group(after) /\ f <= after
        BY <2>4, GroupFacts
      <4> HIDE DEF f
      <4>2. f \in Int /\ after \in Int
        BY <1>0, <2>4, <4>1
      <4>3. ~(f < after)
        <5>1. ASSUME f < after PROVE FALSE
          <6>1. f <= c
            BY <2>5, <4>1, <5>1
          <6>2. Group(f) <= g
            BY <4>1, <6>1, GroupFacts
          <6> QED
            BY <3>1, <4>1, <6>2
        <5> QED
          BY <5>1
      <4>4. after = f
        BY <4>1, <4>2, <4>3
      <4> QED
        BY <4>4 DEF f
    <3>4. Previous(First(g)) = c
      BY <1>l, <3>2
    <3> QED
      BY <2>4, <2>5, <2>7, <3>3, <3>4 DEF after
  <2> QED
    BY <2>6, <2>7
<1> QED
  BY <1>1, <1>2

LEMMA FlashInit == Flash!Init => FlashInv
BY DEF Flash!Init, FlashInv, FlashTypes, ReadSoFarRight, WasRead, SelectedByFailure

\* The page that was read is counted with those before, and is the one before the next
\* of its group; the other groups' next pages stay.
LEMMA StoreMovesOn ==
  ASSUME FlashInv, ch # -1, NEW content, Flash!Store(content), from' = from
  PROVE  /\ ch' \in FlashChannels \cup {-1} /\ (ch' # -1 => at' \in 1..Last(ch'))
         /\ DOMAIN table' = Flash!AllPlaces /\ table'[Current] = content
         /\ \A c \in FlashChannels : \A i \in 1..Last(c) :
              WasRead(c, i)' => \/ c = ch /\ i = at
                                \/ WasRead(c, i) /\ table'[Page(c, i)] = table[Page(c, i)]
         /\ \A g : g = Group(ch) => Flash!Before[PageToCome(g)'] = Current
         /\ \A g : g # Group(ch) => PageToCome(g)' = PageToCome(g)
<1>1. /\ ch \in FlashChannels /\ at \in 1..Last(ch) /\ from = "device"
      /\ DOMAIN table = Flash!AllPlaces
  BY DEF FlashInv, FlashTypes
<1>2. table' = [table EXCEPT ![Current] = content]
  BY DEF Flash!Store, Current, Page
<1>3. Current \in Flash!AllPlaces
  BY <1>1, ChannelOfPage, Zenon DEF Current
<1>4. DOMAIN table' = Flash!AllPlaces /\ table'[Current] = content
  BY <1>1, <1>2, <1>3
<1>5. ASSUME NEW c \in FlashChannels, NEW i \in 1..Last(c), ~(c = ch /\ i = at)
      PROVE  table'[Page(c, i)] = table[Page(c, i)]
  <2>1. Page(c, i) # Current
    BY <1>1, <1>5, PagesDiffer, ZenonT(60) DEF Current
  <2>2. Page(c, i) \in Flash!AllPlaces
    BY ChannelOfPage, Zenon
  <2> QED
    BY <1>1, <1>2, <2>1, <2>2
<1>6. /\ \A c \in FlashChannels : c \in Int /\ c >= 0 /\ Last(c) \in Nat /\ Last(c) >= 8
      /\ First(Group(ch)) \in FlashChannels /\ Group(First(Group(ch))) = Group(ch)
  BY <1>1, ChannelFacts, GroupFacts
<1>7. CASE at < Last(ch)
  <2>1. at' = at + 1 /\ ch' = ch
    BY <1>7 DEF Flash!Store, Last
  <2>2. at + 1 \in 1..Last(ch) /\ (at + 1) - 1 = at /\ at + 1 > 1
    BY <1>1, <1>6, <1>7
  <2>3. Flash!Before[Page(ch, at + 1)] = Page(ch, (at + 1) - 1)
    BY <1>1, <2>2, PageBefore, Zenon
  <2>4. /\ \A g : g = Group(ch) => PageToCome(g)' = Page(ch, at + 1)
        /\ \A g : g # Group(ch) => PageToCome(g)' = PageToCome(g)
    BY <1>6, <1>1, <2>1 DEF PageToCome, Current, Page, Group, First, Of
  <2>5. ASSUME NEW c \in FlashChannels, NEW i \in 1..Last(c), WasRead(c, i)',
               ~(c = ch /\ i = at)
        PROVE  WasRead(c, i)
    BY <1>1, <1>6, <2>1, <2>5 DEF WasRead
  <2>6. \A g : g = Group(ch) => Flash!Before[PageToCome(g)'] = Current
    BY <2>2, <2>3, <2>4 DEF Current
  <2>7. ch' \in FlashChannels \cup {-1} /\ (ch' # -1 => at' \in 1..Last(ch'))
    BY <1>1, <2>1, <2>2
  <2>8. ASSUME NEW c \in FlashChannels, NEW i \in 1..Last(c), WasRead(c, i)'
        PROVE  \/ c = ch /\ i = at
               \/ WasRead(c, i) /\ table'[Page(c, i)] = table[Page(c, i)]
    <3>1. CASE ~(c = ch /\ i = at)
      <4>1. WasRead(c, i)
        BY <2>5, <2>8, <3>1, Zenon
      <4>2. table'[Page(c, i)] = table[Page(c, i)]
        BY <1>5, <3>1, Zenon
      <4> QED
        BY <4>1, <4>2
    <3> QED
      BY <3>1
  <2> QED
    BY <1>4, <2>4, <2>6, <2>7, <2>8
<1>8. CASE ~(at < Last(ch))
  <2> DEFINE after == Flash!NextChannel(ch)
  <2>0. at = Last(ch)
    BY <1>1, <1>6, <1>8
  <2>1. at' = 1 /\ ch' = after
    BY <1>8 DEF Flash!Store, Last
  <2>2. \/ /\ after = -1 /\ \A d \in FlashChannels : d <= ch
           /\ Previous(First(Group(ch))) = ch
        \/ /\ after \in FlashChannels /\ after > ch
           /\ \A d \in FlashChannels : d < after => d <= ch
           /\ \/ Group(after) = Group(ch) /\ Previous(after) = ch
              \/ /\ Group(after) # Group(ch) /\ after = First(Group(after))
                 /\ Previous(First(Group(ch))) = ch
    BY <1>1, NextChannelIs, Zenon
  <2> HIDE DEF after
  <2>n. after \in FlashChannels => after # -1
    BY <1>6
  <2>c. ch # -1
    BY <1>1, <1>6
  <2>p. \A g : PageToCome(g)' = IF after # -1 /\ Group(after) = g THEN Page(after, 1)
                                ELSE Page(First(g), 1)
    BY <2>1 DEF PageToCome, Current, Page, Group, First, Of
  <2>3. PICK f \in FlashChannels :
          Previous(f) = ch /\ \A g : g = Group(ch) => PageToCome(g)' = Page(f, 1)
    <3>1. CASE after # -1 /\ Group(after) = Group(ch)
      <4>1. after \in FlashChannels /\ Previous(after) = ch
        BY <2>2, <3>1
      <4>2. \A g : g = Group(ch) => PageToCome(g)' = Page(after, 1)
        BY <2>p, <3>1
      <4> QED
        BY <4>1, <4>2
    <3>2. CASE ~(after # -1 /\ Group(after) = Group(ch))
      <4>1. Previous(First(Group(ch))) = ch
        BY <2>2, <2>n, <3>2
      <4>2. \A g : g = Group(ch) => PageToCome(g)' = Page(First(Group(ch)), 1)
        BY <2>p, <3>2
      <4> QED
        BY <1>6, <4>1, <4>2
    <3> QED
      BY <3>1, <3>2
  <2>o. ASSUME NEW g, g # Group(ch) PROVE PageToCome(g)' = PageToCome(g)
    <3>1. PageToCome(g) = Page(First(g), 1)
      BY <2>o DEF PageToCome
    <3>2. CASE after # -1 /\ Group(after) = g
      BY <2>2, <2>o, <2>p, <3>1, <3>2
    <3>3. CASE ~(after # -1 /\ Group(after) = g)
      BY <2>p, <3>1, <3>3
    <3> QED
      BY <3>2, <3>3
  <2>4. 1 \in 1..Last(f)
    BY <1>6
  <2>5. \A g : g = Group(ch) => Flash!Before[PageToCome(g)'] = Current
    BY <2>0, <2>3, <2>4, PageBefore, Zenon DEF Current
  <2>6. ASSUME NEW c \in FlashChannels, NEW i \in 1..Last(c), WasRead(c, i)',
               ~(c = ch /\ i = at)
        PROVE  WasRead(c, i)
    <3>1. c <= ch
      BY <1>1, <1>6, <2>1, <2>2, <2>6 DEF WasRead
    <3>2. c = ch => i < at
      BY <1>1, <1>6, <2>0, <2>6
    <3> QED
      BY <1>1, <1>6, <3>1, <3>2 DEF WasRead
  <2>7. ch' \in FlashChannels \cup {-1} /\ (ch' # -1 => at' \in 1..Last(ch'))
    BY <1>6, <2>1, <2>2
  <2>8. ASSUME NEW c \in FlashChannels, NEW i \in 1..Last(c), WasRead(c, i)'
        PROVE  \/ c = ch /\ i = at
               \/ WasRead(c, i) /\ table'[Page(c, i)] = table[Page(c, i)]
    <3>1. CASE ~(c = ch /\ i = at)
      <4>1. WasRead(c, i)
        BY <2>6, <2>8, <3>1, Zenon
      <4>2. table'[Page(c, i)] = table[Page(c, i)]
        BY <1>5, <3>1, Zenon
      <4> QED
        BY <4>1, <4>2
    <3> QED
      BY <3>1
  <2> QED
    BY <1>4, <2>5, <2>7, <2>8, <2>o
<1> QED
  BY <1>7, <1>8

LEMMA ReadPageStep == ASSUME FlashInv, Flash!ReadFlashPage PROVE FlashInv'
<1> DEFINE g == Group(ch)
<1>1. /\ ch # -1 /\ from' = from /\ damaged' = damaged
      /\ selected' = [selected EXCEPT ![g] = FALSE]
      /\ Flash!Store(Flash!Content) /\ from = "device"
  BY DEF Flash!ReadFlashPage, Group
<1>g. g \in Flash!Groups /\ DOMAIN selected = Flash!Groups
  BY <1>1, GroupFacts DEF FlashInv, FlashTypes
<1>2. Flash!Content = Current \/ Suspect(Current)
  <2>1. CASE selected[g]
    BY <1>1, <1>g, <2>1 DEF FlashInv, SelectedByFailure, PageToCome
  <2>2. CASE ~selected[g]
    BY <2>2 DEF Flash!Content, Current, Page, Group
  <2> QED
    BY <2>1, <2>2
<1>3. ASSUME NEW c \in FlashChannels, NEW i \in 1..Last(c), WasRead(c, i)'
      PROVE  Right(Page(c, i))'
  <2>1. CASE c = ch /\ i = at
    <3>1. table'[Current] = Flash!Content
      BY <1>1, StoreMovesOn, Zenon
    <3> QED
      BY <1>1, <1>2, <2>1, <3>1 DEF Right, Suspect, Current, Page
  <2>2. CASE ~(c = ch /\ i = at)
    <3>1. WasRead(c, i) /\ table'[Page(c, i)] = table[Page(c, i)]
      BY <1>1, <1>3, <2>2, StoreMovesOn, Zenon
    <3> QED
      BY <1>1, <3>1 DEF FlashInv, ReadSoFarRight, Right, Suspect, Page
  <2> QED
    BY <2>1, <2>2
<1>4. FlashTypes'
  BY <1>1, StoreMovesOn DEF FlashInv, FlashTypes
<1>5. ASSUME NEW h \in Flash!Groups, selected'[h] PROVE Suspect(PageToCome(h))'
  <2>1. h # g /\ selected[h]
    BY <1>1, <1>g, <1>5
  <2>2. PageToCome(h)' = PageToCome(h)
    BY <1>1, <2>1, StoreMovesOn, Zenon
  <2> QED
    BY <1>1, <2>1, <2>2 DEF FlashInv, SelectedByFailure, Suspect
<1> QED
  BY <1>3, <1>4, <1>5 DEF FlashInv, ReadSoFarRight, SelectedByFailure, Last

LEMMA PageFailsStep == ASSUME FlashInv, Flash!ReadFlashPageFails PROVE FlashInv'
<1> DEFINE g == Group(ch)
<1>1. ch # -1 /\ from' = from /\ from = "device" /\ damaged' = damaged \cup {Current}
  BY DEF Flash!ReadFlashPageFails, Current, Page
<1>s. /\ DOMAIN selected' = DOMAIN selected
      /\ \A h \in Flash!Groups : h # g /\ selected'[h] => selected[h]
  BY DEF Flash!ReadFlashPageFails, FlashInv, FlashTypes, Group
<1>2. \A p : Suspect(p) => Suspect(p)'
  BY <1>1 DEF Suspect
<1>3. CASE UNCHANGED <<table, ch, at>>
  <2>1. FlashTypes'
    BY <1>1, <1>3, <1>s DEF FlashInv, FlashTypes, Last
  <2>2. ASSUME NEW c \in FlashChannels, NEW i \in 1..Last(c), WasRead(c, i)'
        PROVE  Right(Page(c, i))'
    <3>1. Right(Page(c, i))
      BY <1>1, <1>3, <2>2 DEF FlashInv, ReadSoFarRight, WasRead
    <3> QED
      BY <1>2, <1>3, <3>1 DEF Right, Page
  <2>3. ASSUME NEW h \in Flash!Groups, selected'[h] PROVE Suspect(PageToCome(h))'
    <3>1. PageToCome(h)' = PageToCome(h)
      BY <1>3 DEF PageToCome, Current, Page, Group, First, Of
    <3>2. CASE h = g
      BY <1>1, <3>1, <3>2 DEF Suspect, PageToCome
    <3>3. CASE h # g
      BY <1>2, <1>s, <2>3, <3>1, <3>3 DEF FlashInv, SelectedByFailure, Suspect
    <3> QED
      BY <3>2, <3>3
  <2> QED
    BY <2>1, <2>2, <2>3 DEF FlashInv, ReadSoFarRight, SelectedByFailure, Last
<1>4. ASSUME NEW content, Flash!Store(content) PROVE FlashInv'
  <2>1. FlashTypes'
    BY <1>1, <1>4, <1>s, StoreMovesOn DEF FlashInv, FlashTypes
  <2>2. ASSUME NEW c \in FlashChannels, NEW i \in 1..Last(c), WasRead(c, i)'
        PROVE  Right(Page(c, i))'
    <3>1. CASE c = ch /\ i = at
      BY <1>1, <3>1 DEF Right, Suspect, Current, Page
    <3>2. CASE ~(c = ch /\ i = at)
      <4>1. WasRead(c, i) /\ table'[Page(c, i)] = table[Page(c, i)]
        BY <1>1, <1>4, <2>2, <3>2, StoreMovesOn, Zenon
      <4>2. Right(Page(c, i))
        BY <4>1 DEF FlashInv, ReadSoFarRight
      <4> QED
        BY <1>2, <4>1, <4>2 DEF Right, Page
    <3> QED
      BY <3>1, <3>2
  <2>3. ASSUME NEW h \in Flash!Groups, selected'[h] PROVE Suspect(PageToCome(h))'
    <3>1. CASE h = g
      <4>1. Flash!Before[PageToCome(h)'] = Current
        BY <1>1, <1>4, <3>1, StoreMovesOn, Zenon
      <4> QED
        BY <1>1, <4>1 DEF Suspect
    <3>2. CASE h # g
      <4>1. PageToCome(h)' = PageToCome(h)
        BY <1>1, <1>4, <3>2, StoreMovesOn, Zenon
      <4> QED
        BY <1>2, <1>s, <2>3, <3>2, <4>1 DEF FlashInv, SelectedByFailure, Suspect
    <3> QED
      BY <3>1, <3>2
  <2> QED
    BY <2>1, <2>2, <2>3 DEF FlashInv, ReadSoFarRight, SelectedByFailure, Last
<1>5. UNCHANGED <<table, ch, at>> \/ \E content : Flash!Store(content)
  BY Zenon DEF Flash!ReadFlashPageFails
<1> QED
  BY <1>3, <1>4, <1>5

LEMMA BeginStep == ASSUME FlashInv, Flash!GetCorrectionData PROVE FlashInv'
<1>1. /\ from = "?" /\ ch = -1 /\ selected' = selected /\ damaged' = damaged
      /\ DOMAIN table = Flash!AllPlaces /\ DOMAIN selected = Flash!Groups
  BY DEF Flash!GetCorrectionData, FlashInv, FlashTypes
<1>2. CASE from' = "device"
  <2>1. ch' = Flash!NextChannel(-1) /\ at' = 1 /\ table' = table
    BY <1>2 DEF Flash!GetCorrectionData
  <2>2. /\ Flash!NextChannel(-1) \in FlashChannels
        /\ \A d \in FlashChannels : Flash!NextChannel(-1) <= d
    <3>1. \A d \in FlashChannels : d > -1
      BY ChannelFacts
    <3>2. {d \in FlashChannels : d > -1} = FlashChannels /\ FlashChannels # {}
      BY <3>1, ChannelFacts, Zenon
    <3>3. Flash!NextChannel(-1) = Flash!Least(FlashChannels)
      BY <3>2 DEF Flash!NextChannel
    <3> QED
      BY <3>2, <3>3, ChannelFacts, SomeLeast
  <2>3. ch' \in FlashChannels /\ 1 \in 1..Last(ch') /\ ch' # -1
    <3>1. \A c \in FlashChannels : 1 \in 1..Last(c) /\ c # -1
      BY ChannelFacts
    <3> QED
      BY <2>1, <2>2, <3>1
  <2>f. First(Group(ch')) = ch'
    <3> DEFINE c == ch'
               d == First(Group(c))
    <3>1. c \in Of(Group(c)) /\ d \in FlashChannels /\ d <= c
      BY <2>3, GroupFacts
    <3>2. c <= d
      BY <2>1, <2>2, <3>1
    <3>3. c \in Int /\ d \in Int
      BY <2>3, <3>1, ChannelFacts
    <3> HIDE DEF c, d
    <3>4. d = c
      BY <3>1, <3>2, <3>3
    <3> QED
      BY <3>4 DEF c, d
  <2>4. FlashTypes'
    BY <1>1, <1>2, <2>1, <2>3 DEF FlashTypes
  <2>5. ReadSoFarRight'
    <3>1. \A c \in FlashChannels : \A i \in 1..Last(c) : ~WasRead(c, i)'
      BY <2>1, <2>2, <2>3, ChannelFacts DEF WasRead
    <3> QED
      BY <3>1 DEF ReadSoFarRight, Last
  <2>6. \A g : PageToCome(g)' = PageToCome(g)
    <3>1. \A g : PageToCome(g) = Page(First(g), 1)
      BY <1>1 DEF PageToCome
    <3>2. \A g : PageToCome(g)' = IF Group(ch') = g THEN Page(ch', 1) ELSE Page(First(g), 1)
      BY <2>1, <2>3 DEF PageToCome, Current, Page, Group, First, Of
    <3> QED
      BY <2>f, <3>1, <3>2
  <2>7. SelectedByFailure'
    BY <1>1, <2>6 DEF FlashInv, SelectedByFailure, Suspect
  <2> QED
    BY <2>4, <2>5, <2>7 DEF FlashInv
<1>3. CASE from' = "file"
  <2>1. ch' = ch /\ at' = at /\ table' = Flash!LoadCorrectionDataCsv
    BY <1>3 DEF Flash!GetCorrectionData
  <2>2. FlashTypes'
    BY <1>1, <1>3, <2>1 DEF FlashTypes, Flash!LoadCorrectionDataCsv
  <2>3. ReadSoFarRight'
    BY <1>3 DEF ReadSoFarRight, WasRead
  <2>4. SelectedByFailure'
    BY <1>1, <2>1 DEF FlashInv, SelectedByFailure, Suspect, PageToCome, Current, Page, First,
    Group, Of
  <2> QED
    BY <2>2, <2>3, <2>4 DEF FlashInv
<1> QED
  BY <1>2, <1>3 DEF Flash!GetCorrectionData

LEMMA RestartStep == ASSUME FlashInv, Flash!Restart PROVE FlashInv'
<1>1. /\ ch = -1 /\ from' = "?" /\ table' = [p \in Flash!AllPlaces |-> Flash!None]
      /\ UNCHANGED <<ch, at, selected, damaged>>
  BY DEF Flash!Restart
<1>2. FlashTypes'
  BY <1>1 DEF FlashInv, FlashTypes
<1>3. ReadSoFarRight'
  BY <1>1 DEF ReadSoFarRight, WasRead
<1>4. SelectedByFailure'
  BY <1>1 DEF FlashInv, SelectedByFailure, Suspect, PageToCome, Current, Page, First,
    Group, Of
<1> QED
  BY <1>2, <1>3, <1>4 DEF FlashInv

LEMMA FlashUnchanged ==
  ASSUME FlashInv, UNCHANGED <<ch, at, selected, table, from, damaged>>
  PROVE  FlashInv'
BY DEF FlashInv, FlashTypes, ReadSoFarRight, WasRead, Right, SelectedByFailure, Suspect,
  PageToCome, Current, Page, First, Last, Group, Of

LEMMA FlashStep == FlashInv /\ [Flash!Next]_(Flash!vars) => FlashInv'
<1> SUFFICES ASSUME FlashInv, [Flash!Next]_(Flash!vars) PROVE FlashInv'
  OBVIOUS
<1>1. CASE Flash!WriteCorrectionDataCsv \/ UNCHANGED Flash!vars
  BY <1>1, FlashUnchanged DEF Flash!WriteCorrectionDataCsv, Flash!vars
<1> QED
  BY <1>1, ReadPageStep, PageFailsStep, BeginStep, RestartStep DEF Flash!Next

LEMMA FlashShows == FlashInv => Flash!DamageStaysWithItsPage
<1> SUFFICES ASSUME FlashInv, Flash!Loaded, NEW p \in Flash!AllPlaces PROVE Right(p)
  BY DEF Flash!DamageStaysWithItsPage, Right, Suspect
<1>1. PICK c \in FlashChannels : p \in Flash!PlacesOf(c)
  BY DEF Flash!AllPlaces
<1>2. PICK i \in DOMAIN Flash!Pages(c) : p = Page(c, i)
  BY <1>1 DEF Flash!PlacesOf, Page
<1>3. i \in 1..Last(c)
  <2>1. c \in 0..31
    BY CaenAssumption
  <2> QED
    BY <1>2, <2>1, PagesAre
<1> QED
  BY <1>2, <1>3 DEF FlashInv, ReadSoFarRight, WasRead, Flash!Loaded

(***************************************************************************)
(* The two parts of MCSpec.                                                *)
(***************************************************************************)
PartsInv == (part = "readout" => ReadoutInv) /\ (part = "flash" => FlashInv)

LEMMA PartsInit == MCInit => PartsInv
BY ReadoutInit, FlashInit DEF MCInit, PartsInv

LEMMA PartsStep ==
  PartsInv /\ [MCNext]_<<part, shared, readout, flash, samples>> => PartsInv'
<1> SUFFICES ASSUME PartsInv, [MCNext]_<<part, shared, readout, flash, samples>>
             PROVE  PartsInv'
  OBVIOUS
<1>1. CASE part = "readout" /\ UNCHANGED part /\ Readout!Next
  BY <1>1, ReadoutStep DEF PartsInv
<1>2. CASE part = "flash" /\ UNCHANGED part /\ Flash!Next
  BY <1>2, FlashStep DEF PartsInv
<1>3. CASE part = "samples" /\ UNCHANGED part
  BY <1>3 DEF PartsInv
<1>4. CASE UNCHANGED <<part, shared, readout, flash, samples>>
  <2>1. UNCHANGED Readout!vars /\ UNCHANGED Flash!vars /\ UNCHANGED part
    BY <1>4 DEF shared, readout, flash, Readout!vars, Readout!reading, Flash!vars
  <2> QED
    BY <2>1, ReadoutStep, FlashStep DEF PartsInv
<1> QED
  BY <1>1, <1>2, <1>3, <1>4 DEF MCNext, InPart

\* What a bundle holds when it is pushed is the board's own event, each group of it
\* corrected once with the board's table (GetEvent, ApplyCorrection).
THEOREM EventInItsGroupsCorrect == MCSpec => []EventInItsGroups
<1>1. PartsInv => EventInItsGroups
  BY ReadoutShows DEF PartsInv, EventInItsGroups
<1> QED
  BY PartsInit, PartsStep, <1>1, PTL DEF MCSpec

\* A page of the correction table is right unless a transfer of it failed, or one of
\* the page that was read before it from the flash of its group, which was left
\* selected (GetCorrectionData, ReadFlashPage).
THEOREM DamageStaysWithItsPageCorrect == MCSpec => []DamageStaysWithItsPage
<1>1. PartsInv => DamageStaysWithItsPage
  BY FlashShows DEF PartsInv, DamageStaysWithItsPage
<1> QED
  BY PartsInit, PartsStep, <1>1, PTL DEF MCSpec
=============================================================================
