----------------------------- MODULE WfdBaseProofs -----------------------------
(***************************************************************************)
(* Theorems about WfdBase: for every set of clients, every device, every   *)
(* queue limit and any number of events.  Behind them the theorems about   *)
(* Sis3302, which extends WfdBase by the board.                            *)
(***************************************************************************)
EXTENDS Sis3302, SequenceTheorems, TLAPS

(* Who is inside the mutex, read off the program counters. *)
MutexInv ==
  /\ work_pc \in PushPCs <=> queue_mutex_ = Worker
  /\ \A c \in Clients :
       client_pc[c] \in PopPCs \cup FlushPCs <=> queue_mutex_ = c

(* The flag against the queue, also while a thread is inside the mutex. *)
HiddenInv ==
  /\ data_queue_ # <<>> => has_event_ \/ work_pc = "flag"
  /\ work_pc = "flag" => data_queue_ # <<>>
  /\ \A c \in Clients :
       client_pc[c] \in {"flushFlag", "flushUnlock"} => data_queue_ = <<>>

PhantomInv ==
  FlagSetByCtor /\ has_event_ /\ data_queue_ = <<>> =>
    \E c \in Clients : client_pc[c] \in {"popFlag", "flushFlag"}

(* An event can only be in flight, or have landed, after go_time_ fell. *)
InFlight == {"trigger", "clear", "poll", "arm", "get", "lock", "push"}

LateInv ==
  LoopTestsGo =>
    /\ late <= 1
    /\ go_time_ => late = 0
    /\ late = 1 => work_pc \notin InFlight

(* The work thread queues a real event. *)
HeldInv == work_pc \in {"lock", "push"} => bundle # 0

(* StartThread() spawns only after the old thread was joined. *)
JoinedInv == ctl_pc \in {"start", "spawn"} => work_pc = "off"

USE DEF WorkPCs, LoopPCs, PushPCs, ClientPCs, PopPCs, FlushPCs

(* The types, with what the program counters alone imply. *)
TypeInv == TypeOK /\ HeldInv /\ JoinedInv

(* The type invariant, strengthened by what the work thread holds and by   *)
(* the order of join and spawn, is inductive.                              *)
LEMMA TypeInvariant == Spec => []TypeInv
<1>1. Init => TypeInv
  <2> SUFFICES ASSUME Init PROVE TypeInv
    OBVIOUS
  <2>1. thread_live_ \in BOOLEAN /\ go_time_ \in BOOLEAN /\ has_event_ \in BOOLEAN
    BY DEF Init
  <2>2. data_queue_ \in Seq(1 .. MaxEvents) /\ returned \in Seq(0 .. MaxEvents)
    BY DEF Init
  <2>3. client_pc \in [Clients -> ClientPCs]
    BY DEF Init
  <2> QED
    BY <2>1, <2>2, <2>3, WfdBaseAssumption DEF Init, TypeInv, TypeOK, HeldInv, JoinedInv
<1>2. TypeInv /\ [Next]_vars => TypeInv'
  <2> SUFFICES ASSUME TypeInv, [Next]_vars PROVE TypeInv'
    OBVIOUS
  <2> USE WfdBaseAssumption DEF TypeInv, TypeOK, HeldInv, JoinedInv, queueVars, workVars, popVars, ctlVars
  <2>1. CASE WorkLoop
    <3>1. CASE TestLive
      BY <3>1 DEF TestLive, Work
    <3>2. CASE TestGo
      BY <3>2 DEF TestGo, Work
    <3>3. CASE Trigger
      BY <3>3 DEF Trigger, Work
    <3>4. ASSUME NEW e \in BOOLEAN, Poll(e) PROVE TypeInv'
      BY <3>4 DEF Poll, Work, LoopStart
    <3>5. CASE Arm
      BY <3>5 DEF Arm, Work, LoopStart
    <3>6. CASE DumpFirst
      BY <3>6 DEF DumpFirst, Work
    <3>7. CASE GetEvent
      BY <3>7 DEF GetEvent, Work
    <3>8. CASE WorkLock
      BY <3>8 DEF WorkLock, Work
    <3>9. CASE Push
      BY <3>9 DEF Push, Work
    <3>10. CASE RaiseFlag
      BY <3>10 DEF RaiseFlag, Work
    <3>11. CASE Drop
      <4>1. CASE Len(data_queue_) > kMaxQueueSize
        <5>1. data_queue_ # <<>>
          BY <4>1
        <5>2. /\ Head(data_queue_) \in 1 .. MaxEvents
              /\ Tail(data_queue_) \in Seq(1 .. MaxEvents)
          BY <5>1, HeadTailProperties
        <5> QED
          BY <3>11, <4>1, <5>2 DEF Drop, Work
      <4>2. CASE ~(Len(data_queue_) > kMaxQueueSize)
        BY <3>11, <4>2 DEF Drop, Work
      <4> QED
        BY <4>1, <4>2
    <3>12. CASE WorkUnlock
      BY <3>12 DEF WorkUnlock, Work, LoopStart
    <3>13. CASE Exit
      BY <3>13 DEF Exit, Work
    <3> QED
      BY <2>1, <3>1, <3>2, <3>3, <3>4, <3>5, <3>6, <3>7, <3>8, <3>9, <3>10,
         <3>11, <3>12, <3>13 DEF WorkLoop
  <2>2. CASE RunControl
    <3> USE DEF Control
    <3>1. CASE StartWorker
      BY <3>1 DEF StartWorker
    <3>2. CASE StopWorker
      BY <3>2, ZenonT(60) DEF StopWorker
    <3>3. CASE StopThread
      BY <3>3, ZenonT(60) DEF StopThread
    <3>4. CASE ClearLive
      BY <3>4, ZenonT(60) DEF ClearLive
    <3>5. CASE Join
      BY <3>5 DEF Join
    <3>6. CASE SetLive
      BY <3>6 DEF SetLive
    <3>7. CASE Spawn
      BY <3>7 DEF Spawn
    <3> QED
      BY <2>2, <3>1, <3>2, <3>3, <3>4, <3>5, <3>6, <3>7 DEF RunControl
  <2>3. ASSUME NEW c \in Clients, ClientCall(c) PROVE TypeInv'
    <3> USE DEF Client
    <3>1. CASE HasEvent(c)
      BY <3>1 DEF HasEvent
    <3>2. CASE DataAvailable(c)
      BY <3>2 DEF DataAvailable
    <3>3. CASE PopLock(c)
      BY <3>3 DEF PopLock
    <3>4. CASE FlushLock(c)
      BY <3>4 DEF FlushLock
    <3> QED
      BY <2>3, <3>1, <3>2, <3>3, <3>4 DEF ClientCall
  <2>4. ASSUME NEW c \in Clients, ClientInCall(c) PROVE TypeInv'
    <3> USE DEF Client
    <3>1. CASE PopNothing(c)
      BY <3>1 DEF PopNothing
    <3>2. CASE PopFront(c)
      BY <3>2 DEF PopFront
    <3>3. CASE PopFlag(c)
      BY <3>3 DEF PopFlag
    <3>4. CASE PopUnlock(c)
      BY <3>4 DEF PopUnlock
    <3>5. CASE PopReturn(c)
      BY <3>5 DEF PopReturn
    <3>6. CASE FlushQueue(c)
      <4>1. {data_queue_[i] : i \in 1 .. Len(data_queue_)} \subseteq 1 .. MaxEvents
        OBVIOUS
      <4>2. data_queue_' \in Seq(1 .. MaxEvents)
        BY <3>6 DEF FlushQueue
      <4>3. discarded' \subseteq 1 .. MaxEvents
        BY <3>6, <4>1 DEF FlushQueue
      <4>4. client_pc' \in [Clients -> ClientPCs]
        BY <3>6 DEF FlushQueue
      <4> QED
        BY <3>6, <4>2, <4>3, <4>4 DEF FlushQueue
    <3>7. CASE FlushFlag(c)
      <4>1. has_event_' \in BOOLEAN
        BY <3>7 DEF FlushFlag
      <4>2. client_pc' \in [Clients -> ClientPCs]
        BY <3>7 DEF FlushFlag
      <4> QED
        BY <3>7, <4>1, <4>2 DEF FlushFlag
    <3>8. CASE FlushUnlock(c)
      BY <3>8 DEF FlushUnlock
    <3> QED
      BY <2>4, <3>1, <3>2, <3>3, <3>4, <3>5, <3>6, <3>7, <3>8 DEF ClientInCall
  <2>5. CASE UNCHANGED vars
    BY <2>5 DEF vars
  <2> QED
    BY <2>1, <2>2, <2>3, <2>4, <2>5 DEF Next
<1> QED
  BY <1>1, <1>2, PTL DEF Spec

(* Type correctness, for every device and any number of clients: in        *)
(* particular the queue and the callers only ever see events the board     *)
(* delivered, never the empty bundle the work thread holds in between.     *)
THEOREM TypeCorrect == Spec => []TypeOK
BY TypeInvariant, PTL DEF TypeInv

--------------------------------------------------------------------------------
(* queue_mutex_ is owned by the one thread whose program counter is inside. *)
LEMMA MutexInvariant == Spec => []MutexInv
<1> USE WfdBaseAssumption DEF MutexInv, queueVars, workVars, popVars, ctlVars
<1>1. Init => MutexInv
  BY DEF Init
<1>2. TypeInv /\ MutexInv /\ [Next]_vars => MutexInv'
  <2> SUFFICES ASSUME TypeInv, MutexInv, [Next]_vars PROVE MutexInv'
    OBVIOUS
  <2> USE DEF TypeInv, TypeOK, JoinedInv
  <2>1. CASE WorkLoop
    <3> USE DEF Work
    <3>1. CASE queue_mutex_ = Worker
      BY <2>1, <3>1 DEF WorkLoop, TestLive, TestGo, Trigger, Poll, Arm, DumpFirst,
        GetEvent, WorkLock, Push, RaiseFlag, Drop, WorkUnlock, Exit, LoopStart
    <3>2. CASE queue_mutex_ # Worker
      BY <2>1, <3>2 DEF WorkLoop, TestLive, TestGo, Trigger, Poll, Arm, DumpFirst,
        GetEvent, WorkLock, Push, RaiseFlag, Drop, WorkUnlock, Exit, LoopStart
    <3> QED
      BY <3>1, <3>2
  <2>2. CASE RunControl
    BY <2>2 DEF RunControl, StartWorker, StopWorker, StopThread, ClearLive, Join,
      SetLive, Spawn, Control
  <2>3. ASSUME NEW c \in Clients, ClientCall(c) \/ ClientInCall(c) PROVE MutexInv'
    <3>1. UNCHANGED work_pc
      BY <2>3 DEF ClientCall, ClientInCall, HasEvent, DataAvailable, PopLock,
        PopNothing, PopFront, PopFlag, PopUnlock, PopReturn, FlushLock, FlushQueue,
        FlushFlag, FlushUnlock
    <3>2. \E pc \in ClientPCs : client_pc' = [client_pc EXCEPT ![c] = pc]
      BY <2>3 DEF ClientCall, ClientInCall, HasEvent, DataAvailable, PopLock,
        PopNothing, PopFront, PopFlag, PopUnlock, PopReturn, FlushLock, FlushQueue,
        FlushFlag, FlushUnlock, Client
    <3>3. \A d \in Clients \ {c} : client_pc'[d] = client_pc[d]
      BY <3>2
    <3>4. \/ UNCHANGED queue_mutex_ /\ (client_pc[c] \in PopPCs \cup FlushPCs
                                        <=> client_pc'[c] \in PopPCs \cup FlushPCs)
          \/ /\ queue_mutex_ = NoThread /\ queue_mutex_' = c
             /\ client_pc'[c] \in PopPCs \cup FlushPCs
          \/ /\ queue_mutex_ = c /\ queue_mutex_' = NoThread
             /\ client_pc'[c] \notin PopPCs \cup FlushPCs
      BY <2>3, SMTT(30) DEF ClientCall, ClientInCall, HasEvent, DataAvailable, PopLock,
        PopNothing, PopFront, PopFlag, PopUnlock, PopReturn, FlushLock, FlushQueue,
        FlushFlag, FlushUnlock, Client
    <3>5. work_pc \in PushPCs <=> queue_mutex_' = Worker
      BY <3>4
    <3>6. ASSUME NEW d \in Clients
          PROVE client_pc'[d] \in PopPCs \cup FlushPCs <=> queue_mutex_' = d
      <4>1. CASE d = c
        BY <3>4, <4>1
      <4>2. CASE d # c
        BY <3>3, <3>4, <4>2
      <4> QED
        BY <4>1, <4>2
    <3> QED
      BY <3>1, <3>5, <3>6
  <2>4. CASE UNCHANGED vars
    BY <2>4 DEF vars
  <2> QED
    BY <2>1, <2>2, <2>3, <2>4 DEF Next
<1> QED
  BY <1>1, <1>2, TypeInvariant, PTL DEF Spec

--------------------------------------------------------------------------------
(* has_event_ and the queue.  HiddenInv and PhantomInv say what the flag   *)
(* may be while a thread is between its change of the queue and its change *)
(* of the flag; with the mutex free, nobody is.                            *)
FlagInv == HiddenInv /\ PhantomInv

LEMMA FlagInvariant == Spec => []FlagInv
<1> USE WfdBaseAssumption DEF FlagInv, HiddenInv, PhantomInv
<1>1. Init => FlagInv
  BY DEF Init
<1>2. TypeInv /\ MutexInv /\ FlagInv /\ [Next]_vars => FlagInv'
  <2> SUFFICES ASSUME TypeInv, MutexInv, FlagInv, [Next]_vars PROVE FlagInv'
    OBVIOUS
  <2> USE DEF TypeInv, TypeOK, MutexInv, queueVars, workVars, popVars, ctlVars
  <2>1. CASE WorkLoop
    <3> USE DEF Work
    <3>1. CASE TestLive \/ TestGo \/ Trigger \/ Arm \/ DumpFirst \/ GetEvent
               \/ WorkLock \/ WorkUnlock \/ Exit
      BY <3>1 DEF TestLive, TestGo, Trigger, Arm, DumpFirst, GetEvent, WorkLock,
        WorkUnlock, Exit, LoopStart
    <3>2. ASSUME NEW e \in BOOLEAN, Poll(e) PROVE FlagInv'
      BY <3>2 DEF Poll, LoopStart
    <3>3. CASE Push
      <4>1. data_queue_' # <<>>
        BY <3>3, AppendProperties DEF Push
      <4>2. work_pc' = "flag" /\ UNCHANGED client_pc
        BY <3>3 DEF Push
      <4>3. \A c \in Clients : client_pc[c] \notin FlushPCs
        BY <3>3 DEF Push
      <4> QED
        BY <4>1, <4>2, <4>3
    <3>4. CASE RaiseFlag
      <4>1. /\ has_event_' = TRUE
            /\ UNCHANGED <<client_pc, data_queue_>>
            /\ data_queue_ # <<>>
        BY <3>4 DEF RaiseFlag
      <4> QED
        BY <4>1
    <3>5. CASE Drop
      <4>1. work_pc = "drop" /\ UNCHANGED <<has_event_, client_pc>>
        BY <3>5 DEF Drop
      <4>2. CASE Len(data_queue_) > kMaxQueueSize
        <5>1. Len(Tail(data_queue_)) = Len(data_queue_) - 1
          BY <4>2, HeadTailProperties
        <5>2. data_queue_' # <<>>
          BY <3>5, <4>2, <5>1 DEF Drop
        <5>3. data_queue_ # <<>>
          BY <4>2
        <5> QED
          BY <4>1, <5>2, <5>3
      <4>3. CASE ~(Len(data_queue_) > kMaxQueueSize)
        BY <3>5, <4>1, <4>3 DEF Drop
      <4> QED
        BY <4>2, <4>3
    <3> QED
      BY <2>1, <3>1, <3>2, <3>3, <3>4, <3>5 DEF WorkLoop
  <2>2. CASE RunControl
    BY <2>2 DEF RunControl, StartWorker, StopWorker, StopThread, ClearLive, Join,
      SetLive, Spawn, Control, JoinedInv
  <2>3. ASSUME NEW c \in Clients, ClientCall(c) \/ ClientInCall(c) PROVE FlagInv'
    <3> USE DEF Client
    <3>1. CASE HasEvent(c) \/ DataAvailable(c) \/ PopLock(c) \/ PopNothing(c)
               \/ PopUnlock(c) \/ PopReturn(c) \/ FlushLock(c) \/ FlushUnlock(c)
      BY <3>1, SMTT(30) DEF HasEvent, DataAvailable, PopLock, PopNothing, PopUnlock,
        PopReturn, FlushLock, FlushUnlock
    <3>2. CASE PopFront(c)
      BY <3>2 DEF PopFront
    <3>3. CASE PopFlag(c)
      BY <3>3 DEF PopFlag
    <3>4. CASE FlushQueue(c)
      BY <3>4 DEF FlushQueue
    <3>5. CASE FlushFlag(c)
      BY <3>5 DEF FlushFlag
    <3> QED
      BY <2>3, <3>1, <3>2, <3>3, <3>4, <3>5 DEF ClientCall, ClientInCall
  <2>4. CASE UNCHANGED vars
    BY <2>4 DEF vars
  <2> QED
    BY <2>1, <2>2, <2>3, <2>4 DEF Next
<1> QED
  BY <1>1, <1>2, TypeInvariant, MutexInvariant, PTL DEF Spec

(* No event hides from a builder that polls has_event_: on every device,   *)
(* with any number of clients.                                             *)
THEOREM NoHiddenEventCorrect == Spec => []NoHiddenEvent
<1>1. TypeInv /\ MutexInv /\ FlagInv => NoHiddenEvent
  BY WfdBaseAssumption
    DEF TypeInv, TypeOK, MutexInv, FlagInv, HiddenInv, NoHiddenEvent, MutexFree
<1> QED
  BY <1>1, TypeInvariant, MutexInvariant, FlagInvariant, PTL

(* Sis3302 and Caen1742, which lower has_event_ in their constructor, never *)
(* promise an event that is not there.                                     *)
THEOREM NoPhantomEventCorrect ==
  ASSUME FlagSetByCtor
  PROVE  Spec => []NoPhantomEvent
<1>1. TypeInv /\ MutexInv /\ FlagInv => NoPhantomEvent
  BY FlagSetByCtor, WfdBaseAssumption
    DEF TypeInv, TypeOK, MutexInv, FlagInv, PhantomInv, NoPhantomEvent, MutexFree
<1> QED
  BY <1>1, TypeInvariant, MutexInvariant, FlagInvariant, PTL

--------------------------------------------------------------------------------
(* A device whose loop tests go_time_ queues at most one event after it    *)
(* fell, whatever the run-control thread does until it calls StartWorker().*)
THEOREM AtMostOneLateCorrect ==
  ASSUME LoopTestsGo
  PROVE  Spec => []AtMostOneLate
<1> USE LoopTestsGo, WfdBaseAssumption DEF LateInv, InFlight
<1>1. Init => LateInv
  BY DEF Init
<1>2. TypeInv /\ LateInv /\ [Next]_vars => LateInv'
  <2> SUFFICES ASSUME TypeInv, LateInv, [Next]_vars PROVE LateInv'
    OBVIOUS
  <2> USE DEF TypeInv, TypeOK, JoinedInv, queueVars, workVars, popVars, ctlVars
  <2>1. CASE WorkLoop
    BY <2>1 DEF WorkLoop, TestLive, TestGo, Trigger, Poll, Arm, DumpFirst, GetEvent,
      WorkLock, Push, RaiseFlag, Drop, WorkUnlock, Exit, LoopStart, Work
  <2>2. CASE RunControl
    BY <2>2 DEF RunControl, StartWorker, StopWorker, StopThread, ClearLive, Join,
      SetLive, Spawn, Control
  <2>3. ASSUME NEW c \in Clients, ClientCall(c) \/ ClientInCall(c) PROVE LateInv'
    BY <2>3 DEF ClientCall, ClientInCall, HasEvent, DataAvailable, PopLock,
      PopNothing, PopFront, PopFlag, PopUnlock, PopReturn, FlushLock, FlushQueue,
      FlushFlag, FlushUnlock
  <2>4. CASE UNCHANGED vars
    BY <2>4 DEF vars
  <2> QED
    BY <2>1, <2>2, <2>3, <2>4 DEF Next
<1>3. LateInv => AtMostOneLate
  BY DEF AtMostOneLate
<1> QED
  BY <1>1, <1>2, <1>3, TypeInvariant, PTL DEF Spec

--------------------------------------------------------------------------------
(* What happens to the sequences. *)
LEMMA QueueFacts ==
  ASSUME NEW q \in Seq(Nat), NEW e \in Nat
  PROVE  /\ Len(q) \in Nat
         /\ Len(Append(q, e)) = Len(q) + 1 /\ Append(q, e)[Len(q) + 1] = e
         /\ \A i \in 1 .. Len(q) : Append(q, e)[i] = q[i]
         /\ q # <<>> => /\ Len(q) > 0 /\ Head(q) = q[1]
                        /\ Len(Tail(q)) = Len(q) - 1
                        /\ \A i \in 1 .. Len(Tail(q)) : Tail(q)[i] = q[i + 1]
BY AppendProperties, HeadTailProperties
(* A lone client of a device that lowers has_event_ first gets an event    *)
(* from the PopEvent() that follows a look, at the flag or at the queue.   *)
THEOREM SeenEventIsThereCorrect ==
  ASSUME FlagSetByCtor, NEW only, Clients = {only}
  PROVE  Spec => []SeenEventIsThere
<1> USE WfdBaseAssumption DEF SeenEventIsThere
<1>1. Init => SeenEventIsThere
  BY DEF Init
<1>2. TypeInv /\ MutexInv /\ FlagInv /\ SeenEventIsThere /\ [Next]_vars => SeenEventIsThere'
  <2> SUFFICES ASSUME TypeInv, MutexInv, FlagInv, SeenEventIsThere, [Next]_vars
               PROVE  SeenEventIsThere'
    OBVIOUS
  <2> USE DEF TypeInv, TypeOK, queueVars, workVars, popVars, ctlVars
  <2>1. CASE WorkLoop
    <3>1. UNCHANGED client_pc
      BY <2>1 DEF WorkLoop, TestLive, TestGo, Trigger, Poll, Arm, DumpFirst, GetEvent,
        WorkLock, Push, RaiseFlag, Drop, WorkUnlock, Exit
    <3>2. data_queue_ # <<>> => data_queue_' # <<>>
      <4>1. CASE Push
        <5>1. data_queue_' = Append(data_queue_, bundle) /\ bundle \in Nat
          BY <4>1 DEF Push
        <5>2. data_queue_ \in Seq(Nat)
          OBVIOUS
        <5>3. Append(data_queue_, bundle) # <<>>
          BY <5>1, <5>2, QueueFacts
        <5> QED
          BY <5>1, <5>3
      <4>2. CASE Drop
        <5>1. CASE Len(data_queue_) > kMaxQueueSize
          <6>1. Len(Tail(data_queue_)) = Len(data_queue_) - 1
            BY <5>1, HeadTailProperties
          <6> QED
            BY <4>2, <5>1, <6>1 DEF Drop
        <5>2. CASE ~(Len(data_queue_) > kMaxQueueSize)
          BY <4>2, <5>2 DEF Drop
        <5> QED
          BY <5>1, <5>2
      <4>3. ~Push /\ ~Drop => UNCHANGED data_queue_
        BY <2>1 DEF WorkLoop, TestLive, TestGo, Trigger, Poll, Arm, DumpFirst, GetEvent,
          WorkLock, RaiseFlag, WorkUnlock, Exit
      <4> QED
        BY <4>1, <4>2, <4>3
    <3> QED
      BY <3>1, <3>2
  <2>2. CASE RunControl
    BY <2>2 DEF RunControl, StartWorker, StopWorker, StopThread, ClearLive, Join,
      SetLive, Spawn
  <2>3. ASSUME NEW c \in Clients, ClientCall(c) \/ ClientInCall(c) PROVE SeenEventIsThere'
    <3> USE DEF Client
    <3>0. c = only /\ \A d \in Clients : d = c
      BY Clients = {only}
    <3>1. CASE HasEvent(c)
      <4>1. CASE has_event_
        <5>1. client_pc[c] \in {"idle", "seen"} /\ UNCHANGED data_queue_
          BY <3>1 DEF HasEvent
        <5>2. data_queue_ # <<>>
          BY <3>0, <4>1, <5>1, FlagSetByCtor DEF FlagInv, PhantomInv
        <5> QED
          BY <5>1, <5>2
      <4>2. CASE ~has_event_
        <5>1. client_pc' = [client_pc EXCEPT ![c] = "idle"]
          BY <3>1, <4>2 DEF HasEvent
        <5> QED
          BY <3>0, <5>1
      <4> QED
        BY <4>1, <4>2
    <3>2. CASE DataAvailable(c)
      BY <3>0, <3>2 DEF DataAvailable
    <3>3. CASE PopLock(c) \/ FlushLock(c) \/ ClientInCall(c)
      <4>1. client_pc'[c] # "seen"
        BY <3>3 DEF PopLock, FlushLock, ClientInCall, PopNothing, PopFront, PopFlag,
          PopUnlock, PopReturn, FlushQueue, FlushFlag, FlushUnlock
      <4> QED
        BY <3>0, <4>1
    <3> QED
      BY <2>3, <3>1, <3>2, <3>3 DEF ClientCall
  <2>4. CASE UNCHANGED vars
    BY <2>4 DEF vars
  <2> QED
    BY <2>1, <2>2, <2>3, <2>4 DEF Next
<1> QED
  BY <1>1, <1>2, TypeInvariant, MutexInvariant, FlagInvariant, PTL DEF Spec

--------------------------------------------------------------------------------
(* The order of the events with one client.                                *)
Increasing(s) == \A i, j \in 1 .. Len(s) : i < j => s[i] < s[j]
Before(s, t) == \A i \in 1 .. Len(s), j \in 1 .. Len(t) : s[i] < t[j]

LEMMA IncreasingConcat ==
  ASSUME NEW s \in Seq(Nat), NEW t \in Seq(Nat),
         Increasing(s), Increasing(t), Before(s, t)
  PROVE  Increasing(s \o t)
<1> SUFFICES ASSUME NEW i \in 1 .. Len(s \o t), NEW j \in 1 .. Len(s \o t), i < j
             PROVE  (s \o t)[i] < (s \o t)[j]
  BY DEF Increasing
<1>1. /\ Len(s) \in Nat /\ Len(t) \in Nat /\ Len(s \o t) = Len(s) + Len(t)
      /\ \A k \in 1 .. (Len(s) + Len(t)) :
           (s \o t)[k] = IF k <= Len(s) THEN s[k] ELSE t[k - Len(s)]
  BY ConcatProperties
<1>2. CASE j <= Len(s)
  BY <1>1, <1>2 DEF Increasing
<1>3. CASE i > Len(s)
  <2>1. i - Len(s) \in 1 .. Len(t) /\ j - Len(s) \in 1 .. Len(t) /\ i - Len(s) < j - Len(s)
    BY <1>1, <1>3
  <2> QED
    <3>1. (s \o t)[i] = t[i - Len(s)] /\ (s \o t)[j] = t[j - Len(s)]
      BY <1>1, <1>3
    <3>2. t[i - Len(s)] < t[j - Len(s)]
      BY <2>1 DEF Increasing
    <3> QED
      BY <3>1, <3>2
<1>4. CASE i <= Len(s) /\ j > Len(s)
  <2>1. i \in 1 .. Len(s) /\ j - Len(s) \in 1 .. Len(t)
    BY <1>1, <1>4
  <2> QED
    BY <1>1, <1>4, <2>1 DEF Before
<1> QED
  BY <1>1, <1>2, <1>3, <1>4, SMTT(30)


LEMMA BeforeConcat ==
  ASSUME NEW s \in Seq(Nat), NEW t \in Seq(Nat), NEW u \in Seq(Nat),
         Before(s, u), Before(t, u)
  PROVE  Before(s \o t, u)
<1> SUFFICES ASSUME NEW i \in 1 .. Len(s \o t), NEW j \in 1 .. Len(u)
             PROVE  (s \o t)[i] < u[j]
  BY DEF Before
<1>1. /\ Len(s) \in Nat /\ Len(t) \in Nat /\ Len(s \o t) = Len(s) + Len(t)
      /\ \A k \in 1 .. (Len(s) + Len(t)) :
           (s \o t)[k] = IF k <= Len(s) THEN s[k] ELSE t[k - Len(s)]
  BY ConcatProperties
<1>2. CASE i <= Len(s)
  BY <1>1, <1>2 DEF Before
<1>3. CASE i > Len(s)
  <2>1. (s \o t)[i] = t[i - Len(s)] /\ i - Len(s) \in 1 .. Len(t)
    BY <1>1, <1>3
  <2> QED
    BY <2>1 DEF Before
<1> QED
  BY <1>1, <1>2, <1>3

(* The event that is being returned. *)
Moving == \E c \in Clients : client_pc[c] \in {"popFlag", "popUnlock", "return"}

(* An event that waits is younger than those that left, one that the work  *)
(* thread holds younger than those that wait; the next one is the youngest.*)
OrderInv ==
  /\ Increasing(returned) /\ Increasing(data_queue_) /\ Before(returned, data_queue_)
  /\ Moving => /\ \A i \in 1 .. Len(returned) : returned[i] < data
               /\ \A j \in 1 .. Len(data_queue_) : data < data_queue_[j]
               /\ data <= produced
  /\ bundle # 0 => /\ \A i \in 1 .. Len(returned) : returned[i] < bundle
                   /\ \A j \in 1 .. Len(data_queue_) : data_queue_[j] < bundle
                   /\ Moving => data < bundle
                   /\ bundle <= produced
  /\ \A i \in 1 .. Len(returned) : returned[i] <= produced
  /\ \A j \in 1 .. Len(data_queue_) : data_queue_[j] <= produced

(* The parts in a row are in order. *)
LEMMA OrderOfParts == TypeInv /\ OrderInv => OldestFirst
<1> SUFFICES ASSUME TypeInv, OrderInv PROVE Increasing(InOrder)
  BY DEF Increasing, OldestFirst
<1>1. returned \in Seq(Nat) /\ data_queue_ \in Seq(Nat) /\ data \in Nat /\ bundle \in Nat
  BY WfdBaseAssumption DEF TypeInv, TypeOK
<1>2. InTransit = (IF Moving THEN <<data>> ELSE <<>>)
  BY DEF InTransit, Moving
<1>3. InTransit \in Seq(Nat) /\ Held \in Seq(Nat)
  BY <1>1, <1>2 DEF Held
<1>4. Increasing(InTransit) /\ Increasing(Held)
  BY <1>1, <1>2 DEF Increasing, Held
<1>5. Before(returned, InTransit) /\ Before(InTransit, data_queue_)
  BY <1>1, <1>2 DEF OrderInv, Before
<1>6. Before(returned, Held) /\ Before(InTransit, Held) /\ Before(data_queue_, Held)
  <2>1. CASE bundle = 0
    BY <2>1 DEF Before, Held
  <2>2. CASE bundle # 0
    <3>1. Held = <<bundle>>
      BY <2>2 DEF Held
    <3>2. Before(returned, <<bundle>>)
      BY <2>2 DEF OrderInv, Before
    <3>3. Before(data_queue_, <<bundle>>)
      BY <2>2 DEF OrderInv, Before
    <3>4. Before(InTransit, <<bundle>>)
      BY <1>2, <2>2 DEF OrderInv, Before
    <3> QED
      BY <3>1, <3>2, <3>3, <3>4
  <2> QED
    BY <2>1, <2>2
<1>7. Increasing(returned \o InTransit) /\ returned \o InTransit \in Seq(Nat)
  BY <1>1, <1>3, <1>4, <1>5, IncreasingConcat DEF OrderInv
<1>8. Before(returned \o InTransit, data_queue_) /\ Before(returned \o InTransit, Held)
  BY <1>1, <1>3, <1>5, <1>6, BeforeConcat DEF OrderInv
<1>9. /\ Increasing((returned \o InTransit) \o data_queue_)
      /\ (returned \o InTransit) \o data_queue_ \in Seq(Nat)
      /\ Before((returned \o InTransit) \o data_queue_, Held)
  <2>1. Increasing(data_queue_)
    BY DEF OrderInv
  <2>2. Increasing((returned \o InTransit) \o data_queue_)
    BY <1>1, <1>7, <1>8, <2>1, IncreasingConcat
  <2>3. (returned \o InTransit) \o data_queue_ \in Seq(Nat)
    BY <1>1, <1>7
  <2>4. Before((returned \o InTransit) \o data_queue_, Held)
    BY <1>1, <1>3, <1>6, <1>7, <1>8, BeforeConcat
  <2> QED
    BY <2>2, <2>3, <2>4
<1>10. Increasing(((returned \o InTransit) \o data_queue_) \o Held)
  BY <1>3, <1>4, <1>9, IncreasingConcat
<1> QED
  BY <1>10 DEF InOrder


LEMMA IncreasingAppend ==
  ASSUME NEW q \in Seq(Nat), NEW e \in Nat, Increasing(q),
         \A i \in 1 .. Len(q) : q[i] < e
  PROVE  Increasing(Append(q, e))
<1>1. /\ Len(q) \in Nat /\ Len(Append(q, e)) = Len(q) + 1
      /\ Append(q, e)[Len(q) + 1] = e
      /\ \A i \in 1 .. Len(q) : Append(q, e)[i] = q[i]
  BY QueueFacts
<1> SUFFICES ASSUME NEW i \in 1 .. (Len(q) + 1), NEW j \in 1 .. (Len(q) + 1), i < j
             PROVE  Append(q, e)[i] < Append(q, e)[j]
  BY <1>1 DEF Increasing
<1>2. i \in 1 .. Len(q)
  BY <1>1
<1>3. CASE j \in 1 .. Len(q)
  BY <1>1, <1>2, <1>3 DEF Increasing
<1>4. CASE j = Len(q) + 1
  BY <1>1, <1>2, <1>4
<1> QED
  BY <1>1, <1>3, <1>4, SMTT(30)

(* A queue that lost its oldest event. *)
LEMMA TailFacts ==
  ASSUME returned \in Seq(Nat), data_queue_ \in Seq(Nat), bundle \in Nat, produced \in Nat,
         OrderInv, data_queue_ # <<>>, data_queue_' = Tail(data_queue_)
  PROVE  /\ Increasing(data_queue_') /\ Before(returned, data_queue_')
         /\ \A j \in 1 .. Len(data_queue_') :
              /\ data_queue_'[j] <= produced
              /\ bundle # 0 => data_queue_'[j] < bundle
              /\ Moving => data < data_queue_'[j]
<1>1. /\ Len(data_queue_) \in Nat /\ Len(data_queue_') = Len(data_queue_) - 1
      /\ \A i \in 1 .. Len(data_queue_') :
           i + 1 \in 1 .. Len(data_queue_) /\ data_queue_'[i] = data_queue_[i + 1]
  BY QueueFacts
<1>2. Increasing(data_queue_')
  <2> SUFFICES ASSUME NEW i \in 1 .. Len(data_queue_'), NEW j \in 1 .. Len(data_queue_'), i < j
               PROVE  data_queue_'[i] < data_queue_'[j]
    BY DEF Increasing
  <2>1. i + 1 < j + 1
    BY <1>1
  <2> QED
    BY <1>1, <2>1 DEF OrderInv, Increasing
<1> QED
  BY <1>1, <1>2 DEF OrderInv, Before

LEMMA OrderInvariant ==
  ASSUME NEW only, Clients = {only}
  PROVE  Spec => []OrderInv
<1> USE WfdBaseAssumption
<1>1. Init => OrderInv
  BY DEF Init, OrderInv, Moving, Increasing, Before
<1>2. TypeInv /\ OrderInv /\ [Next]_vars => OrderInv'
  <2> SUFFICES ASSUME TypeInv, OrderInv, [Next]_vars PROVE OrderInv'
    OBVIOUS
  <2>1. /\ returned \in Seq(Nat) /\ data_queue_ \in Seq(Nat)
        /\ data \in Nat /\ bundle \in Nat /\ produced \in Nat
    BY DEF TypeInv, TypeOK
  <2>2. ASSUME UNCHANGED <<returned, data_queue_, data, bundle, produced>>,
               Moving' => Moving
        PROVE  OrderInv'
    BY <2>2 DEF OrderInv, Increasing, Before
  <2>3. CASE WorkLoop
    <3>0. UNCHANGED <<client_pc, returned, data>> /\ Moving' = Moving
      BY <2>3 DEF WorkLoop, TestLive, TestGo, Trigger, Poll, Arm, DumpFirst, GetEvent,
        WorkLock, Push, RaiseFlag, Drop, WorkUnlock, Exit, queueVars, popVars, Moving
    <3>1. CASE DumpFirst
      <4>1. UNCHANGED <<data_queue_, bundle>> /\ produced' = produced + 1
        BY <3>1 DEF DumpFirst, queueVars
      <4>2. returned' \in Seq(Nat) /\ data_queue_' \in Seq(Nat)
        BY <2>1, <3>0, <4>1
      <4> QED
        BY <2>1, <3>0, <4>1 DEF OrderInv, Increasing, Before
    <3>2. CASE GetEvent
      <4>1. /\ UNCHANGED data_queue_
            /\ produced' = produced + 1 /\ bundle' = produced + 1
        BY <3>2 DEF GetEvent, queueVars
      <4> QED
        BY <2>1, <3>0, <4>1, SMTT(30) DEF OrderInv, Increasing, Before
    <3>3. CASE Push
      <4>1. /\ data_queue_' = Append(data_queue_, bundle) /\ bundle' = 0
            /\ UNCHANGED produced /\ bundle # 0
        BY <3>3 DEF Push, Work, TypeInv, HeldInv
      <4>2. Increasing(data_queue_')
        BY <2>1, <4>1, IncreasingAppend DEF OrderInv
      <4>3. Before(returned', data_queue_')
        BY <2>1, <3>0, <4>1, QueueFacts DEF OrderInv, Before
      <4>4. \A j \in 1 .. Len(data_queue_') :
              (Moving => data < data_queue_'[j]) /\ data_queue_'[j] <= produced
        BY <2>1, <4>1, QueueFacts DEF OrderInv
      <4> QED
        BY <3>0, <4>1, <4>2, <4>3, <4>4 DEF OrderInv, Increasing
    <3>4. CASE Drop /\ Len(data_queue_) > kMaxQueueSize
      <4>1. /\ data_queue_' = Tail(data_queue_) /\ UNCHANGED <<bundle, produced>>
            /\ data_queue_ # <<>>
        BY <2>1, <3>4 DEF Drop
      <4> QED
        BY <2>1, <3>0, <4>1, TailFacts DEF OrderInv
    <3>5. CASE ~DumpFirst /\ ~GetEvent /\ ~Push
               /\ ~(Drop /\ Len(data_queue_) > kMaxQueueSize)
      <4>1. UNCHANGED <<data_queue_, bundle, produced>>
        BY <2>3, <3>5 DEF WorkLoop, TestLive, TestGo, Trigger, Poll, Arm, WorkLock,
          RaiseFlag, Drop, WorkUnlock, Exit, queueVars
      <4> QED
        BY <2>2, <3>0, <4>1
    <3> QED
      BY <3>1, <3>2, <3>3, <3>4, <3>5
  <2>4. CASE RunControl \/ UNCHANGED vars
    <3>1. UNCHANGED <<returned, data_queue_, data, bundle, produced, client_pc>>
      BY <2>4 DEF RunControl, StartWorker, StopWorker, StopThread, ClearLive, Join,
        SetLive, Spawn, vars, queueVars, workVars, popVars
    <3> QED
      BY <2>2, <3>1 DEF Moving
  <2>5. ASSUME NEW c \in Clients, ClientCall(c) \/ ClientInCall(c) PROVE OrderInv'
    <3>0. /\ \A d \in Clients : d = c
          /\ client_pc \in [Clients -> ClientPCs]
          /\ Moving <=> client_pc[c] \in {"popFlag", "popUnlock", "return"}
      BY Clients = {only} DEF Moving, TypeInv, TypeOK
    <3>1. Moving' <=> client_pc'[c] \in {"popFlag", "popUnlock", "return"}
      BY <3>0 DEF Moving
    <3>2. UNCHANGED <<bundle, produced>>
      BY <2>5 DEF ClientCall, ClientInCall, HasEvent, DataAvailable, PopLock, PopNothing,
        PopFront, PopFlag, PopUnlock, PopReturn, FlushLock, FlushQueue, FlushFlag,
        FlushUnlock, workVars
    <3>3. CASE PopFront(c)
      <4>1. /\ data_queue_ # <<>> /\ data' = Head(data_queue_)
            /\ data_queue_' = Tail(data_queue_) /\ UNCHANGED returned
        BY <3>3 DEF PopFront
      <4>2. /\ \A j \in 1 .. Len(data_queue_') : data' < data_queue_'[j]
            /\ \A i \in 1 .. Len(returned) : returned[i] < data'
            /\ data' <= produced /\ (bundle # 0 => data' < bundle)
        BY <2>1, <4>1, QueueFacts DEF OrderInv, Increasing, Before
      <4> QED
        BY <2>1, <3>2, <4>1, <4>2, TailFacts DEF OrderInv
    <3>4. CASE PopReturn(c)
      <4>1. /\ Moving /\ ~Moving' /\ returned' = Append(returned, data)
            /\ UNCHANGED <<data_queue_, data>>
        BY <3>0, <3>1, <3>4 DEF PopReturn, Client, queueVars
      <4>2. Increasing(returned')
        BY <2>1, <4>1, IncreasingAppend DEF OrderInv
      <4>3. Before(returned', data_queue_')
        BY <2>1, <4>1, QueueFacts DEF OrderInv, Before
      <4>4. \A i \in 1 .. Len(returned') :
              returned'[i] <= produced /\ (bundle # 0 => returned'[i] < bundle)
        BY <2>1, <4>1, QueueFacts DEF OrderInv
      <4> QED
        BY <3>2, <4>1, <4>2, <4>3, <4>4 DEF OrderInv, Increasing
    <3>5. CASE FlushQueue(c)
      <4>1. /\ ~Moving' /\ data_queue_' = <<>> /\ UNCHANGED <<returned, data>>
        BY <3>0, <3>1, <3>5 DEF FlushQueue, Client
      <4> QED
        BY <3>2, <4>1 DEF OrderInv, Increasing, Before
    <3>6. CASE ~PopFront(c) /\ ~PopReturn(c) /\ ~FlushQueue(c)
      <4>1. UNCHANGED <<returned, data_queue_, data>> /\ (Moving' => Moving)
        BY <2>5, <3>0, <3>1, <3>6 DEF ClientCall, ClientInCall, HasEvent, DataAvailable,
          PopLock, PopNothing, PopFlag, PopUnlock, FlushLock, FlushFlag, FlushUnlock,
          Client, queueVars
      <4> QED
        BY <2>2, <3>2, <4>1
    <3> QED
      BY <3>3, <3>4, <3>5, <3>6
  <2> QED
    BY <2>3, <2>4, <2>5 DEF Next
<1> QED
  BY <1>1, <1>2, TypeInvariant, PTL DEF Spec

(* With one client, what was returned, what is on its way, what waits and  *)
(* what the work thread holds are in the order of collection, on every     *)
(* device and for any limit of the queue.                                  *)
THEOREM OldestFirstCorrect ==
  ASSUME NEW only, Clients = {only}
  PROVE  Spec => []OldestFirst
BY TypeInvariant, OrderInvariant, OrderOfParts, PTL

--------------------------------------------------------------------------------
(* Where the events are, with one client.                                  *)
Events(s) == {s[i] : i \in 1 .. Len(s)}

Kept == Events(returned) \cup (IF Moving THEN {data} ELSE {})
          \cup Events(data_queue_) \cup (IF bundle = 0 THEN {} ELSE {bundle})

LostInv == Kept \cup discarded = 1 .. produced /\ Kept \cap discarded = {}

(* The work thread holds an event only until it has queued it. *)
HeldOnlyInv == bundle # 0 => work_pc \in {"lock", "push"}

LEMMA EventsConcat ==
  ASSUME NEW s \in Seq(Nat), NEW t \in Seq(Nat)
  PROVE  Events(s \o t) = Events(s) \cup Events(t)
<1>1. /\ Len(s) \in Nat /\ Len(t) \in Nat /\ Len(s \o t) = Len(s) + Len(t)
      /\ \A k \in 1 .. (Len(s) + Len(t)) :
           (s \o t)[k] = IF k <= Len(s) THEN s[k] ELSE t[k - Len(s)]
  BY ConcatProperties
<1>2. ASSUME NEW x \in Events(s \o t) PROVE x \in Events(s) \cup Events(t)
  <2>1. PICK k \in 1 .. (Len(s) + Len(t)) : x = (s \o t)[k]
    BY <1>1, <1>2 DEF Events
  <2>2. CASE k <= Len(s)
    BY <1>1, <2>1, <2>2 DEF Events
  <2>3. CASE k > Len(s)
    <3>1. k - Len(s) \in 1 .. Len(t) /\ x = t[k - Len(s)]
      BY <1>1, <2>1, <2>3
    <3> QED
      BY <3>1 DEF Events
  <2> QED
    BY <1>1, <2>1, <2>2, <2>3
<1>3. ASSUME NEW k \in 1 .. Len(s) PROVE s[k] \in Events(s \o t)
  <2>1. k \in 1 .. Len(s \o t) /\ (s \o t)[k] = s[k]
    BY <1>1, <1>3
  <2> QED
    BY <2>1 DEF Events
<1>4. ASSUME NEW k \in 1 .. Len(t) PROVE t[k] \in Events(s \o t)
  <2>1. k + Len(s) \in 1 .. Len(s \o t) /\ (s \o t)[k + Len(s)] = t[k]
    BY <1>1, <1>4
  <2> QED
    BY <2>1 DEF Events
<1> QED
  BY <1>2, <1>3, <1>4 DEF Events

LEMMA EventsAppend ==
  ASSUME NEW q \in Seq(Nat), NEW e \in Nat
  PROVE  Events(Append(q, e)) = Events(q) \cup {e}
<1>1. /\ Len(q) \in Nat /\ Len(Append(q, e)) = Len(q) + 1
      /\ Append(q, e)[Len(q) + 1] = e
      /\ \A i \in 1 .. Len(q) : Append(q, e)[i] = q[i]
  BY QueueFacts
<1>2. \A i : i \in 1 .. (Len(q) + 1) <=> i \in 1 .. Len(q) \/ i = Len(q) + 1
  BY <1>1
<1> QED
  BY <1>1, <1>2 DEF Events

LEMMA EventsTail ==
  ASSUME NEW q \in Seq(Nat), q # <<>>
  PROVE  Events(q) = {Head(q)} \cup Events(Tail(q))
<1>1. /\ Len(q) \in Nat /\ Len(q) > 0 /\ Head(q) = q[1]
      /\ Len(Tail(q)) = Len(q) - 1
      /\ \A i \in 1 .. Len(Tail(q)) : Tail(q)[i] = q[i + 1]
  BY QueueFacts
<1>2. ASSUME NEW i \in 1 .. Len(q), i # 1 PROVE q[i] \in Events(Tail(q))
  <2>1. i - 1 \in 1 .. Len(Tail(q)) /\ Tail(q)[i - 1] = q[i]
    BY <1>1, <1>2
  <2> QED
    BY <2>1 DEF Events
<1>3. ASSUME NEW i \in 1 .. Len(Tail(q)) PROVE Tail(q)[i] \in Events(q)
  <2>1. i + 1 \in 1 .. Len(q) /\ Tail(q)[i] = q[i + 1]
    BY <1>1
  <2> QED
    BY <2>1 DEF Events
<1>4. Head(q) \in Events(q)
  BY <1>1 DEF Events
<1> QED
  BY <1>1, <1>2, <1>3, <1>4 DEF Events

LEMMA LostParts == TypeInv /\ LostInv => NoEventLost
<1> SUFFICES ASSUME TypeInv, LostInv PROVE Events(InOrder) = Kept
  BY DEF NoEventLost, LostInv, Events
<1>1. returned \in Seq(Nat) /\ data_queue_ \in Seq(Nat) /\ data \in Nat /\ bundle \in Nat
  BY WfdBaseAssumption DEF TypeInv, TypeOK
<1>2. InTransit = (IF Moving THEN <<data>> ELSE <<>>)
  BY DEF InTransit, Moving
<1>3. InTransit \in Seq(Nat) /\ Held \in Seq(Nat)
  BY <1>1, <1>2 DEF Held
<1>4. Events(InTransit) = IF Moving THEN {data} ELSE {}
  BY <1>1, <1>2 DEF Events
<1>5. Events(Held) = IF bundle = 0 THEN {} ELSE {bundle}
  BY <1>1 DEF Held, Events
<1>6. /\ returned \o InTransit \in Seq(Nat)
      /\ Events(returned \o InTransit) = Events(returned) \cup Events(InTransit)
  BY <1>1, <1>3, EventsConcat
<1>7. /\ (returned \o InTransit) \o data_queue_ \in Seq(Nat)
      /\ Events((returned \o InTransit) \o data_queue_)
           = Events(returned) \cup Events(InTransit) \cup Events(data_queue_)
  <2>1. (returned \o InTransit) \o data_queue_ \in Seq(Nat)
    BY <1>1, <1>6
  <2>2. Events((returned \o InTransit) \o data_queue_)
          = Events(returned \o InTransit) \cup Events(data_queue_)
    BY <1>1, <1>6, EventsConcat
  <2> QED
    BY <1>6, <2>1, <2>2
<1>8. Events(((returned \o InTransit) \o data_queue_) \o Held)
        = Events(returned) \cup Events(InTransit) \cup Events(data_queue_) \cup Events(Held)
  BY <1>3, <1>7, EventsConcat
<1> QED
  BY <1>4, <1>5, <1>8 DEF InOrder, Kept

LEMMA HeldOnlyStep == TypeInv /\ HeldOnlyInv /\ [Next]_vars => HeldOnlyInv'
<1> SUFFICES ASSUME TypeInv, HeldOnlyInv, [Next]_vars PROVE HeldOnlyInv'
  OBVIOUS
<1> USE DEF HeldOnlyInv, queueVars, workVars, popVars, ctlVars
<1>1. CASE WorkLoop
  BY <1>1 DEF WorkLoop, TestLive, TestGo, Trigger, Poll, Arm, DumpFirst, GetEvent,
    WorkLock, Push, RaiseFlag, Drop, WorkUnlock, Exit, Work
<1>2. CASE RunControl
  BY <1>2 DEF RunControl, StartWorker, StopWorker, StopThread, ClearLive, Join,
    SetLive, Spawn, Control, TypeInv, JoinedInv
<1>3. ASSUME NEW c \in Clients, ClientCall(c) \/ ClientInCall(c) PROVE HeldOnlyInv'
  BY <1>3 DEF ClientCall, ClientInCall, HasEvent, DataAvailable, PopLock,
    PopNothing, PopFront, PopFlag, PopUnlock, PopReturn, FlushLock, FlushQueue,
    FlushFlag, FlushUnlock
<1>4. CASE UNCHANGED vars
  BY <1>4 DEF vars
<1> QED
  BY <1>1, <1>2, <1>3, <1>4 DEF Next

(* In order, an event at the head of the queue or on it is nowhere else.   *)
LEMMA Apart ==
  ASSUME TypeInv, OrderInv
  PROVE  /\ Events(data_queue_) \cap Events(returned) = {}
         /\ Moving => data \notin Events(data_queue_)
         /\ bundle # 0 => bundle \notin Events(data_queue_)
         /\ data_queue_ # <<>> => Head(data_queue_) \notin Events(Tail(data_queue_))
<1>1. returned \in Seq(Nat) /\ data_queue_ \in Seq(Nat) /\ data \in Nat /\ bundle \in Nat
  BY WfdBaseAssumption DEF TypeInv, TypeOK
<1>2. /\ \A i \in 1 .. Len(returned) : returned[i] \in Nat
      /\ \A j \in 1 .. Len(data_queue_) : data_queue_[j] \in Nat
  BY <1>1
<1>3. Events(data_queue_) \cap Events(returned) = {}
  BY <1>2 DEF OrderInv, Before, Events
<1>4. Moving => data \notin Events(data_queue_)
  BY <1>1, <1>2 DEF OrderInv, Events
<1>5. bundle # 0 => bundle \notin Events(data_queue_)
  BY <1>1, <1>2 DEF OrderInv, Events
<1>6. ASSUME data_queue_ # <<>>, Head(data_queue_) \in Events(Tail(data_queue_)) PROVE FALSE
  <2>1. /\ Len(data_queue_) \in Nat /\ Head(data_queue_) = data_queue_[1]
        /\ Len(Tail(data_queue_)) = Len(data_queue_) - 1
        /\ \A i \in 1 .. Len(Tail(data_queue_)) : Tail(data_queue_)[i] = data_queue_[i + 1]
    BY <1>1, <1>6, QueueFacts
  <2>2. PICK i \in 1 .. Len(Tail(data_queue_)) : data_queue_[1] = Tail(data_queue_)[i]
    BY <1>6, <2>1 DEF Events
  <2>3. 1 \in 1 .. Len(data_queue_) /\ i + 1 \in 1 .. Len(data_queue_) /\ 1 < i + 1
    BY <2>1
  <2>4. data_queue_[1] < data_queue_[i + 1]
    BY <2>3 DEF OrderInv, Increasing
  <2> QED
    BY <1>2, <2>1, <2>2, <2>3, <2>4
<1> QED
  BY <1>3, <1>4, <1>5, <1>6

(* Every event that was read from the board is somewhere, in one place:    *)
(* returned, on its way, waiting, or discarded on purpose; with one        *)
(* client, on every device.                                                *)
THEOREM NoEventLostCorrect ==
  ASSUME NEW only, Clients = {only}
  PROVE  Spec => []NoEventLost
<1> USE WfdBaseAssumption
<1>1. Init => LostInv /\ HeldOnlyInv
  BY DEF Init, LostInv, HeldOnlyInv, Kept, Moving, Events
<1>2. TypeInv /\ OrderInv /\ HeldOnlyInv /\ LostInv /\ [Next]_vars => LostInv'
  <2> SUFFICES ASSUME TypeInv, OrderInv, HeldOnlyInv, LostInv, [Next]_vars PROVE LostInv'
    OBVIOUS
  <2>1. /\ returned \in Seq(Nat) /\ data_queue_ \in Seq(Nat)
        /\ data \in Nat /\ bundle \in Nat /\ produced \in Nat
    BY DEF TypeInv, TypeOK
  <2>2. ASSUME Kept' = Kept, UNCHANGED <<discarded, produced>> PROVE LostInv'
    BY <2>2 DEF LostInv
  <2>3. ASSUME UNCHANGED <<returned, data_queue_, bundle>>, Moving' <=> Moving,
               Moving => UNCHANGED data
        PROVE  Kept' = Kept
    <3>1. (IF Moving' THEN {data'} ELSE {}) = (IF Moving THEN {data} ELSE {})
      BY <2>3
    <3>2. /\ Events(returned)' = Events(returned)
          /\ Events(data_queue_)' = Events(data_queue_)
      BY <2>3
    <3> QED
      BY <2>3, <3>1, <3>2 DEF Kept
  <2>4. CASE WorkLoop
    <3>0. UNCHANGED <<client_pc, returned, data>> /\ (Moving' <=> Moving)
      BY <2>4 DEF WorkLoop, TestLive, TestGo, Trigger, Poll, Arm, DumpFirst, GetEvent,
        WorkLock, Push, RaiseFlag, Drop, WorkUnlock, Exit, queueVars, popVars, Moving
    <3>1. CASE DumpFirst
      <4>1. /\ UNCHANGED <<data_queue_, bundle>> /\ produced' = produced + 1
            /\ discarded' = discarded \cup {produced + 1}
        BY <3>1 DEF DumpFirst, queueVars
      <4>2. Kept' = Kept
        BY <2>3, <3>0, <4>1
      <4>3. produced + 1 \notin Kept \cup discarded
        BY <2>1 DEF LostInv
      <4>4. 1 .. (produced + 1) = (1 .. produced) \cup {produced + 1}
        BY <2>1
      <4> QED
        BY <4>1, <4>2, <4>3, <4>4 DEF LostInv
    <3>2. CASE GetEvent
      <4>1. /\ UNCHANGED <<data_queue_, discarded>> /\ produced' = produced + 1
            /\ bundle = 0 /\ bundle' = produced + 1
        BY <3>2 DEF GetEvent, queueVars, Work, HeldOnlyInv
      <4>2. Kept' = Kept \cup {produced + 1}
        BY <2>1, <3>0, <4>1 DEF Kept, Events
      <4>3. produced + 1 \notin Kept \cup discarded
        BY <2>1 DEF LostInv
      <4>4. 1 .. (produced + 1) = (1 .. produced) \cup {produced + 1}
        BY <2>1
      <4> QED
        BY <4>1, <4>2, <4>3, <4>4 DEF LostInv
    <3>3. CASE Push
      <4>1. /\ data_queue_' = Append(data_queue_, bundle) /\ bundle' = 0
            /\ UNCHANGED <<produced, discarded>> /\ bundle # 0
        BY <3>3 DEF Push, Work, TypeInv, HeldInv
      <4>2. Events(data_queue_)' = Events(data_queue_) \cup {bundle}
        BY <2>1, <4>1, EventsAppend
      <4>3. Kept' = Kept
        BY <3>0, <4>1, <4>2 DEF Kept
      <4> QED
        BY <2>2, <4>1, <4>3
    <3>4. CASE Drop /\ Len(data_queue_) > kMaxQueueSize
      <4>1. /\ data_queue_' = Tail(data_queue_) /\ UNCHANGED <<bundle, produced>>
            /\ discarded' = discarded \cup {Head(data_queue_)} /\ data_queue_ # <<>>
        BY <2>1, <3>4 DEF Drop
      <4>2. Events(data_queue_) = {Head(data_queue_)} \cup Events(data_queue_)'
        BY <2>1, <4>1, EventsTail
      <4>3. Kept = {Head(data_queue_)} \cup Kept'
        BY <3>0, <4>1, <4>2 DEF Kept
      <4>4. Head(data_queue_) \notin Kept'
        BY <3>0, <4>1, <4>2, Apart DEF Kept
      <4> QED
        BY <4>1, <4>3, <4>4 DEF LostInv
    <3>5. CASE ~DumpFirst /\ ~GetEvent /\ ~Push
               /\ ~(Drop /\ Len(data_queue_) > kMaxQueueSize)
      <4>1. UNCHANGED <<data_queue_, bundle, produced, discarded>>
        BY <2>4, <3>5 DEF WorkLoop, TestLive, TestGo, Trigger, Poll, Arm, WorkLock,
          RaiseFlag, Drop, WorkUnlock, Exit, queueVars
      <4> QED
        BY <2>2, <2>3, <3>0, <4>1
    <3> QED
      BY <3>1, <3>2, <3>3, <3>4, <3>5
  <2>5. CASE RunControl \/ UNCHANGED vars
    <3>1. UNCHANGED <<returned, data_queue_, data, bundle, produced, client_pc, discarded>>
      BY <2>5 DEF RunControl, StartWorker, StopWorker, StopThread, ClearLive, Join,
        SetLive, Spawn, vars, queueVars, workVars, popVars
    <3>2. Moving' <=> Moving
      BY <3>1 DEF Moving
    <3> QED
      BY <2>2, <2>3, <3>1, <3>2
  <2>6. ASSUME NEW c \in Clients, ClientCall(c) \/ ClientInCall(c) PROVE LostInv'
    <3>0. /\ \A d \in Clients : d = c
          /\ client_pc \in [Clients -> ClientPCs]
          /\ Moving <=> client_pc[c] \in {"popFlag", "popUnlock", "return"}
      BY Clients = {only} DEF Moving, TypeInv, TypeOK
    <3>1. Moving' <=> client_pc'[c] \in {"popFlag", "popUnlock", "return"}
      BY <3>0 DEF Moving
    <3>2. UNCHANGED <<bundle, produced>>
      BY <2>6 DEF ClientCall, ClientInCall, HasEvent, DataAvailable, PopLock, PopNothing,
        PopFront, PopFlag, PopUnlock, PopReturn, FlushLock, FlushQueue, FlushFlag,
        FlushUnlock, workVars
    <3>3. CASE PopFront(c)
      <4>1. /\ data_queue_ # <<>> /\ data' = Head(data_queue_)
            /\ data_queue_' = Tail(data_queue_) /\ UNCHANGED <<returned, discarded>>
        BY <3>3 DEF PopFront
      <4>2. ~Moving /\ Moving'
        BY <3>0, <3>1, <3>3 DEF PopFront, Client
      <4>3. Events(data_queue_) = {data'} \cup Events(data_queue_)'
        BY <2>1, <4>1, EventsTail
      <4>4. Kept' = Kept
        BY <3>2, <4>1, <4>2, <4>3 DEF Kept
      <4> QED
        BY <2>2, <3>2, <4>1, <4>4
    <3>4. CASE PopReturn(c)
      <4>1. /\ Moving /\ ~Moving' /\ returned' = Append(returned, data)
            /\ UNCHANGED <<data_queue_, discarded>>
        BY <3>0, <3>1, <3>4 DEF PopReturn, Client, queueVars
      <4>2. Events(returned)' = Events(returned) \cup {data}
        BY <2>1, <4>1, EventsAppend
      <4>3. Events(data_queue_)' = Events(data_queue_)
        BY <4>1
      <4>4. Kept' = Kept
        BY <3>2, <4>1, <4>2, <4>3 DEF Kept
      <4> QED
        BY <2>2, <3>2, <4>1, <4>4
    <3>5. CASE FlushQueue(c)
      <4>1. /\ ~Moving /\ ~Moving' /\ data_queue_' = <<>> /\ UNCHANGED <<returned, data>>
            /\ discarded' = discarded \cup Events(data_queue_)
        BY <3>0, <3>1, <3>5 DEF FlushQueue, Client, Events
      <4>2. Events(data_queue_)' = {} /\ Events(returned)' = Events(returned)
        BY <4>1 DEF Events
      <4>3. Kept = Kept' \cup Events(data_queue_)
        BY <3>2, <4>1, <4>2 DEF Kept
      <4>4. Kept' \cap Events(data_queue_) = {}
        BY <3>2, <4>1, <4>2, Apart DEF Kept
      <4> QED
        BY <3>2, <4>1, <4>3, <4>4 DEF LostInv
    <3>6. CASE ~PopFront(c) /\ ~PopReturn(c) /\ ~FlushQueue(c)
      <4>1. UNCHANGED <<returned, data_queue_, data, discarded>> /\ (Moving' <=> Moving)
        BY <2>6, <3>0, <3>1, <3>6 DEF ClientCall, ClientInCall, HasEvent, DataAvailable,
          PopLock, PopNothing, PopFlag, PopUnlock, FlushLock, FlushFlag, FlushUnlock,
          Client, queueVars
      <4> QED
        BY <2>2, <2>3, <3>2, <4>1
    <3> QED
      BY <3>3, <3>4, <3>5, <3>6
  <2> QED
    BY <2>4, <2>5, <2>6 DEF Next
<1> QED
  BY <1>1, <1>2, HeldOnlyStep, LostParts, TypeInvariant, OrderInvariant, PTL DEF Spec

--------------------------------------------------------------------------------
(* The abstract queue.                                                     *)

(* A thread that drops is one of a device that drops, and it drops before  *)
(* it reads again.                                                         *)
BoundInv ==
  /\ work_pc = "drop" => DropsOldest
  /\ DropsOldest => QueueBounded

(* The queue of a device that drops is at its limit before the next event  *)
(* is pushed (Sis3350, "drop old events").                                 *)
LEMMA BoundInvariant == Spec => []BoundInv
<1> USE WfdBaseAssumption DEF BoundInv, QueueBounded
<1>1. Init => BoundInv
  BY DEF Init
<1>2. TypeInv /\ BoundInv /\ [Next]_vars => BoundInv'
  <2> SUFFICES ASSUME TypeInv, BoundInv, [Next]_vars PROVE BoundInv'
    OBVIOUS
  <2>1. data_queue_ \in Seq(Nat) /\ bundle \in Nat /\ kMaxQueueSize \in Nat
    BY DEF TypeInv, TypeOK
  <2>2. CASE Push
    <3>1. work_pc = "push" /\ work_pc' = "flag" /\ data_queue_' = Append(data_queue_, bundle)
      BY <2>2 DEF Push, Work
    <3> QED
      BY <2>1, <3>1, QueueFacts
  <2>3. CASE Drop
    <3>1. work_pc = "drop" /\ work_pc' = "unlock"
      BY <2>3 DEF Drop, Work
    <3>2. CASE Len(data_queue_) > kMaxQueueSize
      <4>1. data_queue_' = Tail(data_queue_) /\ data_queue_ # <<>>
        BY <2>1, <2>3, <3>2 DEF Drop
      <4> QED
        BY <2>1, <3>1, <4>1, QueueFacts
    <3>3. CASE ~(Len(data_queue_) > kMaxQueueSize)
      <4>1. UNCHANGED data_queue_
        BY <2>3, <3>3 DEF Drop
      <4> QED
        BY <2>1, <3>1, <3>3, <4>1, QueueFacts
    <3> QED
      BY <3>2, <3>3
  <2>4. CASE RaiseFlag
    BY <2>4 DEF RaiseFlag, Work
  <2>5. CASE WorkLoop /\ ~Push /\ ~Drop /\ ~RaiseFlag
    <3>1. /\ UNCHANGED data_queue_ /\ work_pc \notin {"flag", "drop"}
          /\ work_pc' \notin {"flag", "drop"}
      BY <2>5 DEF WorkLoop, TestLive, TestGo, Trigger, Poll, Arm, DumpFirst, GetEvent,
        WorkLock, WorkUnlock, Exit, Work, LoopStart, queueVars
    <3> QED
      BY <3>1
  <2>6. CASE RunControl
    <3>1. UNCHANGED data_queue_ /\ work_pc' \in {work_pc, "off", "first", "top"}
          /\ (work_pc \in {"flag", "drop"} => UNCHANGED work_pc \/ Spawn)
      BY <2>6 DEF RunControl, StartWorker, StopWorker, StopThread, ClearLive, Join,
        SetLive, Spawn, queueVars, workVars
    <3>2. Spawn => work_pc = "off"
      BY DEF Spawn, Control, TypeInv, JoinedInv
    <3> QED
      BY <3>1, <3>2
  <2>7. ASSUME NEW c \in Clients, ClientCall(c) \/ ClientInCall(c) PROVE BoundInv'
    <3>1. UNCHANGED work_pc
      BY <2>7 DEF ClientCall, ClientInCall, HasEvent, DataAvailable, PopLock, PopNothing,
        PopFront, PopFlag, PopUnlock, PopReturn, FlushLock, FlushQueue, FlushFlag,
        FlushUnlock, workVars
    <3>2. \/ UNCHANGED data_queue_ \/ data_queue_' = <<>>
          \/ data_queue_ # <<>> /\ data_queue_' = Tail(data_queue_)
      BY <2>7 DEF ClientCall, ClientInCall, HasEvent, DataAvailable, PopLock, PopNothing,
        PopFront, PopFlag, PopUnlock, PopReturn, FlushLock, FlushQueue, FlushFlag,
        FlushUnlock, queueVars
    <3>3. Len(data_queue_') <= Len(data_queue_)
      BY <2>1, <3>2, QueueFacts
    <3>4. Len(data_queue_) \in Nat /\ Len(data_queue_') \in Nat
      BY <2>1, <3>2, QueueFacts
    <3> QED
      BY <3>1, <3>3, <3>4
  <2>8. CASE UNCHANGED vars
    BY <2>8 DEF vars, queueVars, workVars
  <2> QED
    BY <2>2, <2>3, <2>4, <2>5, <2>6, <2>7, <2>8 DEF Next
<1> QED
  BY <1>1, <1>2, TypeInvariant, PTL DEF Spec

(* The queue of a Sis3350 holds one event more than kMaxQueueSize at most, *)
(* and that only inside the mutex, whatever its clients do.                *)
THEOREM QueueBoundedCorrect ==
  ASSUME DropsOldest
  PROVE  Spec => []QueueBounded
<1>1. BoundInv => QueueBounded
  BY DropsOldest DEF BoundInv
<1> QED
  BY <1>1, BoundInvariant, PTL

(* What was handed out, with the event on its way, is older than the event *)
(* that the work thread holds; so is what waits.                           *)
LEMMA BundleIsNewest ==
  ASSUME TypeInv, OrderInv, bundle # 0
  PROVE  bundle > Fifo!Newest
<1> USE WfdBaseAssumption
<1>1. /\ returned \in Seq(Nat) /\ data_queue_ \in Seq(Nat)
      /\ data \in Nat /\ bundle \in Nat
  BY DEF TypeInv, TypeOK
<1>2. CASE data_queue_ # <<>>
  <2>1. Len(data_queue_) \in 1 .. Len(data_queue_)
    BY <1>1, <1>2, QueueFacts
  <2> QED
    BY <1>1, <1>2, <2>1 DEF Fifo!Newest, OrderInv
<1>3. CASE data_queue_ = <<>>
  <2>1. CASE Moving
    <3>1. InTransit = <<data>> /\ returned \o InTransit = Append(returned, data)
      BY <1>1, <2>1 DEF InTransit, Moving
    <3>2. /\ Append(returned, data) # <<>>
          /\ Append(returned, data)[Len(Append(returned, data))] = data
      <4>1. /\ Len(returned) \in Nat /\ Len(Append(returned, data)) = Len(returned) + 1
            /\ Append(returned, data)[Len(returned) + 1] = data
        BY <1>1, QueueFacts
      <4>2. Append(returned, data) # <<>>
        BY <1>1, AppendProperties
      <4> QED
        BY <4>1, <4>2
    <3> QED
      BY <1>1, <1>3, <2>1, <3>1, <3>2 DEF Fifo!Newest, OrderInv
  <2>2. CASE ~Moving
    <3>1. returned \o InTransit = returned
      BY <1>1, <2>2 DEF InTransit, Moving
    <3>2. returned # <<>> => Len(returned) \in 1 .. Len(returned)
      BY <1>1, QueueFacts
    <3> QED
      BY <1>1, <1>3, <3>1, <3>2 DEF Fifo!Newest, OrderInv
  <2> QED
    BY <2>1, <2>2
<1> QED
  BY <1>2, <1>3

(* Every step is one of the abstract queue, or none.                       *)
LEMMA FifoStep ==
  ASSUME NEW only, Clients = {only}, TypeInv, OrderInv, BoundInv, [Next]_vars
  PROVE  [Fifo!Next]_(Fifo!fifoVars)
<1> USE WfdBaseAssumption
<1>1. /\ returned \in Seq(Nat) /\ data_queue_ \in Seq(Nat)
      /\ data \in Nat /\ bundle \in 0 .. MaxEvents /\ MaxEvents \in Nat
  BY DEF TypeInv, TypeOK
<1>2. ASSUME UNCHANGED <<returned, data_queue_>>, InTransit' = InTransit
      PROVE  UNCHANGED Fifo!fifoVars
  BY <1>2 DEF Fifo!fifoVars
<1>3. CASE WorkLoop
  <2>1. UNCHANGED <<client_pc, returned, data>> /\ InTransit' = InTransit
    BY <1>3 DEF WorkLoop, TestLive, TestGo, Trigger, Poll, Arm, DumpFirst, GetEvent,
      WorkLock, Push, RaiseFlag, Drop, WorkUnlock, Exit, queueVars, popVars, InTransit
  <2>2. CASE Push
    <3>1. /\ work_pc = "push" /\ bundle # 0 /\ data_queue_' = Append(data_queue_, bundle)
      BY <2>2 DEF Push, Work, TypeInv, HeldInv
    <3>2. DropsOldest => Len(data_queue_) <= kMaxQueueSize
      BY <1>1, <3>1 DEF BoundInv, QueueBounded
    <3>3. bundle \in 1 .. MaxEvents /\ bundle > Fifo!Newest
      BY <1>1, <3>1, BundleIsNewest
    <3>4. Fifo!Put
      BY <2>1, <3>1, <3>2, <3>3 DEF Fifo!Put
    <3> QED
      BY <3>4 DEF Fifo!Next
  <2>3. CASE Drop /\ Len(data_queue_) > kMaxQueueSize
    <3>1. DropsOldest /\ data_queue_' = Tail(data_queue_)
      BY <2>3 DEF Drop, Work, BoundInv
    <3>2. Fifo!DropOldest
      BY <2>1, <2>3, <3>1 DEF Fifo!DropOldest
    <3> QED
      BY <3>2 DEF Fifo!Next
  <2>4. CASE ~Push /\ ~(Drop /\ Len(data_queue_) > kMaxQueueSize)
    <3>1. UNCHANGED data_queue_
      BY <1>3, <2>4 DEF WorkLoop, TestLive, TestGo, Trigger, Poll, Arm, DumpFirst,
        GetEvent, WorkLock, RaiseFlag, Drop, WorkUnlock, Exit, queueVars
    <3> QED
      BY <1>2, <2>1, <3>1
  <2> QED
    BY <2>2, <2>3, <2>4
<1>4. CASE RunControl \/ UNCHANGED vars
  <2>1. UNCHANGED <<returned, data_queue_, data, client_pc>>
    BY <1>4 DEF RunControl, StartWorker, StopWorker, StopThread, ClearLive, Join,
      SetLive, Spawn, vars, queueVars, popVars
  <2> QED
    BY <1>2, <2>1 DEF InTransit
<1>5. ASSUME NEW c \in Clients, ClientCall(c) \/ ClientInCall(c)
      PROVE  [Fifo!Next]_(Fifo!fifoVars)
  <2>1. /\ \A d \in Clients : d = c
        /\ client_pc \in [Clients -> ClientPCs]
        /\ InTransit = (IF client_pc[c] \in {"popFlag", "popUnlock", "return"}
                         THEN <<data>> ELSE <<>>)
    BY Clients = {only} DEF InTransit, TypeInv, TypeOK
  <2>2. InTransit' = (IF client_pc'[c] \in {"popFlag", "popUnlock", "return"}
                      THEN <<data'>> ELSE <<>>)
    BY <2>1 DEF InTransit
  <2>3. CASE PopFront(c)
    <3>1. /\ client_pc[c] = "pop" /\ client_pc'[c] = "popFlag"
          /\ data_queue_ # <<>> /\ data' = Head(data_queue_)
          /\ data_queue_' = Tail(data_queue_) /\ UNCHANGED returned
      BY <2>1, <2>3 DEF PopFront, Client
    <3>2. returned \o InTransit = returned /\ returned' \o InTransit' = returned \o <<data'>>
      BY <1>1, <2>1, <2>2, <3>1
    <3>3. data' \in Nat
      BY <1>1, <3>1, QueueFacts
    <3>4. returned' \o InTransit' = Append(returned \o InTransit, Head(data_queue_))
      BY <1>1, <3>1, <3>2, <3>3
    <3>5. Fifo!Take
      BY <3>1, <3>4 DEF Fifo!Take
    <3> QED
      BY <3>5 DEF Fifo!Next
  <2>4. CASE PopReturn(c)
    <3>1. /\ client_pc[c] = "return" /\ client_pc'[c] = "idle"
          /\ returned' = Append(returned, data) /\ UNCHANGED <<data_queue_, data>>
      BY <2>1, <2>4 DEF PopReturn, Client, queueVars
    <3>2. returned \o InTransit = Append(returned, data)
      BY <1>1, <2>1, <3>1
    <3>3. returned' \o InTransit' = Append(returned, data)
      BY <1>1, <2>2, <3>1
    <3> QED
      BY <3>1, <3>2, <3>3 DEF Fifo!fifoVars
  <2>5. CASE FlushQueue(c)
    <3>1. InTransit' = InTransit /\ data_queue_' = <<>> /\ UNCHANGED returned
      BY <2>1, <2>2, <2>5 DEF FlushQueue, Client
    <3>2. Fifo!Clear
      BY <3>1 DEF Fifo!Clear
    <3> QED
      BY <3>2 DEF Fifo!Next
  <2>6. CASE ~PopFront(c) /\ ~PopReturn(c) /\ ~FlushQueue(c)
    <3>1. UNCHANGED <<returned, data_queue_, data>>
      BY <1>5, <2>6 DEF ClientCall, ClientInCall, HasEvent, DataAvailable, PopLock,
        PopNothing, PopFlag, PopUnlock, FlushLock, FlushFlag, FlushUnlock, queueVars
    <3>2. client_pc'[c] \in {"popFlag", "popUnlock", "return"}
            <=> client_pc[c] \in {"popFlag", "popUnlock", "return"}
      BY <1>5, <2>1, <2>6 DEF ClientCall, ClientInCall, HasEvent, DataAvailable,
        PopLock, PopNothing, PopFlag, PopUnlock, FlushLock, FlushFlag, FlushUnlock, Client
    <3> QED
      BY <1>2, <2>1, <2>2, <3>1, <3>2
  <2> QED
    BY <2>3, <2>4, <2>5, <2>6
<1> QED
  BY <1>3, <1>4, <1>5 DEF Next

(* With one client a digitizer of any class is the queue it promises to be *)
(* (wfd_base.hh, "stack to hold device events"): threads, mutex and flag   *)
(* add nothing to it and take nothing away.                                *)
THEOREM FifoSpecCorrect ==
  ASSUME NEW only, Clients = {only}
  PROVE  Spec => FifoSpec
<1>1. Init => Fifo!Init
  BY DEF Init, Fifo!Init, InTransit
<1>2. TypeInv /\ OrderInv /\ BoundInv /\ [Next]_vars => [Fifo!Next]_(Fifo!fifoVars)
  BY FifoStep
<1>3. Spec => [](TypeInv /\ OrderInv /\ BoundInv)
  BY TypeInvariant, OrderInvariant, BoundInvariant, PTL
<1> QED
  BY <1>1, <1>2, <1>3, PTL DEF Spec, FifoSpec, Fifo!Spec

(***************************************************************************)
(* Sis3302.  The digitizer joined to its board is still a WfdBase, so what *)
(* is proved above holds of it; and the board is triggered by software no  *)
(* more often than it was asked, whatever fails on the bus.                *)
(***************************************************************************)
USE DEF Work

(* The steps on the board are steps of WorkLoop(). *)
LEMMA BoardStepIsWorkStep ==
  ASSUME SkipTrigger \/ WriteTrigger \/ ClearTrigger \/ PollBoard \/ ArmBoard \/ ReadBoard
  PROVE  WorkLoop
<1>1. CASE SkipTrigger \/ WriteTrigger \/ ClearTrigger
  BY <1>1 DEF SkipTrigger, WriteTrigger, ClearTrigger, WorkLoop
<1>2. CASE PollBoard
  <2>1. (msgEvent' => MayPoll) /\ Poll(msgEvent')
    BY <1>2 DEF PollBoard
  <2>2. CASE msgEvent'
    <3>1. MayPoll /\ Poll(TRUE)
      BY <2>1, <2>2 DEF Poll
    <3> QED
      BY <3>1 DEF WorkLoop
  <2>3. CASE ~msgEvent'
    <3>1. Poll(FALSE)
      BY <2>1, <2>3 DEF Poll
    <3> QED
      BY <3>1 DEF WorkLoop
  <2> QED
    BY <2>2, <2>3
<1>3. CASE ArmBoard
  BY <1>3 DEF ArmBoard, WorkLoop
<1>4. CASE ReadBoard
  BY <1>4 DEF ReadBoard, WorkLoop
<1> QED
  BY <1>1, <1>2, <1>3, <1>4

LEMMA DeviceStepIsStep == [DeviceNext]_deviceVars => [Next]_vars
<1> SUFFICES ASSUME [DeviceNext]_deviceVars PROVE [Next]_vars
  OBVIOUS
<1>1. CASE ExternalTrigger \/ SoftwareTrigger
  BY <1>1 DEF ExternalTrigger, SoftwareTrigger
<1>2. CASE SkipTrigger \/ WriteTrigger \/ ClearTrigger \/ PollBoard \/ ArmBoard \/ ReadBoard
  BY <1>2, BoardStepIsWorkStep DEF Next
<1>3. CASE OtherStep
  BY <1>3 DEF OtherStep, Next, WorkLoop
<1>4. CASE UNCHANGED deviceVars
  BY <1>4 DEF deviceVars
<1> QED
  BY <1>1, <1>2, <1>3, <1>4 DEF DeviceNext

(* A Sis3302 with its board does what WfdBase allows: the board only says  *)
(* when a poll finds an event.                                             *)
THEOREM DeviceIsWfdBase == DeviceSpec => Spec
<1>1. DeviceInit => Init
  BY DEF DeviceInit
<1> QED
  BY <1>1, DeviceStepIsStep, PTL DEF DeviceSpec, Spec

(* So a Sis3302 neither hides an event from a builder nor promises one     *)
(* that is not there, and queues at most one after it was stopped.         *)
THEOREM DeviceQueueCorrect ==
  DeviceSpec => [](TypeOK /\ NoHiddenEvent /\ NoPhantomEvent /\ AtMostOneLate)
<1>1. FlagSetByCtor /\ LoopTestsGo
  BY Sis3302Assumption DEF FlagSetByCtor, LoopTestsGo
<1>2. Spec => []NoPhantomEvent
  BY <1>1, NoPhantomEventCorrect
<1>3. Spec => []AtMostOneLate
  BY <1>1, AtMostOneLateCorrect
<1> QED
  BY <1>2, <1>3, DeviceIsWfdBase, TypeCorrect, NoHiddenEventCorrect, PTL

(* With one client its events come out in order, none gets lost, and one   *)
(* that was seen is still there when it is popped.                         *)
THEOREM DeviceEventsCorrect ==
  ASSUME NEW only, Clients = {only}
  PROVE  DeviceSpec => [](OldestFirst /\ NoEventLost /\ SeenEventIsThere)
<1>1. FlagSetByCtor
  BY Sis3302Assumption DEF FlagSetByCtor
<1>2. Spec => []OldestFirst
  BY OldestFirstCorrect
<1>3. Spec => []NoEventLost
  BY NoEventLostCorrect
<1>4. Spec => []SeenEventIsThere
  BY <1>1, SeenEventIsThereCorrect
<1> QED
  BY <1>2, <1>3, <1>4, DeviceIsWfdBase, PTL

(* And to one client it is the abstract queue: neither the rearming before *)
(* the readout (EventAvailable) nor a failing access shows in its events.  *)
THEOREM DeviceIsFifo ==
  ASSUME NEW only, Clients = {only}
  PROVE  DeviceSpec => FifoSpec
<1>1. Spec => FifoSpec
  BY FifoSpecCorrect
<1> QED
  BY <1>1, DeviceIsWfdBase

--------------------------------------------------------------------------------
(* A request that still stands, outside the window between the write of    *)
(* the key and its clearing, is one the key was not yet written for.       *)
KeyInv ==
  /\ asked \in Nat /\ keyed \in Nat
  /\ generate_software_trigger_ \in BOOLEAN
  /\ keyed <= asked
  /\ generate_software_trigger_ /\ work_pc # "clear" => keyed < asked

(* The key is written at most once per request: a failed write leaves the  *)
(* request standing, a write that succeeded is not repeated.               *)
THEOREM NoUnaskedTriggerCorrect == DeviceSpec => []NoUnaskedTrigger
<1>1. DeviceInit => KeyInv
  <2> SUFFICES ASSUME DeviceInit PROVE KeyInv
    OBVIOUS
  <2>1. generate_software_trigger_ = FALSE
    BY DEF DeviceInit
  <2>2. generate_software_trigger_ \in BOOLEAN
    BY <2>1
  <2>3. asked = 0 /\ keyed = 0
    BY DEF DeviceInit
  <2> QED
    BY <2>1, <2>2, <2>3 DEF KeyInv
<1>2. TypeInv /\ KeyInv /\ [DeviceNext]_deviceVars => KeyInv'
  <2> SUFFICES ASSUME TypeInv, KeyInv, [DeviceNext]_deviceVars PROVE KeyInv'
    OBVIOUS
  <2> USE DEF KeyInv, TypeInv, JoinedInv, softVars, vars, workVars
  <2>1. CASE ExternalTrigger
    BY <2>1 DEF ExternalTrigger
  <2>2. CASE SoftwareTrigger
    BY <2>2 DEF SoftwareTrigger
  <2>3. CASE SkipTrigger
    BY <2>3 DEF SkipTrigger
  <2>4. CASE WriteTrigger
    BY <2>4 DEF WriteTrigger, Requested
  <2>5. CASE ClearTrigger
    BY <2>5 DEF ClearTrigger
  <2>6. CASE PollBoard
    BY <2>6 DEF PollBoard, Poll
  <2>7. CASE ArmBoard
    BY <2>7 DEF ArmBoard, Arm
  <2>8. CASE ReadBoard
    BY <2>8 DEF ReadBoard, DumpFirst, GetEvent
  <2>9. CASE OtherStep
    <3>1. UNCHANGED <<asked, keyed, generate_software_trigger_>>
      BY <2>9 DEF OtherStep
    <3>2. work_pc = "clear" => work_pc' = "clear"
      <4>1. CASE TestLive \/ TestGo \/ WorkLock \/ Push \/ RaiseFlag \/ Drop
                 \/ WorkUnlock \/ Exit
        BY <4>1 DEF TestLive, TestGo, WorkLock, Push, RaiseFlag, Drop, WorkUnlock, Exit
      <4>2. CASE RunControl
        BY <4>2 DEF RunControl, StartWorker, StopWorker, StopThread, ClearLive,
          Join, SetLive, Spawn, Control
      <4>3. ASSUME NEW c \in Clients, ClientCall(c) \/ ClientInCall(c)
            PROVE UNCHANGED work_pc
        BY <4>3 DEF ClientCall, ClientInCall, HasEvent, DataAvailable, PopLock,
          PopNothing, PopFront, PopFlag, PopUnlock, PopReturn, FlushLock,
          FlushQueue, FlushFlag, FlushUnlock
      <4> QED
        BY <2>9, <4>1, <4>2, <4>3 DEF OtherStep
    <3> QED
      BY <3>1, <3>2
  <2>10. CASE UNCHANGED deviceVars
    BY <2>10 DEF deviceVars
  <2> QED
    BY <2>1, <2>2, <2>3, <2>4, <2>5, <2>6, <2>7, <2>8, <2>9, <2>10 DEF DeviceNext
<1>3. KeyInv => NoUnaskedTrigger
  BY DEF KeyInv, NoUnaskedTrigger
<1>4. DeviceSpec => []TypeInv
  BY DeviceIsWfdBase, TypeInvariant, PTL
<1> QED
  BY <1>1, <1>2, <1>3, <1>4, PTL DEF DeviceSpec

--------------------------------------------------------------------------------
(* The records, with spaced triggers and a bus that answers.               *)

(* The record in the memory was not read yet as long as the board is not   *)
(* armed; and still not when it was rearmed for a readout that is to come. *)
Unread == ~armed \/ Reading

BoardOK ==
  /\ content \in Seq(Nat) /\ recorded \in Nat /\ memory = recorded
  /\ armed \in BOOLEAN

ArmingInv ==
  /\ work_pc \in {"arm", "firstArm"} => ~armed
  /\ Reading => armed

ReadInv ==
  /\ Increasing(content)
  /\ \A i \in 1 .. Len(content) :
       content[i] <= recorded /\ (Unread => content[i] < recorded)
  /\ \A r \in 1 .. recorded :
       (r = recorded /\ Unread) \/ \E i \in 1 .. Len(content) : content[i] = r

RecordInv == BoardOK /\ ArmingInv /\ ReadInv

(* A new record comes to a board that is armed and not being read.         *)
LEMMA RecordStep ==
  ASSUME RecordInv, armed, ~Reading, Record, UNCHANGED content,
         work_pc' \notin {"get", "firstGet"}
  PROVE  RecordInv'
<1>1. recorded' = recorded + 1 /\ memory' = recorded + 1 /\ armed' = FALSE
  BY DEF Record
<1>2. BoardOK' /\ ArmingInv'
  <2>1. ~armed' /\ armed' \in BOOLEAN
    BY <1>1
  <2>2. ~Reading'
    BY DEF Reading
  <2>3. content' \in Seq(Nat) /\ recorded' \in Nat /\ memory' = recorded'
    BY <1>1 DEF RecordInv, BoardOK
  <2> QED
    BY <2>1, <2>2, <2>3 DEF BoardOK, ArmingInv
<1>3. Unread' /\ ~Unread
  BY <1>1 DEF Unread
<1>4. \A i \in 1 .. Len(content) : content[i] \in Nat /\ content[i] <= recorded
  BY DEF RecordInv, BoardOK, ReadInv
<1>5. \A r \in 1 .. recorded : \E i \in 1 .. Len(content) : content[i] = r
  BY <1>3 DEF RecordInv, ReadInv
<1>6. recorded \in Nat /\ Increasing(content)
  BY DEF RecordInv, BoardOK, ReadInv
<1>7. ReadInv'
  <2>1. Increasing(content)'
    BY <1>6 DEF Increasing
  <2>2. \A i \in 1 .. Len(content') : content'[i] <= recorded' /\ content'[i] < recorded'
    BY <1>1, <1>4, <1>6
  <2>3. \A r \in 1 .. recorded' : r = recorded' \/ \E i \in 1 .. Len(content') : content'[i] = r
    BY <1>1, <1>5, <1>6
  <2> QED
    BY <1>3, <2>1, <2>2, <2>3 DEF ReadInv
<1> QED
  BY <1>2, <1>7 DEF RecordInv

(* The readout takes the record that is in the memory, after the rearm.    *)
LEMMA ReadStep ==
  ASSUME RecordInv, Reading, work_pc' \notin {"arm", "firstArm", "get", "firstGet"},
         content' = Append(content, memory), UNCHANGED boardVars
  PROVE  RecordInv'
<1>1. /\ content \in Seq(Nat) /\ recorded \in Nat /\ memory = recorded
      /\ armed /\ Unread
      /\ UNCHANGED <<armed, memory, recorded>>
  BY DEF RecordInv, BoardOK, ArmingInv, Unread, boardVars
<1>2. /\ Len(content) \in Nat /\ Len(content') = Len(content) + 1
      /\ content'[Len(content) + 1] = recorded
      /\ \A i \in 1 .. Len(content) : content'[i] = content[i]
  BY <1>1, QueueFacts
<1>3. \A i \in 1 .. Len(content) : content[i] < recorded
  BY <1>1 DEF RecordInv, ReadInv
<1>4. Increasing(content)'
  BY <1>1, <1>3, IncreasingAppend DEF RecordInv, ReadInv, Increasing
<1>5. ~Unread'
  BY <1>1 DEF Unread, Reading
<1>6. \A i \in 1 .. Len(content') : content'[i] <= recorded
  BY <1>1, <1>2, <1>3
<1>7. \A r \in 1 .. recorded : \E i \in 1 .. Len(content') : content'[i] = r
  <2> SUFFICES ASSUME NEW r \in 1 .. recorded
               PROVE  \E i \in 1 .. Len(content') : content'[i] = r
    OBVIOUS
  <2>1. CASE r = recorded
    <3>1. Len(content) + 1 \in 1 .. Len(content')
      BY <1>2
    <3> QED
      BY <1>2, <2>1, <3>1
  <2>2. CASE r # recorded
    <3>1. PICK i \in 1 .. Len(content) : content[i] = r
      BY <2>2 DEF RecordInv, ReadInv
    <3>2. i \in 1 .. Len(content')
      BY <1>2
    <3> QED
      BY <1>2, <3>1, <3>2
  <2> QED
    BY <2>1, <2>2
<1>8. BoardOK' /\ ArmingInv'
  BY <1>1 DEF RecordInv, BoardOK, ArmingInv, Reading
<1> QED
  BY <1>1, <1>4, <1>5, <1>6, <1>7, <1>8 DEF RecordInv, ReadInv

(* A step that leaves the records alone.                                   *)
LEMMA SameRecordsStep ==
  ASSUME RecordInv, UNCHANGED <<memory, recorded, content>>, armed' \in BOOLEAN,
         ArmingInv', Unread' = Unread
  PROVE  RecordInv'
<1>1. BoardOK'
  BY DEF RecordInv, BoardOK
<1>2. ReadInv'
  BY DEF RecordInv, ReadInv, Increasing
<1> QED
  BY <1>1, <1>2 DEF RecordInv

LEMMA OtherStepAndReadout ==
  ASSUME TypeInv, OtherStep
  PROVE  /\ Reading' = Reading
         /\ work_pc' \in {"arm", "firstArm"} => work_pc \in {"arm", "firstArm"}
<1> USE DEF Reading
<1>1. CASE TestLive \/ TestGo \/ WorkLock \/ Push \/ RaiseFlag \/ Drop \/ WorkUnlock \/ Exit
  BY <1>1 DEF TestLive, TestGo, WorkLock, Push, RaiseFlag, Drop, WorkUnlock, Exit, LoopStart
<1>2. CASE RunControl
  <2>1. CASE Join \/ Spawn
    BY <2>1 DEF Join, Spawn, Control, TypeInv, JoinedInv
  <2>2. CASE StartWorker \/ StopWorker \/ StopThread \/ ClearLive \/ SetLive
    BY <2>2 DEF StartWorker, StopWorker, StopThread, ClearLive, SetLive, workVars
  <2> QED
    BY <1>2, <2>1, <2>2 DEF RunControl
<1>3. ASSUME NEW c \in Clients, ClientCall(c) \/ ClientInCall(c) PROVE UNCHANGED work_pc
  BY <1>3 DEF ClientCall, ClientInCall, HasEvent, DataAvailable, PopLock, PopNothing,
    PopFront, PopFlag, PopUnlock, PopReturn, FlushLock, FlushQueue, FlushFlag,
    FlushUnlock, workVars
<1> QED
  BY <1>1, <1>2, <1>3 DEF OtherStep

(* With spaced triggers and a bus that answers each record is read once,   *)
(* in order, and none is lost, whatever is stopped and started             *)
(* (EventAvailable arms the board before GetEvent reads it).               *)
THEOREM RecordsKeptCorrect ==
  ASSUME Spaced, ~BusFails
  PROVE  DeviceSpec => []RecordsKept
<1>1. DeviceInit => RecordInv
  <2> SUFFICES ASSUME DeviceInit PROVE RecordInv
    OBVIOUS
  <2>1. content = <<>> /\ recorded = 0 /\ memory = 0 /\ armed = FALSE /\ work_pc = "off"
    BY DEF DeviceInit, Init
  <2>2. ~armed /\ armed \in BOOLEAN
    BY <2>1
  <2>3. BoardOK
    BY <2>1, <2>2 DEF BoardOK
  <2>4. ArmingInv
    BY <2>1, <2>2 DEF ArmingInv, Reading
  <2>5. ReadInv
    BY <2>1 DEF ReadInv, Increasing
  <2> QED
    BY <2>3, <2>4, <2>5 DEF RecordInv
<1>2. TypeInv /\ RecordInv /\ [DeviceNext]_deviceVars => RecordInv'
  <2> SUFFICES ASSUME TypeInv, RecordInv, [DeviceNext]_deviceVars PROVE RecordInv'
    OBVIOUS
  <2>0. /\ armed \in BOOLEAN /\ (Reading => armed)
        /\ work_pc \in {"arm", "firstArm"} => ~armed
    BY DEF RecordInv, BoardOK, ArmingInv
  <2>1. ASSUME UNCHANGED <<boardVars, content>>, Reading' = Reading,
               work_pc' \in {"arm", "firstArm"} => work_pc \in {"arm", "firstArm"} \/ ~armed
        PROVE  RecordInv'
    <3>1. UNCHANGED <<armed, memory, recorded, content>> /\ Unread' = Unread
      BY <2>1 DEF boardVars, Unread
    <3>2. ArmingInv'
      BY <2>0, <2>1, <3>1 DEF ArmingInv
    <3> QED
      BY <2>0, <3>1, <3>2, SameRecordsStep
  <2>2. CASE ExternalTrigger
    <3>1. armed /\ ~Reading /\ Record /\ UNCHANGED <<content, work_pc>>
      BY <2>2, Spaced DEF ExternalTrigger, vars, workVars
    <3> QED
      BY <3>1, RecordStep DEF Reading
  <2>3. CASE SoftwareTrigger
    BY <2>1, <2>3 DEF SoftwareTrigger, vars, workVars, Reading
  <2>4. CASE SkipTrigger \/ ClearTrigger
    BY <2>1, <2>4 DEF SkipTrigger, ClearTrigger, Trigger, Reading
  <2>5. CASE WriteTrigger
    <3>1. work_pc = "trigger" /\ work_pc' = "clear" /\ UNCHANGED content /\ KeyStart
      BY <2>5 DEF WriteTrigger
    <3>2. CASE armed /\ recorded < MaxTriggers
      BY <3>1, <3>2, RecordStep DEF KeyStart, Reading
    <3>3. CASE ~(armed /\ recorded < MaxTriggers)
      BY <2>1, <3>1, <3>3 DEF KeyStart, Reading
    <3> QED
      BY <3>2, <3>3
  <2>6. CASE PollBoard
    <3>1. msgEvent' = ~armed /\ Poll(msgEvent') /\ UNCHANGED <<boardVars, content>>
      BY <2>6, ~BusFails DEF PollBoard, BusOk
    <3>2. work_pc \in {"first", "poll"} /\ work_pc' \in {"firstArm", "arm", "top", "inner"}
      BY <3>1 DEF Poll, LoopStart
    <3>3. CASE armed
      <4>1. ~msgEvent'
        BY <3>1, <3>3
      <4>2. work_pc' \in {"top", "inner"}
        BY <3>1, <4>1 DEF Poll, LoopStart
      <4> QED
        BY <2>1, <3>1, <3>2, <4>2 DEF Reading
    <3>4. CASE ~armed
      BY <2>1, <3>1, <3>2, <3>4 DEF Reading
    <3> QED
      BY <3>3, <3>4
  <2>7. CASE ArmBoard
    <3>1. /\ Arm /\ armed' = (armed \/ Rearms) /\ UNCHANGED <<memory, recorded, content>>
      BY <2>7, ~BusFails DEF ArmBoard, BusOk
    <3>2. /\ work_pc \in {"arm", "firstArm"} /\ ~Reading
          /\ Reading' = Rearms /\ work_pc' \notin {"arm", "firstArm"}
      BY <3>1 DEF Arm, Reading, LoopStart, Rearms
    <3>3. armed' = Rearms
      <4>1. ~armed /\ Rearms \in BOOLEAN
        BY <2>0, <3>2 DEF Rearms
      <4> HIDE DEF Rearms
      <4> QED
        BY <3>1, <4>1, Zenon
    <3>4. Unread' = Unread /\ armed' \in BOOLEAN
      BY <2>0, <3>2, <3>3 DEF Unread, Rearms
    <3>5. ArmingInv'
      BY <3>2, <3>3 DEF ArmingInv
    <3> QED
      BY <3>1, <3>4, <3>5, SameRecordsStep
  <2>8. CASE ReadBoard
    BY <2>8, ReadStep DEF ReadBoard, DumpFirst, GetEvent, Reading
  <2>9. CASE OtherStep
    BY <2>1, <2>9, OtherStepAndReadout DEF OtherStep
  <2>10. CASE UNCHANGED deviceVars
    BY <2>1, <2>10 DEF deviceVars, vars, workVars, Reading
  <2> QED
    BY <2>2, <2>3, <2>4, <2>5, <2>6, <2>7, <2>8, <2>9, <2>10 DEF DeviceNext
<1>3. RecordInv => RecordsKept
  BY DEF RecordInv, BoardOK, ReadInv, Increasing, Unread, RecordsKept
<1>4. DeviceSpec => []TypeInv
  BY DeviceIsWfdBase, TypeInvariant, PTL
<1> QED
  BY <1>1, <1>2, <1>3, <1>4, PTL DEF DeviceSpec
================================================================================
