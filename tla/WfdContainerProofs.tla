--------------------------- MODULE WfdContainerProofs ---------------------------
(***************************************************************************)
(* Theorems about WfdContainer, for any number of workers of any classes,  *)
(* any triggers and any calls of the container.                            *)
(***************************************************************************)
EXTENDS WfdContainer, SequenceTheorems, TLAPS

(* While a builder collects, it has collected from the workers before at.  *)
CollectInv ==
  /\ call \in {"AllWorkersHaveEvent", "FlushEventData"} => event = <<>>
  /\ call = "GetEventData" => Len(event) = at - 1

(* Only the thread of a Sis3302 looks for an event before its loop, only a *)
(* Struck board is rearmed, and one that queues events, which alone has    *)
(* something to do after the loop, is read out when it holds one.          *)
FirstPCs == {"first", "firstArm", "firstReport", "firstGet"}

PlaceInv ==
  /\ \A w \in Workers : work_pc[w] \in FirstPCs => Device[w] = "Sis3302"
  /\ \A w \in Workers : work_pc[w] = "exit" => Buffers(w)
  /\ \A w \in Workers : Buffers(w) =>
       work_pc[w] \notin {"arm", "report"} /\ (work_pc[w] = "get" => filled[w] # <<>>)

TypeInv == TypeOK /\ CollectInv /\ PlaceInv

LEMMA Tails ==
  ASSUME NEW S, NEW s \in Seq(S), s # <<>>
  PROVE  Tail(s) \in Seq(S) /\ Head(s) \in S
OBVIOUS

LEMMA Singles ==
  ASSUME NEW S, NEW s \in Seq(S), Len(s) = 1
  PROVE  s # <<>> /\ s[1] = Head(s) /\ s = <<Head(s)>> /\ Tail(s) = <<>>
<1>1. s # <<>> /\ s[1] = Head(s)
  OBVIOUS
<1>2. Len(Tail(s)) = 0 /\ Tail(s) \in Seq(S)
  BY <1>1
<1>3. Tail(s) = <<>>
  BY <1>2, EmptySeq
<1>4. <<Head(s)>> \in Seq(S) /\ Len(<<Head(s)>>) = 1 /\ <<Head(s)>>[1] = s[1]
  BY <1>1
<1>5. s = <<Head(s)>>
  BY <1>4
<1> QED
  BY <1>1, <1>3, <1>5

LEMMA WorkerTypes ==
  ASSUME TypeOK, NEW w \in Workers
  PROVE  /\ filled[w] \in Seq(Events) /\ memory[w] \in Seq(Events) /\ queue[w] \in Seq(Events)
         /\ Class(w) \in Devices /\ bundle[Class(w)] \in Events
         /\ AtReset(w) \in Events /\ InBoard(w) \in Events
<1>1. /\ filled[w] \in Seq(Events) /\ memory[w] \in Seq(Events) /\ queue[w] \in Seq(Events)
      /\ Class(w) \in Devices /\ bundle[Class(w)] \in Events
  BY WfdContainerAssumption DEF TypeOK, Class, Workers
<1>2. AtReset(w) \in Events
  BY WfdContainerAssumption DEF AtReset, Events
<1> QED
  BY <1>1, <1>2, Tails DEF InBoard

(* What the work threads do to the types. *)
LEMMA WorkTypes ==
  ASSUME TypeInv, NEW w \in Workers, WorkLoop(w)
  PROVE  TypeInv'
<1> USE WfdContainerAssumption DEF TypeInv, Work, queueVars, callVars, boardVars
<1>t. /\ filled[w] \in Seq(Events) /\ memory[w] \in Seq(Events) /\ queue[w] \in Seq(Events)
      /\ Class(w) \in Devices /\ bundle[Class(w)] \in Events /\ InBoard(w) \in Events
  BY WorkerTypes
<1>1. CASE TestLive(w)
  BY <1>1 DEF TestLive, TypeOK, CollectInv, PlaceInv, FirstPCs, WorkPCs
<1>2. CASE TestGo(w)
  BY <1>2 DEF TestGo, TypeOK, CollectInv, PlaceInv, FirstPCs, WorkPCs
<1>3. CASE Poll(w)
  BY <1>3, <1>t DEF Poll, TypeOK, CollectInv, PlaceInv, FirstPCs, WorkPCs
<1>4. CASE Arm(w)
  <2>1. armed' \in [Workers -> BOOLEAN]
    BY <1>4 DEF Arm, TypeOK
  <2>2. filled' \in [Workers -> Seq(Events)] /\ memory' \in [Workers -> Seq(Events)]
    <3>1. CASE UNCHANGED <<memory, filled>>
      BY <3>1 DEF TypeOK
    <3>2. CASE /\ memory' = [memory EXCEPT ![w] = filled[w]]
               /\ filled' = [filled EXCEPT ![w] = <<>>]
      BY <1>t, <3>2 DEF TypeOK
    <3> QED
      BY <1>4, <3>1, <3>2 DEF Arm
  <2>3. /\ work_pc' \in [Workers -> WorkPCs] /\ work_pc'[w] # "get"
        /\ work_pc'[w] \in FirstPCs => work_pc[w] \in FirstPCs
        /\ work_pc'[w] \notin {"arm", "exit"} /\ (work_pc'[w] = "report" => work_pc[w] = "arm")
        /\ \A u \in Workers : u # w => work_pc'[u] = work_pc[u] /\ filled'[u] = filled[u]
    BY <1>4 DEF Arm, LoopStart, TypeOK, WorkPCs, Readout, FirstPCs
  <2>4. PlaceInv'
    BY <2>3 DEF PlaceInv, FirstPCs, Buffers
  <2> QED
    BY <1>4, <2>1, <2>2, <2>3, <2>4 DEF Arm, TypeOK, CollectInv
<1>5. CASE Report(w)
  <2>1. work_pc[w] \in {"report", "firstReport"} /\ ~Buffers(w)
    BY <1>5 DEF Report, PlaceInv, Buffers, FirstPCs
  <2>2. PICK to \in {"get", "firstGet", "inner", "outer"} :
          /\ work_pc' = [work_pc EXCEPT ![w] = to]
          /\ to = "firstGet" => work_pc[w] = "firstReport"
    BY <1>5 DEF Report, LoopStart
  <2>3. PlaceInv' /\ work_pc' \in [Workers -> WorkPCs]
    BY <1>5, <2>1, <2>2
      DEF Report, PlaceInv, Buffers, FirstPCs, TypeOK, WorkPCs, Readout
  <2> QED
    BY <1>5, <2>3 DEF Report, TypeOK, CollectInv
<1>6. CASE PollBuffer(w)
  BY <1>6 DEF PollBuffer, TypeOK, CollectInv, PlaceInv, FirstPCs, WorkPCs, Readout
<1>7. CASE DumpFirst(w)
  BY <1>7 DEF DumpFirst, TypeOK, CollectInv, PlaceInv, FirstPCs, WorkPCs, Readout
<1>8. CASE GetEvent(w)
  <2>1. bundle' \in [Devices -> Events] /\ uniform' \in BOOLEAN
    BY <1>8, <1>t DEF GetEvent, TypeOK
  <2>2. Buffers(w) => Tail(filled[w]) \in Seq(Events)
    BY <1>8, <1>t, Tails DEF GetEvent, PlaceInv, FirstPCs
  <2>3. filled' \in [Workers -> Seq(Events)]
    BY <1>8, <2>2 DEF GetEvent, TypeOK
  <2>4. /\ work_pc' \in [Workers -> WorkPCs] /\ work_pc'[w] = "push"
        /\ \A u \in Workers : u # w => work_pc'[u] = work_pc[u] /\ filled'[u] = filled[u]
    BY <1>8 DEF GetEvent, TypeOK, WorkPCs, Readout
  <2>5. PlaceInv'
    BY <2>4 DEF PlaceInv, FirstPCs, Buffers
  <2> QED
    BY <1>8, <2>1, <2>3, <2>4, <2>5 DEF GetEvent, TypeOK, CollectInv
<1>9. CASE Push(w)
  <2>1. Append(queue[w], bundle[Class(w)]) \in Seq(Events) /\ Append(queue[w], bundle[Class(w)]) # <<>>
    <3>1. Append(queue[w], bundle[Class(w)]) \in Seq(Events)
      BY <1>t
    <3>2. Len(Append(queue[w], bundle[Class(w)])) = Len(queue[w]) + 1 /\ Len(queue[w]) \in Nat
      BY <1>t
    <3> QED
      BY <3>1, <3>2
  <2>2. queue' \in [Workers -> Seq(Events)]
    BY <1>9, <2>1, Tails DEF Push, TypeOK
  <2>3. flag' \in [Workers -> BOOLEAN] /\ written' \in [Workers -> BOOLEAN] /\ uniform' \in BOOLEAN
    BY <1>9 DEF Push, TypeOK
  <2>4. work_pc' = [work_pc EXCEPT ![w] = LoopStart(w)] /\ LoopStart(w) \in {"inner", "outer"}
    BY <1>9 DEF Push, LoopStart
  <2>5. PlaceInv' /\ work_pc' \in [Workers -> WorkPCs]
    BY <1>9, <2>4 DEF Push, PlaceInv, FirstPCs, Buffers, TypeOK, WorkPCs, Readout
  <2> QED
    BY <1>9, <2>2, <2>3, <2>5 DEF Push, TypeOK, CollectInv
<1>10. CASE Exit(w)
  <2>1. armed' \in [Workers -> BOOLEAN]
    BY <1>10 DEF Exit, TypeOK
  <2> QED
    BY <1>10, <2>1 DEF Exit, TypeOK, CollectInv, PlaceInv, FirstPCs, WorkPCs, Readout
<1> QED
  BY <1>1, <1>2, <1>3, <1>4, <1>5, <1>6, <1>7, <1>8, <1>9, <1>10 DEF WorkLoop

(* And what the calls of the container do. *)
LEMMA CallTypes ==
  ASSUME TypeInv, Caller
  PROVE  TypeInv'
<1> USE WfdContainerAssumption DEF Workers, Loops, queueVars, workVars, boardVars
<1>t. TypeOK /\ CollectInv /\ at \in 1 .. N
  BY DEF TypeInv, TypeOK
<1>1. CASE Caller /\ ~Spawn /\ ~Join
  <2>1. PlaceInv'
    <3>1. UNCHANGED <<filled, work_pc>>
      BY <1>1 DEF Caller, InCall, StartRun, StopRun, Build, BeginFlush, Begin, StartThreads,
        StartWorkers, StopWorkers, StopThreads, AllWorkersHaveEvent, GetEventData, FlushEventData
    <3> QED
      BY <3>1 DEF TypeInv, PlaceInv, FirstPCs, Buffers
  <2> USE <1>t DEF TypeOK, CollectInv
  <2>2. CASE StartRun \/ StopRun
    BY <2>1, <2>2, SMTT(30) DEF StartRun, StopRun, Begin, TypeInv
  <2>3. CASE Build
    BY <2>1, <2>3 DEF Build, Begin, TypeInv
  <2>4. CASE BeginFlush
    BY <2>1, <2>4 DEF BeginFlush, Begin, TypeInv
  <2>5. CASE StartThreads
    BY <2>1, <2>5 DEF StartThreads, TypeInv
  <2>6. CASE StartWorkers
    BY <2>1, <2>6, SMTT(30) DEF StartWorkers, Turn, TypeInv
  <2>7. CASE StopWorkers
    BY <2>1, <2>7, SMTT(30) DEF StopWorkers, Turn, TypeInv
  <2>8. CASE StopThreads
    BY <2>1, <2>8 DEF StopThreads, TypeInv
  <2>9. CASE AllWorkersHaveEvent
    BY <2>1, <2>9, SMTT(30) DEF AllWorkersHaveEvent, Turn, TypeInv
  <2>10. CASE FlushEventData
    <3>1. queue' \in [Workers -> Seq(Events)]
      BY <2>10 DEF FlushEventData
    <3>2. flag' \in [Workers -> BOOLEAN] /\ written' \in [Workers -> BOOLEAN]
      BY <2>10 DEF FlushEventData
    <3>3. uniform' \in BOOLEAN
      BY <2>10 DEF FlushEventData
    <3>4. at' \in 1 .. N /\ call' \in {"FlushEventData", "idle"}
      <4>1. Turn("FlushEventData", "idle")
        BY <2>10 DEF FlushEventData
      <4> QED
        BY <4>1, SMTT(30) DEF Turn
    <3>5. CollectInv'
      BY <2>10, <3>4 DEF FlushEventData, Turn
    <3> HIDE DEF CollectInv
    <3> QED
      BY <2>1, <2>10, <3>1, <3>2, <3>3, <3>4, <3>5 DEF FlushEventData, TypeInv
  <2>11. CASE GetEventData
    <3>1. call = "GetEventData" /\ Len(event) = at - 1 /\ queue[at] \in Seq(Events)
      BY <2>11 DEF GetEventData, Turn
    <3>2. PICK e \in Events : event' = Append(event, e)
      <4>1. CASE queue[at] = <<>>
        BY <2>11, <4>1 DEF GetEventData, Events
      <4>2. CASE queue[at] # <<>>
        BY <2>11, <3>1, <4>2 DEF GetEventData
      <4> QED
        BY <4>1, <4>2
    <3>3. event' \in Seq(Events) /\ Len(event') = at
      BY <3>1, <3>2
    <3>4. queue' \in [Workers -> Seq(Events)] /\ flag' \in [Workers -> BOOLEAN]
      <4>1. CASE queue[at] = <<>>
        BY <2>11, <4>1 DEF GetEventData
      <4>2. CASE queue[at] # <<>>
        <5>1. Tail(queue[at]) \in Seq(Events)
          BY <3>1, <4>2
        <5>2. queue' = [queue EXCEPT ![at] = Tail(queue[at])]
          BY <2>11, <4>2 DEF GetEventData
        <5>3. flag' \in [Workers -> BOOLEAN]
          BY <2>11, <4>2 DEF GetEventData
        <5> QED
          BY <5>1, <5>2, <5>3
      <4> QED
        BY <4>1, <4>2
    <3>5. /\ at' \in 1 .. N /\ call' \in {"GetEventData", "idle"}
          /\ call' = "GetEventData" => at' = at + 1
      <4>1. Turn("GetEventData", "idle")
        BY <2>11 DEF GetEventData
      <4> QED
        BY <4>1, SMTT(30) DEF Turn
    <3>6. /\ UNCHANGED <<triggers, armed, filled, memory, live, go>>
          /\ UNCHANGED <<written, work_pc, is_event, bundle, result>>
      BY <2>11 DEF GetEventData
    <3>7. uniform' \in BOOLEAN
      BY <2>11 DEF GetEventData
    <3>8. CollectInv'
      <4>1. call' = "GetEventData" => Len(event') = at' - 1
        BY <1>t, <3>3, <3>5
      <4> QED
        BY <3>5, <4>1
    <3> HIDE DEF CollectInv
    <3>9. TypeOK'
      BY <3>3, <3>4, <3>5, <3>6, <3>7
    <3> QED
      BY <2>1, <3>8, <3>9 DEF TypeInv
  <2> QED
    BY <1>1, <2>2, <2>3, <2>4, <2>5, <2>6, <2>7, <2>8, <2>9, <2>10, <2>11 DEF Caller, InCall
<1>2. CASE Spawn
  <2>1. /\ work_pc' = [work_pc EXCEPT ![at] = ThreadStart(at)]
        /\ ThreadStart(at) \in {"first", "outer"}
        /\ ThreadStart(at) = "first" => Device[at] = "Sis3302"
    BY <1>2 DEF Spawn, ThreadStart
  <2>2. at' \in 1 .. N /\ call' \in {"StartThreads", "StartWorkers"}
    BY <1>2, <1>t, SMTT(30) DEF Spawn
  <2>3. PlaceInv' /\ work_pc' \in [Workers -> WorkPCs]
    <3>1. /\ \A u \in Workers : u # at => work_pc'[u] = work_pc[u]
          /\ work_pc' \in [Workers -> WorkPCs] /\ work_pc'[at] \in {"first", "outer"}
          /\ work_pc'[at] = "first" => Device[at] = "Sis3302"
      BY <1>t, <2>1 DEF TypeOK, WorkPCs
    <3>2. filled' = filled
      BY <1>2 DEF Spawn
    <3> QED
      BY <1>t, <3>1, <3>2 DEF TypeInv, PlaceInv, FirstPCs, Buffers
  <2>4. live' \in [Workers -> BOOLEAN]
    BY <1>2, <1>t DEF Spawn, TypeOK
  <2> QED
    BY <1>2, <1>t, <2>2, <2>3, <2>4 DEF Spawn, TypeInv, TypeOK, CollectInv
<1>3. CASE Join
  <2>1. work_pc' = [work_pc EXCEPT ![at] = "off"]
    BY <1>3 DEF Join
  <2>2. at' \in 1 .. N /\ call' \in {"StopThreads", "idle"}
    BY <1>3, <1>t, SMTT(30) DEF Join
  <2>3. PlaceInv' /\ work_pc' \in [Workers -> WorkPCs]
    BY <1>3, <1>t, <2>1 DEF Join, TypeInv, TypeOK, PlaceInv, FirstPCs, Buffers, WorkPCs
  <2> QED
    BY <1>3, <1>t, <2>2, <2>3 DEF Join, TypeInv, TypeOK, CollectInv
<1> QED
  BY <1>1, <1>2, <1>3

LEMMA TypeInvariant == Spec => []TypeInv
<1>1. Init => TypeInv
  <2> SUFFICES ASSUME Init PROVE TypeInv
    OBVIOUS
  <2>1. /\ armed \in [Workers -> BOOLEAN] /\ live \in [Workers -> BOOLEAN]
        /\ go \in [Workers -> BOOLEAN] /\ is_event \in [Devices -> BOOLEAN]
        /\ written \in [Workers -> BOOLEAN] /\ flag \in [Workers -> BOOLEAN]
        /\ result \in BOOLEAN /\ uniform \in BOOLEAN
    <3>1. armed \in [Workers -> BOOLEAN] /\ live \in [Workers -> BOOLEAN]
      BY DEF Init
    <3>2. go \in [Workers -> BOOLEAN] /\ is_event \in [Devices -> BOOLEAN]
      BY DEF Init
    <3>3. \A w \in Workers : FlagSetByCtor(w) \in BOOLEAN
      BY DEF FlagSetByCtor
    <3>4. written = [w \in Workers |-> FlagSetByCtor(w)]
      BY DEF Init
    <3>5. written \in [Workers -> BOOLEAN]
      BY <3>3, <3>4
    <3>6. result \in BOOLEAN /\ uniform \in BOOLEAN
      BY DEF Init
    <3> QED
      BY <3>1, <3>2, <3>5, <3>6 DEF Init
  <2>2. triggers \in 0 .. MaxTriggers /\ at \in Workers /\ call \in Loops /\ CollectInv
    BY WfdContainerAssumption DEF Init, CollectInv, Workers, Loops
  <2>3. event \in Seq(Events) /\ Len(event) <= N
    BY WfdContainerAssumption DEF Init
  <2>4. filled \in [Workers -> Seq(Events)]
    <3>1. \A w \in Workers : AtReset(w) \in Events
      BY WfdContainerAssumption DEF AtReset, Events
    <3> QED
      BY <3>1 DEF Init
  <2>5. /\ queue \in [Workers -> Seq(Events)] /\ memory \in [Workers -> Seq(Events)]
        /\ bundle \in [Devices -> Events]
    BY DEF Init, Events
  <2>6. work_pc \in [Workers -> WorkPCs] /\ PlaceInv
    BY DEF Init, ThreadStart, WorkPCs, PlaceInv, FirstPCs
  <2> QED
    BY <2>1, <2>2, <2>3, <2>4, <2>5, <2>6 DEF TypeInv, TypeOK
<1>2. TypeInv /\ [Next]_vars => TypeInv'
  <2> SUFFICES ASSUME TypeInv, [Next]_vars PROVE TypeInv'
    OBVIOUS
  <2>1. CASE Trigger
    <3>1. \A w \in Workers : <<w, triggers + 1>> \in Events /\ filled[w] \in Seq(Events)
      BY <2>1, WfdContainerAssumption DEF Trigger, Events, TypeInv, TypeOK
    <3>2. filled' \in [Workers -> Seq(Events)]
      BY <2>1, <3>1 DEF Trigger
    <3>3. PlaceInv'
      <4>1. \A w \in Workers : filled[w] # <<>> => filled'[w] # <<>>
        BY <2>1, <3>1 DEF Trigger
      <4> QED
        BY <2>1, <4>1 DEF Trigger, workVars, TypeInv, PlaceInv, FirstPCs, Buffers
    <3>4. armed' \in [Workers -> BOOLEAN] /\ uniform' \in BOOLEAN /\ triggers' \in 0 .. MaxTriggers
      BY <2>1, WfdContainerAssumption DEF Trigger, TypeInv, TypeOK
    <3> QED
      BY <2>1, <3>2, <3>3, <3>4
        DEF Trigger, TypeInv, TypeOK, CollectInv, queueVars, workVars, callVars
  <2>2. CASE UNCHANGED vars
    BY <2>2 DEF vars, TypeInv, TypeOK, CollectInv, PlaceInv, FirstPCs, Buffers, boardVars, queueVars,
      workVars, callVars
  <2> QED
    BY <2>1, <2>2, CallTypes, WorkTypes DEF Next
<1> QED
  BY <1>1, <1>2, PTL DEF Spec

(* The types of all variables, whatever the threads and the caller do. *)
THEOREM TypeCorrect == Spec => []TypeOK
BY TypeInvariant, PTL DEF TypeInv

--------------------------------------------------------------------------------
(* What a step may do to the queue and the flag of a worker: its thread    *)
(* pushes the bundle, a builder pops, a flush empties.                     *)
Pushed(w) ==
  /\ work_pc[w] = "push" /\ flag'[w] = TRUE /\ written'[w] = TRUE
  /\ LET pushed == Append(queue[w], bundle[Class(w)])
     IN  queue'[w] = IF Full(w) THEN Tail(pushed) ELSE pushed
Popped(w) ==
  /\ GetEventData /\ w = at /\ queue[w] # <<>>
  /\ queue'[w] = Tail(queue[w]) /\ flag'[w] = (Tail(queue[w]) # <<>>)
  /\ written'[w] = written[w]
Emptied(w) == FlushEventData /\ queue'[w] = <<>> /\ flag'[w] = FALSE /\ written'[w] = TRUE
Kept(w) == queue'[w] = queue[w] /\ flag'[w] = flag[w] /\ written'[w] = written[w]

LEMMA QueueStep ==
  ASSUME TypeInv, [Next]_vars, NEW w \in Workers
  PROVE  Kept(w) \/ Pushed(w) \/ Popped(w) \/ Emptied(w)
<1> USE DEF TypeInv, TypeOK
<1>1. CASE UNCHANGED queueVars
  BY <1>1 DEF Kept, queueVars
<1>2. ASSUME NEW u \in Workers, Push(u) PROVE Kept(w) \/ Pushed(w)
  BY <1>2 DEF Push, Work, Kept, Pushed
<1>3. CASE GetEventData
  <2>1. CASE queue[at] = <<>>
    BY <1>3, <2>1 DEF GetEventData, Kept
  <2>2. CASE queue[at] # <<>>
    <3>1. /\ queue' = [queue EXCEPT ![at] = Tail(queue[at])]
          /\ flag' = [flag EXCEPT ![at] = Tail(queue[at]) # <<>>]
          /\ written' = written
      BY <1>3, <2>2 DEF GetEventData
    <3>2. CASE w = at
      <4>1. queue'[w] = Tail(queue[w]) /\ (flag'[w] = (Tail(queue[w]) # <<>>))
        BY <3>1, <3>2
      <4> QED
        BY <1>3, <2>2, <3>1, <3>2, <4>1 DEF Popped
    <3>3. CASE w # at
      BY <3>1, <3>3 DEF Kept
    <3> QED
      BY <3>2, <3>3
  <2> QED
    BY <2>1, <2>2
<1>4. CASE FlushEventData
  BY <1>4 DEF FlushEventData, Turn, Kept, Emptied
<1>5. CASE Trigger \/ UNCHANGED vars
  BY <1>1, <1>5 DEF Trigger, vars
<1>6. ASSUME NEW u \in Workers, WorkLoop(u), ~Push(u) PROVE UNCHANGED queueVars
  BY <1>6 DEF WorkLoop, TestLive, TestGo, Poll, Arm, Report, PollBuffer, DumpFirst, GetEvent, Exit
<1>7. CASE Caller /\ ~GetEventData /\ ~FlushEventData
  BY <1>1, <1>7 DEF Caller, InCall, StartRun, StopRun, Build, BeginFlush, Begin, StartThreads,
    Spawn, StartWorkers, StopWorkers, StopThreads, Join, AllWorkersHaveEvent
<1> QED
  BY <1>1, <1>2, <1>3, <1>4, <1>5, <1>6, <1>7 DEF Next

(* What a builder found in one loop is there for the next: the workers it  *)
(* has asked, then the workers it still has to collect from, have events,  *)
(* or a flag that nobody has assigned.                                     *)
Promised(w) == queue[w] # <<>> \/ ~written[w]

HolesInv ==
  /\ \A w \in Workers : flag[w] => Promised(w)
  /\ call = "AllWorkersHaveEvent" /\ result => \A w \in Workers : w < at => Promised(w)
  /\ call = "GetEventData" => \A w \in Workers : w >= at => Promised(w)

(* Only a pop or a flush can break what a flag promised. *)
LEMMA PromiseKept ==
  ASSUME TypeInv, [Next]_vars, NEW w \in Workers
  PROVE  /\ (flag[w] => Promised(w)) => (flag'[w] => Promised(w)')
         /\ Promised(w) => Promised(w)' \/ FlushEventData \/ (GetEventData /\ w = at)
<1>1. CASE Kept(w)
  BY <1>1 DEF Kept, Promised
<1>2. CASE Pushed(w)
  <2>1. /\ queue[w] \in Seq(Events) /\ bundle[Class(w)] \in Events /\ Len(queue[w]) \in Nat
        /\ kMaxQueueSize >= 1
    BY WorkerTypes, WfdContainerAssumption DEF TypeInv
  <2>2. queue'[w] # <<>>
    <3>1. Len(Append(queue[w], bundle[Class(w)])) = Len(queue[w]) + 1
      BY <2>1
    <3>2. CASE ~Full(w)
      BY <1>2, <2>1, <3>1, <3>2 DEF Pushed
    <3>3. CASE Full(w)
      <4>1. Len(queue[w]) >= 1
        BY <2>1, <3>3, WfdContainerAssumption DEF Full
      <4>2. Len(Tail(Append(queue[w], bundle[Class(w)]))) = Len(queue[w])
        BY <2>1, <3>1
      <4> QED
        BY <1>2, <3>3, <4>1, <4>2 DEF Pushed
    <3> QED
      BY <3>2, <3>3
  <2> QED
    BY <2>2 DEF Promised
<1>3. CASE Popped(w)
  BY <1>3 DEF Popped, Promised
<1>4. CASE Emptied(w)
  BY <1>4 DEF Emptied, Promised
<1> QED
  BY <1>1, <1>2, <1>3, <1>4, QueueStep

LEMMA HolesInvariant == Spec => []HolesInv
<1>1. Init => HolesInv
  BY DEF Init, HolesInv, Promised
<1>2. TypeInv /\ HolesInv /\ [Next]_vars => HolesInv'
  <2> SUFFICES ASSUME TypeInv, HolesInv, [Next]_vars PROVE HolesInv'
    OBVIOUS
  <2>1. \A w \in Workers : flag'[w] => Promised(w)'
    BY PromiseKept DEF HolesInv
  <2>2. \A w \in Workers : Promised(w) => Promised(w)' \/ FlushEventData \/ (GetEventData /\ w = at)
    BY PromiseKept
  <2>3. at \in 1 .. N /\ N \in Nat
    BY WfdContainerAssumption DEF TypeInv, TypeOK, Workers
  <2>4. CASE GetEventData
    <3>1. call = "GetEventData" /\ call' \in {"GetEventData", "idle"}
          /\ (call' = "GetEventData" => at' = at + 1)
      BY <2>4 DEF GetEventData, Turn
    <3>2. ~FlushEventData
      BY <3>1 DEF FlushEventData, Turn
    <3>3. \A w \in Workers : w > at => Promised(w)'
      BY <2>2, <2>3, <3>1, <3>2 DEF HolesInv, Workers
    <3> QED
      BY <2>1, <2>3, <3>1, <3>3 DEF HolesInv, Workers
  <2>5. CASE FlushEventData
    BY <2>1, <2>5 DEF FlushEventData, Turn, HolesInv
  <2>6. CASE ~GetEventData /\ ~FlushEventData
    <3>1. \A w \in Workers : Promised(w) => Promised(w)'
      BY <2>2, <2>6
    <3>2. CASE UNCHANGED callVars
      BY <2>1, <3>1, <3>2 DEF callVars, HolesInv
    <3>3. CASE AllWorkersHaveEvent
      <4>1. result' => result /\ Promised(at)
        BY <3>3 DEF AllWorkersHaveEvent, HolesInv, TypeInv, TypeOK
      <4>2. at \in Workers /\ call = "AllWorkersHaveEvent"
        BY <3>3 DEF AllWorkersHaveEvent, Turn, TypeInv, TypeOK
      <4>3. result' => \A w \in Workers : w <= at => Promised(w)'
        <5>1. \A w \in Workers : w <= at => w < at \/ w = at
          BY <2>3 DEF Workers
        <5> QED
          BY <3>1, <4>1, <4>2, <5>1 DEF HolesInv
      <4>4. CASE at < N
        <5>1. at' = at + 1 /\ call' = "AllWorkersHaveEvent"
          BY <3>3, <4>4 DEF AllWorkersHaveEvent, Turn
        <5> QED
          BY <2>1, <2>3, <4>3, <5>1 DEF HolesInv, Workers
      <4>5. CASE at >= N
        <5>1. at' = 1 /\ call' = IF result' THEN "GetEventData" ELSE "idle"
          BY <2>3, <3>3, <4>5 DEF AllWorkersHaveEvent, Turn
        <5>2. \A w \in Workers : w <= at
          BY <2>3, <4>5 DEF Workers
        <5>3. call' # "AllWorkersHaveEvent" /\ (call' = "GetEventData" => result')
          BY <5>1
        <5> QED
          BY <2>1, <4>3, <5>2, <5>3 DEF HolesInv
      <4> QED
        BY <2>3, <4>4, <4>5
    <3>4. CASE Build
      BY <2>1, <3>4 DEF Build, Begin, HolesInv, Workers
    <3>5. CASE Caller /\ ~AllWorkersHaveEvent /\ ~Build
      <4>1. call' \notin {"AllWorkersHaveEvent", "GetEventData"}
        BY <2>6, <3>5 DEF Caller, InCall, StartRun, StopRun, BeginFlush, Begin, StartThreads,
          Spawn, StartWorkers, StopWorkers, StopThreads, Join, Turn
      <4> QED
        BY <2>1, <4>1 DEF HolesInv
    <3>6. ASSUME NEW u \in Workers, WorkLoop(u) PROVE UNCHANGED callVars
      BY <3>6 DEF WorkLoop, TestLive, TestGo, Poll, Arm, Report, PollBuffer, DumpFirst, GetEvent,
        Push, Exit
    <3> QED
      BY <3>2, <3>3, <3>4, <3>5, <3>6 DEF Next, Trigger, vars
  <2> QED
    BY <2>4, <2>5, <2>6
<1> QED
  BY <1>1, <1>2, TypeInvariant, PTL DEF Spec

(* Whatever the classes of the workers, a bundle that is collected after   *)
(* AllWorkersHaveEvent() has an event from every worker whose has_event_   *)
(* was assigned.                                                           *)
THEOREM NoHolesCorrect == Spec => NoHoles
<1>1. TypeInv /\ HolesInv /\ [Next]_vars => [GetEventData => queue[at] # <<>> \/ ~written[at]]_vars
  <2> SUFFICES ASSUME TypeInv, HolesInv, GetEventData
               PROVE  queue[at] # <<>> \/ ~written[at]
    OBVIOUS
  <2>1. at \in Workers /\ at >= at /\ call = "GetEventData"
    BY WfdContainerAssumption DEF TypeInv, TypeOK, Workers, GetEventData, Turn
  <2> QED
    BY <2>1 DEF HolesInv, Promised
<1> QED
  BY <1>1, TypeInvariant, HolesInvariant, PTL DEF Spec, NoHoles
--------------------------------------------------------------------------------
(* Where the events of a worker are between its board and the builder: in  *)
(* the memory that is filled, on their way through the thread, in the      *)
(* queue.  Those before them are gone.                                     *)
Swaps(w) == Device[w] = "Sis3316"

Unread(w) ==
  IF OneMemory(w) /\ ((armed[w] /\ work_pc[w] \notin Readout) \/ filled[w] = <<AtReset(w)>>)
    THEN <<>> ELSE filled[w]

Moving(w) == IF work_pc[w] = "push" \/ (Swaps(w) /\ work_pc[w] \in Readout) THEN 1 ELSE 0
InTransit(w) == IF work_pc[w] = "push" THEN bundle[Class(w)] ELSE memory[w][1]

Gone(w) == triggers - Len(queue[w]) - Moving(w) - Len(Unread(w))

(* The board and the loop: what was polled is what the board says, an      *)
(* event was detected in a memory that holds one.                          *)
BoardInv(w) ==
  /\ work_pc[w] \in {"arm", "firstArm"} /\ is_event[Class(w)] => ~armed[w]
  /\ work_pc[w] \in {"report", "firstReport"} => is_event[Class(w)]
  /\ ~Buffers(w) /\ ~armed[w] => Len(filled[w]) = 1
  /\ Swaps(w) /\ armed[w] => filled[w] = <<>>
  /\ Swaps(w) /\ work_pc[w] \in Readout => Len(memory[w]) = 1
  /\ OneMemory(w) /\ work_pc[w] \in Readout => Len(filled[w]) = 1
  /\ uniform /\ OneMemory(w) /\ work_pc[w] \in Readout => armed[w]

(* A worker that has missed no trigger: its events are consecutive, up to  *)
(* the last trigger.                                                       *)
Sound(w) ==
  /\ \A i \in 1 .. Len(queue[w]) : queue[w][i][2] = Gone(w) + i
  /\ Moving(w) = 1 => InTransit(w)[2] = Gone(w) + Len(queue[w]) + 1
  /\ \A i \in 1 .. Len(Unread(w)) :
       Unread(w)[i][2] = Gone(w) + Len(queue[w]) + Moving(w) + i

(* What is gone from a worker, but for the bundle that is being collected. *)
Level(w) == Gone(w) - (IF call = "GetEventData" /\ w < at THEN 1 ELSE 0)

(* While all workers have seen every trigger, as many events are gone from *)
(* each of them, and those in the bundle are the last ones gone.           *)
AlignInv ==
  uniform =>
    /\ \A w \in Workers : Sound(w)
    /\ \A u, v \in Workers : Level(u) = Level(v)
    /\ IF call = "GetEventData"
         THEN \A i \in 1 .. Len(event) : event[i][2] = Gone(i)
         ELSE Aligned

LEMMA CountTypes ==
  ASSUME TypeOK, NEW w \in Workers
  PROVE  /\ queue[w] \in Seq(Events) /\ Len(queue[w]) \in Nat
         /\ Unread(w) \in Seq(Events) /\ Len(Unread(w)) \in Nat
         /\ triggers \in Nat /\ Moving(w) \in 0 .. 1 /\ Gone(w) \in Int
<1>1. queue[w] \in Seq(Events) /\ filled[w] \in Seq(Events) /\ triggers \in Nat
  BY WorkerTypes, WfdContainerAssumption DEF TypeOK
<1>2. Unread(w) \in Seq(Events) /\ Moving(w) \in 0 .. 1
  BY <1>1 DEF Unread, Moving
<1>3. Len(queue[w]) \in Nat /\ Len(Unread(w)) \in Nat
  BY <1>1, <1>2
<1> QED
  BY <1>1, <1>2, <1>3 DEF Gone

(* A step of others leaves the worker sound; its thread may end or start.  *)
Untouched(w) ==
  /\ triggers' = triggers /\ queue'[w] = queue[w]
  /\ armed'[w] = armed[w] /\ filled'[w] = filled[w] /\ memory'[w] = memory[w]
  /\ is_event'[Class(w)] = is_event[Class(w)] /\ bundle'[Class(w)] = bundle[Class(w)]
  /\ \/ work_pc'[w] = work_pc[w]
     \/ {work_pc[w], work_pc'[w]} \subseteq {"off", "done", "first", "outer", "inner", "poll"}

LEMMA UntouchedStep ==
  ASSUME NEW w, Untouched(w), uniform' => uniform
  PROVE  /\ BoardInv(w) => BoardInv(w)'
         /\ Gone(w)' = Gone(w) /\ (Sound(w) => Sound(w)')
<1>1. (work_pc[w] \in Readout <=> work_pc'[w] \in Readout) /\ (work_pc[w] = "push" <=> work_pc'[w] = "push")
  BY DEF Untouched, Readout
<1>2. Unread(w)' = Unread(w)
  BY <1>1 DEF Untouched, Unread, AtReset, OneMemory
<1>3. Moving(w)' = Moving(w) /\ InTransit(w)' = InTransit(w)
  BY <1>1 DEF Untouched, Moving, InTransit, Swaps, Class
<1>4. Gone(w)' = Gone(w)
  BY <1>2, <1>3 DEF Gone, Untouched
<1>5. Sound(w) => Sound(w)'
  BY <1>2, <1>3, <1>4 DEF Sound, Untouched
<1>6. BoardInv(w) => BoardInv(w)'
  BY <1>1 DEF BoardInv, Untouched, Swaps, OneMemory, Buffers, Class
<1> QED
  BY <1>4, <1>5, <1>6

(* The same unread, moving and queued events, at other places of the loop. *)
LEMMA SamePlaces ==
  ASSUME NEW w, Sound(w), triggers' = triggers, queue'[w] = queue[w],
         Unread(w)' = Unread(w), Moving(w)' = Moving(w),
         Moving(w) = 1 => InTransit(w)' = InTransit(w)
  PROVE  Sound(w)' /\ Gone(w)' = Gone(w)
<1>1. Gone(w)' = Gone(w)
  BY DEF Gone
<1> QED
  BY <1>1 DEF Sound

(* The event a board hands to its thread is the oldest unread one.         *)
LEMMA Fetched ==
  ASSUME TypeOK, NEW w \in Workers, Sound(w), triggers' = triggers, queue'[w] = queue[w],
         Moving(w) = 0, Moving(w)' = 1, Unread(w) # <<>>,
         InTransit(w)' = Head(Unread(w)), Unread(w)' = Tail(Unread(w))
  PROVE  Sound(w)' /\ Gone(w)' = Gone(w)
<1>1. /\ Unread(w) \in Seq(Events) /\ Len(Unread(w)) \in Nat \ {0} /\ Gone(w) \in Int
      /\ triggers \in Nat /\ Len(queue[w]) \in Nat
  BY CountTypes
<1>2. /\ Len(Unread(w)') = Len(Unread(w)) - 1
      /\ \A i \in 1 .. Len(Unread(w)') : Unread(w)'[i] = Unread(w)[i + 1]
      /\ Head(Unread(w)) = Unread(w)[1]
  BY <1>1
<1>3. Gone(w)' = Gone(w)
  BY <1>1, <1>2 DEF Gone
<1>4. InTransit(w)'[2] = Gone(w)' + Len(queue'[w]) + 1
  BY <1>1, <1>2, <1>3 DEF Sound
<1>5. ASSUME NEW i \in 1 .. Len(Unread(w)')
      PROVE  Unread(w)'[i][2] = Gone(w) + Len(queue[w]) + 1 + i
  <2>1. i + 1 \in 1 .. Len(Unread(w)) /\ i \in Int
    BY <1>1, <1>2
  <2>2. Unread(w)[i + 1][2] = Gone(w) + Len(queue[w]) + 0 + (i + 1)
    BY <2>1 DEF Sound
  <2>3. Unread(w)'[i] = Unread(w)[i + 1]
    BY <1>2
  <2>4. \A a, b \in Int : a + b + 0 + (i + 1) = a + b + 1 + i
    BY <2>1
  <2>5. Gone(w) \in Int /\ Len(queue[w]) \in Int
    BY <1>1
  <2> QED
    BY <2>2, <2>3, <2>4, <2>5
<1> QED
  BY <1>3, <1>4, <1>5 DEF Sound

(* The thread of a worker keeps to its board.                              *)
LEMMA ThreadBoard ==
  ASSUME TypeInv, NEW w \in Workers, BoardInv(w), WorkLoop(w)
  PROVE  BoardInv(w)'
<1>t. /\ DOMAIN armed = Workers /\ DOMAIN work_pc = Workers /\ DOMAIN is_event = Devices
      /\ DOMAIN filled = Workers /\ DOMAIN memory = Workers /\ Class(w) \in Devices
      /\ filled[w] \in Seq(Events) /\ memory[w] \in Seq(Events)
      /\ armed \in [Workers -> BOOLEAN] /\ is_event \in [Devices -> BOOLEAN]
  BY WorkerTypes DEF TypeInv, TypeOK
<1>c. Class(w)' = Class(w)
  BY DEF Class
<1>b. Buffers(w) => work_pc[w] \notin {"arm", "report"} /\ work_pc[w] \notin FirstPCs
  BY DEF TypeInv, PlaceInv, Buffers
<1> USE DEF Work, boardVars, queueVars, callVars, Readout
<1>1. CASE TestLive(w)
  BY <1>1, <1>t, <1>c DEF TestLive, BoardInv, Swaps, OneMemory, Buffers
<1>2. CASE TestGo(w)
  BY <1>2, <1>t, <1>c DEF TestGo, BoardInv, Swaps, OneMemory, Buffers
<1>3. CASE Poll(w)
  <2>1. is_event'[Class(w)] = ~armed[w] /\ work_pc'[w] \in {"arm", "firstArm"}
    BY <1>3, <1>t DEF Poll
  <2>2. UNCHANGED <<armed, filled, memory, uniform>>
    BY <1>3 DEF Poll
  <2> QED
    BY <2>1, <2>2, <1>c DEF BoardInv, Swaps, OneMemory, Buffers
<1>4. CASE Arm(w)
  <2>1. /\ work_pc[w] \in {"arm", "firstArm"} /\ UNCHANGED <<is_event, uniform>>
        /\ work_pc'[w] \in IF Detected(w) THEN {"report", "firstReport"} ELSE {"inner", "outer"}
    BY <1>4, <1>t DEF Arm, LoopStart
  <2>2. armed'[w] = (armed[w] \/ Detected(w))
    <3>1. armed' = [armed EXCEPT ![w] = armed[w] \/ Detected(w)]
      BY <1>4 DEF Arm
    <3> QED
      BY <1>t, <3>1, Zenon
  <2>3. CASE Detected(w)
    <3>1. is_event[Class(w)] /\ ~armed[w] /\ armed'[w] /\ ~Buffers(w) /\ Len(filled[w]) = 1
      BY <2>1, <2>2, <2>3, <1>b DEF Detected, BoardInv, FirstPCs
    <3>2. CASE OneMemory(w)
      BY <1>4, <2>1, <2>3, <3>1, <3>2, <1>c DEF Arm, BoardInv, Swaps, OneMemory, Buffers
    <3>3. CASE ~OneMemory(w)
      <4>1. filled'[w] = <<>> /\ memory'[w] = filled[w]
        BY <1>4, <2>3, <3>3, <1>t DEF Arm
      <4> QED
        BY <2>1, <2>3, <3>1, <3>3, <4>1, <1>c DEF BoardInv, Swaps, OneMemory, Buffers
    <3> QED
      BY <3>2, <3>3
  <2>4. CASE ~Detected(w)
    <3>1. armed'[w] = armed[w] /\ UNCHANGED <<filled, memory>>
      BY <1>4, <1>t, <2>2, <2>4 DEF Arm
    <3> QED
      BY <2>1, <2>4, <3>1, <1>c DEF BoardInv, Swaps, OneMemory, Buffers
  <2> QED
    BY <2>3, <2>4
<1>5. CASE Report(w)
  <2>1. /\ work_pc[w] \in Readout /\ work_pc'[w] \in {"get", "firstGet", "inner", "outer"}
    BY <1>5, <1>t DEF Report, LoopStart
  <2>2. UNCHANGED <<armed, filled, memory, is_event, uniform>>
    BY <1>5 DEF Report
  <2> QED
    BY <2>1, <2>2, <1>c DEF BoardInv, Swaps, OneMemory, Buffers
<1>6. CASE PollBuffer(w)
  BY <1>6, <1>t, <1>c DEF PollBuffer, BoardInv, Swaps, OneMemory, Buffers
<1>7. CASE DumpFirst(w)
  BY <1>7, <1>t, <1>c DEF DumpFirst, BoardInv, Swaps, OneMemory, Buffers
<1>8. CASE GetEvent(w)
  <2>1. /\ work_pc'[w] = "push" /\ UNCHANGED <<armed, memory, is_event>>
        /\ ~Buffers(w) => filled' = filled
    BY <1>8, <1>t DEF GetEvent
  <2> QED
    BY <2>1, <1>c DEF BoardInv, Swaps, OneMemory, Buffers
<1>9. CASE Push(w)
  <2>1. /\ work_pc'[w] \in {"inner", "outer"} /\ UNCHANGED <<armed, memory, is_event, filled>>
    BY <1>9, <1>t DEF Push, LoopStart
  <2> QED
    BY <2>1, <1>c DEF BoardInv, Swaps, OneMemory, Buffers
<1>10. CASE Exit(w)
  <2>1. /\ work_pc'[w] = "done" /\ UNCHANGED <<memory, is_event, filled>> /\ work_pc[w] = "exit"
    BY <1>10, <1>t DEF Exit
  <2>2. Buffers(w)
    BY <2>1 DEF TypeInv, PlaceInv
  <2> QED
    BY <2>1, <2>2, <1>c DEF BoardInv, Swaps, OneMemory, Buffers
<1> QED
  BY <1>1, <1>2, <1>3, <1>4, <1>5, <1>6, <1>7, <1>8, <1>9, <1>10 DEF WorkLoop

(* And while no event is lost, it hands on the events in their order.      *)
LEMMA ThreadSound ==
  ASSUME TypeInv, NEW w \in Workers, BoardInv(w), Sound(w), WorkLoop(w), uniform'
  PROVE  Sound(w)' /\ Gone(w)' = Gone(w)
<1>t. /\ DOMAIN armed = Workers /\ DOMAIN work_pc = Workers /\ DOMAIN bundle = Devices
      /\ DOMAIN filled = Workers /\ DOMAIN memory = Workers /\ Class(w) \in Devices
      /\ filled[w] \in Seq(Events) /\ memory[w] \in Seq(Events) /\ queue[w] \in Seq(Events)
      /\ bundle[Class(w)] \in Events /\ DOMAIN queue = Workers
  BY WorkerTypes DEF TypeInv, TypeOK
<1>0. TypeOK
  BY DEF TypeInv
<1>c. Class(w)' = Class(w) /\ AtReset(w)' = AtReset(w)
  BY DEF Class, AtReset
<1>b. /\ Buffers(w) => work_pc[w] \notin {"arm", "report"}
      /\ Buffers(w) /\ work_pc[w] = "get" => filled[w] # <<>>
      /\ work_pc[w] \in FirstPCs => Device[w] = "Sis3302"
      /\ work_pc[w] = "exit" => Buffers(w)
  BY DEF TypeInv, PlaceInv, Buffers
<1> USE DEF Work, boardVars, queueVars, callVars, Readout
<1>1. CASE TestLive(w) \/ TestGo(w) \/ Poll(w) \/ PollBuffer(w)
  <2>1. /\ UNCHANGED <<triggers, armed, filled, memory, queue, bundle>>
        /\ {work_pc[w], work_pc'[w]} \subseteq
             {"outer", "inner", "poll", "exit", "done", "arm", "first", "firstArm"}
           \/ (Buffers(w) /\ {work_pc[w], work_pc'[w]} \subseteq {"poll", "inner", "get"})
    BY <1>1, <1>t DEF TestLive, TestGo, Poll, PollBuffer
  <2>2. Unread(w)' = Unread(w) /\ Moving(w)' = Moving(w) /\ Moving(w) = 0
    BY <2>1, <1>c DEF Unread, Moving, OneMemory, Swaps, Buffers
  <2> QED
    BY <2>1, <2>2, SamePlaces
<1>2. CASE Arm(w) /\ ~Detected(w)
  <2>1. /\ UNCHANGED <<triggers, filled, queue>>
        /\ work_pc[w] \in {"arm", "firstArm"} /\ work_pc'[w] \in {"inner", "outer"}
    BY <1>2, <1>t DEF Arm, LoopStart
  <2>2. armed'[w] = armed[w]
    <3>1. armed' = [armed EXCEPT ![w] = armed[w] \/ Detected(w)]
      BY <1>2 DEF Arm
    <3>2. armed[w] \in BOOLEAN
      BY <1>0 DEF TypeOK
    <3> QED
      BY <1>2, <1>t, <3>1, <3>2
  <2>3. Unread(w)' = Unread(w) /\ Moving(w)' = Moving(w) /\ Moving(w) = 0
    BY <2>1, <2>2, <1>c DEF Unread, Moving, OneMemory, Swaps
  <2> QED
    BY <2>1, <2>3, SamePlaces
<1>3. CASE Arm(w) /\ Detected(w)
  <2>1. /\ UNCHANGED <<triggers, queue>> /\ work_pc[w] \in {"arm", "firstArm"}
        /\ work_pc'[w] = (IF work_pc[w] = "arm" THEN "report" ELSE "firstReport")
    BY <1>3, <1>t DEF Arm
  <2>2. ~armed[w] /\ ~Buffers(w) /\ Len(filled[w]) = 1
    BY <1>3, <1>b, <2>1 DEF Detected, BoardInv, FirstPCs, Buffers
  <2>3. CASE OneMemory(w)
    <3>1. filled' = filled /\ work_pc'[w] \in Readout
      BY <1>3, <2>1, <2>3 DEF Arm
    <3>2. Unread(w)' = Unread(w) /\ Moving(w)' = Moving(w) /\ Moving(w) = 0
      BY <2>1, <2>2, <2>3, <3>1, <1>c DEF Unread, Moving, OneMemory, Swaps
    <3> QED
      BY <2>1, <3>2, SamePlaces
  <2>4. CASE ~OneMemory(w)
    <3>1. memory'[w] = filled[w] /\ filled'[w] = <<>>
      BY <1>3, <1>t, <2>4 DEF Arm
    <3>2. Swaps(w)
      BY <2>2, <2>4, WfdContainerAssumption DEF Swaps, OneMemory, Buffers, Devices, Workers
    <3>3. Unread(w) = filled[w] /\ Unread(w)' = <<>>
      BY <2>4, <3>1 DEF Unread, OneMemory
    <3>4. Tail(filled[w]) = <<>> /\ filled[w] # <<>> /\ filled[w][1] = Head(filled[w])
      BY <1>t, <2>2, Singles
    <3>5. Moving(w) = 0 /\ Moving(w)' = 1 /\ InTransit(w)' = Head(filled[w])
      BY <2>1, <3>1, <3>2, <3>4 DEF Moving, InTransit, Swaps
    <3> QED
      BY <1>0, <2>1, <3>3, <3>4, <3>5, Fetched
  <2> QED
    BY <2>3, <2>4
<1>4. CASE Report(w)
  <2>1. /\ UNCHANGED <<triggers, armed, filled, memory, queue, bundle>>
        /\ work_pc[w] \in {"report", "firstReport"}
        /\ work_pc'[w] = (IF work_pc[w] = "report" THEN "get" ELSE "firstGet")
    BY <1>4, <1>t DEF Report, BoardInv
  <2>2. Unread(w)' = Unread(w) /\ Moving(w)' = Moving(w)
    BY <2>1, <1>c DEF Unread, Moving, OneMemory, Swaps
  <2>3. InTransit(w)' = InTransit(w)
    BY <2>1 DEF InTransit
  <2> QED
    BY <2>1, <2>2, <2>3, SamePlaces
<1>5. CASE DumpFirst(w)
  <2>1. /\ UNCHANGED <<triggers, armed, filled, memory, queue, bundle>>
        /\ work_pc[w] = "firstGet" /\ work_pc'[w] = "outer" /\ uniform /\ InBoard(w) = AtReset(w)
    BY <1>5, <1>t DEF DumpFirst
  <2>2. OneMemory(w) /\ Len(filled[w]) = 1 /\ armed[w] /\ ~Swaps(w) /\ Device[w] # "Sis3316"
    BY <1>b, <2>1 DEF BoardInv, OneMemory, Swaps, FirstPCs
  <2>3. filled[w] = <<AtReset(w)>>
    <3>1. filled[w] # <<>> /\ filled[w] = <<Head(filled[w])>>
      BY <1>t, <2>2, Singles
    <3> QED
      BY <2>1, <2>2, <3>1 DEF InBoard
  <2>4. Unread(w)' = Unread(w) /\ Moving(w)' = Moving(w) /\ Moving(w) = 0
    BY <2>1, <2>2, <2>3, <1>c DEF Unread, Moving, OneMemory, Swaps
  <2> QED
    BY <2>1, <2>4, SamePlaces
<1>6. CASE GetEvent(w)
  <2>1. /\ UNCHANGED <<triggers, armed, memory, queue>> /\ bundle'[Class(w)] = InBoard(w)
        /\ work_pc[w] = "get" /\ work_pc'[w] = "push" /\ uniform /\ InBoard(w) # AtReset(w)
    BY <1>6, <1>t DEF GetEvent
  <2>2. Moving(w)' = 1 /\ InTransit(w)' = InBoard(w)
    BY <2>1, <1>c DEF Moving, InTransit
  <2>3. CASE Swaps(w)
    <3>1. Len(memory[w]) = 1 /\ filled' = filled /\ ~OneMemory(w)
      BY <1>6, <2>1, <2>3 DEF BoardInv, GetEvent, Swaps, Buffers, OneMemory
    <3>2. memory[w] # <<>> /\ Head(memory[w]) = memory[w][1]
      BY <1>t, <3>1, Singles
    <3>3. Moving(w) = 1 /\ InTransit(w) = InBoard(w)
      BY <2>1, <2>3, <3>2 DEF Moving, InTransit, InBoard, Swaps
    <3>4. Unread(w)' = Unread(w)
      BY <3>1 DEF Unread, OneMemory
    <3> QED
      BY <2>1, <2>2, <3>3, <3>4, SamePlaces
  <2>4. CASE Buffers(w)
    <3>1. filled'[w] = Tail(filled[w]) /\ filled[w] # <<>>
      BY <1>6, <1>b, <1>t, <2>1, <2>4 DEF GetEvent
    <3>2. Unread(w) = filled[w] /\ Unread(w)' = filled'[w]
      BY <2>4 DEF Unread, OneMemory, Buffers
    <3>3. Moving(w) = 0 /\ InBoard(w) = Head(filled[w])
      BY <2>1, <2>4, <3>1 DEF Moving, InBoard, Swaps, Buffers
    <3> QED
      BY <1>0, <2>1, <2>2, <3>1, <3>2, <3>3, Fetched
  <2>5. CASE OneMemory(w)
    <3>1. Len(filled[w]) = 1 /\ armed[w] /\ filled' = filled
      BY <1>6, <2>1, <2>5 DEF BoardInv, GetEvent, OneMemory, Buffers
    <3>2. filled[w] # <<>> /\ filled[w] = <<Head(filled[w])>> /\ Tail(filled[w]) = <<>>
      BY <1>t, <3>1, Singles
    <3>3. Moving(w) = 0 /\ InBoard(w) = Head(filled[w])
      BY <2>1, <2>5, <3>2 DEF Moving, InBoard, Swaps, OneMemory
    <3>4. filled[w] # <<AtReset(w)>>
      BY <2>1, <3>3
    <3>5. Unread(w) = filled[w] /\ Unread(w)' = <<>>
      BY <2>1, <2>5, <3>1, <3>4 DEF Unread, OneMemory
    <3> QED
      BY <1>0, <2>1, <2>2, <3>2, <3>3, <3>5, Fetched
  <2> QED
    BY <2>3, <2>4, <2>5, WfdContainerAssumption DEF Swaps, Buffers, OneMemory, Devices, Workers
<1>7. CASE Push(w)
  <2>1. /\ UNCHANGED <<triggers, armed, filled, memory, bundle>>
        /\ work_pc[w] = "push" /\ work_pc'[w] \in {"inner", "outer"}
        /\ queue'[w] = Append(queue[w], bundle[Class(w)])
    BY <1>7, <1>t DEF Push, LoopStart
  <2>2. /\ Len(queue'[w]) = Len(queue[w]) + 1 /\ queue'[w][Len(queue[w]) + 1] = bundle[Class(w)]
        /\ \A i \in 1 .. Len(queue[w]) : queue'[w][i] = queue[w][i]
    BY <1>t, <2>1
  <2>3. Moving(w) = 1 /\ Moving(w)' = 0 /\ Unread(w)' = Unread(w) /\ InTransit(w) = bundle[Class(w)]
    BY <2>1, <1>c DEF Moving, Unread, InTransit, OneMemory, Swaps
  <2>n. /\ Len(queue[w]) \in Nat /\ Len(Unread(w)) \in Nat /\ Gone(w) \in Int /\ triggers \in Nat
    BY <1>0, CountTypes
  <2>4. Gone(w)' = Gone(w)
    BY <2>1, <2>2, <2>3, <2>n DEF Gone
  <2>5. \A i \in 1 .. Len(queue'[w]) : queue'[w][i][2] = Gone(w) + i
    <3> SUFFICES ASSUME NEW i \in 1 .. Len(queue'[w]) PROVE queue'[w][i][2] = Gone(w) + i
      OBVIOUS
    <3>1. CASE i = Len(queue[w]) + 1
      BY <2>2, <2>3, <2>n, <3>1 DEF Sound
    <3>2. CASE i # Len(queue[w]) + 1
      <4>1. i \in 1 .. Len(queue[w])
        BY <2>2, <2>n, <3>2
      <4> QED
        BY <2>2, <4>1 DEF Sound
    <3> QED
      BY <3>1, <3>2
  <2>6. \A i \in 1 .. Len(Unread(w)) :
          Unread(w)[i][2] = Gone(w) + Len(queue'[w]) + 0 + i
    BY <2>2, <2>3, <2>n DEF Sound
  <2> QED
    BY <2>3, <2>4, <2>5, <2>6 DEF Sound
<1>8. CASE Exit(w)
  <2>1. /\ UNCHANGED <<triggers, filled, memory, queue, bundle>>
        /\ work_pc[w] = "exit" /\ work_pc'[w] = "done" /\ Buffers(w)
    BY <1>8, <1>b, <1>t DEF Exit
  <2>2. Unread(w)' = Unread(w) /\ Moving(w)' = Moving(w) /\ Moving(w) = 0
    BY <2>1 DEF Unread, Moving, OneMemory, Swaps, Buffers
  <2> QED
    BY <2>1, <2>2, SamePlaces
<1> QED
  BY <1>1, <1>2, <1>3, <1>4, <1>5, <1>6, <1>7, <1>8 DEF WorkLoop

(* A trigger that finds the board ready is in its memory.                  *)
LEMMA TriggerStep ==
  ASSUME TypeInv, Trigger, NEW w \in Workers, BoardInv(w)
  PROVE  /\ BoardInv(w)'
         /\ uniform' /\ Sound(w) => Sound(w)' /\ Gone(w)' = Gone(w)
<1> DEFINE e == <<w, triggers + 1>>
<1>t. /\ filled[w] \in Seq(Events) /\ queue[w] \in Seq(Events) /\ triggers \in Nat
      /\ e \in Events /\ armed[w] \in BOOLEAN
  <2>1. /\ filled[w] \in Seq(Events) /\ queue[w] \in Seq(Events) /\ triggers \in Nat
        /\ armed[w] \in BOOLEAN
    BY WorkerTypes, WfdContainerAssumption DEF TypeInv, TypeOK
  <2>2. triggers + 1 \in 0 .. MaxTriggers
    BY <2>1, WfdContainerAssumption DEF Trigger
  <2> QED
    BY <2>1, <2>2 DEF Events
<1>1. /\ triggers' = triggers + 1 /\ (armed'[w] = (armed[w] /\ Buffers(w)))
      /\ uniform' => uniform /\ Ready(w)
      /\ UNCHANGED <<memory, queue, work_pc, is_event, bundle>>
  BY DEF Trigger, queueVars, workVars
<1>2. filled'[w] = IF ~armed[w] THEN filled[w]
                   ELSE (IF Buffers(w) THEN filled[w] ELSE <<>>) \o <<e>>
  BY DEF Trigger
<1>3. armed[w] /\ ~Buffers(w) => filled'[w] = <<e>>
  BY <1>2
<1>4. e # AtReset(w) /\ Len(<<e>>) = 1 /\ <<e>>[1] = e
  BY <1>t DEF AtReset
<1>5. BoardInv(w)'
  <2>1. CASE armed[w] /\ ~Buffers(w)
    <3>1. ~armed'[w] /\ Len(filled'[w]) = 1
      BY <1>1, <1>3, <1>4, <2>1
    <3> QED
      BY <1>1, <2>1, <3>1 DEF BoardInv, Swaps, OneMemory, Buffers, Class, Ready
  <2>2. CASE ~armed[w]
    BY <1>1, <1>2, <2>2 DEF BoardInv, Swaps, OneMemory, Buffers, Class, Ready
  <2>3. CASE armed[w] /\ Buffers(w)
    BY <1>1, <2>3 DEF BoardInv, Swaps, OneMemory, Buffers, Class
  <2> QED
    BY <1>t, <2>1, <2>2, <2>3
<1>6. ASSUME uniform', Sound(w) PROVE Sound(w)' /\ Gone(w)' = Gone(w)
  <2>1. Ready(w) /\ armed[w]
    BY <1>1, <1>6 DEF Ready
  <2>2. Unread(w)' = Append(Unread(w), e)
    <3>1. CASE Buffers(w)
      <4>1. Unread(w) = filled[w] /\ Unread(w)' = filled'[w]
        BY <3>1 DEF Unread, OneMemory, Buffers
      <4>2. filled[w] \o <<e>> = Append(filled[w], e)
        BY <1>t, AppendIsConcat
      <4> QED
        BY <1>2, <2>1, <3>1, <4>1, <4>2
    <3>2. CASE ~Buffers(w)
      <4>1. filled'[w] = <<e>> /\ ~armed'[w]
        BY <1>1, <1>3, <2>1, <3>2
      <4>2. Unread(w) = <<>>
        BY <2>1, <3>2, WfdContainerAssumption
          DEF Unread, Ready, BoardInv, Swaps, OneMemory, Buffers, Devices, Workers
      <4>3. <<e>> # <<AtReset(w)>> /\ AtReset(w)' = AtReset(w)
        BY <1>4 DEF AtReset
      <4>4. Unread(w)' = <<e>>
        BY <4>1, <4>3 DEF Unread, OneMemory
      <4> QED
        BY <4>2, <4>4
    <3> QED
      BY <3>1, <3>2
  <2>3. Moving(w)' = Moving(w) /\ InTransit(w)' = InTransit(w)
    BY <1>1 DEF Moving, InTransit, Swaps, Class
  <2>n. /\ Len(queue[w]) \in Nat /\ Unread(w) \in Seq(Events) /\ Len(Unread(w)) \in Nat
        /\ Gone(w) \in Int /\ Moving(w) \in 0 .. 1
    BY CountTypes DEF TypeInv
  <2>4. /\ Len(Unread(w)') = Len(Unread(w)) + 1 /\ Unread(w)'[Len(Unread(w)) + 1] = e
        /\ \A i \in 1 .. Len(Unread(w)) : Unread(w)'[i] = Unread(w)[i]
    BY <1>t, <2>2, <2>n
  <2>5. Gone(w)' = Gone(w)
    <3>1. \A q, m, u \in Int : (triggers + 1) - q - m - (u + 1) = triggers - q - m - u
      BY <1>t
    <3>2. Len(queue[w]) \in Int /\ Moving(w) \in Int /\ Len(Unread(w)) \in Int
      BY <2>n
    <3>3. Gone(w)' = (triggers + 1) - Len(queue[w]) - Moving(w) - (Len(Unread(w)) + 1)
      BY <1>1, <2>3, <2>4 DEF Gone
    <3>4. Gone(w) = triggers - Len(queue[w]) - Moving(w) - Len(Unread(w))
      BY DEF Gone
    <3> QED
      BY <3>1, <3>2, <3>3, <3>4
  <2>6. Gone(w) + Len(queue[w]) + Moving(w) + (Len(Unread(w)) + 1) = triggers + 1
    BY <1>t, <2>n DEF Gone
  <2>7. ASSUME NEW i \in 1 .. Len(Unread(w)')
        PROVE  Unread(w)'[i][2] = Gone(w) + Len(queue[w]) + Moving(w) + i
    <3>1. CASE i = Len(Unread(w)) + 1
      BY <2>4, <2>6, <3>1
    <3>2. CASE i # Len(Unread(w)) + 1
      <4>1. i \in 1 .. Len(Unread(w))
        BY <2>4, <2>n, <3>2
      <4> QED
        BY <1>6, <2>4, <4>1 DEF Sound
    <3> QED
      BY <3>1, <3>2
  <2> QED
    BY <1>1, <1>6, <2>3, <2>5, <2>7 DEF Sound
<1> QED
  BY <1>5, <1>6

(* A pop takes the oldest event.                                           *)
LEMMA PopStep ==
  ASSUME TypeOK, NEW w \in Workers, Sound(w), queue[w] # <<>>, queue'[w] = Tail(queue[w]),
         UNCHANGED <<boardVars, workVars>>
  PROVE  Sound(w)' /\ Gone(w)' = Gone(w) + 1 /\ Head(queue[w])[2] = Gone(w) + 1
<1>1. /\ queue[w] \in Seq(Events) /\ Len(queue[w]) \in Nat \ {0} /\ Gone(w) \in Int
      /\ triggers \in Nat /\ Moving(w) \in 0 .. 1 /\ Len(Unread(w)) \in Nat
  BY CountTypes
<1>2. /\ Len(queue'[w]) = Len(queue[w]) - 1
      /\ \A i \in 1 .. Len(queue'[w]) : queue'[w][i] = queue[w][i + 1]
      /\ Head(queue[w]) = queue[w][1]
  BY <1>1
<1>3. /\ Moving(w)' = Moving(w) /\ InTransit(w)' = InTransit(w) /\ Unread(w)' = Unread(w)
      /\ triggers' = triggers
  BY DEF Moving, InTransit, Unread, OneMemory, Swaps, Class, AtReset, boardVars, workVars
<1>4. Gone(w)' = Gone(w) + 1
  BY <1>1, <1>2, <1>3 DEF Gone
<1>5. ASSUME NEW i \in 1 .. Len(queue'[w]) PROVE queue'[w][i][2] = Gone(w) + 1 + i
  <2>1. i + 1 \in 1 .. Len(queue[w])
    BY <1>1, <1>2
  <2>2. queue[w][i + 1][2] = Gone(w) + (i + 1)
    BY <2>1 DEF Sound
  <2>3. Gone(w) + (i + 1) = Gone(w) + 1 + i
    BY <1>1
  <2> QED
    BY <1>2, <2>2, <2>3
<1>6. Gone(w)' + Len(queue'[w]) = Gone(w) + Len(queue[w])
  BY <1>1, <1>2, <1>4
<1>7. Head(queue[w])[2] = Gone(w) + 1
  BY <1>1, <1>2 DEF Sound
<1> QED
  BY <1>3, <1>4, <1>5, <1>6, <1>7 DEF Sound

(* No two workers are of one class. *)
Distinct == \A u, v \in Workers : Device[u] = Device[v] => u = v

(* What a step does to a worker, but for the triggers, the work of its own *)
(* thread and the calls that take events away: nothing that counts.        *)
LEMMA OthersStep ==
  ASSUME Distinct, TypeInv, NEW w \in Workers,
         \/ \E u \in Workers \ {w} : WorkLoop(u)
         \/ Caller /\ ~GetEventData /\ ~FlushEventData
         \/ UNCHANGED vars
  PROVE  Untouched(w)
<1>t. /\ DOMAIN armed = Workers /\ DOMAIN work_pc = Workers /\ DOMAIN bundle = Devices
      /\ DOMAIN filled = Workers /\ DOMAIN memory = Workers /\ DOMAIN is_event = Devices
      /\ DOMAIN queue = Workers /\ Class(w) \in Devices /\ at \in Workers
  BY WorkerTypes DEF TypeInv, TypeOK
<1> USE DEF Untouched, boardVars, queueVars, workVars, callVars
<1>1. ASSUME NEW u \in Workers \ {w}, WorkLoop(u) PROVE Untouched(w)
  <2>0. Class(u) # Class(w) /\ u # w
    BY <1>1 DEF Distinct, Class
  <2> USE DEF Work
  <2>1. CASE TestLive(u) \/ TestGo(u) \/ Report(u) \/ PollBuffer(u) \/ DumpFirst(u)
    BY <1>t, <2>0, <2>1 DEF TestLive, TestGo, Report, PollBuffer, DumpFirst
  <2>2. CASE Poll(u)
    BY <1>t, <2>0, <2>2 DEF Poll
  <2>3. CASE Arm(u)
    BY <1>t, <2>0, <2>3 DEF Arm
  <2>4. CASE GetEvent(u)
    BY <1>t, <2>0, <2>4 DEF GetEvent
  <2>5. CASE Push(u)
    BY <1>t, <2>0, <2>5 DEF Push
  <2>6. CASE Exit(u)
    BY <1>t, <2>0, <2>6 DEF Exit
  <2> QED
    BY <1>1, <2>1, <2>2, <2>3, <2>4, <2>5, <2>6 DEF WorkLoop
<1>2. CASE Spawn
  BY <1>t, <1>2 DEF Spawn, ThreadStart
<1>3. CASE Join
  BY <1>t, <1>3 DEF Join
<1>4. CASE Caller /\ ~GetEventData /\ ~FlushEventData /\ ~Spawn /\ ~Join
  BY <1>4 DEF Caller, InCall, StartRun, StopRun, Build, BeginFlush, Begin, StartThreads,
    StartWorkers, StopWorkers, StopThreads, AllWorkersHaveEvent
<1>5. CASE UNCHANGED vars
  BY <1>5 DEF vars
<1> QED
  BY <1>1, <1>2, <1>3, <1>4, <1>5

(* Only a flush, and then one that leaves nothing behind, puts the workers *)
(* back in step.                                                           *)
LEMMA UniformStep ==
  ASSUME uniform',
         \/ Trigger \/ (Caller /\ ~FlushEventData) \/ UNCHANGED vars
         \/ \E u \in Workers : WorkLoop(u)
  PROVE  uniform
BY DEF vars, Trigger, Caller, InCall, StartRun, StopRun, Build, BeginFlush, Begin,
  StartThreads, Spawn, StartWorkers, StopWorkers, StopThreads, Join, AllWorkersHaveEvent,
  GetEventData, WorkLoop, TestLive, TestGo, Poll, Arm, Report, PollBuffer, DumpFirst, GetEvent,
  Push, Exit

LEMMA BoardInvariant ==
  ASSUME Distinct
  PROVE  Spec => []\A w \in Workers : BoardInv(w)
<1>1. Init => \A w \in Workers : BoardInv(w)
  <2> SUFFICES ASSUME Init, NEW w \in Workers PROVE BoardInv(w)
    OBVIOUS
  <2>1. /\ work_pc[w] \notin Readout /\ (armed[w] <=> Device[w] # "Sis3302")
        /\ filled[w] = IF Device[w] = "Sis3302" THEN <<AtReset(w)>> ELSE <<>>
        /\ work_pc[w] \in {"first", "outer"}
    BY DEF Init, Readout
  <2>2. Len(<<AtReset(w)>>) = 1
    OBVIOUS
  <2> QED
    BY <2>1, <2>2 DEF BoardInv, Swaps
<1>2. TypeInv /\ (\A w \in Workers : BoardInv(w)) /\ [Next]_vars => (\A w \in Workers : BoardInv(w))'
  <2> SUFFICES ASSUME TypeInv, \A w \in Workers : BoardInv(w), [Next]_vars, NEW w \in Workers
               PROVE  BoardInv(w)'
    OBVIOUS
  <2>1. CASE Trigger
    BY <2>1, TriggerStep
  <2>2. CASE WorkLoop(w)
    BY <2>2, ThreadBoard
  <2>3. CASE FlushEventData
    <3>1. UNCHANGED <<boardVars, workVars>> /\ (uniform' => Drained(w))
      BY <2>3 DEF FlushEventData
    <3> QED
      BY <3>1 DEF BoardInv, Drained, Ready, Swaps, OneMemory, Buffers, Class, boardVars, workVars
  <2>4. CASE GetEventData
    <3>1. UNCHANGED <<boardVars, workVars>> /\ (uniform' => uniform)
      BY <2>4 DEF GetEventData
    <3> QED
      BY <3>1 DEF BoardInv, Swaps, OneMemory, Buffers, Class, boardVars, workVars
  <2>5. CASE \/ \E u \in Workers \ {w} : WorkLoop(u)
             \/ Caller /\ ~GetEventData /\ ~FlushEventData
             \/ UNCHANGED vars
    <3>1. Untouched(w) /\ (uniform' => uniform)
      BY <2>5, OthersStep, UniformStep
    <3> QED
      BY <3>1, UntouchedStep
  <2> QED
    BY <2>1, <2>2, <2>3, <2>4, <2>5 DEF Next
<1> QED
  BY <1>1, <1>2, TypeInvariant, PTL DEF Spec

(* What a step that loses nothing does to the workers: only the bundle     *)
(* that is collected takes an event away, and from one worker.             *)
LEMMA GoneStep ==
  ASSUME Distinct, TypeInv, \A w \in Workers : BoardInv(w), \A w \in Workers : Sound(w),
         [Next]_vars, uniform', ~FlushEventData, NEW w \in Workers
  PROVE  /\ Sound(w)'
         /\ GetEventData /\ w = at =>
              Gone(w)' = Gone(w) + 1 /\ Head(queue[w])[2] = Gone(w) + 1
         /\ ~(GetEventData /\ w = at) => Gone(w)' = Gone(w)
<1>0. TypeOK /\ at \in Workers /\ DOMAIN queue = Workers
  BY DEF TypeInv, TypeOK
<1>1. CASE GetEventData
  <2>1. queue[at] # <<>> /\ UNCHANGED <<boardVars, workVars>> /\ uniform
    BY <1>1 DEF GetEventData
  <2>2. queue' = [queue EXCEPT ![at] = Tail(queue[at])]
    BY <1>1, <2>1 DEF GetEventData
  <2>3. CASE w = at
    BY <1>0, <1>1, <2>1, <2>2, <2>3, PopStep
  <2>4. CASE w # at
    <3>1. Untouched(w)
      BY <1>0, <2>1, <2>2, <2>4 DEF Untouched, boardVars, workVars
    <3> QED
      BY <2>1, <2>4, <3>1, UntouchedStep
  <2> QED
    BY <2>3, <2>4
<1>2. CASE ~GetEventData /\ Trigger
  BY <1>2, TriggerStep
<1>3. CASE ~GetEventData /\ WorkLoop(w)
  BY <1>3, ThreadSound
<1>4. CASE /\ ~GetEventData
           /\ \/ \E u \in Workers \ {w} : WorkLoop(u)
              \/ Caller
              \/ UNCHANGED vars
  <2>1. Untouched(w) /\ uniform
    BY <1>4, OthersStep, UniformStep
  <2> QED
    BY <1>4, <2>1, UntouchedStep
<1> QED
  BY <1>1, <1>2, <1>3, <1>4 DEF Next

(* A step that starts or moves on a call other than GetEventData()'s loop. *)
LEMMA CallStep ==
  ASSUME TypeInv, Caller, ~GetEventData
  PROVE  /\ call # "GetEventData" /\ event' \in {event, <<>>}
         /\ call' = "GetEventData" => at' = 1 /\ event' = <<>>
<1>1. CASE AllWorkersHaveEvent
  BY <1>1 DEF AllWorkersHaveEvent, Turn, TypeInv, CollectInv
<1>2. CASE Build
  BY <1>2 DEF Build, Begin
<1>3. CASE ~AllWorkersHaveEvent /\ ~Build
  BY <1>3 DEF Caller, InCall, StartRun, StopRun, BeginFlush, Begin, StartThreads, Spawn,
    StartWorkers, StopWorkers, StopThreads, Join, FlushEventData, Turn
<1> QED
  BY <1>1, <1>2, <1>3

(* A flush that leaves nothing behind: nothing waits anywhere.             *)
LEMMA FlushedStep ==
  ASSUME TypeInv, \A w \in Workers : BoardInv(w), FlushEventData, uniform'
  PROVE  AlignInv'
<1>1. /\ call' # "GetEventData" /\ event' = <<>> /\ triggers' = triggers
      /\ \A w \in Workers : Drained(w) /\ queue'[w] = <<>>
      /\ UNCHANGED <<boardVars, workVars>>
  BY WfdContainerAssumption
    DEF FlushEventData, Turn, TypeInv, CollectInv, TypeOK, Workers, boardVars
<1>2. ASSUME NEW w \in Workers PROVE Gone(w)' = triggers /\ Sound(w)'
  <2>1. work_pc[w] \notin {"report", "get", "push"} /\ (Swaps(w) => work_pc[w] \notin Readout)
    BY <1>1 DEF Drained, Swaps, Readout, TypeInv, PlaceInv, FirstPCs
  <2>2. Unread(w)' = <<>>
    BY <1>1 DEF Drained, Ready, Unread, OneMemory, AtReset, boardVars, workVars
  <2>3. Moving(w)' = 0
    BY <1>1, <2>1 DEF Moving, Swaps, workVars
  <2>4. Gone(w)' = triggers
    BY <1>1, <2>2, <2>3, CountTypes DEF Gone, TypeInv
  <2> QED
    BY <1>1, <2>2, <2>3, <2>4 DEF Sound
<1>3. \A u, v \in Workers : Level(u)' = Level(v)'
  BY <1>1, <1>2 DEF Level
<1> QED
  BY <1>1, <1>2, <1>3 DEF AlignInv, Aligned

(* No two workers are of one class: as long as every trigger found all     *)
(* boards ready and no event was dumped, dropped or asked for in vain, and *)
(* again after a flush that leaves nothing behind, the events of one       *)
(* bundle belong to one trigger, whatever starts and stops the run.        *)
THEOREM AlignedCorrect ==
  ASSUME Distinct
  PROVE  Spec => []Aligned
<1> DEFINE AllBoards == \A w \in Workers : BoardInv(w)
<1>1. Init => AlignInv
  <2> SUFFICES ASSUME Init PROVE AlignInv
    OBVIOUS
  <2>1. /\ call = "idle" /\ event = <<>> /\ triggers = 0 /\ Aligned
    BY DEF Init, Aligned
  <2>2. ASSUME NEW w \in Workers PROVE Sound(w) /\ Level(w) = 0
    <3>1. /\ work_pc[w] \in {"first", "outer"} /\ queue[w] = <<>>
          /\ filled[w] = IF Device[w] = "Sis3302" THEN <<AtReset(w)>> ELSE <<>>
      BY DEF Init
    <3>2. Moving(w) = 0 /\ Unread(w) = <<>>
      BY <3>1 DEF Moving, Unread, OneMemory, Readout
    <3>3. Gone(w) = 0
      <4>1. Len(queue[w]) = 0 /\ Len(Unread(w)) = 0
        BY <3>1, <3>2
      <4>2. Gone(w) = 0 - 0 - 0 - 0
        BY <2>1, <3>2, <4>1, Zenon DEF Gone
      <4> QED
        BY <4>2
    <3> QED
      BY <2>1, <3>1, <3>2, <3>3 DEF Sound, Level
  <2> QED
    BY <2>1, <2>2 DEF AlignInv
<1>2. TypeInv /\ AllBoards /\ AlignInv /\ [Next]_vars => AlignInv'
  <2> SUFFICES ASSUME TypeInv, AllBoards, AlignInv, [Next]_vars, uniform', ~FlushEventData
               PROVE  AlignInv'
    BY FlushedStep DEF AlignInv
  <2>0. uniform
    BY UniformStep DEF Next
  <2>1. /\ \A w \in Workers : Sound(w)
        /\ \A u, v \in Workers : Level(u) = Level(v)
        /\ call = "GetEventData" => \A i \in 1 .. Len(event) : event[i][2] = Gone(i)
        /\ call # "GetEventData" => Aligned
    BY <2>0 DEF AlignInv
  <2>2. /\ \A w \in Workers : Sound(w)' /\ Gone(w) \in Int
        /\ \A w \in Workers : GetEventData /\ w = at =>
             Gone(w)' = Gone(w) + 1 /\ Head(queue[w])[2] = Gone(w) + 1
        /\ \A w \in Workers : ~(GetEventData /\ w = at) => Gone(w)' = Gone(w)
    BY <2>1, GoneStep, CountTypes DEF TypeInv
  <2>3. /\ at \in 1 .. N /\ N \in Nat /\ event \in Seq(Events) /\ Len(event) \in 0 .. N
    BY WfdContainerAssumption DEF TypeInv, TypeOK, Workers
  <2>4. CASE GetEventData
    <3>1. call = "GetEventData" /\ Len(event) = at - 1 /\ queue[at] # <<>>
      BY <2>4 DEF GetEventData, Turn, TypeInv, CollectInv
    <3>2. event' = Append(event, Head(queue[at]))
      BY <2>4, <3>1 DEF GetEventData
    <3>3. /\ Len(event') = at /\ event'[at] = Head(queue[at])
          /\ \A i \in 1 .. at - 1 : event'[i] = event[i]
      BY <2>3, <3>1, <3>2
    <3>4. \A i \in 1 .. at - 1 : event'[i][2] = Gone(i)'
      BY <2>1, <2>2, <2>3, <3>1, <3>3 DEF Workers
    <3>5. \A i \in 1 .. Len(event') : event'[i][2] = Gone(i)'
      <4> SUFFICES ASSUME NEW i \in 1 .. Len(event') PROVE event'[i][2] = Gone(i)'
        OBVIOUS
      <4>1. CASE i = at
        BY <2>2, <2>3, <2>4, <3>3, <4>1 DEF Workers
      <4>2. CASE i # at
        BY <2>3, <3>3, <3>4, <4>2
      <4> QED
        BY <4>1, <4>2
    <3>6. CASE at < N
      <4>1. at' = at + 1 /\ call' = "GetEventData"
        BY <2>4, <3>6 DEF GetEventData, Turn
      <4>2. \A w \in Workers : Level(w)' = Level(w)
        <5> SUFFICES ASSUME NEW w \in Workers PROVE Level(w)' = Level(w)
          OBVIOUS
        <5>1. w < at' <=> w < at \/ w = at
          BY <2>3, <4>1 DEF Workers
        <5>2. Level(w)' = Gone(w)' - (IF w < at' THEN 1 ELSE 0)
          BY <4>1 DEF Level
        <5>3. Level(w) = Gone(w) - (IF w < at THEN 1 ELSE 0)
          BY <3>1 DEF Level
        <5>4. CASE w = at
          BY <2>2, <2>3, <2>4, <5>1, <5>2, <5>3, <5>4
        <5>5. CASE w # at
          BY <2>2, <5>1, <5>2, <5>3, <5>5
        <5> QED
          BY <5>4, <5>5
      <4> QED
        BY <2>1, <2>2, <3>5, <4>1, <4>2 DEF AlignInv
    <3>7. CASE at = N
      <4>1. call' = "idle"
        BY <2>3, <2>4, <3>7 DEF GetEventData, Turn
      <4>2. \A w \in Workers : Level(w)' = Level(w) + 1 /\ Level(w)' = Gone(w)'
        <5> SUFFICES ASSUME NEW w \in Workers
                     PROVE  Level(w)' = Level(w) + 1 /\ Level(w)' = Gone(w)'
          OBVIOUS
        <5>1. Level(w)' = Gone(w)' - 0 /\ Level(w) = Gone(w) - (IF w < at THEN 1 ELSE 0)
          BY <3>1, <4>1 DEF Level
        <5>2. CASE w = at
          BY <2>2, <2>3, <2>4, <5>1, <5>2
        <5>3. CASE w # at
          <6>1. w < at
            BY <2>3, <3>7, <5>3 DEF Workers
          <6> QED
            BY <2>2, <5>1, <5>3, <6>1
        <5> QED
          BY <5>2, <5>3
      <4>3. \A u, v \in Workers : Level(u)' = Level(v)'
        BY <2>1, <4>2
      <4>4. \A i \in 1 .. Len(event') : i \in Workers /\ event'[i][2] = Level(i)'
        BY <2>3, <3>3, <3>5, <4>2 DEF Workers
      <4>5. Aligned'
        BY <4>3, <4>4 DEF Aligned
      <4> QED
        BY <2>2, <4>1, <4>3, <4>5 DEF AlignInv
    <3> QED
      BY <2>3, <3>6, <3>7
  <2>5. CASE ~GetEventData
    <3>1. \A w \in Workers : Gone(w)' = Gone(w)
      BY <2>2, <2>5
    <3>2. CASE UNCHANGED callVars
      <4>1. \A w \in Workers : Level(w)' = Level(w)
        BY <3>1, <3>2 DEF Level, callVars
      <4>2. call = "GetEventData" => \A i \in 1 .. Len(event) : event[i][2] = Gone(i)'
        BY <2>1, <2>3, <3>1 DEF Workers
      <4>3. Aligned => Aligned'
        BY <2>0, <3>2 DEF Aligned, callVars
      <4> QED
        BY <2>1, <2>2, <3>2, <4>1, <4>2, <4>3 DEF AlignInv, callVars
    <3>3. CASE Caller
      <4>1. /\ call # "GetEventData" /\ event' \in {event, <<>>}
            /\ call' = "GetEventData" => at' = 1 /\ event' = <<>>
        BY <2>5, <3>3, CallStep
      <4>2. \A w \in Workers : Level(w)' = Level(w)
        BY <3>1, <4>1 DEF Level, Workers
      <4>3. Aligned'
        BY <2>0, <2>1, <4>1 DEF Aligned
      <4>4. call' = "GetEventData" => \A i \in 1 .. Len(event') : event'[i][2] = Gone(i)'
        BY <4>1
      <4> QED
        BY <2>1, <2>2, <4>2, <4>3, <4>4 DEF AlignInv
    <3>4. ASSUME NEW u \in Workers, WorkLoop(u) PROVE UNCHANGED callVars
      BY <3>4 DEF WorkLoop, TestLive, TestGo, Poll, Arm, Report, PollBuffer, DumpFirst, GetEvent,
        Push, Exit
    <3> QED
      BY <3>2, <3>3, <3>4 DEF Next, Trigger, vars
  <2> QED
    BY <2>4, <2>5
<1>3. TypeInv /\ AlignInv => Aligned
  <2> SUFFICES ASSUME TypeInv, AlignInv, uniform, call = "GetEventData"
               PROVE  \A i, j \in 1 .. Len(event) : event[i][2] = event[j][2]
    BY DEF AlignInv, Aligned
  <2>1. at \in 1 .. N /\ N \in Nat /\ Len(event) = at - 1
    BY WfdContainerAssumption DEF TypeInv, TypeOK, CollectInv, Workers
  <2>2. \A i \in 1 .. Len(event) : i \in Workers /\ Gone(i) \in Int /\ Level(i) = Gone(i) - 1
    BY <2>1, CountTypes DEF Level, Workers, TypeInv
  <2>3. \A i, j \in 1 .. Len(event) : Gone(i) = Gone(j)
    BY <2>2 DEF AlignInv
  <2> QED
    BY <2>3 DEF AlignInv
<1> QED
  BY <1>1, <1>2, <1>3, TypeInvariant, BoardInvariant, Distinct, PTL DEF Spec
================================================================================
