------------------------------ MODULE WfdContainer ------------------------------
(***************************************************************************)
(* The digitizers of one experiment behind a WfdContainer: each worker     *)
(* with its board, its work thread and its queue, and one caller that      *)
(* starts and stops runs, asks which workers have an event, collects one   *)
(* event from each and flushes.  Every call walks the list of workers one  *)
(* by one while the work threads run.                                      *)
(*                                                                         *)
(* The workers are those of module WfdBase at a coarser grain: what a      *)
(* thread does under queue_mutex_ is one step, as that module's theorems   *)
(* allow.  Each has the work loop and the board of its class; no access to *)
(* the bus fails.  An event is <<the worker whose board recorded it, the   *)
(* number of the trigger>>.                                                *)
(***************************************************************************)
EXTENDS Integers, Sequences

CONSTANTS N,             \* number of workers
          Device,        \* the class of each
          Calls,         \* the calls the caller makes
          kMaxQueueSize, \* a Sis3350 drops the oldest event beyond this
          MaxTriggers    \* bound: triggers of the experiment

Devices == {"Sis3302", "Sis3316", "Sis3350", "Caen1742"}
AllCalls == {"StartRun", "StopRun", "Build", "FlushEventData"}
Workers == 1 .. N

ASSUME WfdContainerAssumption ==
  /\ N \in Nat \ {0} /\ MaxTriggers \in Nat /\ kMaxQueueSize \in Nat \ {0}
  /\ Device \in [1 .. N -> Devices]
  /\ Calls \subseteq AllCalls

Nothing == <<0, 0>>
AtReset(w) == <<w, 0>>      \* what a board reads as before its first trigger

VARIABLES
  triggers,                   \* triggers so far
  armed,                      \* the boards take the next trigger
  filled, memory,             \* events in the memory that is filled; of a Sis3316,
                              \* in the bank that was swapped out
  live, go, flag, queue,      \* thread_live_, go_time_, has_event_, data_queue_
  work_pc,                    \* the work threads
  is_event, bundle,           \* "static bool is_event" of EventAvailable() and
                              \* "static wfd_data_t bundle", one per class
  call, at,                   \* the caller: the loop it is in, the worker it is at
  result,                     \* what the loop has found so far
  event,                      \* event_data_t: what GetEventData has collected
  written,                    \* history: has_event_ was assigned
  uniform                     \* history: since the start, or a flush that left
                              \* nothing behind, no worker missed or lost an event

boardVars == <<triggers, armed, filled, memory>>
queueVars == <<flag, queue, written>>
workVars  == <<work_pc, is_event, bundle>>
callVars  == <<call, at, result, event>>
vars == <<boardVars, live, go, queueVars, workVars, callVars, uniform>>

--------------------------------------------------------------------------------
(* Where the four classes differ.                                          *)

LoopTestsGo(w)   == Device[w] # "Sis3350"                  \* while (go_time_)
ArmTestsGo(w)    == Device[w] \in {"Sis3302", "Sis3316"}   \* if (is_event && go_time_)
FlagSetByCtor(w) == Device[w] \in {"Sis3302", "Caen1742"}  \* has_event_ = false
Buffers(w)       == Device[w] = "Caen1742"                 \* the board queues events
OneMemory(w)     == Device[w] \in {"Sis3302", "Sis3350"}   \* it is read where it is filled

(* The function-local statics: one set of them for all objects of a class. *)
Class(w) == Device[w]

LoopStart(w) == IF LoopTestsGo(w) THEN "inner" ELSE "outer"
ThreadStart(w) == IF Device[w] = "Sis3302" THEN "first" ELSE "outer"

Readout == {"report", "get", "firstReport", "firstGet"}
WorkPCs == Readout \cup {"off", "first", "firstArm", "outer", "inner", "poll", "arm",
                         "push", "exit", "done"}

Loops == {"idle", "StartThreads", "Spawn", "StartWorkers", "StopWorkers", "StopThreads",
          "Join", "AllWorkersHaveEvent", "GetEventData", "FlushEventData"}

(* After the constructors: go_time_ is set and the boards are armed, but   *)
(* for a Sis3302, which its thread arms; that may have looked at go_time_  *)
(* before it was set.  has_event_ is what the memory held, where the       *)
(* constructor does not lower it.                                          *)
Init ==
  /\ triggers = 0
  /\ armed = [w \in Workers |-> Device[w] # "Sis3302"]
  /\ filled = [w \in Workers |-> IF Device[w] = "Sis3302" THEN <<AtReset(w)>> ELSE <<>>]
  /\ memory = [w \in Workers |-> <<>>]
  /\ live = [w \in Workers |-> TRUE] /\ go = [w \in Workers |-> TRUE]
  /\ written = [w \in Workers |-> FlagSetByCtor(w)]
  /\ flag \in [Workers -> BOOLEAN] /\ \A w \in Workers : written[w] => ~flag[w]
  /\ queue = [w \in Workers |-> <<>>]
  /\ work_pc \in [Workers -> {"first", "outer"}]
  /\ \A w \in Workers : work_pc[w] \in {ThreadStart(w), "outer"}
  /\ bundle = [k \in Devices |-> Nothing] /\ is_event = [k \in Devices |-> FALSE]
  /\ call = "idle" /\ at = 1 /\ result = FALSE /\ event = <<>>
  /\ uniform = TRUE

--------------------------------------------------------------------------------
(* The trigger of the experiment: every armed board records it, the others *)
(* miss it.  A Sis3302 and a Sis3350 are rearmed before they are read, so  *)
(* that a trigger in between overwrites the event; a Sis3316 reads the     *)
(* first event of a bank only, so that a second one is as good as missed.  *)
Ready(w) == armed[w] /\ (OneMemory(w) => work_pc[w] \notin Readout)

Trigger ==
  /\ triggers < MaxTriggers
  /\ triggers' = triggers + 1
  /\ filled' = [w \in Workers |->
                  IF ~armed[w] THEN filled[w]
                  ELSE (IF Buffers(w) THEN filled[w] ELSE <<>>) \o << <<w, triggers + 1>> >>]
  /\ armed' = [w \in Workers |-> armed[w] /\ Buffers(w)]
  /\ uniform' = (uniform /\ \A w \in Workers : Ready(w))
  /\ UNCHANGED <<memory, live, go, queueVars, workVars, callVars>>

--------------------------------------------------------------------------------
(* The work threads.                                                       *)

Work(w, from, to) == work_pc[w] = from /\ work_pc' = [work_pc EXCEPT ![w] = to]

(* while (thread_live_) *)
TestLive(w) ==
  /\ Work(w, "outer", IF ~live[w] THEN (IF Buffers(w) THEN "exit" ELSE "done")
                      ELSE IF LoopTestsGo(w) THEN "inner" ELSE "poll")
  /\ UNCHANGED <<boardVars, live, go, queueVars, is_event, bundle, callVars, uniform>>

(* while (go_time_) *)
TestGo(w) ==
  /\ Work(w, "inner", IF go[w] THEN "poll" ELSE "outer")
  /\ UNCHANGED <<boardVars, live, go, queueVars, is_event, bundle, callVars, uniform>>

(* EventAvailable() of the Struck boards: read the status of the board     *)
(* into the static; with an event there, for two of the classes only while *)
(* go_time_ holds, rearm the board; report what the static says then.  In  *)
(* a Sis3302 the first time is before the loop.                            *)
Poll(w) ==
  /\ ~Buffers(w)
  /\ Work(w, "poll", "arm") \/ Work(w, "first", "firstArm")
  /\ is_event' = [is_event EXCEPT ![Class(w)] = ~armed[w]]
  /\ UNCHANGED <<boardVars, live, go, queueVars, bundle, callVars, uniform>>

Detected(w) == is_event[Class(w)] /\ (ArmTestsGo(w) => go[w])

(* Seeded fault: the board is rearmed even if the event is not reported. *)
Arm_Forgets(w) ==
  /\ \/ Work(w, "arm", IF Detected(w) THEN "report" ELSE LoopStart(w))
     \/ Work(w, "firstArm", IF Detected(w) THEN "firstReport" ELSE "outer")
  /\ armed' = [armed EXCEPT ![w] = @ \/ is_event[Class(w)]]
  /\ IF is_event[Class(w)] /\ ~OneMemory(w)
       THEN /\ memory' = [memory EXCEPT ![w] = filled[w]]
            /\ filled' = [filled EXCEPT ![w] = <<>>]
       ELSE UNCHANGED <<memory, filled>>
  /\ UNCHANGED <<triggers, live, go, queueVars, is_event, bundle, callVars, uniform>>

(* Rearming a Sis3316 swaps its banks. *)
Arm(w) ==
  /\ \/ Work(w, "arm", IF Detected(w) THEN "report" ELSE LoopStart(w))
     \/ Work(w, "firstArm", IF Detected(w) THEN "firstReport" ELSE "outer")
  /\ armed' = [armed EXCEPT ![w] = @ \/ Detected(w)]
  /\ IF Detected(w) /\ ~OneMemory(w)
       THEN /\ memory' = [memory EXCEPT ![w] = filled[w]]
            /\ filled' = [filled EXCEPT ![w] = <<>>]
       ELSE UNCHANGED <<memory, filled>>
  /\ UNCHANGED <<triggers, live, go, queueVars, is_event, bundle, callVars, uniform>>

Report(w) ==
  /\ \/ Work(w, "report", IF is_event[Class(w)] THEN "get" ELSE LoopStart(w))
     \/ Work(w, "firstReport", IF is_event[Class(w)] THEN "firstGet" ELSE "outer")
  /\ UNCHANGED <<boardVars, live, go, queueVars, is_event, bundle, callVars, uniform>>

(* EventAvailable() of the Caen1742. *)
PollBuffer(w) ==
  /\ Buffers(w)
  /\ Work(w, "poll", IF filled[w] # <<>> THEN "get" ELSE "inner")
  /\ UNCHANGED <<boardVars, live, go, queueVars, is_event, bundle, callVars, uniform>>

(* What GetEvent() reads. *)
InBoard(w) ==
  LET m == IF Device[w] = "Sis3316" THEN memory[w] ELSE filled[w]
  IN  IF m = <<>> THEN AtReset(w) ELSE Head(m)

(* GetEvent(tmp), before the loop of a Sis3302. *)
DumpFirst(w) ==
  /\ Work(w, "firstGet", "outer")
  /\ uniform' = (uniform /\ InBoard(w) = AtReset(w))
  /\ UNCHANGED <<boardVars, live, go, queueVars, is_event, bundle, callVars>>

(* GetEvent(bundle), into the static of the class. *)
GetEvent(w) ==
  /\ Work(w, "get", "push")
  /\ bundle' = [bundle EXCEPT ![Class(w)] = InBoard(w)]
  /\ filled' = IF Buffers(w) THEN [filled EXCEPT ![w] = Tail(@)] ELSE filled
  /\ uniform' = (uniform /\ InBoard(w) # AtReset(w))
  /\ UNCHANGED <<triggers, armed, memory, live, go, queueVars, is_event, callVars>>

(* Push the static on the queue and raise the flag; a Sis3350 drops the    *)
(* oldest event of a full queue.                                           *)
Full(w) == Device[w] = "Sis3350" /\ Len(queue[w]) >= kMaxQueueSize

Push(w) ==
  /\ Work(w, "push", LoopStart(w))
  /\ LET pushed == Append(queue[w], bundle[Class(w)])
     IN  queue' = [queue EXCEPT ![w] = IF Full(w) THEN Tail(pushed) ELSE pushed]
  /\ flag' = [flag EXCEPT ![w] = TRUE] /\ written' = [written EXCEPT ![w] = TRUE]
  /\ uniform' = (uniform /\ ~Full(w))
  /\ UNCHANGED <<boardVars, live, go, is_event, bundle, callVars>>

(* The thread of a Caen1742 clears the run bit of its board when it ends;  *)
(* only LoadConfig() sets it.                                              *)
Exit(w) ==
  /\ Work(w, "exit", "done")
  /\ armed' = [armed EXCEPT ![w] = FALSE]
  /\ UNCHANGED <<triggers, filled, memory, live, go, queueVars, is_event, bundle, callVars,
                 uniform>>

WorkLoop(w) ==
  \/ TestLive(w) \/ TestGo(w) \/ Poll(w) \/ Arm(w) \/ Report(w) \/ PollBuffer(w)
  \/ DumpFirst(w) \/ GetEvent(w) \/ Push(w) \/ Exit(w)

--------------------------------------------------------------------------------
(* The caller.  A call is one or two loops over the workers.               *)

Begin(name, loop) ==
  /\ call = "idle" /\ name \in Calls
  /\ call' = loop /\ at' = 1
  /\ UNCHANGED <<boardVars, live, go, queueVars, workVars, uniform>>

(* One turn of the loop: the next worker, or the next loop. *)
Turn(loop, after) ==
  /\ call = loop
  /\ IF at < N THEN at' = at + 1 /\ call' = loop
               ELSE at' = 1 /\ call' = after

StartRun == Begin("StartRun", "StartThreads") /\ UNCHANGED <<result, event>>
StopRun  == Begin("StopRun", "StopWorkers") /\ UNCHANGED <<result, event>>

(* StartThread(): tell the old thread to end, join it, start a new one. *)
StartThreads ==
  /\ call = "StartThreads" /\ call' = "Spawn"
  /\ go' = [go EXCEPT ![at] = FALSE]
  /\ live' = [live EXCEPT ![at] = FALSE]
  /\ UNCHANGED <<boardVars, queueVars, workVars, at, result, event, uniform>>

Spawn ==
  /\ call = "Spawn"
  /\ work_pc[at] \in {"off", "done"}
  /\ work_pc' = [work_pc EXCEPT ![at] = ThreadStart(at)]
  /\ live' = [live EXCEPT ![at] = TRUE]
  /\ IF at < N THEN at' = at + 1 /\ call' = "StartThreads"
               ELSE at' = 1 /\ call' = "StartWorkers"
  /\ UNCHANGED <<boardVars, go, queueVars, is_event, bundle, result, event, uniform>>

StartWorkers ==
  /\ Turn("StartWorkers", "idle")
  /\ go' = [go EXCEPT ![at] = TRUE]
  /\ UNCHANGED <<boardVars, live, queueVars, workVars, result, event, uniform>>

StopWorkers ==
  /\ Turn("StopWorkers", "StopThreads")
  /\ go' = [go EXCEPT ![at] = FALSE]
  /\ UNCHANGED <<boardVars, live, queueVars, workVars, result, event, uniform>>

(* StopThread(): clear both flags, join. *)
StopThreads ==
  /\ call = "StopThreads" /\ call' = "Join"
  /\ go' = [go EXCEPT ![at] = FALSE]
  /\ live' = [live EXCEPT ![at] = FALSE]
  /\ UNCHANGED <<boardVars, queueVars, workVars, at, result, event, uniform>>

Join ==
  /\ call = "Join"
  /\ work_pc[at] \in {"off", "done"}
  /\ work_pc' = [work_pc EXCEPT ![at] = "off"]
  /\ IF at < N THEN at' = at + 1 /\ call' = "StopThreads"
               ELSE at' = 1 /\ call' = "idle"
  /\ UNCHANGED <<boardVars, live, go, queueVars, is_event, bundle, result, event, uniform>>

(* A builder: if AllWorkersHaveEvent() then GetEventData(event). *)
Build ==
  /\ Begin("Build", "AllWorkersHaveEvent")
  /\ result' = TRUE /\ event' = <<>>

(* Seeded fault: the flags are or-ed. *)
AllWorkersHaveEvent_Any ==
  /\ result' = ((result /\ at > 1) \/ flag[at])
  /\ Turn("AllWorkersHaveEvent", IF result' THEN "GetEventData" ELSE "idle")
  /\ UNCHANGED <<boardVars, live, go, queueVars, workVars, event, uniform>>

(* has_event &= it->has_event() *)
AllWorkersHaveEvent ==
  /\ result' = (result /\ flag[at])
  /\ Turn("AllWorkersHaveEvent", IF result' THEN "GetEventData" ELSE "idle")
  /\ UNCHANGED <<boardVars, live, go, queueVars, workVars, event, uniform>>

(* bundle.push_back(it->PopEvent()); the empty queue leaves the flag alone. *)
GetEventData ==
  /\ Turn("GetEventData", "idle")
  /\ IF queue[at] = <<>>
       THEN event' = Append(event, Nothing) /\ UNCHANGED <<flag, queue>>
       ELSE /\ event' = Append(event, Head(queue[at]))
            /\ queue' = [queue EXCEPT ![at] = Tail(@)]
            /\ flag' = [flag EXCEPT ![at] = Tail(queue[at]) # <<>>]
  /\ uniform' = (uniform /\ queue[at] # <<>>)
  /\ UNCHANGED <<boardVars, live, go, written, workVars, result>>

(* The builder's bundle is over. *)
BeginFlush ==
  /\ Begin("FlushEventData", "FlushEventData")
  /\ event' = <<>> /\ UNCHANGED result

(* A worker with nothing in its board or its thread, and ready for more. *)
Drained(w) ==
  /\ Ready(w) /\ work_pc[w] \notin {"report", "get", "push"}
  /\ OneMemory(w) \/ filled[w] = <<>>

FlushEventData ==
  /\ Turn("FlushEventData", "idle")
  /\ queue' = [queue EXCEPT ![at] = <<>>]
  /\ flag' = [flag EXCEPT ![at] = FALSE] /\ written' = [written EXCEPT ![at] = TRUE]
  /\ uniform' = (at = N /\ \A w \in Workers : Drained(w) /\ queue'[w] = <<>>)
  /\ UNCHANGED <<boardVars, live, go, workVars, result, event>>

InCall ==
  \/ StartThreads \/ Spawn \/ StartWorkers \/ StopWorkers \/ StopThreads \/ Join
  \/ AllWorkersHaveEvent \/ GetEventData \/ FlushEventData

Caller == StartRun \/ StopRun \/ Build \/ BeginFlush \/ InCall

Next == Trigger \/ Caller \/ \E w \in Workers : WorkLoop(w)

Spec == Init /\ [][Next]_vars

--------------------------------------------------------------------------------
(* Properties.                                                             *)

Events == {Nothing} \cup (Workers \X (0 .. MaxTriggers))

(* The variables have their types. *)
TypeOK ==
  /\ triggers \in 0 .. MaxTriggers
  /\ armed \in [Workers -> BOOLEAN]
  /\ filled \in [Workers -> Seq(Events)] /\ memory \in [Workers -> Seq(Events)]
  /\ live \in [Workers -> BOOLEAN] /\ go \in [Workers -> BOOLEAN]
  /\ flag \in [Workers -> BOOLEAN] /\ queue \in [Workers -> Seq(Events)]
  /\ work_pc \in [Workers -> WorkPCs]
  /\ is_event \in [Devices -> BOOLEAN] /\ bundle \in [Devices -> Events]
  /\ call \in Loops /\ at \in Workers
  /\ result \in BOOLEAN /\ event \in Seq(Events) /\ Len(event) <= N
  /\ written \in [Workers -> BOOLEAN] /\ uniform \in BOOLEAN

(* When AllWorkersHaveEvent() found an event everywhere, GetEventData()    *)
(* gets one from every worker: what was seen in one loop is still there in *)
(* the next, unless what was seen is a has_event_ that nobody has assigned *)
(* (wfd_container.hh: "Checks if all workers have at least one event").    *)
NoHoles == [][GetEventData => queue[at] # <<>> \/ ~written[at]]_vars

(* The events of one bundle belong to one trigger: starting and stopping   *)
(* the workers one after the other never shifts their queues against each  *)
(* other, as long as every trigger found all boards ready and no event was *)
(* dumped, dropped or collected where there was none; and a flush that     *)
(* leaves nothing behind puts queues in step that were shifted.            *)
Aligned == uniform => \A i, j \in 1 .. Len(event) : event[i][2] = event[j][2]

(* The queue of a worker holds the events of its own board (wfd_base.hh:   *)
(* "stack to hold device events").                                         *)
OwnEvents == \A w \in Workers : \A i \in 1 .. Len(queue[w]) : queue[w][i][1] = w

(* wfd_container.hh: "Flush all stale events.  Each worker has no events   *)
(* after this."                                                            *)
FlushLeavesNothing ==
  [][ call = "FlushEventData" /\ call' = "idle" =>
        \A w \in Workers : queue'[w] = <<>> ]_vars
================================================================================
