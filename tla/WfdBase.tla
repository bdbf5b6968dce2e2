-------------------------------- MODULE WfdBase --------------------------------
(***************************************************************************)
(* One digitizer as the class WfdBase and its four subclasses build it: a  *)
(* work thread that polls the board and queues events, a run-control       *)
(* thread that starts and stops it, and client threads that look at        *)
(* has_event_, pop events and flush the queue.                             *)
(*                                                                         *)
(* A step is what one thread does between two points at which another can  *)
(* see it: an access to an atomic flag, an access under queue_mutex_, a    *)
(* call on the bus.  The board is left open here: any poll may find an     *)
(* event.  The device modules say when it does.                            *)
(***************************************************************************)
EXTENDS Integers, Sequences

CONSTANTS Clients,        \* threads that call PopEvent, FlushEvents, has_event
          Worker,         \* the work thread, as the owner of queue_mutex_
          NoThread,       \* "queue_mutex_ is free"
          Device,         \* which subclass of WfdBase this is
          kMaxQueueSize,  \* Sis3350 drops the oldest event beyond this
          MaxEvents       \* bound: events the board ever delivers

Devices == {"Sis3302", "Sis3316", "Sis3350", "Caen1742"}

ASSUME WfdBaseAssumption ==
  /\ Worker \notin Clients /\ NoThread \notin Clients /\ Worker # NoThread
  /\ Device \in Devices
  /\ kMaxQueueSize \in Nat \ {0}
  /\ MaxEvents \in Nat

--------------------------------------------------------------------------------
(* Where the four subclasses differ.                                       *)

LoopTestsGo  == Device # "Sis3350"                  \* while (go_time_)
ArmTestsGo   == Device \in {"Sis3302", "Sis3316"}   \* if (is_event && go_time_)
DumpsFirst   == Device = "Sis3302"                  \* the first event is dumped
DropsOldest  == Device = "Sis3350"                  \* bounded queue
FlagSetByCtor == Device \in {"Sis3302", "Caen1742"} \* has_event_ = false in ctor

VARIABLES
  thread_live_, go_time_, has_event_,   \* the atomics
  data_queue_, queue_mutex_,            \* the queue and the owner of its mutex
  data,          \* "static wfd_data_t data" of PopEvent, one for all callers
  work_pc,       \* the work thread; "off": work_thread_ is not joinable
  bundle,        \* the event the work thread holds, 0 for none
  ctl_pc, ctl_op,\* the run-control thread and the call it is in
  client_pc,     \* the client threads
  produced,      \* events read from the board so far; an event is its number
  returned,      \* history: events PopEvent has returned, in order
  discarded,     \* history: events dumped, dropped or flushed
  late           \* history: events queued since go_time_ became false

queueVars == <<has_event_, data_queue_, queue_mutex_>>
workVars  == <<work_pc, bundle, produced, late>>
popVars   == <<data, client_pc, returned>>
ctlVars   == <<thread_live_, go_time_, ctl_pc, ctl_op>>
vars == <<queueVars, workVars, popVars, ctlVars, discarded>>

LoopPCs == {"top", "inner", "trigger", "clear", "poll", "arm", "get"}
PushPCs == {"push", "flag", "drop", "unlock"}
WorkPCs == {"off", "first", "firstArm", "firstGet", "lock", "exit", "done"}
             \cup LoopPCs \cup PushPCs
PopPCs    == {"pop", "popFlag", "popUnlock"}
FlushPCs  == {"flush", "flushFlag", "flushUnlock"}
ClientPCs == {"idle", "seen", "return"} \cup PopPCs \cup FlushPCs

(* The constructor's StartThread() has entered StopThread().  The atomics  *)
(* are not initialised, except has_event_ in two of the subclasses.        *)
Init ==
  /\ thread_live_ \in BOOLEAN /\ go_time_ = FALSE
  /\ has_event_ \in (IF FlagSetByCtor THEN {FALSE} ELSE BOOLEAN)
  /\ data_queue_ = <<>> /\ queue_mutex_ = NoThread
  /\ data = 0 /\ bundle = 0
  /\ work_pc = "off"
  /\ ctl_pc = "stop" /\ ctl_op = "StartThread"
  /\ client_pc = [c \in Clients |-> "idle"]
  /\ produced = 0 /\ returned = <<>> /\ discarded = {} /\ late = 0

--------------------------------------------------------------------------------
(* The work thread: WorkLoop().                                            *)

Work(from, to) == work_pc = from /\ work_pc' = to

LoopStart == IF LoopTestsGo THEN "inner" ELSE "top"

(* while (thread_live_) *)
TestLive ==
  /\ Work("top", IF ~thread_live_ THEN "exit"
                 ELSE IF LoopTestsGo THEN "inner" ELSE "poll")
  /\ UNCHANGED <<queueVars, popVars, ctlVars, bundle, produced, late, discarded>>

(* while (go_time_) *)
TestGo ==
  /\ Work("inner", IF go_time_ THEN "trigger" ELSE "top")
  /\ UNCHANGED <<queueVars, popVars, ctlVars, bundle, produced, late, discarded>>

(* if (generate_software_trigger_) GenerateTrigger(): write the trigger    *)
(* key, then, if the write succeeded, clear the request.                   *)
Trigger ==
  /\ \/ Work("trigger", "poll")
     \/ Work("trigger", "clear")
     \/ Work("clear", "poll")
  /\ UNCHANGED <<queueVars, popVars, ctlVars, bundle, produced, late, discarded>>

(* EventAvailable(), first half: read the status register of the board.    *)
Poll(isEvent) ==
  /\ \/ Work("first", IF isEvent THEN "firstArm" ELSE "top")
     \/ Work("poll", IF isEvent THEN "arm" ELSE LoopStart)
  /\ UNCHANGED <<queueVars, popVars, ctlVars, bundle, produced, late, discarded>>

(* EventAvailable(), second half: rearm the board and report the event,    *)
(* for two of the subclasses only while go_time_ holds.                    *)
Rearms == ArmTestsGo => go_time_

Arm ==
  /\ \/ Work("firstArm", IF Rearms THEN "firstGet" ELSE "top")
     \/ Work("arm", IF Rearms THEN "get" ELSE LoopStart)
  /\ UNCHANGED <<queueVars, popVars, ctlVars, bundle, produced, late, discarded>>

(* GetEvent(tmp): the event read before the loop is thrown away. *)
DumpFirst ==
  /\ Work("firstGet", "top")
  /\ produced < MaxEvents
  /\ produced' = produced + 1
  /\ discarded' = discarded \cup {produced + 1}
  /\ UNCHANGED <<queueVars, popVars, ctlVars, bundle, late>>

(* GetEvent(bundle) *)
GetEvent ==
  /\ Work("get", "lock")
  /\ produced < MaxEvents
  /\ produced' = produced + 1
  /\ bundle' = produced + 1
  /\ UNCHANGED <<queueVars, popVars, ctlVars, late, discarded>>

WorkLock ==
  /\ Work("lock", "push")
  /\ queue_mutex_ = NoThread
  /\ queue_mutex_' = Worker
  /\ UNCHANGED <<has_event_, data_queue_, popVars, ctlVars, bundle, produced,
                 late, discarded>>

(* Seeded faults: a queue of one; the bundle is reset before it is queued. *)
Push_Overwrites ==
  /\ Work("push", "flag")
  /\ data_queue_' = <<bundle>>
  /\ bundle' = 0
  /\ late' = IF go_time_ THEN late ELSE late + 1
  /\ UNCHANGED <<has_event_, queue_mutex_, popVars, ctlVars, produced, discarded>>

Push_ResetFirst ==
  /\ Work("push", "flag")
  /\ bundle' = 0
  /\ data_queue_' = Append(data_queue_, bundle')
  /\ late' = IF go_time_ THEN late ELSE late + 1
  /\ UNCHANGED <<has_event_, queue_mutex_, popVars, ctlVars, produced, discarded>>

Push ==
  /\ Work("push", "flag")
  /\ data_queue_' = Append(data_queue_, bundle)
  /\ bundle' = 0
  /\ late' = IF go_time_ THEN late ELSE late + 1
  /\ UNCHANGED <<has_event_, queue_mutex_, popVars, ctlVars, produced, discarded>>

(* Seeded fault: the event is queued, the flag is not raised. *)
RaiseFlag_Missing ==
  /\ Work("flag", IF DropsOldest THEN "drop" ELSE "unlock")
  /\ UNCHANGED <<queueVars, popVars, ctlVars, bundle, produced, late, discarded>>

RaiseFlag ==
  /\ Work("flag", IF DropsOldest THEN "drop" ELSE "unlock")
  /\ has_event_' = TRUE
  /\ UNCHANGED <<data_queue_, queue_mutex_, popVars, ctlVars, bundle, produced,
                 late, discarded>>

(* Seeded faults: the limit is off by one; the newest event goes.        *)
Drop_OffByOne ==
  /\ Work("drop", "unlock")
  /\ IF Len(data_queue_) > kMaxQueueSize + 1
       THEN /\ discarded' = discarded \cup {Head(data_queue_)}
            /\ data_queue_' = Tail(data_queue_)
       ELSE UNCHANGED <<data_queue_, discarded>>
  /\ UNCHANGED <<has_event_, queue_mutex_, popVars, ctlVars, bundle, produced, late>>

Drop_Newest ==
  /\ Work("drop", "unlock")
  /\ IF Len(data_queue_) > kMaxQueueSize
       THEN /\ discarded' = discarded \cup {data_queue_[Len(data_queue_)]}
            /\ data_queue_' = SubSeq(data_queue_, 1, Len(data_queue_) - 1)
       ELSE UNCHANGED <<data_queue_, discarded>>
  /\ UNCHANGED <<has_event_, queue_mutex_, popVars, ctlVars, bundle, produced, late>>

(* Drop old events: one, if the queue is beyond its limit. *)
Drop ==
  /\ Work("drop", "unlock")
  /\ IF Len(data_queue_) > kMaxQueueSize
       THEN /\ discarded' = discarded \cup {Head(data_queue_)}
            /\ data_queue_' = Tail(data_queue_)
       ELSE UNCHANGED <<data_queue_, discarded>>
  /\ UNCHANGED <<has_event_, queue_mutex_, popVars, ctlVars, bundle, produced, late>>

(* Seeded fault: the thread reads on, without a look at go_time_. *)
WorkUnlock_ReadsOn ==
  /\ Work("unlock", "get")
  /\ queue_mutex_' = NoThread
  /\ UNCHANGED <<has_event_, data_queue_, popVars, ctlVars, bundle, produced,
                 late, discarded>>

WorkUnlock ==
  /\ Work("unlock", LoopStart)
  /\ queue_mutex_' = NoThread
  /\ UNCHANGED <<has_event_, data_queue_, popVars, ctlVars, bundle, produced,
                 late, discarded>>

(* The function returns; the thread is finished but not yet joined. *)
Exit ==
  /\ Work("exit", "done")
  /\ UNCHANGED <<queueVars, popVars, ctlVars, bundle, produced, late, discarded>>

MayPoll == produced < MaxEvents

WorkLoop ==
  \/ TestLive \/ TestGo \/ Trigger
  \/ \E isEvent \in BOOLEAN : (isEvent => MayPoll) /\ Poll(isEvent)
  \/ Arm \/ DumpFirst \/ GetEvent
  \/ WorkLock \/ Push \/ RaiseFlag \/ Drop \/ WorkUnlock \/ Exit

--------------------------------------------------------------------------------
(* The run-control thread.                                                 *)

Control(from, to) == ctl_pc = from /\ ctl_pc' = to

StartWorker ==
  /\ Control("idle", "idle")
  /\ go_time_' = TRUE
  /\ late' = 0
  /\ UNCHANGED <<queueVars, popVars, work_pc, bundle, produced, thread_live_,
                 ctl_op, discarded>>

StopWorker ==
  /\ Control("idle", "idle")
  /\ go_time_' = FALSE
  /\ UNCHANGED <<queueVars, workVars, popVars, thread_live_, ctl_op, discarded>>

(* StopThread(), called for itself or as the first thing StartThread()     *)
(* does: go_time_ = false, thread_live_ = false, join.                     *)
StopThread ==
  /\ Control("idle", "stop")
  /\ ctl_op' \in {"StopThread", "StartThread"}
  /\ go_time_' = FALSE
  /\ UNCHANGED <<queueVars, workVars, popVars, thread_live_, discarded>>

(* Seeded fault: the outer loop is not told to end. *)
ClearLive_Missing ==
  /\ Control("stop", "join")
  /\ UNCHANGED <<queueVars, workVars, popVars, thread_live_, go_time_, ctl_op, discarded>>

ClearLive ==
  /\ Control("stop", "join")
  /\ thread_live_' = FALSE
  /\ UNCHANGED <<queueVars, workVars, popVars, go_time_, ctl_op, discarded>>

Join ==
  /\ Control("join", IF ctl_op = "StartThread" THEN "start" ELSE "idle")
  /\ work_pc \in {"off", "done"}
  /\ work_pc' = "off"
  /\ UNCHANGED <<queueVars, popVars, bundle, produced, late, thread_live_,
                 go_time_, ctl_op, discarded>>

(* The rest of StartThread(): thread_live_ = true, a new thread. *)
SetLive ==
  /\ Control("start", "spawn")
  /\ thread_live_' = TRUE
  /\ UNCHANGED <<queueVars, workVars, popVars, go_time_, ctl_op, discarded>>

Spawn ==
  /\ Control("spawn", "idle")
  /\ work_pc' = IF DumpsFirst THEN "first" ELSE "top"
  /\ UNCHANGED <<queueVars, popVars, bundle, produced, late, thread_live_,
                 go_time_, ctl_op, discarded>>

RunControl ==
  StartWorker \/ StopWorker \/ StopThread \/ ClearLive \/ Join \/ SetLive \/ Spawn

--------------------------------------------------------------------------------
(* The client threads.                                                     *)

Client(c, from, to) ==
  /\ client_pc[c] \in from
  /\ client_pc' = [client_pc EXCEPT ![c] = to]

(* has_event() and DataAvailable(): both are read without the mutex. *)
HasEvent(c) ==
  /\ Client(c, {"idle", "seen"}, IF has_event_ THEN "seen" ELSE "idle")
  /\ UNCHANGED <<queueVars, workVars, ctlVars, data, returned, discarded>>

DataAvailable(c) ==
  /\ Client(c, {"idle", "seen"}, IF data_queue_ # <<>> THEN "seen" ELSE "idle")
  /\ UNCHANGED <<queueVars, workVars, ctlVars, data, returned, discarded>>

(* Seeded fault: the queue is popped without the mutex. *)
PopLock_NoMutex(c) ==
  /\ Client(c, {"idle", "seen"}, "pop")
  /\ queue_mutex_' = c
  /\ UNCHANGED <<has_event_, data_queue_, workVars, ctlVars, data, returned, discarded>>

(* PopEvent(), called after a look at the flag or without one. *)
PopLock(c) ==
  /\ queue_mutex_ = NoThread
  /\ Client(c, {"idle", "seen"}, "pop")
  /\ queue_mutex_' = c
  /\ UNCHANGED <<has_event_, data_queue_, workVars, ctlVars, data, returned, discarded>>

(* An empty queue: unlock and return an empty bundle. *)
PopNothing(c) ==
  /\ data_queue_ = <<>>
  /\ Client(c, {"pop"}, "idle")
  /\ queue_mutex_' = NoThread
  /\ UNCHANGED <<has_event_, data_queue_, workVars, ctlVars, data, returned, discarded>>

(* Seeded fault: a stack, as the comment on data_queue_ calls it. *)
PopFront_Newest(c) ==
  /\ data_queue_ # <<>>
  /\ Client(c, {"pop"}, "popFlag")
  /\ data' = data_queue_[Len(data_queue_)]
  /\ data_queue_' = SubSeq(data_queue_, 1, Len(data_queue_) - 1)
  /\ UNCHANGED <<has_event_, queue_mutex_, workVars, ctlVars, returned, discarded>>

PopFront(c) ==
  /\ data_queue_ # <<>>
  /\ Client(c, {"pop"}, "popFlag")
  /\ data' = Head(data_queue_)
  /\ data_queue_' = Tail(data_queue_)
  /\ UNCHANGED <<has_event_, queue_mutex_, workVars, ctlVars, returned, discarded>>

(* Seeded faults: the flag is never lowered; it is lowered on every pop. *)
PopFlag_Kept(c) ==
  /\ Client(c, {"popFlag"}, "popUnlock")
  /\ UNCHANGED <<queueVars, workVars, ctlVars, data, returned, discarded>>

PopFlag_Lowered(c) ==
  /\ Client(c, {"popFlag"}, "popUnlock")
  /\ has_event_' = FALSE
  /\ UNCHANGED <<data_queue_, queue_mutex_, workVars, ctlVars, data, returned, discarded>>

(* Check if this is the last event. *)
PopFlag(c) ==
  /\ Client(c, {"popFlag"}, "popUnlock")
  /\ has_event_' = (has_event_ /\ data_queue_ # <<>>)
  /\ UNCHANGED <<data_queue_, queue_mutex_, workVars, ctlVars, data, returned, discarded>>

PopUnlock(c) ==
  /\ Client(c, {"popUnlock"}, "return")
  /\ queue_mutex_' = NoThread
  /\ UNCHANGED <<has_event_, data_queue_, workVars, ctlVars, data, returned, discarded>>

(* return data: the static is copied after the mutex is released. *)
PopReturn(c) ==
  /\ Client(c, {"return"}, "idle")
  /\ returned' = Append(returned, data)
  /\ UNCHANGED <<queueVars, workVars, ctlVars, data, discarded>>

(* FlushEvents(): pop everything, lower the flag. *)
FlushLock(c) ==
  /\ queue_mutex_ = NoThread
  /\ Client(c, {"idle", "seen"}, "flush")
  /\ queue_mutex_' = c
  /\ UNCHANGED <<has_event_, data_queue_, workVars, ctlVars, data, returned, discarded>>

FlushQueue(c) ==
  /\ Client(c, {"flush"}, "flushFlag")
  /\ discarded' = discarded \cup {data_queue_[i] : i \in 1 .. Len(data_queue_)}
  /\ data_queue_' = <<>>
  /\ UNCHANGED <<has_event_, queue_mutex_, workVars, ctlVars, data, returned>>

FlushFlag(c) ==
  /\ Client(c, {"flushFlag"}, "flushUnlock")
  /\ has_event_' = FALSE
  /\ UNCHANGED <<data_queue_, queue_mutex_, workVars, ctlVars, data, returned, discarded>>

FlushUnlock(c) ==
  /\ Client(c, {"flushUnlock"}, "idle")
  /\ queue_mutex_' = NoThread
  /\ UNCHANGED <<has_event_, data_queue_, workVars, ctlVars, data, returned, discarded>>

(* What a client that has entered a call does next; a call runs to its end. *)
ClientInCall(c) ==
  \/ PopNothing(c) \/ PopFront(c) \/ PopFlag(c) \/ PopUnlock(c) \/ PopReturn(c)
  \/ FlushQueue(c) \/ FlushFlag(c) \/ FlushUnlock(c)

ClientCall(c) == HasEvent(c) \/ DataAvailable(c) \/ PopLock(c) \/ FlushLock(c)

--------------------------------------------------------------------------------
Next ==
  \/ WorkLoop
  \/ RunControl
  \/ \E c \in Clients : ClientCall(c) \/ ClientInCall(c)

Spec == Init /\ [][Next]_vars

(* Every thread that can take a step takes it.  The callers are free to    *)
(* call or not; a thread that waits for queue_mutex_ gets it if it is      *)
(* released again and again (SF: the calls of other threads are spread     *)
(* over time, no thread relocks in a tight loop).                          *)
Fairness ==
  /\ WF_vars(WorkLoop) /\ SF_vars(WorkLock)
  /\ WF_vars(ClearLive \/ Join \/ SetLive \/ Spawn)
  /\ \A c \in Clients : WF_vars(ClientInCall(c))

FairSpec == Spec /\ Fairness

--------------------------------------------------------------------------------
(* Properties.                                                             *)

(* The variables have their types. *)
TypeOK ==
  /\ thread_live_ \in BOOLEAN /\ go_time_ \in BOOLEAN /\ has_event_ \in BOOLEAN
  /\ data_queue_ \in Seq(1 .. MaxEvents)
  /\ queue_mutex_ \in Clients \cup {Worker, NoThread}
  /\ data \in 0 .. MaxEvents /\ bundle \in 0 .. MaxEvents
  /\ work_pc \in WorkPCs
  /\ ctl_pc \in {"idle", "stop", "join", "start", "spawn"}
  /\ ctl_op \in {"StopThread", "StartThread"}
  /\ client_pc \in [Clients -> ClientPCs]
  /\ produced \in 0 .. MaxEvents
  /\ returned \in Seq(0 .. MaxEvents)
  /\ discarded \subseteq 1 .. MaxEvents
  /\ late \in Nat

MutexFree == queue_mutex_ = NoThread

(* No event is hidden: when nobody is inside the mutex, a queue that holds *)
(* an event has has_event_ raised, so that a builder that polls only the   *)
(* flag never leaves an event behind (all four devices).                   *)
NoHiddenEvent == MutexFree /\ data_queue_ # <<>> => has_event_

(* No event is promised that is not there: when nobody is inside the mutex *)
(* a raised has_event_ means an event can be popped.  Holds for the        *)
(* devices whose constructor lowers the flag.                              *)
NoPhantomEvent == MutexFree /\ has_event_ => data_queue_ # <<>>

(* A lone client that saw an event through has_event() or DataAvailable(), *)
(* neither of which takes the mutex, will not get an empty bundle from the *)
(* PopEvent() that follows, whatever the work thread does in between.      *)
SeenEventIsThere == \A c \in Clients : client_pc[c] = "seen" => data_queue_ # <<>>

(* Between StopWorker() (or StopThread()) and the next StartWorker(), at   *)
(* most one event is still queued: the one that was in flight.  This is    *)
(* wfd_container.hh's "Stops each worker from collecting data".            *)
AtMostOneLate == late <= 1

(* The event a client is about to return. *)
InTransit == IF \E c \in Clients : client_pc[c] \in {"popFlag", "popUnlock", "return"}
               THEN <<data>> ELSE <<>>

Held == IF bundle = 0 THEN <<>> ELSE <<bundle>>

InOrder == returned \o InTransit \o data_queue_ \o Held

(* With one client, what was returned, what is being returned, what waits  *)
(* and what the work thread holds are in the order of collection: events   *)
(* leave oldest first and none leaves twice.                               *)
OldestFirst == \A i, j \in 1 .. Len(InOrder) : i < j => InOrder[i] < InOrder[j]

(* With one client, every event read from the board is accounted for:      *)
(* returned, on its way, or deliberately discarded, and never two of these.*)
NoEventLost ==
  LET kept == {InOrder[i] : i \in 1 .. Len(InOrder)}
  IN  kept \cup discarded = 1 .. produced /\ kept \cap discarded = {}

(* Sis3350: the queue never holds more than its limit, but for the event   *)
(* pushed just before the oldest is dropped.                               *)
QueueBounded ==
  Len(data_queue_) <= kMaxQueueSize + (IF work_pc \in {"flag", "drop"} THEN 1 ELSE 0)

(* StopThread() returns: the work thread is always joined in the end.      *)
StopReturns == ctl_pc = "join" ~> ctl_pc # "join"

(* A client that goes on polling has_event(), and pops what it saw, gets   *)
(* every event out of the queue: none waits forever behind a flag that was *)
(* lowered or never raised.                                                *)
Polls(c) == WF_vars(HasEvent(c)) /\ SF_vars(client_pc[c] = "seen" /\ PopLock(c))

Waiting(e) == \E i \in 1 .. Len(data_queue_) : data_queue_[i] = e

EveryEventComesOut ==
  (\A c \in Clients : Polls(c)) => \A e \in 1 .. MaxEvents : Waiting(e) ~> ~Waiting(e)

(* sis3302.hh: PopEvent "Returns the oldest event on the data queue": an   *)
(* event that was returned is not on the queue, so it is returned once.    *)
EachEventOnce ==
  \A i, j \in 1 .. Len(returned) : returned[i] = returned[j] => i = j

(* One device implements the abstract queue. *)
Fifo == INSTANCE EventFifo WITH
          Events <- 1 .. MaxEvents, Limit <- kMaxQueueSize, Drops <- DropsOldest,
          pending <- data_queue_, taken <- returned \o InTransit

FifoSpec == Fifo!Spec
================================================================================
