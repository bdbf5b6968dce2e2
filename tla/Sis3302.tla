-------------------------------- MODULE Sis3302 --------------------------------
(***************************************************************************)
(* The Sis3302 digitizer: the work thread of WfdBase joined to its board.  *)
(* The board samples when it is armed, records one event into memory when  *)
(* a trigger or the key KEY_START comes, and reports "not armed" until it  *)
(* is armed again; EventAvailable() reads "not armed" as "has an event".   *)
(* After a reset it is not armed either: its memory then holds no event.   *)
(*                                                                         *)
(* Each step of the work thread is a step of WfdBase with its effect on    *)
(* the board.  The variable content says what WfdBase leaves open: which   *)
(* record each readout read (0: the memory after the reset).               *)
(***************************************************************************)
EXTENDS WfdBase

CONSTANTS Spaced,      \* no trigger between the rearm and the end of a readout
          BusFails,    \* accesses to the bus may fail, with all their retries
          MaxTriggers, \* bound: triggers the board records
          MaxAsked     \* bound: calls of SoftwareTrigger()

ASSUME Sis3302Assumption ==
  /\ Device = "Sis3302"
  /\ Spaced \in BOOLEAN /\ BusFails \in BOOLEAN
  /\ MaxTriggers \in Nat /\ MaxAsked \in Nat

VARIABLES
  armed,       \* the board waits for a trigger
  memory,      \* the record in its memory
  recorded,    \* records made so far
  msgEvent,    \* "static uint msg": what the last good read of the register said
  generate_software_trigger_,
  asked,       \* history: calls of SoftwareTrigger()
  keyed,       \* history: writes of KEY_START
  unserved,    \* history: SoftwareTrigger() was called after the last of them
  content      \* history: the record each readout read

boardVars == <<armed, memory, recorded>>
softVars  == <<generate_software_trigger_, asked, keyed, unserved>>
deviceVars == <<vars, boardVars, msgEvent, softVars, content>>

(* The constructor: reset, no KEY_ARM; static msg = 0 reads as an event.   *)
DeviceInit ==
  /\ Init
  /\ armed = FALSE /\ memory = 0 /\ recorded = 0
  /\ msgEvent = TRUE
  /\ generate_software_trigger_ = FALSE
  /\ asked = 0 /\ keyed = 0 /\ unserved = FALSE
  /\ content = <<>>

Reading == work_pc \in {"get", "firstGet"}
BusOk == IF BusFails THEN BOOLEAN ELSE {TRUE}

--------------------------------------------------------------------------------
(* The board.                                                              *)

Record ==
  /\ recorded < MaxTriggers
  /\ armed' = FALSE
  /\ recorded' = recorded + 1
  /\ memory' = recorded + 1

ExternalTrigger ==
  /\ armed
  /\ Spaced => ~Reading
  /\ Record
  /\ UNCHANGED <<vars, msgEvent, softVars, content>>

(* Writing KEY_START samples an armed board, and nothing otherwise. *)
KeyStart == IF armed /\ recorded < MaxTriggers THEN Record ELSE UNCHANGED boardVars

--------------------------------------------------------------------------------
(* Requests for a software trigger, from any thread.                       *)

SoftwareTrigger ==
  /\ asked < MaxAsked
  /\ asked' = asked + 1
  /\ generate_software_trigger_' = TRUE
  /\ unserved' = TRUE
  /\ UNCHANGED <<vars, boardVars, msgEvent, keyed, content>>

Requested == generate_software_trigger_

(* GenerateTrigger(): nothing to do, or the write fails and the request    *)
(* stays; the write; the request is cleared.                               *)
SkipTrigger ==
  /\ Trigger /\ work_pc = "trigger" /\ work_pc' = "poll"
  /\ Requested => BusFails
  /\ UNCHANGED <<boardVars, msgEvent, softVars, content>>

WriteTrigger ==
  /\ Trigger /\ work_pc = "trigger" /\ work_pc' = "clear"
  /\ Requested
  /\ KeyStart
  /\ keyed' = keyed + 1
  /\ unserved' = FALSE
  /\ UNCHANGED <<msgEvent, generate_software_trigger_, asked, content>>

(* Seeded fault: the request is not cleared. *)
ClearTrigger_Forgets ==
  /\ Trigger /\ work_pc = "clear"
  /\ UNCHANGED <<boardVars, msgEvent, softVars, content>>

ClearTrigger ==
  /\ Trigger /\ work_pc = "clear"
  /\ generate_software_trigger_' = FALSE
  /\ UNCHANGED <<boardVars, msgEvent, asked, keyed, unserved, content>>

--------------------------------------------------------------------------------
(* The readout.                                                            *)

(* Read ACQUISITION_CONTROL; when every retry fails, msg is what it was.   *)
PollBoard ==
  /\ \E ok \in BusOk : msgEvent' = IF ok THEN ~armed ELSE msgEvent
  /\ msgEvent' => MayPoll
  /\ Poll(msgEvent')
  /\ UNCHANGED <<boardVars, softVars, content>>

(* Seeded faults: the board is rearmed whatever go_time_ says; never.      *)
ArmBoard_Always ==
  /\ Arm
  /\ armed' = TRUE
  /\ UNCHANGED <<memory, recorded, msgEvent, softVars, content>>

ArmBoard_Never ==
  /\ Arm
  /\ UNCHANGED <<boardVars, msgEvent, softVars, content>>

(* Write KEY_ARM, before the event is read. *)
ArmBoard ==
  /\ Arm
  /\ \E ok \in BusOk : armed' = (armed \/ (Rearms /\ ok))
  /\ UNCHANGED <<memory, recorded, msgEvent, softVars, content>>

(* GetEvent(): what the memory of the board holds now, rearmed or not. *)
ReadBoard ==
  /\ DumpFirst \/ GetEvent
  /\ content' = Append(content, memory)
  /\ UNCHANGED <<boardVars, msgEvent, softVars>>

(* Everything that does not touch the board. *)
OtherStep ==
  /\ \/ TestLive \/ TestGo \/ WorkLock \/ Push \/ RaiseFlag \/ Drop \/ WorkUnlock \/ Exit
     \/ RunControl
     \/ \E c \in Clients : ClientCall(c) \/ ClientInCall(c)
  /\ UNCHANGED <<boardVars, msgEvent, softVars, content>>

DeviceNext ==
  \/ ExternalTrigger \/ SoftwareTrigger
  \/ SkipTrigger \/ WriteTrigger \/ ClearTrigger
  \/ PollBoard \/ ArmBoard \/ ReadBoard
  \/ OtherStep

DeviceSpec == DeviceInit /\ [][DeviceNext]_deviceVars

(* The work thread runs; a thread waiting for the mutex gets it; the       *)
(* run-control thread and the clients finish what they began.              *)
DeviceWork ==
  /\ SkipTrigger \/ WriteTrigger \/ ClearTrigger \/ PollBoard \/ ArmBoard
       \/ ReadBoard \/ OtherStep
  /\ WorkLoop

DeviceFairSpec ==
  /\ DeviceSpec
  /\ WF_deviceVars(DeviceWork)
  /\ SF_deviceVars(OtherStep /\ WorkLock)
  /\ WF_deviceVars(OtherStep /\ (ClearLive \/ Join \/ SetLive \/ Spawn))
  /\ \A c \in Clients : WF_deviceVars(OtherStep /\ ClientInCall(c))

--------------------------------------------------------------------------------
(* Properties.                                                             *)

(* With spaced triggers and a bus that answers, no record is read twice    *)
(* and none out of order, although the board is rearmed before it is read; *)
(* and none is lost, through any sequence of stops and starts: it was      *)
(* read, or it is still in the memory of a board that is not armed or is   *)
(* being read.                                                             *)
RecordsKept ==
  /\ \A i, j \in 1 .. Len(content) : i < j => content[i] < content[j]
  /\ \A r \in 1 .. recorded :
       \/ \E i \in 1 .. Len(content) : content[i] = r
       \/ memory = r /\ (~armed \/ Reading)

(* The board is triggered by software at most once per request, although   *)
(* a failed write leaves the request standing to be tried again.           *)
NoUnaskedTrigger == keyed <= asked

(* A board that has recorded is rearmed in the end, for as long as the     *)
(* thread lives and data taking is on: the rearm waits for nothing but the *)
(* queue.                                                                  *)
Taking == thread_live_ /\ go_time_

RearmedInTheEnd == ~armed /\ Taking ~> armed \/ ~Taking

(* sis3302.cxx: "Dump first event (they are corrupted)": what the board    *)
(* holds after its reset never reaches the queue.                          *)
FirstEventDumped ==
  \A i \in 1 .. Len(data_queue_) : content[data_queue_[i]] # 0

(* wfd_container.hh: "Trigger the WFDs via software": a request is not     *)
(* forgotten before the key was written for it.                            *)
RequestNotForgotten == unserved => generate_software_trigger_
================================================================================
