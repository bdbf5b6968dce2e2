--------------------------------- MODULE VmeBus ---------------------------------
(***************************************************************************)
(* Access to the VME crate.  Every device of the process talks through one *)
(* bridge: a call takes the static vme_mutex_, opens the bridge, makes one *)
(* transfer, closes the bridge and releases the mutex.  Opening is retried *)
(* a bounded number of times; failures are logged, which takes the static  *)
(* log_mutex_, here inside vme_mutex_, there outside.                      *)
(*                                                                         *)
(* Two classes wrap the bridge: VmeBase (the digitizers), which gives up   *)
(* when it cannot open it, and Sis3100VmeDev (the I/O boards), which tries *)
(* the transfer anyway.  Each thread has an object of its own.             *)
(***************************************************************************)
EXTENDS Integers, FiniteSets

CONSTANTS Digitizers,          \* threads that use a VmeBase
          Boards,              \* threads that use a Sis3100VmeDev
          NoThread,            \* "the mutex is free"
          Methods,             \* the methods of VmeBase that are called
          max_read_attempts_   \* retries of open()

LocalMethods  == {"Read", "Write"}
StaticMethods == {"Read16", "Write16", "ReadTrace", "ReadTraceMblt64",
                  "ReadTraceMblt64SameBlock"}

ASSUME VmeBusAssumption ==
  /\ Digitizers \cap Boards = {} /\ NoThread \notin Digitizers \cup Boards
  /\ Methods \subseteq LocalMethods \cup StaticMethods
  /\ max_read_attempts_ \in Nat

Threads == Digitizers \cup Boards

VARIABLES
  vme_mutex_, log_mutex_,   \* their owners
  device_,                  \* threads whose object has the bridge open
  wild,                     \* boards whose dev_ still is what the memory held: no
                            \* constructor sets it, and above 0 it looks open
  pc, method, count,        \* the threads, the method each is in, its retries
  rc,                       \* the outcome of the transfer the thread made
  retval                    \* "static int retval", one per method of VmeBase

vars == <<vme_mutex_, log_mutex_, device_, wild, pc, method, count, rc, retval>>

Outcomes == {0, 1}          \* of a transfer: success, an error code

(* Inside vme_mutex_; inside log_mutex_. *)
HoldPCs == {"open", "openError", "openErrorLog", "giveUp", "transfer", "close",
            "closeError", "closeErrorLog", "unlock"}
LogPCs  == {"openErrorLog", "closeErrorLog", "errorLog"}
PCs     == {"idle", "lock", "check", "error", "return"} \cup HoldPCs \cup LogPCs

Init ==
  /\ vme_mutex_ = NoThread /\ log_mutex_ = NoThread
  /\ device_ = {} /\ wild \in SUBSET Boards
  /\ pc = [t \in Threads |-> "idle"]
  /\ method = [t \in Threads |-> "Read"] /\ count = [t \in Threads |-> 0]
  /\ rc = [t \in Threads |-> 0]
  /\ retval = [m \in StaticMethods |-> 0]

Go(t, from, to) == pc[t] = from /\ pc' = [pc EXCEPT ![t] = to]

--------------------------------------------------------------------------------
(* A call: any method of a VmeBase; those of a Sis3100VmeDev keep their    *)
(* result in a local variable, as Read does.                               *)
Call(t) ==
  /\ Go(t, "idle", "lock")
  /\ \E m \in (IF t \in Boards THEN {"Read"} ELSE Methods) :
       method' = [method EXCEPT ![t] = m]
  /\ UNCHANGED <<wild, vme_mutex_, log_mutex_, device_, count, rc, retval>>

(* The locals of a call are gone when it returns. *)
Leave(t) ==
  /\ method' = [method EXCEPT ![t] = "Read"]
  /\ count' = [count EXCEPT ![t] = 0]
  /\ rc' = [rc EXCEPT ![t] = 0]

(* OpenVme(): lock, then open until it works or the attempts are used up.  *)
Lock(t) ==
  /\ Go(t, "lock", "open")
  /\ vme_mutex_ = NoThread
  /\ vme_mutex_' = t
  /\ UNCHANGED <<wild, log_mutex_, device_, method, count, rc, retval>>

Opened(t) ==
  /\ Go(t, "open", "transfer")
  /\ t \in Boards => count[t] < max_read_attempts_ /\ t \notin wild
  /\ device_' = device_ \cup {t}
  /\ UNCHANGED <<wild, vme_mutex_, log_mutex_, method, count, rc, retval>>

(* Seeded faults: one attempt too many; no limit. *)
RetryOpen_OffByOne(t) ==
  /\ pc[t] = "open" /\ count[t] <= max_read_attempts_ /\ t \notin wild
  /\ count' = [count EXCEPT ![t] = @ + 1]
  /\ UNCHANGED <<wild, vme_mutex_, log_mutex_, device_, pc, method, rc, retval>>

RetryOpen_Forever(t) ==
  /\ pc[t] = "open"
  /\ count' = [count EXCEPT ![t] = 1 - @]
  /\ UNCHANGED <<wild, vme_mutex_, log_mutex_, device_, pc, method, rc, retval>>

RetryOpen(t) ==
  /\ pc[t] = "open" /\ count[t] < max_read_attempts_ /\ t \notin wild
  /\ count' = [count EXCEPT ![t] = @ + 1]
  /\ UNCHANGED <<wild, vme_mutex_, log_mutex_, device_, pc, method, rc, retval>>

(* A VmeBase logs the error and gives up; a Sis3100VmeDev does not look,   *)
(* and does not even try while dev_ looks open.                            *)
NotOpened(t) ==
  /\ Go(t, "open", IF t \in Boards THEN "transfer" ELSE "openError")
  /\ count[t] >= max_read_attempts_ \/ t \in wild
  /\ UNCHANGED <<wild, vme_mutex_, log_mutex_, device_, method, count, rc, retval>>

(* Seeded fault: the early return forgets the mutex. *)
GiveUp_Locked(t) ==
  /\ Go(t, "giveUp", "idle")
  /\ Leave(t)
  /\ UNCHANGED <<wild, vme_mutex_, log_mutex_, device_, retval>>

(* vme_mutex_.unlock(); return -1 *)
GiveUp(t) ==
  /\ Go(t, "giveUp", "idle")
  /\ vme_mutex_' = NoThread
  /\ Leave(t)
  /\ UNCHANGED <<wild, log_mutex_, device_, retval>>

(* The status of a transfer is kept in a local variable (Read, Write) or   *)
(* in a static of the method.                                              *)
Keeps(m, r) == IF m \in StaticMethods THEN [retval EXCEPT ![m] = r] ELSE retval

(* Seeded fault: the mutex is released before the bridge is closed. *)
Transfer_UnlocksFirst(t) ==
  /\ Go(t, "transfer", "close")
  /\ \E r \in Outcomes :
       /\ t \notin device_ => r # 0
       /\ rc' = [rc EXCEPT ![t] = r]
       /\ retval' = Keeps(method[t], r)
  /\ vme_mutex_' = NoThread
  /\ UNCHANGED <<wild, log_mutex_, device_, method, count>>

(* The transfer: without an open bridge it fails. *)
Transfer(t) ==
  /\ Go(t, "transfer", "close")
  /\ \E r \in Outcomes :
       /\ t \notin device_ => r # 0
       /\ rc' = [rc EXCEPT ![t] = r]
       /\ retval' = Keeps(method[t], r)
  /\ UNCHANGED <<wild, vme_mutex_, log_mutex_, device_, method, count>>

(* CloseVme(): close the bridge, log an error of close() in a VmeBase.     *)
Close(t) ==
  /\ \/ Go(t, "close", "unlock")
     \/ Go(t, "close", "closeError") /\ t \in Digitizers
  /\ device_' = device_ \ {t} /\ wild' = wild \ {t}
  /\ UNCHANGED <<vme_mutex_, log_mutex_, method, count, rc, retval>>

Unlock(t) ==
  /\ Go(t, "unlock", "check")
  /\ vme_mutex_' = NoThread
  /\ UNCHANGED <<wild, log_mutex_, device_, method, count, rc, retval>>

(* if (status != 0) LogError(...); return retval: for a static, whatever   *)
(* it holds by now.                                                        *)
Status(t) == IF method[t] \in StaticMethods THEN retval[method[t]] ELSE rc[t]

Check(t) ==
  /\ Go(t, "check", IF Status(t) # 0 /\ t \in Digitizers THEN "error" ELSE "return")
  /\ UNCHANGED <<wild, vme_mutex_, log_mutex_, device_, method, count, rc, retval>>

Return(t) ==
  /\ Go(t, "return", "idle")
  /\ Leave(t)
  /\ UNCHANGED <<wild, vme_mutex_, log_mutex_, device_, retval>>

(* LogError(): with vme_mutex_ held after a failed open or close, without  *)
(* it after a failed transfer.                                             *)
LogLock(t) ==
  /\ \/ Go(t, "openError", "openErrorLog")
     \/ Go(t, "closeError", "closeErrorLog")
     \/ Go(t, "error", "errorLog")
  /\ log_mutex_ = NoThread
  /\ log_mutex_' = t
  /\ UNCHANGED <<wild, vme_mutex_, device_, method, count, rc, retval>>

LogUnlock(t) ==
  /\ \/ Go(t, "openErrorLog", "giveUp")
     \/ Go(t, "closeErrorLog", "unlock")
     \/ Go(t, "errorLog", "return")
  /\ log_mutex_' = NoThread
  /\ UNCHANGED <<wild, vme_mutex_, device_, method, count, rc, retval>>

InCall(t) ==
  \/ Lock(t) \/ Opened(t) \/ RetryOpen(t) \/ NotOpened(t) \/ GiveUp(t)
  \/ Transfer(t) \/ Close(t) \/ Unlock(t) \/ Check(t) \/ Return(t)
  \/ LogLock(t) \/ LogUnlock(t)

Next == \E t \in Threads : Call(t) \/ InCall(t)

Spec == Init /\ [][Next]_vars

(* A thread in a call takes its steps, and gets a mutex that is released   *)
(* again and again (the mutexes of the platform do not starve a thread     *)
(* forever; each is held for one transfer or one line of the log).         *)
FairSpec ==
  /\ Spec
  /\ \A t \in Threads : WF_vars(InCall(t)) /\ SF_vars(Lock(t)) /\ SF_vars(LogLock(t))

--------------------------------------------------------------------------------
(* Properties.                                                             *)

(* The variables have their types. *)
TypeOK ==
  /\ vme_mutex_ \in Threads \cup {NoThread} /\ log_mutex_ \in Threads \cup {NoThread}
  /\ device_ \subseteq Threads /\ wild \subseteq Boards
  /\ pc \in [Threads -> PCs]
  /\ method \in [Threads -> LocalMethods \cup StaticMethods]
  /\ count \in [Threads -> 0 .. max_read_attempts_]
  /\ rc \in [Threads -> Outcomes] /\ retval \in [StaticMethods -> Outcomes]

(* Two objects never have the bridge open at once, of whatever class they  *)
(* are, and an object that has it open is inside vme_mutex_: a transfer is *)
(* never interleaved with another's.                                       *)
OneBridge == \A t \in device_ : vme_mutex_ = t

(* A call that has returned holds neither mutex and has no bridge open,    *)
(* on every path out: the give-up after the last attempt, an error in      *)
(* close(), an error of the transfer.                                      *)
NothingHeld ==
  \A t \in Threads : pc[t] = "idle" =>
    vme_mutex_ # t /\ log_mutex_ # t /\ t \notin device_

(* Every call returns, even if the bridge never opens and every transfer   *)
(* fails: attempts are bounded, and taking log_mutex_ inside vme_mutex_    *)
(* never deadlocks.                                                        *)
CallsReturn == \A t \in Threads : pc[t] = "lock" ~> pc[t] = "idle"

(* vme_base.hh says "return: error code from vme read" of every method.    *)
EveryOwnStatus == \A t \in Threads : pc[t] = "return" => Status(t) = rc[t]
================================================================================
