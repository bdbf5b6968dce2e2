------------------------------ MODULE VmeBusProofs ------------------------------
(***************************************************************************)
(* Theorems about VmeBus, for any number of digitizers and I/O boards, any *)
(* methods and any number of attempts.                                     *)
(***************************************************************************)
EXTENDS VmeBus, TLAPS

(* Who holds the mutexes, and whose bridge may be open, read off the pcs.  *)
OwnerInv ==
  /\ \A t \in Threads : pc[t] \in HoldPCs <=> vme_mutex_ = t
  /\ \A t \in Threads : pc[t] \in LogPCs <=> log_mutex_ = t
  /\ \A t \in device_ : t \in Threads /\ pc[t] \in {"transfer", "close"}

BusInv == TypeOK /\ OwnerInv

LEMMA NoThreadIsNoThread == NoThread \notin Threads
BY VmeBusAssumption DEF Threads

(* What one step of thread t does to the mutexes follows from where its pc *)
(* goes: it enters or leaves each mutex with the pcs that stand for it.    *)
LEMMA MutexStep ==
  ASSUME BusInv, NEW t \in Threads, Call(t) \/ InCall(t)
  PROVE  /\ \E p \in PCs : pc' = [pc EXCEPT ![t] = p]
         /\ \/ UNCHANGED vme_mutex_ /\ (pc[t] \in HoldPCs <=> pc'[t] \in HoldPCs)
            \/ vme_mutex_ = NoThread /\ vme_mutex_' = t /\ pc'[t] \in HoldPCs
            \/ vme_mutex_ = t /\ vme_mutex_' = NoThread /\ pc'[t] \notin HoldPCs
         /\ \/ UNCHANGED log_mutex_ /\ (pc[t] \in LogPCs <=> pc'[t] \in LogPCs)
            \/ log_mutex_ = NoThread /\ log_mutex_' = t /\ pc'[t] \in LogPCs
            \/ log_mutex_ = t /\ log_mutex_' = NoThread /\ pc'[t] \notin LogPCs
         /\ device_' \subseteq device_ \cup {t}
         /\ t \in device_' => pc'[t] \in {"transfer", "close"}
<1> USE DEF BusInv, TypeOK, OwnerInv, PCs, HoldPCs, LogPCs, Go, Leave
<1>1. CASE Call(t)
  BY <1>1 DEF Call
<1>2. CASE Lock(t)
  BY <1>2 DEF Lock
<1>3. CASE Opened(t)
  BY <1>3 DEF Opened
<1>4. CASE RetryOpen(t)
  BY <1>4 DEF RetryOpen
<1>5. CASE NotOpened(t)
  BY <1>5 DEF NotOpened
<1>6. CASE GiveUp(t)
  BY <1>6 DEF GiveUp
<1>7. CASE Transfer(t)
  BY <1>7 DEF Transfer
<1>8. CASE Close(t)
  BY <1>8 DEF Close
<1>9. CASE Unlock(t)
  BY <1>9 DEF Unlock
<1>10. CASE Check(t)
  BY <1>10 DEF Check
<1>11. CASE Return(t)
  BY <1>11 DEF Return
<1>12. CASE LogLock(t)
  BY <1>12 DEF LogLock
<1>13. CASE LogUnlock(t)
  BY <1>13 DEF LogUnlock
<1> QED
  BY <1>1, <1>2, <1>3, <1>4, <1>5, <1>6, <1>7, <1>8, <1>9, <1>10, <1>11, <1>12,
     <1>13 DEF InCall

(* The variables that only the data of a call moves through.               *)
LEMMA DataStep ==
  ASSUME BusInv, NEW t \in Threads, Call(t) \/ InCall(t)
  PROVE  /\ method' \in [Threads -> LocalMethods \cup StaticMethods]
         /\ count' \in [Threads -> 0 .. max_read_attempts_]
         /\ rc' \in [Threads -> Outcomes] /\ retval' \in [StaticMethods -> Outcomes]
         /\ wild' \subseteq Boards
<1> USE VmeBusAssumption DEF BusInv, TypeOK, Leave, Outcomes
<1>1. CASE Call(t)
  <2>1. PICK m \in LocalMethods \cup StaticMethods : method' = [method EXCEPT ![t] = m]
    BY <1>1 DEF Call, LocalMethods
  <2> QED
    BY <1>1, <2>1 DEF Call
<1>2. CASE RetryOpen(t)
  BY <1>2 DEF RetryOpen
<1>3. CASE Transfer(t)
  <2>1. PICK r \in Outcomes :
          rc' = [rc EXCEPT ![t] = r] /\ retval' = Keeps(method[t], r)
    BY <1>3 DEF Transfer
  <2>2. UNCHANGED <<wild, method, count>>
    BY <1>3 DEF Transfer
  <2> QED
    BY <2>1, <2>2 DEF Keeps
<1>4. CASE GiveUp(t) \/ Return(t)
  BY <1>4 DEF GiveUp, Return, LocalMethods
<1>5. CASE Lock(t) \/ Opened(t) \/ NotOpened(t) \/ Close(t) \/ Unlock(t) \/ Check(t)
           \/ LogLock(t) \/ LogUnlock(t)
  BY <1>5 DEF Lock, Opened, NotOpened, Close, Unlock, Check, LogLock, LogUnlock
<1> QED
  BY <1>1, <1>2, <1>3, <1>4, <1>5 DEF InCall

LEMMA BusInvariant == Spec => []BusInv
<1>1. Init => BusInv
  BY NoThreadIsNoThread, VmeBusAssumption
    DEF Init, BusInv, TypeOK, OwnerInv, PCs, HoldPCs, LogPCs, Outcomes, LocalMethods
<1>2. BusInv /\ [Next]_vars => BusInv'
  <2> SUFFICES ASSUME BusInv, [Next]_vars PROVE BusInv'
    OBVIOUS
  <2>1. ASSUME NEW t \in Threads, Call(t) \/ InCall(t) PROVE BusInv'
    <3>1. PICK p \in PCs : pc' = [pc EXCEPT ![t] = p]
      BY <2>1, MutexStep
    <3>2. /\ pc \in [Threads -> PCs] /\ pc' \in [Threads -> PCs]
          /\ \A u \in Threads \ {t} : pc'[u] = pc[u]
      BY <3>1 DEF BusInv, TypeOK
    <3>3. /\ vme_mutex_' \in Threads \cup {NoThread}
          /\ log_mutex_' \in Threads \cup {NoThread}
          /\ device_' \subseteq Threads
      BY <2>1, MutexStep DEF BusInv, TypeOK
    <3>4. TypeOK'
      BY <2>1, <3>2, <3>3, DataStep DEF TypeOK
    <3>5. ASSUME NEW u \in Threads
          PROVE  /\ pc'[u] \in HoldPCs <=> vme_mutex_' = u
                 /\ pc'[u] \in LogPCs <=> log_mutex_' = u
      <4>1. CASE u = t
        BY <2>1, <4>1, MutexStep, NoThreadIsNoThread DEF BusInv, OwnerInv
      <4>2. CASE u # t
        BY <2>1, <3>2, <4>2, MutexStep, NoThreadIsNoThread DEF BusInv, OwnerInv
      <4> QED
        BY <4>1, <4>2
    <3>6. ASSUME NEW u \in device_'
          PROVE  u \in Threads /\ pc'[u] \in {"transfer", "close"}
      BY <2>1, <3>2, <3>3, <3>6, MutexStep DEF BusInv, OwnerInv
    <3> QED
      BY <3>4, <3>5, <3>6 DEF BusInv, OwnerInv
  <2>2. CASE UNCHANGED vars
    BY <2>2 DEF vars, BusInv, TypeOK, OwnerInv
  <2> QED
    BY <2>1, <2>2 DEF Next
<1> QED
  BY <1>1, <1>2, PTL DEF Spec

(* A transfer on the crate is never interleaved with another object's, of  *)
(* either class: the open bridge is always inside vme_mutex_.              *)
THEOREM OneBridgeCorrect == Spec => []OneBridge
<1>1. BusInv => OneBridge
  BY DEF BusInv, OwnerInv, OneBridge, HoldPCs
<1> QED
  BY <1>1, BusInvariant, PTL

(* Every way out of a call, the failing ones included, leaves both mutexes *)
(* free of the caller and its bridge closed.                               *)
THEOREM NothingHeldCorrect == Spec => []NothingHeld
<1>1. BusInv => NothingHeld
  BY DEF BusInv, OwnerInv, NothingHeld, HoldPCs, LogPCs
<1> QED
  BY <1>1, BusInvariant, PTL
================================================================================
