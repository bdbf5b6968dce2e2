------------------------------ MODULE Caen1742 ------------------------------
(***************************************************************************)
(* The readout of Caen1742 boards: acquisition, work thread, GetEvent.     *)
(* (The queue the bundles go to, and its flags, are WfdBase.)              *)
(*                                                                         *)
(* An event holds the traces of the groups that took part.  GetEvent       *)
(* unpacks them, group by group, into a bundle that is a static local of   *)
(* WorkLoop: one for all boards of the program, and never cleared.  So is  *)
(* the flag that says that the correction table was loaded.                *)
(***************************************************************************)
EXTENDS Integers, Sequences, FiniteSets, SequencesExt, FiniteSetsExt

CONSTANTS
  Boards,
  NumAdcGroups,   \* groups of a board
  MaxEvents,      \* bound: triggers
  MaxFails,       \* bound: failures of bus accesses
  MaxLives        \* bound: starts of a board's thread

VARIABLES
  active,          \* the boards this program runs
  run,             \* boards: bit 2 of register 0x8100
  stored,          \* boards: the events that wait in them
  thread_live_, pc, lives,
  event, left,     \* GetEvent: the event and the groups still to unpack
  bundle,          \* static: of each group, its event and how often it was corrected
  correction_loaded,   \* static
  table,           \* correction_table_: is it the board's own?
  pushed,          \* history: the bundles that were pushed
  seen,            \* history: the event read, 0 once an access failed
  fired, fails

reading == <<event, left, bundle, correction_loaded, table>>
vars == <<active, run, stored, thread_live_, pc, lives, reading, pushed, seen,
          fired, fails>>

Groups == 0..(NumAdcGroups - 1)
NoEvent == [id |-> 0, groups |-> {}]

\* The board (external): an event of some of its groups.
Trigger(b) ==
  /\ run[b] /\ fired < MaxEvents
  /\ fired' = fired + 1
  /\ \E g \in {Groups, {0}} :
       stored' = [stored EXCEPT ![b] = Append(@, [id |-> fired + 1, groups |-> g])]
  /\ UNCHANGED <<active, run, thread_live_, pc, lives, reading, pushed, seen, fails>>

Fail(b) == fails < MaxFails /\ fails' = fails + 1 /\ seen' = [seen EXCEPT ![b] = 0]

\* A poll that fails says that there is no event.
EventAvailable(b) ==
  /\ pc[b] = "poll" /\ thread_live_[b] /\ stored[b] # <<>>
  /\ pc' = [pc EXCEPT ![b] = "read"]
  /\ UNCHANGED <<active, run, stored, thread_live_, lives, reading, pushed, seen,
                 fired, fails>>

\* Seeded fault: the transfer empties the board and one event is looked at.
ReadEvent_Empties(b) ==
  /\ pc[b] = "read"
  /\ event' = [event EXCEPT ![b] = Head(stored[b])]
  /\ left' = [left EXCEPT ![b] = Head(stored[b]).groups]
  /\ seen' = [seen EXCEPT ![b] = Head(stored[b]).id]
  /\ stored' = [stored EXCEPT ![b] = <<>>]
  /\ pc' = [pc EXCEPT ![b] = "unpack"]
  /\ UNCHANGED <<active, run, thread_live_, lives, bundle, correction_loaded, table,
                 pushed, fired, fails>>

\* The block transfer takes the event from the board.
ReadEvent(b) ==
  /\ pc[b] = "read"
  /\ event' = [event EXCEPT ![b] = Head(stored[b])]
  /\ left' = [left EXCEPT ![b] = Head(stored[b]).groups]
  /\ seen' = [seen EXCEPT ![b] = Head(stored[b]).id]
  /\ stored' = [stored EXCEPT ![b] = Tail(@)]
  /\ pc' = [pc EXCEPT ![b] = "unpack"]
  /\ UNCHANGED <<active, run, thread_live_, lives, bundle, correction_loaded, table,
                 pushed, fired, fails>>

\* GetEvent returns without a word when the size cannot be read (the event
\* stays), or when the transfer fails or is too short (it may be gone); the
\* work loop pushes the bundle all the same.
ReadEventFails(b) ==
  /\ pc[b] = "read" /\ Fail(b)
  /\ stored' \in {stored, [stored EXCEPT ![b] = Tail(@)]}
  /\ pc' = [pc EXCEPT ![b] = "push"]
  /\ UNCHANGED <<active, run, thread_live_, lives, reading, pushed, fired>>

\* The groups that are not in the event keep what the bundle held.
UnpackGroup(b) ==
  /\ pc[b] = "unpack"
  /\ IF left[b] = {}
     THEN pc' = [pc EXCEPT ![b] = "correct"] /\ UNCHANGED <<left, bundle>>
     ELSE LET g == Min(left[b])
          IN  /\ bundle' = [bundle EXCEPT ![g] = [event |-> event[b].id, corrected |-> 0]]
              /\ left' = [left EXCEPT ![b] = @ \ {g}]
              /\ UNCHANGED pc
  /\ UNCHANGED <<active, run, stored, thread_live_, lives, event, correction_loaded,
                 table, pushed, seen, fired, fails>>

\* Seeded fault: only groups that were never corrected are.
ApplyCorrection_Never(b) ==
  /\ pc[b] = "correct"
  /\ correction_loaded' = TRUE
  /\ pc' = [pc EXCEPT ![b] = "push"]
  /\ UNCHANGED <<active, run, stored, thread_live_, lives, event, left, table, bundle,
                 pushed, seen, fired, fails>>

\* Every channel is corrected, those of an absent group once more.  The table
\* is loaded by the first board that gets here, into its own member.
ApplyCorrection(b) ==
  /\ pc[b] = "correct"
  /\ correction_loaded' = TRUE
  /\ table' = IF correction_loaded THEN table ELSE [table EXCEPT ![b] = TRUE]
  /\ bundle' = [g \in Groups |-> [bundle[g] EXCEPT !.corrected = @ + 1]]
  /\ pc' = [pc EXCEPT ![b] = "push"]
  /\ UNCHANGED <<active, run, stored, thread_live_, lives, event, left, pushed, seen,
                 fired, fails>>

Push(b) ==
  /\ pc[b] = "push"
  /\ pushed' = Append(pushed, [board |-> b, event |-> seen[b], trace |-> bundle,
                               groups |-> event[b].groups, own |-> table[b]])
  /\ pc' = [pc EXCEPT ![b] = "poll"]
  /\ UNCHANGED <<active, run, stored, thread_live_, lives, reading, seen, fired, fails>>

StopThread(b) ==
  /\ b \in active /\ thread_live_[b]
  /\ thread_live_' = [thread_live_ EXCEPT ![b] = FALSE]
  /\ UNCHANGED <<active, run, stored, pc, lives, reading, pushed, seen, fired, fails>>

\* Seeded fault: the thread ends and leaves the board acquiring.
EndOfWorkLoop_Runs(b) ==
  /\ pc[b] = "poll" /\ ~thread_live_[b]
  /\ pc' = [pc EXCEPT ![b] = "ended"]
  /\ UNCHANGED <<active, run, stored, thread_live_, lives, reading, pushed, fired,
                 fails, seen>>

\* The run bit is cleared when the thread ends.  Only LoadConfig sets it.
EndOfWorkLoop(b) ==
  /\ pc[b] = "poll" /\ ~thread_live_[b]
  /\ pc' = [pc EXCEPT ![b] = "ended"]
  /\ \/ run' = [run EXCEPT ![b] = FALSE] /\ UNCHANGED <<fails, seen>>
     \/ Fail(b) /\ UNCHANGED run
  /\ UNCHANGED <<active, stored, thread_live_, lives, reading, pushed, fired>>

StartThread(b) ==
  /\ pc[b] = "ended" /\ lives[b] < MaxLives
  /\ lives' = [lives EXCEPT ![b] = @ + 1]
  /\ thread_live_' = [thread_live_ EXCEPT ![b] = TRUE]
  /\ pc' = [pc EXCEPT ![b] = "poll"]
  /\ UNCHANGED <<active, run, stored, reading, pushed, seen, fired, fails>>

\* LoadConfig has set the run bit, the constructor has started the thread.
Init ==
  /\ active \in SUBSET Boards \ {{}}
  /\ run = [b \in Boards |-> b \in active]
  /\ stored = [b \in Boards |-> <<>>]
  /\ thread_live_ = [b \in Boards |-> b \in active]
  /\ pc = [b \in Boards |-> IF b \in active THEN "poll" ELSE "none"]
  /\ lives = [b \in Boards |-> 1]
  /\ event = [b \in Boards |-> NoEvent] /\ left = [b \in Boards |-> {}]
  /\ bundle = [g \in Groups |-> [event |-> 0, corrected |-> 0]]
  /\ correction_loaded = FALSE /\ table = [b \in Boards |-> FALSE]
  /\ pushed = <<>> /\ seen = [b \in Boards |-> 0] /\ fired = 0 /\ fails = 0

GetEvent(b) == ReadEvent(b) \/ ReadEventFails(b) \/ UnpackGroup(b) \/ ApplyCorrection(b)

WorkLoop(b) == EventAvailable(b) \/ GetEvent(b) \/ Push(b) \/ EndOfWorkLoop(b)

Next ==
  \E b \in Boards : Trigger(b) \/ WorkLoop(b) \/ StopThread(b) \/ StartThread(b)

Spec == Init /\ [][Next]_vars

FairSpec == Spec /\ \A b \in Boards : WF_vars(WorkLoop(b))

(***************************************************************************)
(* Properties.                                                             *)
(***************************************************************************)
Alone == Cardinality(active) = 1

\* With one board, the groups of the event that was read are this event's,
\* corrected once, with the board's own table.  (The other groups are an older
\* event's, corrected once more each time; of a read that failed nothing is
\* said: it is the bundle before; with two boards the statics mix them.)
EventInItsGroups ==
  Alone => \A i \in DOMAIN pushed :
    pushed[i].event # 0 =>
      /\ pushed[i].own
      /\ \A g \in pushed[i].groups :
           pushed[i].trace[g] = [event |-> pushed[i].event, corrected |-> 1]

\* wfd_base.hh:67: the thread that is started "pull[s] in new data", and
\* wfd_container.hh:41: starting a run "starts the collection of data".  The board
\* of a thread that was started, first or again, acquires, if nothing failed.
StartedBoardAcquires ==
  \A b \in active : thread_live_[b] /\ fails = 0 => run[b]

\* An event of a board whose thread lives on comes out, unless a read fails.
EventsComeOut ==
  \A e \in 1..MaxEvents, b \in Boards :
    (fails = MaxFails /\ \E i \in DOMAIN stored[b] : stored[b][i].id = e)
      ~> (~thread_live_[b] \/ \E i \in DOMAIN pushed : pushed[i].event = e)
=============================================================================
