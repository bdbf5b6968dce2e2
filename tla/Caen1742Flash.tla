--------------------------- MODULE Caen1742Flash ---------------------------
(***************************************************************************)
(* The correction table of a Caen1742: read page by page from the flash    *)
(* memory of the board (GetChannelCorrectionData and ReadFlashPage), or    *)
(* from a file that a run before has written.                              *)
(*                                                                         *)
(* Each group of channels has a flash with registers of its own.  A page   *)
(* is read by selecting the group's flash, sending a command of eight      *)
(* bytes, reading 264 bytes and deselecting it.  Every access may fail;    *)
(* ReadFlashPage then returns at once and that flash stays selected.       *)
(***************************************************************************)
EXTENDS Integers, Sequences, FiniteSets

CONSTANTS
  Channels,       \* the channels that are read, of 0..31
  MaxRetries,     \* 100 in the code: failures of one channel's pages
  MaxFails        \* bound: failures of bus accesses

VARIABLES
  ch,          \* the channel that is read, -1: the table is loaded
  at, count,   \* GetChannelCorrectionData: the page that is read, the failures
  selected,    \* board: of each group, its flash listens since an earlier page
  table,       \* correction_table_: of each place, the page its values are of
  file,        \* the table in the file, <<>>: there is none
  from,        \* "?", "device", "file": where the table came from
  damaged,     \* history: the places of pages at which an access failed
  fails

vars == <<ch, at, count, selected, table, file, from, damaged, fails>>

PerGroup == 8                  \* channels of a group
GroupOf(c) == c \div PerGroup
InGroup(g) == {c \in Channels : GroupOf(c) = g}
Groups == {GroupOf(c) : c \in Channels}

None == <<>>                   \* no page's: zeros, or a part of one
Other == <<"other">>           \* another page's

\* A place of the table: the i-th page of one kind of one channel.
Pages(c) ==
  [i \in 1..4 |-> <<"cell", c, i - 1>>] \o [i \in 1..4 |-> <<"nsample", c, i - 1>>]
    \o IF c % PerGroup = 0 THEN [i \in 1..16 |-> <<"time", c, i - 1>>] ELSE <<>>

PlacesOf(c) == {Pages(c)[i] : i \in DOMAIN Pages(c)}
AllPlaces == UNION {PlacesOf(c) : c \in Channels}

(***************************************************************************)
(* Reading the flash.                                                      *)
(***************************************************************************)
Fail == fails < MaxFails /\ fails' = fails + 1

Least(S) == CHOOSE c \in S : \A d \in S : c <= d
Greatest(S) == CHOOSE c \in S : \A d \in S : c >= d

NextChannel(c) ==
  LET later == {d \in Channels : d > c} IN IF later = {} THEN -1 ELSE Least(later)

\* On to the next page, with what was read for this one.
Store(content) ==
  /\ table' = [table EXCEPT ![Pages(ch)[at]] = content]
  /\ IF at < Len(Pages(ch))
     THEN at' = at + 1 /\ UNCHANGED <<ch, count>>
     ELSE ch' = NextChannel(ch) /\ at' = 1 /\ count' = 0

\* What a page is read as: a flash that was left selected goes on with the
\* command it had, the new one's bytes are lost on it.
Content == IF selected[GroupOf(ch)] THEN Other ELSE Pages(ch)[at]

\* Seeded fault: the flash is not deselected.
ReadFlashPage_Selected ==
  /\ ch # -1 /\ from = "device"
  /\ selected' = [selected EXCEPT ![GroupOf(ch)] = TRUE]
  /\ Store(Content)
  /\ UNCHANGED <<file, from, damaged, fails>>

ReadFlashPage ==
  /\ ch # -1 /\ from = "device"
  /\ selected' = [selected EXCEPT ![GroupOf(ch)] = FALSE]
  /\ Store(Content)
  /\ UNCHANGED <<file, from, damaged, fails>>

\* It fails before the flash is selected, in the middle (of the command or of the
\* data), or when it is deselected.  It is tried again while the channel has tries
\* left: count is not reset between its pages.  Then the table takes what there is.
ReadFlashPageFails ==
  /\ ch # -1 /\ from = "device" /\ Fail
  /\ damaged' = damaged \cup {Pages(ch)[at]}
  /\ \E stage \in {"before", "half", "deselect"} :
       /\ selected' = [selected EXCEPT ![GroupOf(ch)] = @ \/ stage # "before"]
       /\ IF count < MaxRetries
          THEN count' = count + 1 /\ UNCHANGED <<table, ch, at>>
          ELSE Store(IF stage = "deselect" THEN Content ELSE None)
  /\ UNCHANGED <<file, from>>

(***************************************************************************)
(* The file.                                                               *)
(***************************************************************************)
\* The file's rows all go to index 0 (line 1270: i is never counted): no page is
\* filled, and of the first page of each kind a value is written over.
LoadCorrectionDataCsv == [p \in AllPlaces |-> IF p[3] = 0 THEN None ELSE table[p]]

\* From the file if there is one, from the device otherwise.
GetCorrectionData ==
  /\ from = "?"
  /\ IF file = None
     THEN from' = "device" /\ ch' = NextChannel(-1) /\ at' = 1 /\ count' = 0 /\ UNCHANGED table
     ELSE from' = "file" /\ table' = LoadCorrectionDataCsv /\ UNCHANGED <<ch, at, count>>
  /\ UNCHANGED <<selected, file, damaged, fails>>

\* The last part of WriteCorrectionDataCsv, after GetCorrectionData.
WriteCorrectionDataCsv ==
  /\ from # "?" /\ ch = -1 /\ file = None
  /\ file' = <<table>>
  /\ UNCHANGED <<ch, at, count, selected, table, from, damaged, fails>>

\* The program is started again; the board keeps its state.
Restart ==
  /\ from = "device" /\ ch = -1
  /\ from' = "?" /\ table' = [p \in AllPlaces |-> None]
  /\ UNCHANGED <<ch, at, count, selected, file, damaged, fails>>

Init ==
  /\ ch = -1 /\ at = 1 /\ count = 0 /\ selected = [g \in Groups |-> FALSE]
  /\ table = [p \in AllPlaces |-> None]
  /\ file = None /\ from = "?" /\ damaged = {} /\ fails = 0

Next ==
  \/ ReadFlashPage \/ ReadFlashPageFails
  \/ GetCorrectionData \/ WriteCorrectionDataCsv \/ Restart

Spec == Init /\ [][Next]_vars

(***************************************************************************)
(* Properties.                                                             *)
(***************************************************************************)
Loaded == from = "device" /\ ch = -1

\* The page before in the order of reading, of those in the same group's flash;
\* before the first, the last one of the program's run before.
Before ==
  [p \in AllPlaces |->
     LET c == p[2]
         k == CHOOSE i \in DOMAIN Pages(c) : Pages(c)[i] = p
         group == InGroup(GroupOf(c))
         earlier == {d \in group : d < c}
         d == Greatest(IF earlier = {} THEN group ELSE earlier)
     IN  IF k > 1 THEN Pages(c)[k - 1] ELSE Pages(d)[Len(Pages(d))]]

\* A failure damages its own page and, when the tries are used up, the next one
\* that is read from the same flash, which may be one of the next run of the
\* program: every other place of the table has the board's values.  (A retry after
\* a half-read page reads another page and takes it for this one.)
DamageStaysWithItsPage ==
  Loaded => \A p \in AllPlaces : table[p] = p \/ p \in damaged \/ Before[p] \in damaged

\* "Load the correction table from disk": a table that came from the file is
\* the one that was written.
FileGivesTheTable == from = "file" => table = file[1]
=============================================================================
