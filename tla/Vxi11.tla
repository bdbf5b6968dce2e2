------------------------------- MODULE Vxi11 -------------------------------
(***************************************************************************)
(* The VXI-11 library (vxi11_user.cc) as instrument interfaces like the    *)
(* Yokogawa's use it: the table of clients that links to one address       *)
(* share, and queries over remote calls that may be lost on their way or   *)
(* on the way back.  One thread makes all the calls.                       *)
(***************************************************************************)
EXTENDS Integers, FiniteSets

CONSTANTS
  Users,          \* instrument interfaces, each with one CLINK
  Address,        \* of the instrument of each
  VXI11_MAX_CLIENTS,
  MaxOpens,       \* bound: calls of vxi11_open_device
  MaxQueries,     \* bound: queries
  MaxFails        \* bound: remote calls that fail

VARIABLES
  VXI11_IP_ADDRESS, VXI11_CLIENT_ADDRESS, VXI11_LINK_COUNT, VXI11_DEVICE_NO,
  clink,          \* of each user: its client, and whether its link is open
  alive,          \* the clients that are created and not destroyed
  step,           \* of the query that runs: "idle", "send", "receive"
  user, lost,     \* its user; whether the send was VXI11_NULL_WRITE_RESP
  buffer, rc,     \* the query whose answer the buffer has, and the result
  output,         \* instruments (external): the query that is answered, and if it is ready
  opens, asked, fails, crashed

table == <<VXI11_IP_ADDRESS, VXI11_CLIENT_ADDRESS, VXI11_LINK_COUNT, VXI11_DEVICE_NO>>
query == <<step, user, lost, buffer, rc>>
vars == <<table, clink, alive, query, output, opens, asked, fails, crashed>>

Slots == 0..(VXI11_MAX_CLIENTS - 1)
NULL == 0
NoAddress == ""

SlotsOf(ip) == {l \in Slots : VXI11_IP_ADDRESS[l] = ip}
SlotOf(ip) == CHOOSE l \in SlotsOf(ip) : \A k \in SlotsOf(ip) : k <= l

Idle == step = "idle" /\ ~crashed
Fail == fails < MaxFails /\ fails' = fails + 1

(***************************************************************************)
(* Opening and closing.                                                    *)
(***************************************************************************)
\* Calls that are never made on a client that is not there.
OpenLink(u, c) ==
  \/ c # NULL /\ clink' = [clink EXCEPT ![u] = [client |-> c, open |-> TRUE]]
     /\ UNCHANGED <<fails, crashed>>
  \/ c # NULL /\ Fail /\ clink' = [clink EXCEPT ![u] = [client |-> c, open |-> FALSE]]
     /\ UNCHANGED crashed
  \/ c = NULL /\ crashed' = TRUE /\ UNCHANGED <<clink, fails>>

\* A new address: the table takes it and counts a link, even if there is no
\* client (clnt_create) or no link.
OpenNew(u) ==
  /\ SlotsOf(Address[u]) = {} /\ VXI11_DEVICE_NO < VXI11_MAX_CLIENTS
  /\ \/ /\ alive' = alive \cup {opens + 1} /\ OpenLink(u, opens + 1)
     \/ /\ Fail /\ clink' = [clink EXCEPT ![u] = [client |-> NULL, open |-> FALSE]]
        /\ UNCHANGED <<alive, crashed>>
  /\ VXI11_IP_ADDRESS' = [VXI11_IP_ADDRESS EXCEPT ![VXI11_DEVICE_NO] = Address[u]]
  /\ VXI11_CLIENT_ADDRESS' = [VXI11_CLIENT_ADDRESS EXCEPT ![VXI11_DEVICE_NO] = clink'[u].client]
  /\ VXI11_LINK_COUNT' = [VXI11_LINK_COUNT EXCEPT ![VXI11_DEVICE_NO] = 1]
  /\ VXI11_DEVICE_NO' = VXI11_DEVICE_NO + 1

\* Seeded fault: a link to a known address is not counted.
OpenKnown_Uncounted(u) ==
  /\ SlotsOf(Address[u]) # {}
  /\ OpenLink(u, VXI11_CLIENT_ADDRESS[SlotOf(Address[u])])
  /\ UNCHANGED <<VXI11_IP_ADDRESS, VXI11_CLIENT_ADDRESS, VXI11_LINK_COUNT, VXI11_DEVICE_NO, alive>>

\* An address of the table: one more link, even if it fails.
OpenKnown(u) ==
  /\ SlotsOf(Address[u]) # {}
  /\ OpenLink(u, VXI11_CLIENT_ADDRESS[SlotOf(Address[u])])
  /\ VXI11_LINK_COUNT' = [VXI11_LINK_COUNT EXCEPT ![SlotOf(Address[u])] = @ + 1]
  /\ UNCHANGED <<VXI11_IP_ADDRESS, VXI11_CLIENT_ADDRESS, VXI11_DEVICE_NO, alive>>

\* The table is full, be it of addresses that were closed: slots are not used again.
OpenRefused(u) ==
  /\ SlotsOf(Address[u]) = {} /\ VXI11_DEVICE_NO >= VXI11_MAX_CLIENTS
  /\ UNCHANGED <<table, clink, alive, fails, crashed>>

\* open_connection().
vxi11_open_device(u) ==
  /\ Idle /\ ~clink[u].open /\ opens < MaxOpens /\ opens' = opens + 1
  /\ OpenNew(u) \/ OpenKnown(u) \/ OpenRefused(u)
  /\ UNCHANGED <<query, output, asked>>

\* close_connection(), of a connection that was opened.  A failure to destroy
\* the link changes nothing.
vxi11_close_device(u) ==
  /\ Idle /\ clink[u].open
  /\ clink' = [clink EXCEPT ![u] = [client |-> NULL, open |-> FALSE]]
  /\ LET l == SlotOf(Address[u])
     IN  IF VXI11_LINK_COUNT[l] > 1
         THEN /\ VXI11_LINK_COUNT' = [VXI11_LINK_COUNT EXCEPT ![l] = @ - 1]
              /\ UNCHANGED <<alive, VXI11_IP_ADDRESS>>
         ELSE /\ alive' = alive \ {clink[u].client}
              /\ VXI11_IP_ADDRESS' = [VXI11_IP_ADDRESS EXCEPT ![l] = NoAddress]
              /\ UNCHANGED VXI11_LINK_COUNT
  /\ UNCHANGED <<VXI11_CLIENT_ADDRESS, VXI11_DEVICE_NO, query, output, opens, asked,
                 fails, crashed>>

(***************************************************************************)
(* Queries: vxi11_send_and_receive, for ask().                             *)
(***************************************************************************)
Query(u) ==
  /\ Idle /\ clink[u].open /\ asked < MaxQueries /\ asked' = asked + 1
  /\ step' = "send" /\ user' = u /\ lost' = FALSE /\ rc' = 0 /\ buffer' = 0
  /\ UNCHANGED <<table, clink, alive, output, opens, fails, crashed>>

\* A query that reaches an instrument takes the place of one that is not read yet.
Reaches == output' = [output EXCEPT ![user] = [of |-> asked, ready |-> FALSE]]

Return(code) == step' = "idle" /\ rc' = code

\* The write gets through, or is lost before or after it (NULL_WRITE: the reply
\* is read all the same), or is refused.
vxi11_send ==
  /\ step = "send"
  /\ \/ Reaches /\ step' = "receive" /\ lost' = FALSE /\ UNCHANGED <<fails, rc>>
     \/ Fail /\ (Reaches \/ UNCHANGED output) /\ step' = "receive" /\ lost' = TRUE /\ UNCHANGED rc
     \/ Fail /\ Return(-1) /\ UNCHANGED <<output, lost>>
  /\ UNCHANGED <<table, clink, alive, user, buffer, opens, asked, crashed>>

\* Seeded fault: a reply ends the query, whatever became of the write.
AfterReply_Ends == Return(0)

\* A reply ends the query, if its write was acknowledged.
AfterReply == IF lost THEN step' = "send" /\ UNCHANGED rc ELSE Return(0)

\* The reply; none in time (an error: the query is given up); or the call fails
\* (NULL_READ: the query is sent again), its reply lost or not.
vxi11_receive ==
  /\ step = "receive"
  /\ \/ /\ output[user].ready
        /\ buffer' = output[user].of
        /\ output' = [output EXCEPT ![user] = [of |-> 0, ready |-> FALSE]]
        /\ AfterReply /\ UNCHANGED fails
     \/ ~output[user].ready /\ Return(-2) /\ UNCHANGED <<buffer, output, fails>>
     \/ /\ Fail /\ step' = "send" /\ UNCHANGED <<rc, buffer>>
        /\ output' \in {output, [output EXCEPT ![user] = [of |-> 0, ready |-> FALSE]]}
  /\ UNCHANGED <<table, clink, alive, user, lost, opens, asked, crashed>>

\* The instrument (external) has the answer.
Ready(u) ==
  /\ output[u].of # 0 /\ ~output[u].ready
  /\ output' = [output EXCEPT ![u].ready = TRUE]
  /\ UNCHANGED <<table, clink, alive, query, opens, asked, fails, crashed>>

Init ==
  /\ VXI11_IP_ADDRESS = [l \in Slots |-> NoAddress]
  /\ VXI11_CLIENT_ADDRESS = [l \in Slots |-> NULL]
  /\ VXI11_LINK_COUNT = [l \in Slots |-> 0] /\ VXI11_DEVICE_NO = 0
  /\ clink = [u \in Users |-> [client |-> NULL, open |-> FALSE]] /\ alive = {}
  /\ step = "idle" /\ user = (CHOOSE u \in Users : TRUE) /\ lost = FALSE
  /\ buffer = 0 /\ rc = 0
  /\ output = [u \in Users |-> [of |-> 0, ready |-> FALSE]]
  /\ opens = 0 /\ asked = 0 /\ fails = 0 /\ crashed = FALSE

Next ==
  \/ vxi11_send \/ vxi11_receive
  \/ \E u \in Users :
       vxi11_open_device(u) \/ vxi11_close_device(u) \/ Query(u) \/ Ready(u)

Spec == Init /\ [][Next]_vars

(***************************************************************************)
(* Properties.                                                             *)
(***************************************************************************)
\* An open link has a client that lives, the one of its address's only slot; a
\* client is not destroyed under another link, nor an address entered twice.
LinksLive ==
  \A u \in Users : clink[u].open =>
    /\ clink[u].client \in alive
    /\ Cardinality(SlotsOf(Address[u])) = 1
    /\ VXI11_CLIENT_ADDRESS[SlotOf(Address[u])] = clink[u].client

\* Nothing is called on a client that is not there, unless the first opening of
\* the address failed: its slot then has none.
CrashesOnlyAfterAFailure == crashed => fails > 0

\* A query that returns 0 has the answer to itself: never to one that was given
\* up before, whichever calls are lost.
AnswerOfTheQuery == step = "idle" /\ asked > 0 /\ rc = 0 => buffer = asked

\* What the interfaces rely on.
ClientsAndAnswers == LinksLive /\ CrashesOnlyAfterAFailure /\ AnswerOfTheQuery

\* "Can be used multiple times for the same device (the library will keep
\* track)." (vxi11_user.cc:96)
SlotsReturn ==
  (\A l \in Slots : VXI11_IP_ADDRESS[l] = NoAddress) => VXI11_DEVICE_NO < VXI11_MAX_CLIENTS
=============================================================================
