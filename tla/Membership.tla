----------------------------- MODULE Membership -----------------------------
(***************************************************************************)
(* How contacts get into the routing table and out of it: the tasks of     *)
(* KademliaProtocol::welcome_if_new, which every handler spawns for the    *)
(* node it heard from, the ping of the least recently seen contact         *)
(* (call_ping_node) and the removals of rpc_leave, of failed calls and of  *)
(* repeated invalid records (src/src/protocol.rs), on the routing table of *)
(* RoutingTable and the neighbour search of FindNeighbors.                 *)
(*                                                                         *)
(* welcome_if_new takes the table's lock three times, so that other tasks  *)
(* run between its steps: it asks whether the node is new, it samples the  *)
(* neighbours of every key it holds, and it adds the node.                 *)
(***************************************************************************)
EXTENDS FindNeighbors

CONSTANTS
    Heard,   \* the nodes messages come from
    Held,    \* keys of the records this node holds, as ids
    Tasks    \* welcome tasks that may be pending at a time

ASSUME MembershipConstants == Heard \subseteq Ids /\ Held \subseteq Ids

VARIABLES
    tasks,   \* for each task [pc, node, keys]
    pings    \* contacts that are being pinged

allVars == <<vars, tasks, pings>>

NoTask == [pc |-> "none", node |-> NoNode, keys |-> {}]

MInit ==
    /\ Init
    /\ tasks = [t \in Tasks |-> NoTask] /\ pings = {}

\* A welcome task for n starts.
Spawn(t, n) ==
    /\ tasks[t] = NoTask
    /\ tasks' = [tasks EXCEPT ![t] = [pc |-> "check", node |-> n, keys |-> {}]]

\* A message of n is handled.
Hear(t, n) ==
    /\ Spawn(t, n)
    /\ UNCHANGED <<vars, pings>>

\* Wrong variant: the task of a known node waits until it is a new one.
CheckWaiting(t) ==
    /\ tasks[t].pc = "check" /\ phase = "idle" /\ IsNewNode(tasks[t].node)
    /\ tasks' = [tasks EXCEPT ![t].pc = "sample"]
    /\ UNCHANGED <<vars, pings>>

\* is_new_node, under the read lock; a known node ends the task.
Check(t) ==
    /\ tasks[t].pc = "check" /\ phase = "idle"
    /\ tasks' = [tasks EXCEPT ![t] = IF IsNewNode(tasks[t].node) THEN [@ EXCEPT !.pc = "sample"] ELSE NoTask]
    /\ UNCHANGED <<vars, pings>>

\* new_node_close and this_closest, for a key: n is nearer to it than the last
\* of its neighbours, and this node nearer than the first.
ReplicationDue(n, key) ==
    LET near == Neighbors(key, NoNode) IN
    /\ near # {} => \E m \in near : Distance(n, key) < Distance(m, key)
    /\ \A m \in near : Distance(Local, key) < Distance(m, key)

\* The neighbours of every key are searched under the read lock, which touches
\* the buckets of the keys, and the keys to replicate are kept for later.
SampleAs(t, keys) ==
    /\ tasks[t].pc = "sample" /\ phase = "idle"
    /\ tasks' = [tasks EXCEPT ![t].pc = "add", ![t].keys = keys]
    /\ buckets' = [i \in DOMAIN buckets |->
          IF \E key \in Held : BucketIndexFor(LongId[key]) = i
          THEN [buckets[i] EXCEPT !.lonely = FALSE] ELSE buckets[i]]
    /\ UNCHANGED <<phase, node, rest, low, high, lru, pings>>

Sample(t) == SampleAs(t, {key \in Held : ReplicationDue(tasks[t].node, key)})

\* Wrong variant: the write lock is not taken, and a second insertion begins
\* in the middle of the first.
AddUnlocked(t) ==
    /\ tasks[t].pc = "add" /\ tasks[t].node # Local
    /\ phase' = "insert" /\ node' = tasks[t].node /\ lru' = NoNode
    /\ tasks' = [tasks EXCEPT ![t].pc = "adding"]
    /\ UNCHANGED <<buckets, rest, low, high, pings>>

\* The end of a task: pings the contact add_contact returned.  The replicas of
\* its keys go out to the network.
Ends(t, oldest) ==
    /\ tasks' = [tasks EXCEPT ![t] = NoTask]
    /\ pings' = pings \cup ({oldest} \ {NoNode})

\* add_contact, under the write lock; for the node itself it does nothing.
Add(t) ==
    /\ tasks[t].pc = "add" /\ phase = "idle"
    /\ \/ /\ AddContact(tasks[t].node)
          /\ tasks' = [tasks EXCEPT ![t].pc = "adding"]
          /\ UNCHANGED pings
       \/ /\ tasks[t].node = Local /\ Ends(t, NoNode)
          /\ UNCHANGED vars

Adding(t) ==
    /\ tasks[t].pc = "adding" /\ InsertStep
    /\ IF phase' = "idle" THEN Ends(t, lru') ELSE UNCHANGED <<tasks, pings>>

\* call_ping_node gets no answer: the contact is removed, and its replacement
\* promoted.
PingFails(n) ==
    /\ n \in pings /\ pings' = pings \ {n}
    /\ RemoveContact(n)
    /\ UNCHANGED tasks

\* It gets one; handle_datagram spawns a welcome task for the Pong.
PingAnswered(t, n) ==
    /\ n \in pings /\ pings' = pings \ {n}
    /\ Spawn(t, n)
    /\ UNCHANGED vars

\* rpc_leave, a call without an answer, a sender over its strikes.
Forget(n) ==
    /\ RemoveContact(n) /\ buckets' # buckets
    /\ UNCHANGED <<tasks, pings>>

WelcomeStep(t) == Check(t) \/ Sample(t) \/ Add(t) \/ Adding(t)

\* A step of task t whatever keys it keeps.  It is enabled when WelcomeStep(t)
\* is, and among the steps of MNext it is no other; fairness is stated with it
\* because deciding whether it is enabled needs no neighbour search.
Turn(t) == Check(t) \/ (\E keys \in SUBSET Held : SampleAs(t, keys)) \/ Add(t) \/ Adding(t)

MNext ==
    \/ \E t \in Tasks : WelcomeStep(t) \/ \E n \in Heard : Hear(t, n) \/ PingAnswered(t, n)
    \/ \E n \in Heard : PingFails(n) \/ Forget(n)

MSafety == MInit /\ [][MNext]_allVars

\* Tasks are scheduled, and the lock is handed to whoever waits for it.
MSpec == MSafety /\ \A t \in Tasks : SF_allVars(Turn(t))

-----------------------------------------------------------------------------
(* Properties *)

\* Concurrent welcome tasks never interleave inside an insertion, and only
\* nodes that were heard from are pinged (welcome_if_new, call_ping_node).
TasksWellFormed ==
    /\ Cardinality({t \in Tasks : tasks[t].pc = "adding"}) = IF phase = "idle" THEN 0 ELSE 1
    /\ \A t \in Tasks : tasks[t].pc = "adding" => tasks[t].node = node
    /\ pings \subseteq Heard

\* Every welcome task comes to its end: the table's lock is always given back,
\* however insertions and removals of several tasks alternate.
EveryWelcomeEnds == \A t \in Tasks : tasks[t].pc # "none" ~> tasks[t].pc = "none"
=============================================================================
