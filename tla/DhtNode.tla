------------------------------- MODULE DhtNode -------------------------------
(***************************************************************************)
(* The node program of src/scripts/dht_node.rs on top of Replication: it   *)
(* starts a server, bootstraps with retries, publishes a record or looks   *)
(* one up, each with a bounded number of attempts, and then serves until   *)
(* it is told to stop.  Beside the programs, other clients of the nodes    *)
(* update or delete the record once.                                       *)
(***************************************************************************)
EXTENDS Replication

CONSTANTS
    Seed,            \* the node with IS_SEED, which the others bootstrap from
    Publisher, Retriever,  \* the clients that are the programs of their nodes
    First,           \* the record the publisher builds
    MaxBootstraps,   \* max_retries, 8 in the code
    Casts            \* [clients, changes, attempts, exits, earlier]: the clients that take
                     \* part, what those without a program may ask for and who of them,
                     \* max_attempts of the programs (10 in the code), how often a process
                     \* may end (a bound), and the record the seed holds from before

ASSUME DhtNodeConstants ==
    /\ Seed \in Nodes /\ {Publisher, Retriever} \subseteq Clients /\ Publisher # Retriever
    /\ Home[Publisher] # Home[Retriever] /\ First \in Versions
    /\ MaxBootstraps \in Nat \ {0}
    /\ \A c \in Casts :
          /\ c.attempts \in Nat \ {0} /\ c.earlier \in Versions \cup {None}
          /\ \A q \in c.changes :
                /\ q.op \in {"get", "set", "update", "delete"} /\ q.ver \in Versions \cup {None}
                /\ q.op \in {"set", "update"} => q.ver # None

VARIABLES
    script,  \* what the program of each node does: [pc, left]
    cast     \* one of Casts; it never changes

vars == <<rvars, script, cast>>

Programs == {Publisher, Retriever} \cap cast.clients

HasProgram(n) == \E c \in Programs : Home[c] = n

Program(pc, left) == [pc |-> pc, left |-> left]

\* The seed and the nodes without a part have run for longer.
Init ==
    /\ cast \in Casts
    /\ held = [n \in Nodes |-> IF n = Seed THEN cast.earlier ELSE None] /\ exits = cast.exits
    /\ up = {Seed} \cup {n \in Nodes : ~HasProgram(n)}
    /\ script = [n \in Nodes |-> Program(IF n \in up THEN "active" ELSE "down", 0)]
    /\ net = {} /\ ops = [c \in Clients |-> Idle]

\* A client's result is dropped.
Forget(c) == ops' = [ops EXCEPT ![c] = Ended] /\ UNCHANGED <<held, up, net, exits>>

Move(n, pc, left) == script' = [script EXCEPT ![n] = Program(pc, left)]

-----------------------------------------------------------------------------
(* Starting and stopping *)

\* start_server, and the choice between a seed and a peer.
Boot(n) ==
    /\ script[n].pc = "down" /\ Start(n)
    /\ IF n = Seed THEN Move(n, "role", 0) ELSE Move(n, "bootstrap", MaxBootstraps)

\* bootstrap_with_retries: an attempt finds a peer only if the seed answers; after
\* the last the program goes on all the same.
Bootstrap(n) ==
    /\ script[n].pc = "bootstrap"
    /\ \/ Seed \in up /\ Move(n, "role", 0)
       \/ IF script[n].left = 1 THEN Move(n, "role", 0) ELSE Move(n, "bootstrap", script[n].left - 1)
    /\ UNCHANGED rvars

\* The match on ROLE.  A node without a program here has one about another key.
ChooseRole(n) ==
    /\ script[n].pc = "role"
    /\ Move(n, IF HasProgram(n) THEN "attempt" ELSE "active", cast.attempts)
    /\ UNCHANGED rvars

\* Ctrl-C after the role has ended, or the process dies.
Shutdown(n) == Exit(n) /\ Move(n, "down", 0)

-----------------------------------------------------------------------------
(* run_publisher and run_retriever *)

\* The next attempt of either loop.
Attempt(c) ==
    LET n == Home[c] IN
    /\ script[n].pc = "attempt"
    /\ IF c = Publisher THEN Begin(c, "set", First, "none") ELSE Begin(c, "get", None, "none")
    /\ Move(n, "await", script[n].left)

\* A wrong loop, which does not count the attempts that were refused.
RetryUncounted(c) ==
    LET n == Home[c] IN
    IF ops[c].result # "none" /\ script[n].left = 1 THEN Move(n, "active", 0)
    ELSE Move(n, "attempt", IF ops[c].result = "none" THEN script[n].left ELSE script[n].left - 1)

\* The attempt failed; after the last one the node keeps running.
Retry(c) ==
    LET n == Home[c] IN
    IF script[n].left = 1 THEN Move(n, "active", 0) ELSE Move(n, "attempt", script[n].left - 1)

\* The arms of the match on set: success is followed by a get.
SetEnds ==
    LET n == Home[Publisher] IN
    /\ script[n].pc = "await" /\ ops[Publisher].pc = "done"
    /\ IF ops[Publisher].result = "true"
       THEN Begin(Publisher, "get", None, "none") /\ Move(n, "confirm", 0)
       ELSE Retry(Publisher) /\ Forget(Publisher)

\* Whatever that get returns, the publisher is through.
ConfirmEnds ==
    LET n == Home[Publisher] IN
    /\ script[n].pc = "confirm" /\ ops[Publisher].pc = "done"
    /\ Move(n, "active", 0) /\ Forget(Publisher)

\* The arms of the match on get.
GetEnds ==
    LET n == Home[Retriever] IN
    /\ script[n].pc = "await" /\ ops[Retriever].pc = "done"
    /\ IF ops[Retriever].result # "none" THEN Move(n, "active", 0) ELSE Retry(Retriever)
    /\ Forget(Retriever)

RunProgram(n) ==
    \/ Boot(n) \/ Bootstrap(n) \/ ChooseRole(n)
    \/ \E c \in Programs : Home[c] = n /\ Attempt(c)
    \/ Home[Publisher] = n /\ (SetEnds \/ ConfirmEnds)
    \/ Home[Retriever] = n /\ GetEnds

\* Another client's single operation.
Change(c) ==
    /\ c \in cast.clients \ Programs /\ ops[c].pc = "idle"
    /\ \E q \in cast.changes : q.by = c /\ Begin(c, q.op, q.ver, q.auth)
    /\ UNCHANGED script

Next ==
    /\ \/ \E n \in Nodes : RunProgram(n) \/ Shutdown(n)
       \/ \E c \in Clients : Change(c) \/ (Operate(c) /\ UNCHANGED script)
       \/ (Transport \/ RefreshLoops) /\ UNCHANGED script
    /\ UNCHANGED cast

ClientRuns ==
    /\ \/ (\E c \in Clients : Operate(c)) /\ UNCHANGED script
       \/ \E n \in Nodes : RunProgram(n)
    /\ UNCHANGED cast

\* Every call times out at the latest, so that operations and programs go on.
\* Nothing is asked of the network, of the refresh loops or of the other
\* clients: a request need not arrive, and a round need not reach any node.
Fairness == WF_vars(ClientRuns)

Spec == Init /\ [][Next]_vars /\ Fairness

-----------------------------------------------------------------------------
(* Properties *)

\* A set or update that returns true has put its record into the storage of
\* another node, however calls, timeouts and refused stores mix: a store
\* refused because the peer already holds a record, even the same one, does
\* not count (set_digest, update_digest, insert_if_absent).
AckedMeansStored ==
    \A c \in Clients : ops[c].pc = "done" /\ ops[c].op \in {"set", "update"} /\ ops[c].result = "true" =>
        ops[c].took # {}

\* A copy is replaced by an older rotation only by a client of this very node,
\* whose set or update looked before the newer one arrived, or by an update of a
\* peer that the owner of the replaced record has signed, or that was overtaken:
\* it was checked against another record, and the copy changed before it was
\* written.  No late, cached or republished store takes a copy back, nor does a
\* late update once the key it is signed with has been rotated away
\* (set_digest, update_digest, insert_if_absent, rpc_update).
RollsBackOnlyOvertaken ==
    [][\A n \in Nodes : held'[n] # None /\ Newer(held[n], held'[n]) =>
          \/ \E c \in Clients : Home[c] = n /\ ops[c].pc \in {"set", "update"} /\ ops[c].ver = held'[n]
          \/ \E m \in net : /\ m.to = n /\ m.op = "update" /\ m.phase = "checked" /\ m.ver = held'[n]
                            /\ m.auth = Owner[held[n]] \/ m.base # held[n]]_vars

\* What may still bring a record back: an operation that is about to write one
\* or has heard of one, and a request that is or will be written where there is
\* none.
Carries(q) ==
    \/ q.pc \in {"set", "update"}
    \/ q.pc = "crawl" /\ (q.op = "set" \/ \E n \in Nodes : q.answers[n] \in Versions)

Brings(m) == m.op = "store" \/ (m.op = "update" /\ m.phase = "checked")

Extinct ==
    /\ \A n \in Nodes : held[n] = None
    /\ \A m \in net : ~Brings(m)
    /\ \A c \in Clients : ~Carries(ops[c])

\* Once the last copy is gone, by deletes or with the processes, and no store, no
\* verified update and no operation that has seen it is under way, the record
\* stays gone until somebody sets it again: late updates and deletes, lookups
\* and refresh loops do not bring it back (rpc_update, delete_digest,
\* schedule_refresh).
GoneForGood ==
    [][Extinct => \/ Extinct'
                  \/ \E c \in Clients : ops[c].pc # "crawl" /\ ops'[c].pc = "crawl" /\ ops'[c].op = "set"]_vars

\* Every program comes through its attempts to the point where the node only
\* serves, whatever its sets and gets return (bootstrap_with_retries,
\* run_publisher, run_retriever).
ProgramsSettle == \A n \in Nodes : <>[](script[n].pc \in {"active", "down"})
=============================================================================
