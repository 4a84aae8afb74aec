-------------------------------- MODULE Server --------------------------------
(***************************************************************************)
(* The life of a Server (src/src/network.rs) under the calls of several    *)
(* Python coroutines (PyServer, src/src/py_bindings.rs): the lock around   *)
(* it, listening, bootstrapping, saving the state, stopping, and the       *)
(* background loops these start and cancel.                                *)
(*                                                                         *)
(* tokio's RwLock (external) lets callers in in the order they came.  A    *)
(* cancelled coroutine is dropped at whichever await it has reached.  What *)
(* get, set, update and delete do is in other modules: here they only hold *)
(* the lock.                                                               *)
(***************************************************************************)
EXTENDS Naturals, Sequences, FiniteSets

CONSTANTS
    Callers,    \* coroutines; each makes one call after the other
    Makes,      \* the calls each of them makes
    Ports,
    MaxListens, \* bound: successful calls of listen
    MaxSavers   \* bound: saving tasks at a time

ASSUME ServerConstants ==
    /\ \A c \in Callers : Makes[c] \subseteq {"listen", "stop", "save_state_regularly",
                                             "bootstrap", "save_state", "use"}
    /\ MaxListens \in Nat /\ MaxSavers \in Nat

VARIABLES
    queue,      \* callers waiting for the lock, first come first
    calls,      \* what each caller does: [op, port, pc, proto]
    protocol,   \* Server.protocol: the number of the listen that made it, or None
    bound,      \* ports with a socket
    loops,      \* running tasks: [kind, proto, nr]
    polls,      \* saving tasks on a thread, between their last await and the next
    handles,    \* refresh_loop and save_state_loop: a task or None
    file,       \* the protocol whose neighbours were saved last, or None
    ghost       \* for the properties: [orphans, stopped], see Replace and StopAborts

vars == <<queue, calls, protocol, bound, loops, polls, handles, file, ghost>>

None == 0

Task(kind, proto, nr) == [kind |-> kind, proto |-> proto, nr |-> nr]

NoTask == Task("none", None, 0)

Idle == [op |-> "none", port |-> "none", pc |-> "idle", proto |-> None]

Exclusive == {"listen", "stop", "save_state_regularly"}
Shared    == {"bootstrap", "save_state", "use"}

Init ==
    /\ queue = <<>> /\ calls = [c \in Callers |-> Idle]
    /\ protocol = None /\ bound = {} /\ loops = {} /\ polls = {}
    /\ handles = [refresh |-> NoTask, save |-> NoTask]
    /\ file = None
    /\ ghost = [orphans |-> {}, stopped |-> FALSE]

-----------------------------------------------------------------------------
(* The lock *)

Waiting(c) == calls[c].pc = "wait"

Inside == {c \in Callers : calls[c].pc \notin {"idle", "wait"}}

OfServer == <<protocol, bound, loops, polls, handles, file, ghost>>

\* The saving tasks there are, and may be once every call has returned.
Savers == {t \in loops \cup polls : t.kind = "save"}
SaversToCome == Cardinality(Savers) + Cardinality({c \in Callers : calls[c].op = "save_state_regularly"})

\* A coroutine asks for the lock.
Enter(c, op, port) ==
    /\ calls[c] = Idle /\ op \in Makes[c]
    /\ op = "save_state_regularly" => SaversToCome < MaxSavers
    /\ calls' = [calls EXCEPT ![c] = [op |-> op, port |-> port, pc |-> "wait", proto |-> None]]
    /\ queue' = Append(queue, c)
    /\ UNCHANGED OfServer

\* A wrong choice of locks: everything but stop takes the shared one.
SharedListen(op) == IF op = "stop" THEN Inside = {} ELSE \A d \in Inside : calls[d].op # "stop"

\* inner.write() waits for everyone, inner.read() for the exclusive callers.
Compatible(op) == IF op \in Exclusive THEN Inside = {} ELSE \A d \in Inside : calls[d].op \in Shared

\* Its turn: the lock is fair.
FirstIn(c) == Waiting(c) /\ c = Head(queue)

\* The caller is let in.
Acquire(c) ==
    /\ FirstIn(c) /\ Compatible(calls[c].op)
    /\ queue' = SelectSeq(queue, LAMBDA d : d # c)
    /\ calls' = [calls EXCEPT ![c].pc = "begin", ![c].proto = protocol]
    /\ UNCHANGED OfServer

Running(c, op, pc) == c \in Inside /\ calls[c].op = op /\ calls[c].pc = pc

\* The call ends and the lock is released.
Leave(c) == calls' = [calls EXCEPT ![c] = Idle] /\ UNCHANGED queue

\* The coroutine is cancelled while it waits for the lock or, inside, at an
\* await: what it has done stays, what it has not is not done.
Cancel(c) ==
    /\ calls[c] # Idle
    /\ calls' = [calls EXCEPT ![c] = Idle]
    /\ queue' = SelectSeq(queue, LAMBDA d : d # c)
    /\ UNCHANGED OfServer

-----------------------------------------------------------------------------
(* Exclusive calls *)

\* The tasks started along with a refreshing one.
Companions(task) == {Task(kind, task.proto, 0) : kind \in {"stats", "receive"}}

\* A new task takes the place of an older one, which runs on without a handle.
Replace(kind, task) ==
    /\ loops' = loops \cup {task} \cup (IF kind = "refresh" THEN Companions(task) ELSE {})
    /\ handles' = [handles EXCEPT ![kind] = task]
    /\ ghost' = [orphans |-> ghost.orphans \cup ({handles[kind]} \ {NoTask}), stopped |-> FALSE]

\* The socket cannot be bound: it is taken, also by this server, or another
\* error occurs.
ListenFails(c) == Running(c, "listen", "begin") /\ Leave(c) /\ UNCHANGED OfServer

\* It is bound: a new protocol with an empty routing table, and the tasks that
\* receive, refresh and log.
Listens(c) ==
    LET proto == Cardinality({t \in loops : t.kind = "receive"}) + 1 IN
    /\ Running(c, "listen", "begin") /\ calls[c].port \notin bound /\ proto <= MaxListens
    /\ bound' = bound \cup {calls[c].port}
    /\ protocol' = proto
    /\ Replace("refresh", Task("refresh", proto, 0))
    /\ Leave(c) /\ UNCHANGED <<polls, file>>

\* A number that tells a new saving task from the others.
NewNr == CHOOSE nr \in 1..MaxSavers : \A t \in Savers : t.nr # nr

\* A wrong start, which waits for the first listen with the lock in its hand.
SavesOnceListening(c) ==
    /\ Running(c, "save_state_regularly", "begin") /\ protocol # None
    /\ Replace("save", Task("save", protocol, NewNr))
    /\ Leave(c) /\ UNCHANGED <<protocol, bound, polls, file>>

\* save_state_regularly does nothing before the first listen.
SavesRegularly(c) ==
    /\ Running(c, "save_state_regularly", "begin")
    /\ IF protocol = None THEN UNCHANGED <<loops, handles, ghost>>
       ELSE Replace("save", Task("save", protocol, NewNr))
    /\ Leave(c) /\ UNCHANGED <<protocol, bound, polls, file>>

\* A wrong order, which takes the handles before it waits for the neighbours.
StopTakesHandles(c) ==
    /\ Running(c, "stop", "begin")
    /\ handles' = [refresh |-> NoTask, save |-> NoTask]
    /\ calls' = [calls EXCEPT ![c].pc = "leaving"]
    /\ UNCHANGED <<queue, protocol, bound, loops, polls, file, ghost>>

\* stop sends a leave to every neighbour, and waits for the calls to end.
StopNotifies(c) ==
    /\ Running(c, "stop", "begin")
    /\ calls' = [calls EXCEPT ![c].pc = "leaving"]
    /\ UNCHANGED <<queue, OfServer>>

\* A wrong end, which drops the handles: the tasks go on.
StopDetaches(c) ==
    /\ Running(c, "stop", "leaving")
    /\ handles' = [refresh |-> NoTask, save |-> NoTask]
    /\ ghost' = [ghost EXCEPT !.stopped = TRUE]
    /\ Leave(c) /\ UNCHANGED <<protocol, bound, loops, polls, file>>

\* Then it aborts the two tasks it has handles of, and does not wait for them: a
\* task on another thread ends at its next await.  The protocol stays, and so do
\* the tasks that receive and log.
StopAborts(c) ==
    /\ Running(c, "stop", "leaving")
    /\ loops' = loops \ {handles.refresh, handles.save}
    /\ handles' = [refresh |-> NoTask, save |-> NoTask]
    /\ ghost' = [ghost EXCEPT !.stopped = TRUE]
    /\ Leave(c) /\ UNCHANGED <<protocol, bound, polls, file>>

-----------------------------------------------------------------------------
(* Shared calls *)

\* bootstrap pings the addresses it is given, through the protocol if there is
\* one.
BootstrapPings(c) ==
    /\ Running(c, "bootstrap", "begin")
    /\ calls' = [calls EXCEPT ![c].pc = "crawl"]
    /\ UNCHANGED <<queue, OfServer>>

\* The lookup of the node's own id, in the protocol there is now, ends.
BootstrapEnds(c) == Running(c, "bootstrap", "crawl") /\ Leave(c) /\ UNCHANGED OfServer

\* The neighbours of protocol p are written to the file unless there are none
\* (its routing table is external here).
Save(p) == file' \in (IF p = None THEN {file} ELSE {file, p})

SaveState(c) ==
    /\ Running(c, "save_state", "begin")
    /\ Save(protocol)
    /\ Leave(c) /\ UNCHANGED <<protocol, bound, loops, polls, handles, ghost>>

\* get, set, update, delete and bootstrappable_neighbors.
UseEnds(c) == Running(c, "use", "begin") /\ Leave(c) /\ UNCHANGED OfServer

-----------------------------------------------------------------------------
(* The tasks *)

\* A saving task has slept and has the routing table: no await is left before
\* the file is written.
SaverWakes(t) ==
    /\ t.kind = "save" /\ t \notin polls
    /\ polls' = polls \cup {t}
    /\ UNCHANGED <<queue, calls, protocol, bound, loops, handles, file, ghost>>

\* It writes the neighbours of the protocol it was started with, and sleeps
\* again, or ends if it was aborted meanwhile.
SaverWrites(t) ==
    /\ Save(t.proto)
    /\ polls' = polls \ {t}
    /\ UNCHANGED <<queue, calls, protocol, bound, loops, handles, ghost>>

Proceed(c) ==
    /\ c \in Inside
    /\ \/ ListenFails(c) \/ Listens(c) \/ SavesRegularly(c) \/ StopNotifies(c) \/ StopAborts(c)
       \/ BootstrapPings(c) \/ BootstrapEnds(c) \/ SaveState(c) \/ UseEnds(c)

Calls ==
    {<<"listen", p>> : p \in Ports} \cup {<<op, "none">> : op \in (Exclusive \cup Shared) \ {"listen"}}

Next ==
    \/ \E c \in Callers : (\E q \in Calls : Enter(c, q[1], q[2])) \/ Acquire(c) \/ Cancel(c) \/ Proceed(c)
    \/ \E t \in loops : SaverWakes(t)
    \/ \E t \in polls : SaverWrites(t)

\* Whoever may enter does, and whoever is inside comes to its end, because every
\* call to a peer has a timeout.
Fairness ==
    /\ WF_vars(\E c \in Callers : Acquire(c))
    /\ \A c \in Callers : WF_vars(Proceed(c))

Spec == Init /\ [][Next]_vars /\ Fairness

-----------------------------------------------------------------------------
(* Properties *)

\* An operation in progress goes on with the protocol, and so the routing table
\* and socket, it began with: bootstrap pings and crawls through the same one
\* whatever the other coroutines call, cancel and repeat (the lock of PyServer,
\* py_bindings.rs:198).
OneProtocolPerCall == \A c \in Inside : calls[c].op \in Shared => calls[c].proto = protocol

\* A refresh or save task runs without a handle only if a second listen or
\* save_state_regularly has overwritten the handle: a stop cancelled half way
\* leaves the handles for the next one (stop, schedule_refresh).
LoopsAccounted ==
    \A t \in loops : t.kind \in {"refresh", "save"} =>
        t \in {handles.refresh, handles.save} \cup ghost.orphans

\* Between a stop that returned and the next listen or save_state_regularly no
\* task begins to save, unless it had lost its handle before the stop.  A save in
\* progress when stop aborts it is still written, once; besides that the file is
\* written by the callers of save_state only (stop, save_state_regularly).
QuietAfterStop ==
    [][ghost.stopped =>
          /\ polls' \ polls \subseteq ghost.orphans
          /\ file' # file =>
                \/ \E c \in Inside : calls[c].op = "save_state"
                \/ \E t \in polls \ polls' : file' = t.proto]_vars

\* Every coroutine that asks for the lock gets through, though others keep
\* calling and every stop waits for its neighbours (tokio's RwLock is fair).
EveryCallReturns == \A c \in Callers : calls[c].pc # "idle" ~> calls[c].pc = "idle"
=============================================================================
