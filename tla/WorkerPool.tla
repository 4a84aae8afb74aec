----------------------------- MODULE WorkerPool -----------------------------
(***************************************************************************)
(* The receive loop and the worker pool that Server::listen starts         *)
(* (src/src/network.rs).  The loop offers each datagram to the workers'    *)
(* bounded queues in turn and, when all were full, waits for one of them;  *)
(* workers empty their queues meanwhile.  Handlers await locks and         *)
(* blocking threads but never a later datagram, so a handler ends by       *)
(* itself.                                                                 *)
(***************************************************************************)
EXTENDS Naturals, Sequences, FiniteSets

CONSTANTS
    NumWorkers,   \* num_workers
    QueueDepth,   \* WORKER_QUEUE_DEPTH
    Datagrams,    \* what the socket delivers, each once
    Nothing

ASSUME PoolConstants ==
    NumWorkers \in Nat \ {0} /\ QueueDepth \in Nat \ {0} /\ Nothing \notin Datagrams

Workers == 0..(NumWorkers - 1)

VARIABLES
    incoming,  \* datagrams the socket has not delivered yet
    loop,      \* the receive loop: [pc, datagram, base, tried]
    idx,       \* the worker to try first next time
    channels,  \* the workers' queues
    handling,  \* what each worker is busy with
    handled    \* datagrams whose handler has returned

poolVars == <<incoming, loop, idx, channels, handling, handled>>

Receiving == [pc |-> "recv", datagram |-> Nothing, base |-> 0, tried |-> 0]

PoolInit ==
    /\ incoming = Datagrams /\ loop = Receiving /\ idx = 0
    /\ channels = [w \in Workers |-> <<>>]
    /\ handling = [w \in Workers |-> Nothing] /\ handled = {}

Recv(d) ==
    /\ loop.pc = "recv" /\ incoming' = incoming \ {d}
    /\ loop' = [pc |-> "try", datagram |-> d, base |-> idx, tried |-> 0]
    /\ UNCHANGED <<idx, channels, handling, handled>>

Full(w) == Len(channels[w]) >= QueueDepth

NextWorker(w) == (w + 1) % NumWorkers

\* The datagram goes into the queue of w, and the loop back to the socket.
Deliver(w) ==
    /\ ~Full(w)
    /\ channels' = [channels EXCEPT ![w] = Append(@, loop.datagram)]
    /\ idx' = NextWorker(w) /\ loop' = Receiving
    /\ UNCHANGED <<incoming, handling, handled>>

Candidate == (loop.base + loop.tried) % NumWorkers

TrySend == loop.pc = "try" /\ Deliver(Candidate)

TryNext ==
    /\ loop.pc = "try" /\ Full(Candidate)
    /\ loop' = [loop EXCEPT !.tried = @ + 1, !.pc = IF loop.tried + 1 = NumWorkers THEN "wait" ELSE "try"]
    /\ UNCHANGED <<incoming, idx, channels, handling, handled>>

\* A wrong last resort, which forgets the datagram when its queue is full.
DropWhenFull ==
    /\ loop.pc = "wait"
    /\ Deliver(loop.base) \/ /\ Full(loop.base) /\ loop' = Receiving
                             /\ UNCHANGED <<incoming, idx, channels, handling, handled>>

\* All queues were full: wait for the first.
SendWhenFree == loop.pc = "wait" /\ Deliver(loop.base)

Take(w) ==
    /\ handling[w] = Nothing /\ channels[w] # <<>>
    /\ handling' = [handling EXCEPT ![w] = Head(channels[w])]
    /\ channels' = [channels EXCEPT ![w] = Tail(@)]
    /\ UNCHANGED <<incoming, loop, idx, handled>>

\* A wrong handler, which awaits the answer to a call of its own: that is,
\* until another datagram has been handled.
FinishAfterAnswer(w) ==
    /\ handling[w] # Nothing /\ handled # {}
    /\ handled' = handled \cup {handling[w]}
    /\ handling' = [handling EXCEPT ![w] = Nothing]
    /\ UNCHANGED <<incoming, loop, idx, channels>>

\* handle_datagram returns.
Finish(w) ==
    /\ handling[w] # Nothing
    /\ handled' = handled \cup {handling[w]}
    /\ handling' = [handling EXCEPT ![w] = Nothing]
    /\ UNCHANGED <<incoming, loop, idx, channels>>

Loop == TrySend \/ TryNext \/ SendWhenFree

PoolNext == (\E d \in incoming : Recv(d)) \/ Loop \/ (\E w \in Workers : Take(w) \/ Finish(w))

PoolSafety == PoolInit /\ [][PoolNext]_poolVars

\* The loop and every worker are tasks that the runtime schedules.
PoolSpec == PoolSafety /\ WF_poolVars(Loop) /\ \A w \in Workers : WF_poolVars(Take(w) \/ Finish(w))

-----------------------------------------------------------------------------
(* Properties *)

\* The places of the queues where datagram d waits, and the workers busy with it.
Queued(d) == {p \in Workers \X (1..QueueDepth) : p[2] <= Len(channels[p[1]]) /\ channels[p[1]][p[2]] = d}

Busy(d) == {w \in Workers : handling[w] = d}

\* In how many places datagram d is.
Copies(d) ==
    LET in(S) == IF d \in S THEN 1 ELSE 0 IN
    in(incoming) + in({loop.datagram}) + in(handled) + Cardinality(Queued(d)) + Cardinality(Busy(d))

\* Backpressure without drops: every datagram is in exactly one place, so none
\* is lost or handled twice, however full the queues are.
NoneLost == \A d \in Datagrams : Copies(d) = 1

\* Every datagram taken from the socket is handled: the loop never waits for
\* ever, although it waits for one worker while others may be idle.
EachHandled == \A d \in Datagrams : loop.datagram = d ~> d \in handled
=============================================================================
