----------------------------- MODULE ServerProofs -----------------------------
(***************************************************************************)
(* Proofs about the server of network.rs and what it makes of datagrams.   *)
(*                                                                         *)
(* Server, for any callers, calls and ports: the lock keeps an operation   *)
(* with the protocol it began with, and no background task is lost but by  *)
(* the overwriting of its handle.                                          *)
(*                                                                         *)
(* WorkerPool, for every number of workers, every depth of their queues    *)
(* and every set of datagrams: nothing is lost or handled twice.           *)
(*                                                                         *)
(* Reassembly, for every set of senders and messages, every chunk size and *)
(* limit, and every pattern of loss, repetition, delay and restart: what a *)
(* worker puts together from datagrams is what was sent.                   *)
(***************************************************************************)
EXTENDS Server, WorkerPool, Reassembly, FiniteSetTheorems, TLAPS

-----------------------------------------------------------------------------
(* The lock and the background tasks *)

Ops == Exclusive \cup Shared \cup {"none"}

Pcs == {"idle", "wait", "begin", "leaving", "crawl"}

\* The types the argument needs.
Typed ==
    /\ calls \in [Callers -> [op : Ops, port : Ports \cup {"none"}, pc : Pcs, proto : Nat]]
    /\ protocol \in Nat /\ IsFiniteSet(loops)
    /\ handles = [refresh |-> handles.refresh, save |-> handles.save]
    /\ ghost = [orphans |-> ghost.orphans, stopped |-> ghost.stopped]

\* Whoever is inside with an exclusive call is alone.
LockHolds == \A c \in Inside : calls[c].op \in Exclusive => Inside = {c}

\* After a stop only tasks without a handle are left.
StopLeavesOrphans ==
    ghost.stopped => \A t \in loops : t.kind \in {"refresh", "save"} => t \in ghost.orphans

\* The inductive invariant: a protocol changes only while its changer is alone
\* inside, and a handle leaves its place only for another or with its task.
IInv == Typed /\ LockHolds /\ OneProtocolPerCall /\ LoopsAccounted /\ StopLeavesOrphans

-----------------------------------------------------------------------------
\* Initially nobody has called and nothing runs.
LEMMA InitHolds == Init => IInv
<1> SUFFICES ASSUME Init PROVE IInv
    BY Zenon
<1>1. Typed
    BY FS_EmptySet, Zenon DEF Init, Typed, Idle, None, Ops, Pcs, Exclusive, Shared
<1>2. Inside = {}
    BY Zenon DEF Init, Inside, Idle
<1> QED
    BY <1>1, <1>2, Zenon DEF Init, IInv, LockHolds, OneProtocolPerCall, LoopsAccounted, StopLeavesOrphans

\* A call that ends, or is cancelled, leaves the others inside as they are.
LEMMA LeavingKeeps ==
    ASSUME IInv, NEW c \in Callers, calls' = [calls EXCEPT ![c] = Idle]
    PROVE  /\ calls' \in [Callers -> [op : Ops, port : Ports \cup {"none"}, pc : Pcs, proto : Nat]]
           /\ Inside' = Inside \ {c}
           /\ \A d \in Inside' : calls'[d] = calls[d]
           /\ LockHolds'
<1>1. calls' \in [Callers -> [op : Ops, port : Ports \cup {"none"}, pc : Pcs, proto : Nat]]
    BY Zenon DEF IInv, Typed, Idle, None, Ops, Pcs
<1>2. Inside' = Inside \ {c}
    BY Zenon DEF IInv, Typed, Inside, Idle
<1>3. \A d \in Inside' : calls'[d] = calls[d]
    BY <1>2, Zenon DEF IInv, Typed, Inside
<1> QED
    BY <1>1, <1>2, <1>3, Zenon DEF IInv, LockHolds

\* A step of the server that leaves its variables alone keeps what is said of them.
LEMMA ServerKept ==
    ASSUME IInv, UNCHANGED OfServer
    PROVE  /\ protocol' = protocol /\ protocol' \in Nat /\ IsFiniteSet(loops')
           /\ handles' = [refresh |-> handles'.refresh, save |-> handles'.save]
           /\ ghost' = [orphans |-> ghost'.orphans, stopped |-> ghost'.stopped]
           /\ LoopsAccounted' /\ StopLeavesOrphans'
BY Zenon DEF IInv, Typed, OfServer, LoopsAccounted, StopLeavesOrphans

\* The caller of an exclusive call leaves nobody behind.
LEMMA AloneInside ==
    ASSUME IInv, NEW c \in Inside, calls[c].op \in Exclusive, Leave(c)
    PROVE  Inside' = {}
<1>1. c \in Callers /\ Inside = {c}
    BY Zenon DEF IInv, LockHolds, Inside
<1> QED
    BY <1>1, LeavingKeeps, Zenon DEF Leave

\* A task put in the place of another keeps every task accounted for.
LEMMA ReplaceAccounts ==
    ASSUME IInv, NEW kind \in {"refresh", "save"}, NEW task, Replace(kind, task)
    PROVE  /\ handles' = [refresh |-> handles'.refresh, save |-> handles'.save]
           /\ ghost' = [orphans |-> ghost'.orphans, stopped |-> ghost'.stopped]
           /\ IsFiniteSet(loops') /\ LoopsAccounted' /\ StopLeavesOrphans'
<1>1. /\ handles' = [refresh |-> handles'.refresh, save |-> handles'.save]
      /\ handles'[kind] = task
      /\ \A k \in {"refresh", "save"} : k # kind => handles'[k] = handles[k]
    BY Zenon DEF IInv, Typed, Replace
<1>2. /\ ghost' = [orphans |-> ghost'.orphans, stopped |-> ghost'.stopped]
      /\ ghost'.stopped = FALSE /\ ghost'.orphans = ghost.orphans \cup ({handles[kind]} \ {NoTask})
    BY Zenon DEF Replace
<1>3. IsFiniteSet(loops')
  <2>1. IsFiniteSet(Companions(task))
    <3>1. Companions(task) = {Task("stats", task.proto, 0)} \cup {Task("receive", task.proto, 0)}
        BY Zenon DEF Companions
    <3>2. IsFiniteSet({Task("stats", task.proto, 0)}) /\ IsFiniteSet({Task("receive", task.proto, 0)})
        BY FS_Singleton, Zenon
    <3> QED
        BY <3>1, <3>2, FS_Union, Zenon
  <2>2. IsFiniteSet(IF kind = "refresh" THEN Companions(task) ELSE {})
    BY <2>1, FS_EmptySet, Zenon
  <2>3. IsFiniteSet(loops \cup {task})
    BY FS_Singleton, FS_Union, Zenon DEF IInv, Typed
  <2> QED
    BY <2>2, <2>3, FS_Union, Zenon DEF Replace
<1>4. LoopsAccounted'
  <2> SUFFICES ASSUME NEW t \in loops', t.kind \in {"refresh", "save"}
               PROVE  t \in {handles'.refresh, handles'.save} \cup ghost'.orphans
    BY Zenon DEF LoopsAccounted
  <2>1. CASE t = task
    BY <2>1, <1>1, Zenon
  <2>2. CASE t \in loops
    <3>1. t \in {handles.refresh, handles.save} \cup ghost.orphans
        BY <2>2, Zenon DEF IInv, LoopsAccounted
    <3>2. t # NoTask
        BY DEF NoTask, Task
    <3> QED
        BY <3>1, <3>2, <1>1, <1>2, Zenon
  <2>3. t \notin Companions(task)
    BY DEF Companions, Task
  <2> QED
    BY <2>1, <2>2, <2>3, Zenon DEF Replace
<1> QED
    BY <1>1, <1>2, <1>3, <1>4, Zenon DEF StopLeavesOrphans

-----------------------------------------------------------------------------
\* Every step keeps the invariant.
LEMMA StepKeeps == IInv /\ [Next]_vars => IInv'
<1> SUFFICES ASSUME IInv, [Next]_vars PROVE IInv'
    BY Zenon
<1> USE DEF OneProtocolPerCall
<1>1. ASSUME NEW c \in Callers, NEW q \in Calls, Enter(c, q[1], q[2]) PROVE IInv'
  <2>1. q[1] \in Ops /\ q[2] \in Ports \cup {"none"}
    BY DEF Calls, Ops, Exclusive, Shared
  <2>2. calls' \in [Callers -> [op : Ops, port : Ports \cup {"none"}, pc : Pcs, proto : Nat]]
    BY <1>1, <2>1, Zenon DEF Enter, IInv, Typed, Pcs, None
  <2>3. Inside' = Inside /\ \A d \in Inside : calls'[d] = calls[d]
    BY <1>1 DEF Enter, IInv, Typed, Inside, Idle
  <2>4. LockHolds' /\ OneProtocolPerCall'
    BY <1>1, <2>3, ServerKept, Zenon DEF Enter, IInv, LockHolds
  <2> QED
    BY <1>1, <2>2, <2>4, ServerKept, Zenon DEF Enter, IInv, Typed
<1>2. ASSUME NEW c \in Callers, Acquire(c) PROVE IInv'
  <2>1. calls' \in [Callers -> [op : Ops, port : Ports \cup {"none"}, pc : Pcs, proto : Nat]]
    <3>1. /\ calls \in [Callers -> [op : Ops, port : Ports \cup {"none"}, pc : Pcs, proto : Nat]]
          /\ protocol \in Nat /\ "begin" \in Pcs
      BY Zenon DEF IInv, Typed, Pcs
    <3>2. calls' = [calls EXCEPT ![c] = [calls[c] EXCEPT !.pc = "begin", !.proto = protocol]]
      BY <1>2, <3>1, Zenon DEF Acquire
    <3>3. [calls[c] EXCEPT !.pc = "begin", !.proto = protocol]
            \in [op : Ops, port : Ports \cup {"none"}, pc : Pcs, proto : Nat]
      BY <3>1, Zenon
    <3> QED
      BY <3>1, <3>2, <3>3, Zenon
  <2>2. /\ Inside' = Inside \cup {c} /\ c \notin Inside
        /\ \A d \in Inside : calls'[d] = calls[d]
        /\ calls'[c].op = calls[c].op /\ calls'[c].proto = protocol
    BY <1>2, Zenon DEF Acquire, FirstIn, Waiting, IInv, Typed, Inside
  <2>3. OneProtocolPerCall'
    BY <1>2, <2>2, ServerKept, Zenon DEF Acquire, IInv
  <2>4. LockHolds'
    <3>1. CASE calls[c].op \in Exclusive
        BY <1>2, <2>2, <3>1, Zenon DEF Acquire, Compatible, LockHolds
    <3>2. CASE calls[c].op \notin Exclusive
        <4>1. \A d \in Inside : calls[d].op \in Shared
            BY <1>2, <3>2, Zenon DEF Acquire, Compatible
        <4> QED
            BY <2>2, <3>2, <4>1, Zenon DEF LockHolds, Shared, Exclusive
    <3> QED
        BY <3>1, <3>2, Zenon
  <2> QED
    BY <1>2, <2>1, <2>3, <2>4, ServerKept, Zenon DEF Acquire, IInv, Typed
<1>3. ASSUME NEW c \in Callers, calls' = [calls EXCEPT ![c] = Idle], UNCHANGED OfServer PROVE IInv'
    BY <1>3, LeavingKeeps, ServerKept, Zenon DEF IInv, Typed
<1>4. ASSUME NEW c \in Inside, calls[c].op \in Exclusive, Leave(c),
             protocol' \in Nat, IsFiniteSet(loops'),
             handles' = [refresh |-> handles'.refresh, save |-> handles'.save],
             ghost' = [orphans |-> ghost'.orphans, stopped |-> ghost'.stopped],
             LoopsAccounted', StopLeavesOrphans'
      PROVE  IInv'
  <2>1. c \in Callers
    BY Zenon DEF Inside
  <2>2. Inside' = {}
    BY <1>4, AloneInside, Zenon
  <2> QED
    BY <1>4, <2>1, <2>2, LeavingKeeps, Zenon DEF IInv, Typed, Leave, LockHolds
<1>5. ASSUME NEW c \in Callers, NEW pc \in {"leaving", "crawl"}, c \in Inside,
             calls' = [calls EXCEPT ![c].pc = pc], UNCHANGED OfServer
      PROVE  IInv'
  <2>1. calls' \in [Callers -> [op : Ops, port : Ports \cup {"none"}, pc : Pcs, proto : Nat]]
    BY <1>5, Zenon DEF IInv, Typed, Pcs
  <2>2. /\ Inside' = Inside
        /\ \A d \in Inside : calls'[d].op = calls[d].op /\ calls'[d].proto = calls[d].proto
    BY <1>5, Zenon DEF IInv, Typed, Inside
  <2> QED
    BY <1>5, <2>1, <2>2, ServerKept, Zenon DEF IInv, Typed, LockHolds
<1>6. ASSUME NEW c \in Callers, Listens(c) PROVE IInv'
  <2>1. c \in Inside /\ calls[c].op \in Exclusive /\ Leave(c)
    BY <1>6, Zenon DEF Listens, Running, Exclusive
  <2>2. protocol' \in Nat
    <3>1. IsFiniteSet({t \in loops : t.kind = "receive"})
        BY FS_Subset, Zenon DEF IInv, Typed
    <3> QED
        BY <1>6, <3>1, FS_CardinalityType DEF Listens
  <2>3. \E task : Replace("refresh", task)
    BY <1>6, Zenon DEF Listens
  <2>4. /\ handles' = [refresh |-> handles'.refresh, save |-> handles'.save]
        /\ ghost' = [orphans |-> ghost'.orphans, stopped |-> ghost'.stopped]
        /\ IsFiniteSet(loops') /\ LoopsAccounted' /\ StopLeavesOrphans'
    BY <2>3, ReplaceAccounts, Zenon
  <2> QED
    BY <1>4, <2>1, <2>2, <2>4, Zenon
<1>7. ASSUME NEW c \in Callers, SavesRegularly(c) PROVE IInv'
  <2>1. c \in Inside /\ calls[c].op \in Exclusive /\ Leave(c) /\ protocol' = protocol
    BY <1>7, Zenon DEF SavesRegularly, Running, Exclusive
  <2>2. CASE protocol = None
    <3>1. UNCHANGED OfServer
        BY <1>7, <2>2, Zenon DEF SavesRegularly, OfServer
    <3> QED
        BY <1>3, <2>1, <3>1, Zenon DEF Leave
  <2>3. CASE protocol # None
    <3>1. \E task : Replace("save", task)
        BY <1>7, <2>3, Zenon DEF SavesRegularly
    <3>2. /\ handles' = [refresh |-> handles'.refresh, save |-> handles'.save]
          /\ ghost' = [orphans |-> ghost'.orphans, stopped |-> ghost'.stopped]
          /\ IsFiniteSet(loops') /\ LoopsAccounted' /\ StopLeavesOrphans'
        BY <3>1, ReplaceAccounts, Zenon
    <3> QED
        BY <1>4, <2>1, <3>2, Zenon DEF IInv, Typed
  <2> QED
    BY <2>2, <2>3, Zenon
<1>8. ASSUME NEW c \in Callers, StopAborts(c) PROVE IInv'
  <2>1. c \in Inside /\ calls[c].op \in Exclusive /\ Leave(c) /\ protocol' = protocol
    BY <1>8, Zenon DEF StopAborts, Running, Exclusive
  <2>2. IsFiniteSet(loops')
    BY <1>8, FS_Subset, Zenon DEF StopAborts, IInv, Typed
  <2>3. /\ handles' = [refresh |-> handles'.refresh, save |-> handles'.save]
        /\ ghost' = [orphans |-> ghost.orphans, stopped |-> TRUE]
    BY <1>8, Zenon DEF StopAborts, IInv, Typed
  <2>4. \A t \in loops' : t.kind \in {"refresh", "save"} => t \in ghost'.orphans
    BY <1>8, <2>3, Zenon DEF StopAborts, IInv, LoopsAccounted
  <2>5. LoopsAccounted' /\ StopLeavesOrphans'
    BY <2>4, Zenon DEF LoopsAccounted, StopLeavesOrphans
  <2> QED
    BY <1>4, <2>1, <2>2, <2>3, <2>5, Zenon DEF IInv, Typed
<1>9. ASSUME NEW c \in Callers, SaveState(c) PROVE IInv'
    BY <1>9, LeavingKeeps, Zenon DEF SaveState, Leave, IInv, Typed, LoopsAccounted, StopLeavesOrphans
<1>10. ASSUME NEW t, SaverWakes(t) \/ SaverWrites(t) PROVE IInv'
    BY <1>10, Zenon DEF SaverWakes, SaverWrites, IInv, Typed, LockHolds, LoopsAccounted, StopLeavesOrphans, Inside
<1>11. CASE UNCHANGED vars
    BY <1>11, Zenon DEF vars, IInv, Typed, LockHolds, LoopsAccounted, StopLeavesOrphans, Inside
<1>12. ASSUME NEW c \in Callers, Proceed(c) PROVE IInv'
  <2>1. CASE ListenFails(c) \/ BootstrapEnds(c) \/ UseEnds(c)
    BY <2>1, <1>3, Zenon DEF ListenFails, BootstrapEnds, UseEnds, Leave
  <2>2. CASE StopNotifies(c) \/ BootstrapPings(c)
    BY <2>2, <1>5, <1>12, Zenon DEF StopNotifies, BootstrapPings, Proceed
  <2> QED
    BY <1>6, <1>7, <1>8, <1>9, <1>12, <2>1, <2>2, Zenon DEF Proceed
<1>13. ASSUME NEW c \in Callers, Cancel(c) PROVE IInv'
    BY <1>3, <1>13, Zenon DEF Cancel
<1> QED
    BY <1>1, <1>2, <1>10, <1>11, <1>12, <1>13, Zenon DEF Next

\* The invariant holds throughout.
THEOREM ServerInvariant == Spec => []IInv
<1>1. Init => IInv
    BY InitHolds, Zenon
<1>2. IInv /\ [Next]_vars => IInv'
    BY StepKeeps, Zenon
<1> QED
    BY <1>1, <1>2, PTL DEF Spec

\* An operation goes on with the protocol it began with, for any number of
\* coroutines calling and cancelling in any order (the lock of PyServer).
THEOREM OperationsKeepTheirProtocol == Spec => []OneProtocolPerCall
<1>1. IInv => OneProtocolPerCall
    BY Zenon DEF IInv
<1> QED
    BY <1>1, ServerInvariant, PTL

\* No refresh or save task is lost but by the overwriting of its handle,
\* wherever a stop is cancelled (stop, listen, save_state_regularly).
THEOREM NoTaskIsLost == Spec => []LoopsAccounted
<1>1. IInv => LoopsAccounted
    BY Zenon DEF IInv
<1> QED
    BY <1>1, ServerInvariant, PTL

\* After a stop no task begins to save but one that lost its handle, and only
\* callers and saves in progress write the state file (stop,
\* save_state_regularly).
THEOREM StopSilencesSaving == Spec => QuietAfterStop
<1> DEFINE Quiet == ghost.stopped =>
                       /\ polls' \ polls \subseteq ghost.orphans
                       /\ file' # file =>
                             \/ \E c \in Inside : calls[c].op = "save_state"
                             \/ \E t \in polls \ polls' : file' = t.proto
<1>1. IInv /\ [Next]_vars => [Quiet]_vars
  <2> SUFFICES ASSUME IInv, Next, ghost.stopped PROVE Quiet
    BY Zenon DEF vars
  <2>1. CASE \E c \in Callers : SaveState(c)
    BY <2>1, Zenon DEF SaveState, Running
  <2>2. ASSUME NEW t \in loops, SaverWakes(t) PROVE Quiet
    BY <2>2, Zenon DEF SaverWakes, IInv, StopLeavesOrphans
  <2>3. ASSUME NEW t \in polls, SaverWrites(t) PROVE Quiet
    BY <2>3, Zenon DEF SaverWrites, Save
  <2>4. CASE UNCHANGED <<polls, file>>
    BY <2>4, Zenon
  <2>5. ASSUME NEW c \in Callers, Proceed(c), ~SaveState(c) PROVE UNCHANGED <<polls, file>>
    BY <2>5, Zenon DEF Proceed, ListenFails, Listens, SavesRegularly, StopNotifies, StopAborts,
        BootstrapPings, BootstrapEnds, UseEnds, OfServer
  <2>6. ASSUME NEW c \in Callers, Cancel(c) \/ Acquire(c) \/ \E q \in Calls : Enter(c, q[1], q[2])
        PROVE  UNCHANGED <<polls, file>>
    BY <2>6, Zenon DEF Cancel, Acquire, Enter, OfServer
  <2> QED
    BY <2>1, <2>2, <2>3, <2>4, <2>5, <2>6, Zenon DEF Next
<1> QED
    BY <1>1, ServerInvariant, PTL DEF Spec, QuietAfterStop

-----------------------------------------------------------------------------
(* The receive loop and its workers *)

\* The types of the loop, the queues and the workers.  The loop holds a
\* datagram exactly while it looks for a queue, and no queue is overfull.
PoolTyped ==
    /\ incoming \subseteq Datagrams /\ handled \subseteq Datagrams
    /\ loop \in [pc : {"recv", "try", "wait"}, datagram : Datagrams \cup {Nothing},
                 base : Workers, tried : Nat]
    /\ loop.pc = "recv" <=> loop.datagram = Nothing
    /\ idx \in Workers
    /\ channels \in [Workers -> Seq(Datagrams)]
    /\ \A w \in Workers : Len(channels[w]) <= QueueDepth
    /\ handling \in [Workers -> Datagrams \cup {Nothing}]

\* Exactly one of five: on the socket (s), with the loop (l), handled (h), at
\* one place of the queues (W), with one worker (B).
InOne(s, l, h, W, B) ==
    \/ s /\ ~l /\ ~h /\ W = {} /\ B = {}
    \/ ~s /\ l /\ ~h /\ W = {} /\ B = {}
    \/ ~s /\ ~l /\ h /\ W = {} /\ B = {}
    \/ ~s /\ ~l /\ ~h /\ (\E p : W = {p}) /\ B = {}
    \/ ~s /\ ~l /\ ~h /\ W = {} /\ \E w : B = {w}

Placed(d) == InOne(d \in incoming, loop.datagram = d, d \in handled, Queued(d), Busy(d))

\* The inductive invariant: NoneLost without the counting.
PoolIInv == PoolTyped /\ \A d \in Datagrams : Placed(d)

\* The queues' indices.
LEMMA PoolFacts ==
    /\ NumWorkers \in Nat /\ NumWorkers > 0 /\ QueueDepth \in Nat /\ QueueDepth > 0
    /\ Nothing \notin Datagrams
    /\ 0 \in Workers
    /\ \A w \in Nat : w % NumWorkers \in Workers
    /\ \A w \in Workers : w \in Nat
  BY PoolConstants DEF PoolConstants, Workers

\* Datagram d is at place i of the queue of w.
At(q, w, i, d) == i <= Len(q[w]) /\ q[w][i] = d

\* The places where a datagram waits.
PlacesIn(q, d) ==
    {p \in Workers \X (1..QueueDepth) : p[2] <= Len(q[p[1]]) /\ q[p[1]][p[2]] = d}

\* A set of places W, place by place.
PlaceByPlace(W, q, d) ==
    /\ W = {} <=> \A v \in Workers, j \in 1..QueueDepth : ~At(q, v, j, d)
    /\ \A p \in W : \E w \in Workers, i \in 1..QueueDepth : p = <<w, i>>
    /\ \A w \in Workers, i \in 1..QueueDepth :
          W = {<<w, i>>} <=>
              \A v \in Workers, j \in 1..QueueDepth : At(q, v, j, d) <=> v = w /\ j = i

\* That is what PlacesIn is.
LEMMA Places ==
    ASSUME NEW q, NEW d, NEW W, W = PlacesIn(q, d)
    PROVE  PlaceByPlace(W, q, d)
  <1>1. \A v \in Workers, j \in 1..QueueDepth : <<v, j>> \in W <=> At(q, v, j, d)
    BY Zenon DEF At, PlacesIn
  <1>2. \A p \in W : \E w \in Workers, i \in 1..QueueDepth : p = <<w, i>>
    BY DEF PlacesIn
  <1>3. \A v, j, w, i : <<v, j>> = <<w, i>> <=> v = w /\ j = i
    BY Zenon
  <1>4. W = {} <=> \A v \in Workers, j \in 1..QueueDepth : ~At(q, v, j, d)
    <2>1. W = {} => \A v \in Workers, j \in 1..QueueDepth : ~At(q, v, j, d)
      BY <1>1, Zenon
    <2>2. ASSUME \A v \in Workers, j \in 1..QueueDepth : ~At(q, v, j, d), NEW p \in W
          PROVE  FALSE
      BY <1>1, <1>2, <2>2
    <2> QED BY <2>1, <2>2, Zenon
  <1>5. ASSUME NEW w \in Workers, NEW i \in 1..QueueDepth
        PROVE  W = {<<w, i>>} <=>
                 \A v \in Workers, j \in 1..QueueDepth : At(q, v, j, d) <=> v = w /\ j = i
    <2>1. ASSUME W = {<<w, i>>}, NEW v \in Workers, NEW j \in 1..QueueDepth
          PROVE  At(q, v, j, d) <=> v = w /\ j = i
      BY <1>1, <1>3, <2>1, Zenon
    <2>2. ASSUME \A v \in Workers, j \in 1..QueueDepth : At(q, v, j, d) <=> v = w /\ j = i
          PROVE  W = {<<w, i>>}
      <3>1. <<w, i>> \in W
        BY <1>1, <2>2, Zenon
      <3>2. ASSUME NEW p \in W PROVE p = <<w, i>>
        <4>1. PICK v \in Workers, j \in 1..QueueDepth : p = <<v, j>>
          BY <1>2, Zenon
        <4> QED BY <1>1, <2>2, <4>1, Zenon
      <3> QED BY <3>1, <3>2, Zenon
    <2> QED BY <2>1, <2>2, Zenon
  <1> QED BY <1>2, <1>4, <1>5, Zenon DEF PlaceByPlace

\* So it is for the queues before and after a step.
LEMMA QueuedPlaces ==
    ASSUME NEW d
    PROVE  PlaceByPlace(Queued(d), channels, d) /\ PlaceByPlace(Queued(d)', channels', d)
  <1>1. Queued(d) = PlacesIn(channels, d) /\ Queued(d)' = PlacesIn(channels', d)
    BY Zenon DEF Queued, PlacesIn
  <1> QED BY <1>1, Places, Zenon

\* The socket has everything at first.
LEMMA PoolInitIInv == PoolInit => PoolIInv
  <1> SUFFICES ASSUME PoolInit PROVE PoolIInv
    BY Zenon
  <1>1. PoolTyped
    BY PoolFacts DEF PoolInit, PoolTyped, Receiving
  <1>2. ASSUME NEW d \in Datagrams PROVE Placed(d)
    <2>1. d \in incoming /\ loop.datagram # d /\ d \notin handled
      BY PoolFacts, Zenon DEF PoolInit, Receiving
    <2>2. Queued(d) = {}
      <3>1. \A w \in Workers : Len(channels[w]) = 0
        BY Zenon DEF PoolInit
      <3>2. \A i \in 1..QueueDepth : ~(i <= 0)
        BY PoolFacts
      <3> QED BY <3>1, <3>2, QueuedPlaces DEF PlaceByPlace, At
    <2>3. Busy(d) = {}
      BY PoolFacts, Zenon DEF PoolInit, Busy
    <2> QED BY <2>1, <2>2, <2>3, Zenon DEF Placed, InOne
  <1> QED BY <1>1, <1>2, Zenon DEF PoolIInv

\* A step that leaves the queues alone, or the workers, leaves who is there.
LEMMA SameQueued == ASSUME channels' = channels, NEW d PROVE Queued(d)' = Queued(d)
  BY Zenon DEF Queued

\* The workers busy with a datagram are told by what they handle.
LEMMA SameBusy == ASSUME handling' = handling, NEW d PROVE Busy(d)' = Busy(d)
  BY Zenon DEF Busy

\* socket.recv_from: a datagram goes from the socket to the loop.
LEMMA RecvStep ==
    ASSUME PoolIInv, NEW d \in incoming, Recv(d)
    PROVE  PoolIInv'
  <1>1. /\ loop.pc = "recv" /\ incoming' = incoming \ {d} /\ d \in Datagrams
        /\ loop' = [pc |-> "try", datagram |-> d, base |-> idx, tried |-> 0]
        /\ idx' = idx /\ channels' = channels /\ handling' = handling /\ handled' = handled
    BY Zenon DEF Recv, PoolIInv, PoolTyped
  <1>2. loop.datagram = Nothing /\ loop'.datagram = d
    BY <1>1, Zenon DEF PoolIInv, PoolTyped
  <1>3. PoolTyped'
    BY <1>1, PoolFacts, Zenon DEF PoolIInv, PoolTyped
  <1>4. ASSUME NEW e \in Datagrams PROVE Placed(e)'
    <2>1. Queued(e)' = Queued(e) /\ Busy(e)' = Busy(e)
      BY <1>1, SameQueued, SameBusy, Zenon
    <2>2. Placed(e) /\ loop.datagram # e
      BY <1>2, PoolFacts, Zenon DEF PoolIInv
    <2>3. (e = d => e \in incoming /\ e \notin incoming')
          /\ (e # d => (e \in incoming <=> e \in incoming'))
      BY <1>1, Zenon
    <2> QED BY <1>1, <1>2, <2>1, <2>2, <2>3, Zenon DEF Placed, InOne
  <1> QED BY <1>3, <1>4, Zenon DEF PoolIInv

\* try_send or send: the loop's datagram goes to the end of a queue with room.
LEMMA DeliverStep ==
    ASSUME PoolIInv, loop.pc # "recv", NEW w \in Workers, Deliver(w)
    PROVE  PoolIInv'
  <1> DEFINE d == loop.datagram
             n == Len(channels[w]) + 1
  <1>1. /\ channels' = [channels EXCEPT ![w] = Append(channels[w], d)]
        /\ idx' = (w + 1) % NumWorkers /\ loop' = Receiving
        /\ incoming' = incoming /\ handling' = handling /\ handled' = handled
        /\ ~(Len(channels[w]) >= QueueDepth)
    BY Zenon DEF Deliver, Full, NextWorker
  <1>2. /\ d \in Datagrams /\ channels \in [Workers -> Seq(Datagrams)]
        /\ channels[w] \in Seq(Datagrams) /\ Len(channels[w]) \in Nat
        /\ n \in 1..QueueDepth
    BY <1>1, PoolFacts, SMTT(40) DEF PoolIInv, PoolTyped
  <1>3. /\ channels' \in [Workers -> Seq(Datagrams)]
        /\ Len(channels'[w]) = n /\ channels'[w][n] = d
        /\ \A i \in 1..Len(channels[w]) : channels'[w][i] = channels[w][i]
        /\ \A v \in Workers : v # w => channels'[v] = channels[v]
    BY <1>1, <1>2
  <1>4. idx' \in Workers /\ loop'.datagram = Nothing
    BY <1>1, PoolFacts DEF Receiving
  <1>5. PoolTyped'
    <2>1. \A v \in Workers : Len(channels'[v]) <= QueueDepth
      <3>1. n <= QueueDepth /\ \A v \in Workers : Len(channels[v]) <= QueueDepth
        BY <1>2 DEF PoolIInv, PoolTyped
      <3> HIDE DEF n
      <3> QED BY <1>3, <3>1, Zenon
    <2> QED BY <1>1, <1>3, <1>4, <2>1, PoolFacts, Zenon DEF PoolIInv, PoolTyped, Receiving
  <1> HIDE DEF d
  <1>6. ASSUME NEW e \in Datagrams PROVE Placed(e)'
    <2>1. Busy(e)' = Busy(e) /\ Placed(e) /\ loop'.datagram # e
      BY <1>1, <1>4, SameBusy, PoolFacts, Zenon DEF PoolIInv
    <2>2. CASE e # d
      <3>1. ASSUME NEW v \in Workers, NEW i \in 1..QueueDepth
            PROVE  At(channels, v, i, e) <=> At(channels', v, i, e)
        <4>1. CASE v # w
          BY <1>3, <4>1, Zenon DEF At
        <4>2. CASE v = w
          <5>1. i <= n <=> i = n \/ i <= Len(channels[w])
            BY <1>2
          <5>2. i <= Len(channels[w]) => i \in 1..Len(channels[w]) /\ i <= n
            BY <1>2
          <5> HIDE DEF n
          <5> QED BY <1>3, <2>2, <4>2, <5>1, <5>2, Zenon DEF At
        <4> QED BY <4>1, <4>2, Zenon
      <3>2. Queued(e)' = Queued(e)
        BY <3>1, Zenon DEF Queued, At
      <3> QED BY <1>1, <2>1, <2>2, <3>2, Zenon DEF Placed, InOne, d
    <2>3. CASE e = d
      <3>1. e \notin incoming /\ e \notin handled /\ Queued(e) = {} /\ Busy(e) = {}
        BY <2>1, <2>3, Zenon DEF Placed, InOne, d
      <3>2. Queued(e)' = {<<w, n>>}
        <4>1. ASSUME NEW v \in Workers, NEW i \in 1..QueueDepth
              PROVE  At(channels', v, i, e) <=> v = w /\ i = n
          <5>1. ~At(channels, v, i, e)
            BY <3>1, QueuedPlaces, Zenon DEF PlaceByPlace
          <5>2. CASE v # w
            BY <1>3, <5>1, <5>2, Zenon DEF At
          <5>3. CASE v = w
            <6>1. i <= n <=> i = n \/ i <= Len(channels[w])
              BY <1>2
            <6>2. i <= Len(channels[w]) => i \in 1..Len(channels[w])
              BY <1>2
            <6> HIDE DEF n
            <6> QED BY <1>3, <2>3, <5>1, <5>3, <6>1, <6>2, Zenon DEF At
          <5> QED BY <5>2, <5>3, Zenon
        <4>2. PICK m \in 1..QueueDepth : m = n
          BY <1>2, Zenon
        <4>3. Queued(e)' = {<<w, m>>}
          BY <4>1, <4>2, QueuedPlaces DEF PlaceByPlace
        <4> QED BY <4>2, <4>3, Zenon
      <3> QED BY <1>1, <2>1, <3>1, <3>2, Zenon DEF Placed, InOne
    <2> QED BY <2>2, <2>3, Zenon
  <1> QED BY <1>5, <1>6, Zenon DEF PoolIInv

\* The candidate's queue was full: the loop goes on to the next worker.
LEMMA TryNextStep ==
    ASSUME PoolIInv, TryNext
    PROVE  PoolIInv'
  <1>1. /\ loop.pc = "try" /\ loop'.datagram = loop.datagram /\ loop'.pc \in {"try", "wait"}
        /\ loop' \in [pc : {"recv", "try", "wait"}, datagram : Datagrams \cup {Nothing},
                      base : Workers, tried : Nat]
        /\ incoming' = incoming /\ idx' = idx /\ channels' = channels
        /\ handling' = handling /\ handled' = handled
    <2>1. PICK pc \in {"try", "wait"} : loop' = [loop EXCEPT !.tried = loop.tried + 1, !.pc = pc]
      BY Zenon DEF TryNext
    <2>2. loop \in [pc : {"recv", "try", "wait"}, datagram : Datagrams \cup {Nothing},
                    base : Workers, tried : Nat]
      BY Zenon DEF PoolIInv, PoolTyped
    <2>3. incoming' = incoming /\ idx' = idx /\ channels' = channels
          /\ handling' = handling /\ handled' = handled /\ loop.pc = "try"
      BY Zenon DEF TryNext
    <2>4. /\ loop'.datagram = loop.datagram /\ loop'.base = loop.base
          /\ loop'.pc = pc /\ loop'.tried = loop.tried + 1
      BY <2>1, <2>2, Zenon
    <2>5. loop.tried + 1 \in Nat
      BY <2>2
    <2>6. loop' \in [pc : {"recv", "try", "wait"}, datagram : Datagrams \cup {Nothing},
                     base : Workers, tried : Nat]
      BY <2>1, <2>2, <2>5, Zenon
    <2> QED BY <2>3, <2>4, <2>6, Zenon
  <1>2. PoolTyped'
    BY <1>1, Zenon DEF PoolIInv, PoolTyped
  <1>3. ASSUME NEW e \in Datagrams PROVE Placed(e)'
    <2>1. Queued(e)' = Queued(e) /\ Busy(e)' = Busy(e) /\ Placed(e)
      BY <1>1, SameQueued, SameBusy, Zenon DEF PoolIInv
    <2> QED BY <1>1, <2>1, Zenon DEF Placed
  <1> QED BY <1>2, <1>3, Zenon DEF PoolIInv

\* rx.recv: a worker takes the datagram at the head of its queue.
LEMMA TakeStep ==
    ASSUME PoolIInv, NEW w \in Workers, Take(w)
    PROVE  PoolIInv'
  <1> DEFINE n == Len(channels[w])
  <1>0. PICK d : d = Head(channels[w])
    BY Zenon
  <1>1. /\ handling[w] = Nothing /\ channels[w] # <<>>
        /\ handling' = [handling EXCEPT ![w] = d]
        /\ channels' = [channels EXCEPT ![w] = Tail(channels[w])]
        /\ incoming' = incoming /\ loop' = loop /\ idx' = idx /\ handled' = handled
    BY <1>0, Zenon DEF Take
  <1>2. /\ channels \in [Workers -> Seq(Datagrams)] /\ channels[w] \in Seq(Datagrams)
        /\ n \in Nat /\ n >= 1 /\ n <= QueueDepth
        /\ d = channels[w][1] /\ d \in Datagrams
        /\ handling \in [Workers -> Datagrams \cup {Nothing}]
    BY <1>0, <1>1 DEF PoolIInv, PoolTyped
  <1>3. /\ channels' \in [Workers -> Seq(Datagrams)]
        /\ Len(channels'[w]) = n - 1
        /\ \A i \in 1..(n - 1) : channels'[w][i] = channels[w][i + 1]
        /\ \A v \in Workers : v # w => channels'[v] = channels[v]
    BY <1>1, <1>2
  <1>4. PoolTyped'
    <2>1. \A v \in Workers : Len(channels'[v]) <= QueueDepth
      <3>1. n - 1 <= QueueDepth
        BY <1>2, PoolFacts
      <3>2. \A v \in Workers : v # w => Len(channels'[v]) <= QueueDepth
        BY <1>3, Zenon DEF PoolIInv, PoolTyped
      <3> HIDE DEF n
      <3> QED BY <1>3, <3>1, <3>2, Zenon
    <2> QED BY <1>1, <1>2, <1>3, <2>1, Zenon DEF PoolIInv, PoolTyped
  <1>5. ASSUME NEW e
        PROVE  /\ \A i \in 1..QueueDepth : At(channels', w, i, e) <=>
                     i + 1 \in 1..QueueDepth /\ At(channels, w, i + 1, e)
               /\ \A v \in Workers, i \in 1..QueueDepth :
                     v # w => (At(channels', v, i, e) <=> At(channels, v, i, e))
    <2>1. ASSUME NEW i \in 1..QueueDepth
          PROVE  At(channels', w, i, e) <=> i + 1 \in 1..QueueDepth /\ At(channels, w, i + 1, e)
      <3>1. i \in 1..(n - 1) <=> i <= n - 1
        BY <1>2
      <3>2. i <= n - 1 <=> i + 1 \in 1..QueueDepth /\ i + 1 <= n
        BY <1>2, PoolFacts
      <3>3. n = Len(channels[w])
        BY Zenon
      <3> HIDE DEF n
      <3> QED BY <1>3, <3>1, <3>2, <3>3, Zenon DEF At
    <2>2. \A v \in Workers, i \in 1..QueueDepth :
             v # w => (At(channels', v, i, e) <=> At(channels, v, i, e))
      BY <1>3, Zenon DEF At
    <2> QED BY <2>1, <2>2, Zenon
  <1>6. Placed(d)'
    <2>1. Queued(d) = {<<w, 1>>} /\ 1 \in 1..QueueDepth
      <3>1. At(channels, w, 1, d) /\ 1 \in 1..QueueDepth
        BY <1>2, PoolFacts DEF At
      <3>2. Queued(d) # {}
        BY <3>1, QueuedPlaces, Zenon DEF PlaceByPlace
      <3>3. PICK p : Queued(d) = {p}
        BY <1>2, <3>2, Zenon DEF PoolIInv, Placed, InOne
      <3>4. PICK v \in Workers, i \in 1..QueueDepth : p = <<v, i>>
        BY <3>3, QueuedPlaces DEF PlaceByPlace
      <3>5. v = w /\ i = 1
        BY <3>1, <3>3, <3>4, QueuedPlaces DEF PlaceByPlace
      <3> QED BY <3>1, <3>3, <3>4, <3>5, Zenon
    <2>2. d \notin incoming /\ loop.datagram # d /\ d \notin handled /\ Busy(d) = {}
      <3>1. Queued(d) # {} /\ Placed(d)
        BY <1>2, <2>1, Zenon DEF PoolIInv
      <3> QED BY <3>1, Zenon DEF Placed, InOne
    <2>3. Queued(d)' = {}
      <3>1. \A v \in Workers, j \in 1..QueueDepth : At(channels, v, j, d) <=> v = w /\ j = 1
        BY <2>1, QueuedPlaces DEF PlaceByPlace
      <3>2. \A i \in 1..QueueDepth : i + 1 # 1
        BY PoolFacts
      <3>3. \A v \in Workers, j \in 1..QueueDepth : ~At(channels', v, j, d)
        BY <1>5, <3>1, <3>2, Zenon
      <3> QED BY <3>3, QueuedPlaces, Zenon DEF PlaceByPlace
    <2>4. Busy(d)' = {w}
      <3>1. \A v \in Workers : v # w => handling'[v] = handling[v] /\ handling[v] # d
        BY <1>1, <1>2, <2>2, Zenon DEF Busy
      <3>2. handling'[w] = d
        BY <1>1, <1>2, Zenon
      <3> QED BY <3>1, <3>2, Zenon DEF Busy
    <2> QED BY <1>1, <2>2, <2>3, <2>4, Zenon DEF Placed, InOne
  <1>7. ASSUME NEW e \in Datagrams, e # d PROVE Placed(e)'
    <2>1. Busy(e)' = Busy(e) /\ Placed(e)
      <3>1. handling[w] # e /\ handling'[w] # e
        BY <1>1, <1>2, <1>7, PoolFacts, Zenon
      <3>2. \A v \in Workers : v # w => handling'[v] = handling[v]
        BY <1>1, <1>2, Zenon
      <3> QED BY <3>1, <3>2, Zenon DEF Busy, PoolIInv
    <2>2. CASE Queued(e) = {}
      <3>1. \A v \in Workers, j \in 1..QueueDepth : ~At(channels, v, j, e)
        BY <2>2, QueuedPlaces, Zenon DEF PlaceByPlace
      <3>2. \A v \in Workers, j \in 1..QueueDepth : ~At(channels', v, j, e)
        BY <1>5, <3>1, Zenon
      <3>3. Queued(e)' = {}
        BY <3>2, QueuedPlaces DEF PlaceByPlace
      <3> QED BY <1>1, <2>1, <2>2, <3>3, Zenon DEF Placed, InOne
    <2>3. ASSUME NEW p, Queued(e) = {p} PROVE Placed(e)'
      <3>1. e \notin incoming /\ loop.datagram # e /\ e \notin handled /\ Busy(e) = {}
        <4>1. Queued(e) # {}
          BY <2>3, Zenon
        <4> QED BY <2>1, <4>1, Zenon DEF Placed, InOne
      <3>2. PICK v \in Workers, i \in 1..QueueDepth : p = <<v, i>>
        BY <2>3, QueuedPlaces DEF PlaceByPlace
      <3>3. \A u \in Workers, j \in 1..QueueDepth : At(channels, u, j, e) <=> u = v /\ j = i
        BY <2>3, <3>2, QueuedPlaces DEF PlaceByPlace
      <3>4. \E j \in 1..QueueDepth : Queued(e)' = {<<v, j>>}
        <4>1. CASE v # w
          <5>1. \A u \in Workers, j \in 1..QueueDepth : At(channels', u, j, e) <=> u = v /\ j = i
            BY <1>5, <3>3, <4>1, Zenon
          <5> QED BY <5>1, QueuedPlaces DEF PlaceByPlace
        <4>2. CASE v = w
          <5>1. i # 1
            <6>1. ~At(channels, w, 1, e)
              BY <1>2, <1>7, Zenon DEF At
            <6> QED BY <3>3, <4>2, <6>1, Zenon
          <5>2. PICK j \in 1..QueueDepth : j + 1 = i
            <6>1. i - 1 \in 1..QueueDepth /\ (i - 1) + 1 = i
              BY <5>1, PoolFacts
            <6> QED BY <6>1, Zenon
          <5>3. \A k \in 1..QueueDepth : k + 1 = i <=> k = j
            BY <5>2, PoolFacts
          <5>4. \A u \in Workers, k \in 1..QueueDepth : At(channels', u, k, e) <=> u = v /\ k = j
            BY <1>5, <3>3, <4>2, <5>3
          <5> QED BY <5>4, QueuedPlaces DEF PlaceByPlace
        <4> QED BY <4>1, <4>2, Zenon
      <3> QED BY <1>1, <2>1, <3>1, <3>4, Zenon DEF Placed, InOne
    <2> QED BY <2>1, <2>2, <2>3, Zenon DEF Placed, InOne
  <1> QED BY <1>2, <1>4, <1>6, <1>7, Zenon DEF PoolIInv

\* handle_datagram returns.
LEMMA FinishStep ==
    ASSUME PoolIInv, NEW w \in Workers, Finish(w)
    PROVE  PoolIInv'
  <1> DEFINE d == handling[w]
  <1>1. /\ d # Nothing /\ handled' = handled \cup {d}
        /\ handling' = [handling EXCEPT ![w] = Nothing]
        /\ incoming' = incoming /\ loop' = loop /\ idx' = idx /\ channels' = channels
    BY Zenon DEF Finish
  <1>2. d \in Datagrams /\ handling \in [Workers -> Datagrams \cup {Nothing}]
    BY <1>1, Zenon DEF PoolIInv, PoolTyped
  <1>3. PoolTyped'
    BY <1>1, <1>2, Zenon DEF PoolIInv, PoolTyped
  <1>4. handling'[w] = Nothing /\ \A v \in Workers : v # w => handling'[v] = handling[v]
    BY <1>1, <1>2, Zenon
  <1>5. ASSUME NEW e \in Datagrams PROVE Placed(e)'
    <2>1. Queued(e)' = Queued(e) /\ Placed(e)
      BY <1>1, SameQueued, Zenon DEF PoolIInv
    <2>2. CASE e # d
      <3>1. Busy(e)' = Busy(e)
        BY <1>4, <2>2, PoolFacts, Zenon DEF Busy
      <3>2. e \in handled' <=> e \in handled
        BY <1>1, <2>2, Zenon
      <3>3. (e \in incoming)' <=> e \in incoming
        BY <1>1, Zenon
      <3>4. (loop.datagram = e)' <=> loop.datagram = e
        BY <1>1, Zenon
      <3> QED BY <2>1, <3>1, <3>2, <3>3, <3>4, Zenon DEF Placed, InOne
    <2>3. CASE e = d
      <3>1. w \in Busy(e)
        BY <2>3, Zenon DEF Busy
      <3>2. e \notin incoming /\ loop.datagram # e /\ Queued(e) = {} /\ Busy(e) = {w}
        BY <2>1, <3>1, Zenon DEF Placed, InOne
      <3>3. Busy(e)' = {}
        BY <1>4, <3>2, PoolFacts, Zenon DEF Busy
      <3>4. e \in handled'
        BY <1>1, <2>3, Zenon
      <3> QED BY <1>1, <2>1, <3>2, <3>3, <3>4, Zenon DEF Placed, InOne
    <2> QED BY <2>2, <2>3, Zenon
  <1> QED BY <1>3, <1>5, Zenon DEF PoolIInv

\* Every step keeps the invariant.
LEMMA PoolNextIInv ==
    ASSUME PoolIInv, [PoolNext]_poolVars
    PROVE  PoolIInv'
  <1>1. CASE UNCHANGED poolVars
    BY <1>1, Zenon DEF poolVars, PoolIInv, PoolTyped, Placed, Queued, Busy
  <1>2. ASSUME NEW d \in incoming, Recv(d) PROVE PoolIInv'
    BY <1>2, RecvStep, Zenon
  <1>3. CASE TrySend
    <2>1. loop.pc = "try" /\ Deliver(Candidate)
      BY <1>3, Zenon DEF TrySend
    <2>2. Candidate \in Workers
      <3>1. loop.base + loop.tried \in Nat
        BY PoolFacts DEF PoolIInv, PoolTyped
      <3> QED BY <3>1, PoolFacts, Zenon DEF Candidate
    <2> QED BY <2>1, <2>2, DeliverStep, Zenon
  <1>4. CASE SendWhenFree
    <2>1. loop.pc = "wait" /\ Deliver(loop.base) /\ loop.base \in Workers
      BY <1>4, Zenon DEF SendWhenFree, PoolIInv, PoolTyped
    <2> QED BY <2>1, DeliverStep, Zenon
  <1>5. CASE TryNext
    BY <1>5, TryNextStep, Zenon
  <1>6. ASSUME NEW w \in Workers, Take(w) PROVE PoolIInv'
    BY <1>6, TakeStep, Zenon
  <1>7. ASSUME NEW w \in Workers, Finish(w) PROVE PoolIInv'
    BY <1>7, FinishStep, Zenon
  <1> QED BY <1>1, <1>2, <1>3, <1>4, <1>5, <1>6, <1>7, Zenon DEF PoolNext, Loop

\* What is in exactly one place is counted once.
LEMMA CountedOnce == PoolIInv => NoneLost
  <1> SUFFICES ASSUME PoolIInv, NEW d \in Datagrams PROVE Copies(d) = 1
    BY Zenon DEF NoneLost
  <1>1. Cardinality({}) = 0 /\ \A x : Cardinality({x}) = 1
    BY FS_EmptySet, FS_Singleton, Zenon
  <1>2. Placed(d)
    BY Zenon DEF PoolIInv
  <1>3. CASE Queued(d) = {} /\ Busy(d) = {}
    <2>1. Cardinality(Queued(d)) = 0 /\ Cardinality(Busy(d)) = 0
      BY <1>1, <1>3, Zenon
    <2> QED BY <1>2, <1>3, <2>1 DEF Copies, Placed, InOne
  <1>4. CASE Queued(d) # {}
    <2>1. Cardinality(Queued(d)) = 1 /\ Cardinality(Busy(d)) = 0
      BY <1>1, <1>2, <1>4, Zenon DEF Placed, InOne
    <2> QED BY <1>2, <1>4, <2>1 DEF Copies, Placed, InOne
  <1>5. CASE Busy(d) # {}
    <2>1. Cardinality(Queued(d)) = 0 /\ Cardinality(Busy(d)) = 1
      BY <1>1, <1>2, <1>5, Zenon DEF Placed, InOne
    <2> QED BY <1>2, <1>5, <2>1 DEF Copies, Placed, InOne
  <1> QED BY <1>3, <1>4, <1>5, Zenon

\* However many workers there are and however deep their queues, a datagram
\* taken from the socket is with the loop, in one queue, with one worker or
\* handled, and in no second place: nothing is dropped or handled twice
\* (the receive loop and the workers of Server::listen).
THEOREM DatagramsAreKept == PoolSafety => []NoneLost
  <1>1. PoolIInv /\ [PoolNext]_poolVars => PoolIInv'
    BY PoolNextIInv, Zenon
  <1> QED BY <1>1, PoolInitIInv, CountedOnce, PTL DEF PoolSafety

-----------------------------------------------------------------------------
(* Reassembly *)

\* Every datagram in flight is a fragment of a message that was sent.
WireSound ==
    \A d \in wire : \E s \in sent : \E i \in 0..(Fragments(s.msg) - 1) :
        d = Datagram(s.peer, s.fragId, s.msg, i)

\* e holds chunks of message m and of no other.
HoldsOnly(e, m) ==
    /\ e.total = Fragments(m)
    /\ \A i \in 0..(e.total - 1) : e.chunks[i] \in {Missing, <<m, i>>}

\* The buffer at k is fed by one message of its peer.
FedByOne(k, e) == \E s \in sent : s.peer = k[1] /\ s.fragId = k[2] /\ HoldsOnly(e, s.msg)

BuffersFed ==
    FragIdsUnique => \A k \in Peers \X FragIds : buffers[k] # NoEntry => FedByOne(k, buffers[k])

\* The inductive invariant: DeliveredIntact depends on what is in the buffers
\* and on the wire.
FragIInv == TypeOK /\ WireSound /\ BuffersFed /\ DeliveredIntact

-----------------------------------------------------------------------------

\* The number of fragments is a natural number.
LEMMA FragmentsNat == \A m \in Messages : Fragments(m) \in Nat
  <1> SUFFICES ASSUME NEW m \in Messages PROVE Fragments(m) \in Nat
    BY Zenon
  <1>1. Length[m] \in Nat /\ FragChunkSize \in Nat \ {0}
    BY FragConstants, Zenon DEF FragConstants
  <1>2. \A x \in Nat, y \in Nat \ {0} : x \div y \in Nat
    OBVIOUS
  <1>3. Length[m] + FragChunkSize - 1 \in Nat
    BY <1>1
  <1>4. (Length[m] + FragChunkSize - 1) \div FragChunkSize \in Nat
    BY <1>1, <1>2, <1>3, Zenon
  <1> QED BY <1>4, Zenon DEF Fragments

\* The counter of a new process is a fragment id.
LEMMA ZeroIsFragId == 0 \in FragIds
  BY FragConstants DEF FragConstants, FragIds

\* So is the one after a fragment id, past the wrap too.
LEMMA NextFragIdType == \A f \in FragIds : NextFragId(f) \in FragIds
  <1>1. \A x \in Nat, y \in Nat \ {0} : x % y \in 0..(y - 1)
    OBVIOUS
  <1>2. FragSpace \in Nat \ {0}
    BY FragConstants, Zenon DEF FragConstants
  <1>3. \A f \in FragIds : f + 1 \in Nat
    BY <1>2 DEF FragIds
  <1> QED BY <1>1, <1>2, <1>3, Zenon DEF NextFragId, FragIds

\* An empty buffer.
LEMMA NewEntryFacts ==
    ASSUME NEW n \in Nat
    PROVE  /\ Entry(NewEntry(n))
           /\ NewEntry(n).total = n
           /\ NewEntry(n).received = 0
           /\ \A i \in 0..(n - 1) : NewEntry(n).chunks[i] = Missing
  BY Zenon DEF NewEntry, Entry

\* What insert does to a buffer.
Inserted(e, i, c, f) ==
    /\ Entry(f)
    /\ f.total = e.total
    /\ f.stale = e.stale
    /\ \A j \in 0..(e.total - 1) : j # i => f.chunks[j] = e.chunks[j]
    /\ f.chunks[i] = IF e.chunks[i] = Missing THEN c ELSE e.chunks[i]
    /\ f.received = IF e.chunks[i] = Missing THEN e.received + 1 ELSE e.received

\* What FragmentBuffer::insert makes of an entry.
LEMMA InsertFacts ==
    ASSUME NEW e, Entry(e), NEW i \in 0..(e.total - 1), NEW c \in Chunk
    PROVE  Inserted(e, i, c, Insert(e, i, c))
  <1>1. CASE e.chunks[i] # Missing
    BY <1>1, Zenon DEF Insert, Inserted
  <1>2. CASE e.chunks[i] = Missing
    <2> DEFINE cs == [e.chunks EXCEPT ![i] = c]
               f == [total |-> e.total, received |-> e.received + 1, chunks |-> cs, stale |-> e.stale]
    <2>1. e = [total |-> e.total, received |-> e.received, chunks |-> e.chunks, stale |-> e.stale]
      BY Zenon DEF Entry
    <2>2. Insert(e, i, c) = f
      BY <1>2, <2>1, Zenon DEF Insert
    <2>3. /\ cs \in [0..(e.total - 1) -> Chunk \cup {Missing}]
          /\ cs[i] = c
          /\ \A j \in 0..(e.total - 1) : j # i => cs[j] = e.chunks[j]
      BY Zenon DEF Entry
    <2> HIDE DEF cs
    <2>4. e.total \in Nat /\ e.received + 1 \in Nat /\ e.stale \in BOOLEAN
      BY DEF Entry
    <2>5. Inserted(e, i, c, f)
      BY <1>2, <2>3, <2>4, Zenon DEF Inserted, Entry
    <2> QED BY <2>2, <2>5, Zenon
  <1> QED BY <1>1, <1>2, Zenon

-----------------------------------------------------------------------------

\* Initially nothing is on the wire and nothing is buffered.
LEMMA InitFragIInv == FragInit => FragIInv
  <1> SUFFICES ASSUME FragInit PROVE FragIInv
    BY Zenon
  <1>1. /\ MaxLosses \in Nat /\ MaxTimeouts \in Nat /\ MaxRestarts \in Nat /\ WorkerCount \in Nat
    BY FragConstants, Zenon DEF FragConstants
  <1>2. TypeOK
    BY <1>1, ZeroIsFragId DEF FragInit, FullBudget, TypeOK
  <1>3. WireSound /\ BuffersFed /\ DeliveredIntact
    BY Zenon DEF FragInit, WireSound, BuffersFed, DeliveredIntact
  <1> QED BY <1>2, <1>3, Zenon DEF FragIInv

\* A datagram in flight, taken apart.
LEMMA DatagramFacts ==
    ASSUME FragIInv, NEW d \in wire
    PROVE  \E s \in sent :
             /\ s.peer = d.peer /\ s.fragId = d.fragId /\ s.msg \in Messages
             /\ d.peer \in Peers /\ d.fragId \in FragIds
             /\ d.total = Fragments(s.msg) /\ d.total \in Nat
             /\ d.index \in 0..(d.total - 1)
             /\ d.chunk = <<s.msg, d.index>> /\ d.chunk \in Chunk
             /\ Key(d) \in Peers \X FragIds
  <1>0. PICK s \in sent : \E i \in 0..(Fragments(s.msg) - 1) :
           d = Datagram(s.peer, s.fragId, s.msg, i)
    BY Zenon DEF FragIInv, WireSound
  <1>1. PICK i \in 0..(Fragments(s.msg) - 1) : d = Datagram(s.peer, s.fragId, s.msg, i)
    BY <1>0, Zenon
  <1>2. s.peer \in Peers /\ s.fragId \in FragIds /\ s.msg \in Messages
    BY Zenon DEF FragIInv, TypeOK
  <1>3. Fragments(s.msg) \in Nat
    BY <1>2, FragmentsNat, Zenon
  <1>4. /\ d.peer = s.peer /\ d.fragId = s.fragId /\ d.index = i
        /\ d.total = Fragments(s.msg) /\ d.chunk = <<s.msg, i>>
    BY <1>1, Zenon DEF Datagram
  <1>5. i \in Nat
    BY <1>3
  <1>6. d.chunk \in Chunk
    BY <1>2, <1>4, <1>5 DEF Chunk
  <1>7. Key(d) \in Peers \X FragIds
    BY <1>2, <1>4, Zenon DEF Key
  <1> WITNESS s \in sent
  <1> QED BY <1>2, <1>3, <1>4, <1>6, <1>7, Zenon

\* The buffer a fragment goes into, and what it becomes.
LEMMA BufferedFacts ==
    ASSUME FragIInv, NEW d \in wire, Accepted(d)
    PROVE  /\ Entry(EntryFor(d))
           /\ EntryFor(d).total = d.total
           /\ Inserted(EntryFor(d), d.index, d.chunk, Buffered(d))
           /\ Entry(Buffered(d)) /\ Buffered(d).total = d.total
  <1>1. /\ d.total \in Nat /\ d.index \in 0..(d.total - 1) /\ d.chunk \in Chunk
        /\ Key(d) \in Peers \X FragIds
    BY DatagramFacts, Zenon
  <1>2. Entry(EntryFor(d))
    <2>1. Entry(NewEntry(d.total))
      BY <1>1, NewEntryFacts, Zenon
    <2>2. buffers[Key(d)] = NoEntry \/ Entry(buffers[Key(d)])
      BY <1>1, Zenon DEF FragIInv, TypeOK
    <2> QED BY <2>1, <2>2, Zenon DEF EntryFor
  <1>3. EntryFor(d).total = d.total
    BY Zenon DEF Accepted
  <1>4. Inserted(EntryFor(d), d.index, d.chunk, Buffered(d))
    BY <1>1, <1>2, <1>3, InsertFacts, Zenon DEF Buffered
  <1> QED BY <1>2, <1>3, <1>4, Zenon DEF Inserted

\* With unique fragment ids the buffer still holds one message.
LEMMA BufferedFed ==
    ASSUME FragIInv, FragIdsUnique, NEW d \in wire, Accepted(d)
    PROVE  \E s \in sent : /\ s.peer = d.peer /\ s.fragId = d.fragId
                           /\ HoldsOnly(Buffered(d), s.msg)
  <1>1. PICK s \in sent :
           /\ s.peer = d.peer /\ s.fragId = d.fragId
           /\ d.total = Fragments(s.msg) /\ d.total \in Nat
           /\ d.index \in 0..(d.total - 1) /\ d.chunk = <<s.msg, d.index>>
           /\ Key(d) \in Peers \X FragIds
    BY DatagramFacts, Zenon
  <1>2. HoldsOnly(EntryFor(d), s.msg)
    <2>1. CASE buffers[Key(d)] = NoEntry
      <3>1. EntryFor(d) = NewEntry(d.total)
        BY <2>1, Zenon DEF EntryFor
      <3>2. /\ NewEntry(d.total).total = d.total
            /\ \A i \in 0..(d.total - 1) : NewEntry(d.total).chunks[i] = Missing
        BY <1>1, NewEntryFacts, Zenon
      <3> QED BY <1>1, <3>1, <3>2, Zenon DEF HoldsOnly
    <2>2. CASE buffers[Key(d)] # NoEntry
      <3>1. PICK t \in sent : /\ t.peer = Key(d)[1] /\ t.fragId = Key(d)[2]
                              /\ HoldsOnly(buffers[Key(d)], t.msg)
        BY <1>1, <2>2, Zenon DEF FragIInv, BuffersFed, FedByOne
      <3>2. Key(d)[1] = d.peer /\ Key(d)[2] = d.fragId
        BY Zenon DEF Key
      <3>3. s = t
        BY <1>1, <3>1, <3>2, Zenon DEF FragIdsUnique
      <3> QED BY <2>2, <3>1, <3>3, Zenon DEF EntryFor
    <2> QED BY <2>1, <2>2, Zenon
  <1>3. Inserted(EntryFor(d), d.index, d.chunk, Buffered(d)) /\ EntryFor(d).total = d.total
    BY BufferedFacts, Zenon
  <1>4. HoldsOnly(Buffered(d), s.msg)
    <2> DEFINE e == EntryFor(d)
               f == Buffered(d)
    <2>1. /\ f.total = e.total
          /\ \A j \in 0..(e.total - 1) : j # d.index => f.chunks[j] = e.chunks[j]
          /\ f.chunks[d.index] = IF e.chunks[d.index] = Missing THEN d.chunk ELSE e.chunks[d.index]
      BY <1>3, Zenon DEF Inserted
    <2>2. e.total = Fragments(s.msg) /\ \A i \in 0..(e.total - 1) : e.chunks[i] \in {Missing, <<s.msg, i>>}
      BY <1>2, Zenon DEF HoldsOnly
    <2> HIDE DEF e, f
    <2>3. \A i \in 0..(e.total - 1) : f.chunks[i] \in {Missing, <<s.msg, i>>}
      BY <1>1, <2>1, <2>2, Zenon
    <2>4. f.total = Fragments(s.msg) /\ \A i \in 0..(f.total - 1) : f.chunks[i] \in {Missing, <<s.msg, i>>}
      BY <2>1, <2>2, <2>3, Zenon
    <2> QED BY <2>4, Zenon DEF HoldsOnly, f
  <1> QED BY <1>1, <1>4, Zenon

\* What taking a datagram off the wire leaves alone.
LEMMA ArrivesFacts ==
    ASSUME FragIInv, NEW d \in wire, Arrives(d)
    PROVE  /\ wire' \subseteq wire /\ WireSound'
           /\ nextFragId' = nextFragId /\ sent' = sent /\ budget' = budget
           /\ (FragIdsUnique' <=> FragIdsUnique)
           /\ collecting \in 0..WorkerCount /\ collecting + 1 \in 0..WorkerCount
  <1>1. wire' \subseteq wire /\ nextFragId' = nextFragId /\ sent' = sent /\ budget' = budget
    BY Zenon DEF Arrives
  <1>2. WireSound'
    BY <1>1, Zenon DEF FragIInv, WireSound
  <1>3. FragIdsUnique' <=> FragIdsUnique
    BY <1>1, Zenon DEF FragIdsUnique
  <1>4. collecting \in 0..WorkerCount /\ collecting + 1 \in 0..WorkerCount
    BY FragConstants DEF FragIInv, TypeOK, Arrives, FragConstants
  <1> QED BY <1>1, <1>2, <1>3, <1>4, Zenon

\* The invariant of a state after a datagram was taken, from its parts.
LEMMA AfterReceive ==
    ASSUME FragIInv, NEW d \in wire, Arrives(d), NEW k \in Peers \X FragIds, NEW e,
           e = NoEntry \/ Entry(e), buffers' = [buffers EXCEPT ![k] = e],
           FragIdsUnique /\ e # NoEntry => FedByOne(k, e),
           FragIdsUnique => \A x \in delivered' \ delivered : Intact(x),
           collecting' \in 0..WorkerCount
    PROVE  FragIInv'
  <1>1. /\ wire' \subseteq wire /\ WireSound'
        /\ nextFragId' = nextFragId /\ sent' = sent /\ budget' = budget
        /\ (FragIdsUnique' <=> FragIdsUnique)
    BY ArrivesFacts, Zenon
  <1>2. /\ DOMAIN buffers' = Peers \X FragIds
        /\ \A j \in Peers \X FragIds : buffers'[j] = IF j = k THEN e ELSE buffers[j]
    BY Zenon DEF FragIInv, TypeOK
  <1>3. \A j \in Peers \X FragIds : buffers'[j] = NoEntry \/ Entry(buffers'[j])
    BY <1>2, Zenon DEF FragIInv, TypeOK
  <1>4. TypeOK'
    BY <1>1, <1>2, <1>3, Zenon DEF FragIInv, TypeOK, Entry
  <1>5. BuffersFed'
    <2>1. ASSUME FragIdsUnique, NEW j \in Peers \X FragIds, buffers'[j] # NoEntry
          PROVE  FedByOne(j, buffers'[j])
      BY <1>2, <2>1, Zenon DEF FragIInv, BuffersFed
    <2> QED BY <1>1, <2>1, Zenon DEF BuffersFed, FedByOne
  <1>6. DeliveredIntact'
    <2>1. ASSUME FragIdsUnique, NEW x \in delivered' PROVE Intact(x)
      BY <2>1, Zenon DEF FragIInv, DeliveredIntact
    <2> QED BY <1>1, <2>1, Zenon DEF DeliveredIntact, Intact
  <1> QED BY <1>1, <1>4, <1>5, <1>6, Zenon DEF FragIInv

\* A datagram that touches no buffer.
LEMMA BuffersUntouched ==
    ASSUME FragIInv, NEW d \in wire, Arrives(d), UNCHANGED <<buffers, collecting>>,
           FragIdsUnique => \A x \in delivered' \ delivered : Intact(x)
    PROVE  FragIInv'
  <1> DEFINE k == Key(d)
             e == buffers[k]
  <1>1. k \in Peers \X FragIds
    BY DatagramFacts, Zenon
  <1>2. e = NoEntry \/ Entry(e)
    BY <1>1, Zenon DEF FragIInv, TypeOK
  <1>3. buffers' = [buffers EXCEPT ![k] = e]
    BY <1>1, Zenon DEF FragIInv, TypeOK
  <1>4. FragIdsUnique /\ e # NoEntry => FedByOne(k, e)
    BY <1>1, Zenon DEF FragIInv, BuffersFed
  <1>5. collecting' \in 0..WorkerCount
    BY Zenon DEF FragIInv, TypeOK
  <1> HIDE DEF e, k
  <1> QED BY <1>1, <1>2, <1>3, <1>4, <1>5, AfterReceive, Zenon

\* A message of one fragment is delivered at once.
LEMMA ReceiveWholeStep ==
    ASSUME FragIInv, NEW d \in wire, ReceiveWhole(d)
    PROVE  FragIInv'
  <1>1. PICK s \in sent : /\ s.peer = d.peer /\ d.total = Fragments(s.msg)
                          /\ d.index \in 0..(d.total - 1) /\ d.chunk = <<s.msg, d.index>>
    BY DatagramFacts, Zenon
  <1> DEFINE x == [peer |-> d.peer, payload |-> [i \in {0} |-> d.chunk]]
  <1>2. d.total = 1 /\ delivered' = delivered \cup {x}
    BY Zenon DEF ReceiveWhole
  <1>3. 0..(d.total - 1) = {0} /\ d.index = 0
    BY <1>1, <1>2
  <1>4. x.payload = Payload(s.msg)
    <2>1. Payload(s.msg) = [i \in {0} |-> <<s.msg, i>>]
      BY <1>1, <1>3, Zenon DEF Payload
    <2>2. [i \in {0} |-> d.chunk] = [i \in {0} |-> <<s.msg, i>>]
      BY <1>1, <1>3, Zenon
    <2> QED BY <2>1, <2>2, Zenon
  <1>5. x.peer = s.peer
    BY <1>1, Zenon
  <1>6. Intact(x)
    BY <1>4, <1>5, Zenon DEF Intact
  <1> HIDE DEF x
  <1>7. \A y \in delivered' \ delivered : Intact(y)
    BY <1>2, <1>6, Zenon
  <1> QED BY <1>7, BuffersUntouched, Zenon DEF ReceiveWhole

\* A datagram is refused and leaves no trace.
LEMMA DiscardStep ==
    ASSUME FragIInv, NEW d \in wire, Discard(d)
    PROVE  FragIInv'
  <1>1. Arrives(d) /\ UNCHANGED <<buffers, collecting>> /\ delivered' = delivered
    BY Zenon DEF Discard
  <1> QED BY <1>1, BuffersUntouched, Zenon

\* A fragment is buffered and its message stays incomplete.
LEMMA ReceivePartStep ==
    ASSUME FragIInv, NEW d \in wire, ReceivePart(d)
    PROVE  FragIInv'
  <1> DEFINE k == Key(d)
             e == Buffered(d)
  <1>1. /\ Arrives(d) /\ Accepted(d) /\ delivered' = delivered
        /\ buffers' = [buffers EXCEPT ![k] = e] /\ collecting' = collecting + 1
    BY Zenon DEF ReceivePart
  <1>2. k \in Peers \X FragIds
    BY DatagramFacts, Zenon
  <1>3. Entry(e)
    BY <1>1, BufferedFacts, Zenon
  <1>4. FragIdsUnique => FedByOne(k, e)
    <2>1. k[1] = d.peer /\ k[2] = d.fragId
      BY Zenon DEF Key
    <2> QED BY <1>1, <2>1, BufferedFed, Zenon DEF FedByOne
  <1>5. collecting' \in 0..WorkerCount
    BY <1>1, ArrivesFacts, Zenon
  <1> HIDE DEF e, k
  <1> QED BY <1>1, <1>2, <1>3, <1>4, <1>5, AfterReceive, Zenon

\* The last fragment completes its message.
LEMMA ReceiveLastStep ==
    ASSUME FragIInv, NEW d \in wire, ReceiveLast(d)
    PROVE  FragIInv'
  <1> DEFINE k == Key(d)
             e == Buffered(d)
             x == [peer |-> d.peer, payload |-> e.chunks]
  <1>1. /\ Arrives(d) /\ Accepted(d) /\ collecting' = collecting
        /\ buffers' = [buffers EXCEPT ![k] = NoEntry]
        /\ delivered' = delivered \cup (IF Assembles(e) THEN {x} ELSE {})
    BY Zenon DEF ReceiveLast
  <1>2. k \in Peers \X FragIds
    BY DatagramFacts, Zenon
  <1>3. ASSUME FragIdsUnique, Assembles(e) PROVE Intact(x)
    <2>1. PICK s \in sent : s.peer = d.peer /\ HoldsOnly(e, s.msg)
      BY <1>1, <1>3, BufferedFed, Zenon
    <2>2. Entry(e)
      BY <1>1, BufferedFacts, Zenon
    <2>3. /\ e.chunks \in [0..(e.total - 1) -> Chunk \cup {Missing}]
          /\ e.total = Fragments(s.msg)
          /\ \A i \in 0..(e.total - 1) : e.chunks[i] = <<s.msg, i>>
      BY <1>3, <2>1, <2>2, Zenon DEF Entry, HoldsOnly, Assembles
    <2>4. e.chunks = Payload(s.msg)
      BY <2>3, Zenon DEF Payload
    <2>5. x.peer = s.peer /\ x.payload = Payload(s.msg)
      BY <2>1, <2>4, Zenon
    <2> QED BY <2>5, Zenon DEF Intact
  <1>4. collecting' \in 0..WorkerCount
    BY <1>1, ArrivesFacts, Zenon
  <1> HIDE DEF e, k, x
  <1>5. FragIdsUnique => \A y \in delivered' \ delivered : Intact(y)
    BY <1>1, <1>3, Zenon
  <1> QED BY <1>1, <1>2, <1>4, <1>5, AfterReceive, Zenon

\* A frame is cut into fragments and sent.
LEMMA SendFrameStep ==
    ASSUME FragIInv, NEW p \in Peers, NEW m \in Messages, SendFrame(p, m)
    PROVE  FragIInv'
  <1> DEFINE s == [peer |-> p, fragId |-> nextFragId[p], msg |-> m]
  <1>1. PICK n \in 0..Fragments(m) :
           wire' = wire \cup {Datagram(p, nextFragId[p], m, i) : i \in 0..(n - 1)}
    BY Zenon DEF SendFrame
  <1>2. /\ nextFragId' = [nextFragId EXCEPT ![p] = NextFragId(@)]
        /\ sent' = sent \cup {s} /\ sent \subseteq sent'
        /\ buffers' = buffers /\ collecting' = collecting /\ delivered' = delivered
        /\ budget' = budget
    BY Zenon DEF SendFrame
  <1>3. nextFragId[p] \in FragIds /\ s \in [peer : Peers, fragId : FragIds, msg : Messages]
    BY Zenon DEF FragIInv, TypeOK
  <1>4. nextFragId' \in [Peers -> FragIds]
    BY <1>2, <1>3, NextFragIdType, Zenon DEF FragIInv, TypeOK
  <1>5. Fragments(m) \in Nat
    BY FragmentsNat, Zenon
  <1>6. \A i \in 0..(n - 1) : i \in 0..(Fragments(m) - 1) /\ i \in Nat
    BY <1>5
  <1>7. wire' \subseteq [peer : Peers, fragId : FragIds, index : Nat, total : Nat, chunk : Chunk]
    <2>1. \A i \in 0..(n - 1) : Datagram(p, nextFragId[p], m, i) \in
             [peer : Peers, fragId : FragIds, index : Nat, total : Nat, chunk : Chunk]
      BY <1>3, <1>5, <1>6, Zenon DEF Datagram, Chunk
    <2> QED BY <1>1, <2>1, Zenon DEF FragIInv, TypeOK
  <1>8. TypeOK'
    BY <1>2, <1>3, <1>4, <1>7, Zenon DEF FragIInv, TypeOK, Entry
  <1>9. WireSound'
    <2>1. ASSUME NEW d \in wire'
          PROVE  \E t \in sent' : \E i \in 0..(Fragments(t.msg) - 1) :
                    d = Datagram(t.peer, t.fragId, t.msg, i)
      <3>1. CASE d \in wire
        BY <1>2, <3>1, Zenon DEF FragIInv, WireSound
      <3>2. ASSUME NEW i \in 0..(n - 1), d = Datagram(p, nextFragId[p], m, i)
            PROVE  \E j \in 0..(Fragments(s.msg) - 1) : d = Datagram(s.peer, s.fragId, s.msg, j)
        BY <1>6, <3>2, Zenon
      <3> QED BY <1>1, <1>2, <3>1, <3>2, Zenon
    <2> QED BY <2>1, Zenon DEF WireSound
  <1>10. FragIdsUnique' => FragIdsUnique
    BY <1>2, Zenon DEF FragIdsUnique
  <1>11. BuffersFed'
    BY <1>2, <1>10, Zenon DEF FragIInv, BuffersFed, FedByOne
  <1>12. DeliveredIntact'
    BY <1>2, <1>10, Zenon DEF FragIInv, DeliveredIntact, Intact
  <1> QED BY <1>8, <1>9, <1>11, <1>12, Zenon DEF FragIInv

\* Steps that only make buffers older or drop them.
LEMMA BuffersAge ==
    ASSUME FragIInv, UNCHANGED <<nextFragId, sent, wire, delivered>>,
           buffers' = [k \in Peers \X FragIds |-> buffers'[k]],
           \A k \in Peers \X FragIds :
              \/ buffers'[k] = NoEntry
              \/ /\ buffers[k] # NoEntry /\ Entry(buffers'[k])
                 /\ buffers'[k].total = buffers[k].total
                 /\ buffers'[k].chunks = buffers[k].chunks,
           collecting' \in 0..WorkerCount,
           budget' \in [losses : Nat, timeouts : Nat, restarts : Nat]
    PROVE  FragIInv'
  <1>1. TypeOK'
    BY Zenon DEF FragIInv, TypeOK, Entry
  <1>2. WireSound' /\ DeliveredIntact' /\ (FragIdsUnique' <=> FragIdsUnique)
    BY Zenon DEF FragIInv, WireSound, DeliveredIntact, Intact, FragIdsUnique
  <1>3. ASSUME FragIdsUnique, NEW k \in Peers \X FragIds, buffers'[k] # NoEntry
        PROVE  FedByOne(k, buffers'[k])
    <2>1. /\ buffers[k] # NoEntry
          /\ buffers'[k].total = buffers[k].total /\ buffers'[k].chunks = buffers[k].chunks
      BY <1>3, Zenon
    <2>2. FedByOne(k, buffers[k])
      BY <1>3, <2>1, Zenon DEF FragIInv, BuffersFed
    <2> QED BY <2>1, <2>2, Zenon DEF FedByOne, HoldsOnly
  <1>4. BuffersFed'
    <2>1. \A k : FedByOne(k, buffers'[k]) => FedByOne(k, buffers[k])'
      BY Zenon DEF FedByOne
    <2> QED BY <1>2, <1>3, <2>1, Zenon DEF BuffersFed
  <1> QED BY <1>1, <1>2, <1>4, Zenon DEF FragIInv

\* A worker collects garbage.
LEMMA GcReassemblyStep ==
    ASSUME FragIInv, GcReassembly
    PROVE  FragIInv'
  <1>1. /\ UNCHANGED <<nextFragId, sent, wire, delivered>> /\ budget' = budget
        /\ collecting > 0 /\ collecting' = collecting - 1
        /\ buffers' = [k \in Peers \X FragIds |->
                         IF buffers[k] # NoEntry /\ buffers[k].stale THEN NoEntry ELSE buffers[k]]
    BY Zenon DEF GcReassembly
  <1>2. collecting' \in 0..WorkerCount
    BY <1>1, FragConstants DEF FragIInv, TypeOK, FragConstants
  <1>3. \A k \in Peers \X FragIds :
           \/ buffers'[k] = NoEntry
           \/ buffers[k] # NoEntry /\ buffers'[k] = buffers[k] /\ Entry(buffers'[k])
    BY <1>1, Zenon DEF FragIInv, TypeOK
  <1>4. buffers' = [k \in Peers \X FragIds |-> buffers'[k]]
    BY <1>1, Zenon
  <1>5. budget' \in [losses : Nat, timeouts : Nat, restarts : Nat]
    BY <1>1, Zenon DEF FragIInv, TypeOK
  <1> QED BY <1>1, <1>2, <1>3, <1>4, <1>5, BuffersAge, Zenon

\* The lifetime of the buffers goes by.
LEMMA TimePassesStep ==
    ASSUME FragIInv, TimePasses
    PROVE  FragIInv'
  <1>1. /\ UNCHANGED <<nextFragId, sent, wire, delivered>> /\ collecting' = collecting
        /\ budget.timeouts > 0 /\ budget' = [budget EXCEPT !.timeouts = @ - 1]
        /\ buffers' = [k \in Peers \X FragIds |->
                         IF buffers[k] = NoEntry THEN NoEntry ELSE [buffers[k] EXCEPT !.stale = TRUE]]
    BY Zenon DEF TimePasses
  <1>2. collecting' \in 0..WorkerCount /\ budget' \in [losses : Nat, timeouts : Nat, restarts : Nat]
    BY <1>1 DEF FragIInv, TypeOK
  <1>3. ASSUME NEW k \in Peers \X FragIds, buffers[k] # NoEntry
        PROVE  /\ Entry(buffers'[k]) /\ buffers'[k].total = buffers[k].total
               /\ buffers'[k].chunks = buffers[k].chunks
    <2>1. Entry(buffers[k])
      BY <1>3, Zenon DEF FragIInv, TypeOK
    <2>2. buffers'[k] = [buffers[k] EXCEPT !.stale = TRUE]
      BY <1>1, <1>3, Zenon
    <2>3. ASSUME NEW e, Entry(e), NEW f, f = [e EXCEPT !.stale = TRUE]
          PROVE  Entry(f) /\ f.total = e.total /\ f.chunks = e.chunks
      <3>1. e = [total |-> e.total, received |-> e.received, chunks |-> e.chunks, stale |-> e.stale]
        BY <2>3, Zenon DEF Entry
      <3>2. f = [total |-> e.total, received |-> e.received, chunks |-> e.chunks, stale |-> TRUE]
        BY <2>3, <3>1, Zenon
      <3> QED BY <2>3, <3>2, Zenon DEF Entry
    <2> QED BY <2>1, <2>2, <2>3, Zenon
  <1>4. buffers' = [k \in Peers \X FragIds |-> buffers'[k]]
    BY <1>1, Zenon
  <1>5. \A k \in Peers \X FragIds : buffers[k] = NoEntry => buffers'[k] = NoEntry
    BY <1>1, Zenon
  <1> QED BY <1>1, <1>2, <1>3, <1>4, <1>5, BuffersAge, Zenon

\* A datagram is lost.
LEMMA LoseStep ==
    ASSUME FragIInv, NEW d \in wire, Lose(d)
    PROVE  FragIInv'
  <1>1. /\ budget.losses > 0 /\ budget' = [budget EXCEPT !.losses = @ - 1]
        /\ wire' = wire \ {d} /\ wire' \subseteq wire /\ nextFragId' = nextFragId /\ sent' = sent
        /\ buffers' = buffers /\ collecting' = collecting /\ delivered' = delivered
    BY Zenon DEF Lose
  <1>2. budget' \in [losses : Nat, timeouts : Nat, restarts : Nat]
    BY <1>1 DEF FragIInv, TypeOK
  <1>3. TypeOK'
    BY <1>1, <1>2, Zenon DEF FragIInv, TypeOK, Entry
  <1>4. WireSound' /\ BuffersFed' /\ DeliveredIntact'
    BY <1>1, Zenon DEF FragIInv, WireSound, BuffersFed, DeliveredIntact, FragIdsUnique, FedByOne, Intact
  <1> QED BY <1>3, <1>4, Zenon DEF FragIInv

\* A sender restarts, and its counter with it.
LEMMA RestartStep ==
    ASSUME FragIInv, NEW p \in Peers, Restart(p)
    PROVE  FragIInv'
  <1>1. /\ budget.restarts > 0 /\ budget' = [budget EXCEPT !.restarts = @ - 1]
        /\ nextFragId' = [nextFragId EXCEPT ![p] = 0] /\ wire' = wire /\ sent' = sent
        /\ buffers' = buffers /\ collecting' = collecting /\ delivered' = delivered
    BY Zenon DEF Restart
  <1>2. budget' \in [losses : Nat, timeouts : Nat, restarts : Nat] /\ nextFragId' \in [Peers -> FragIds]
    BY <1>1, ZeroIsFragId DEF FragIInv, TypeOK
  <1>3. TypeOK'
    BY <1>1, <1>2, Zenon DEF FragIInv, TypeOK, Entry
  <1>4. WireSound' /\ BuffersFed' /\ DeliveredIntact'
    BY <1>1, Zenon DEF FragIInv, WireSound, BuffersFed, DeliveredIntact, FragIdsUnique, FedByOne, Intact
  <1> QED BY <1>3, <1>4, Zenon DEF FragIInv

\* Every step keeps the invariant.
LEMMA NextFragIInv ==
    ASSUME FragIInv, [FragNext]_fragVars
    PROVE  FragIInv'
  <1>1. CASE UNCHANGED fragVars
    <2>1. /\ nextFragId' = nextFragId /\ sent' = sent /\ wire' = wire /\ buffers' = buffers
          /\ collecting' = collecting /\ delivered' = delivered /\ budget' = budget
      BY <1>1, Zenon DEF fragVars
    <2> QED BY <2>1, Zenon DEF FragIInv, TypeOK, Entry, WireSound, BuffersFed, DeliveredIntact,
                               FragIdsUnique, FedByOne, Intact
  <1>2. ASSUME NEW p \in Peers, NEW m \in Messages, SendFrame(p, m) PROVE FragIInv'
    BY <1>2, SendFrameStep, Zenon
  <1>3. ASSUME NEW p \in Peers, Restart(p) PROVE FragIInv'
    BY <1>3, RestartStep, Zenon
  <1>4. ASSUME NEW d \in wire, Receive(d) PROVE FragIInv'
    BY <1>4, ReceiveWholeStep, DiscardStep, ReceivePartStep, ReceiveLastStep, Zenon DEF Receive
  <1>5. ASSUME NEW d \in wire, Lose(d) PROVE FragIInv'
    BY <1>5, LoseStep, Zenon
  <1>6. CASE GcReassembly
    BY <1>6, GcReassemblyStep, Zenon
  <1>7. CASE TimePasses
    BY <1>7, TimePassesStep, Zenon
  <1> QED BY <1>1, <1>2, <1>3, <1>4, <1>5, <1>6, <1>7, Zenon DEF FragNext

\* The invariant holds in every reachable state.
THEOREM FragInvariance == FragSafety => []FragIInv
  <1>1. FragIInv /\ [FragNext]_fragVars => FragIInv'
    BY NextFragIInv, Zenon
  <1> QED BY <1>1, InitFragIInv, PTL DEF FragSafety

\* Every variable keeps its type: the counter stays within its width, and no
\* more workers collect garbage than there are.
THEOREM TypeCorrect == FragSafety => []TypeOK
  <1>1. FragIInv => TypeOK
    BY Zenon DEF FragIInv
  <1> QED BY <1>1, FragInvariance, PTL

\* As long as fragment ids have been unique, whatever handle_datagram puts
\* together is one whole message of the peer it is attributed to.
THEOREM AssembledIntact == FragSafety => []DeliveredIntact
  <1>1. FragIInv => DeliveredIntact
    BY Zenon DEF FragIInv
  <1> QED BY <1>1, FragInvariance, PTL

-----------------------------------------------------------------------------
(* How full the buffers are *)

Filled(e) == {i \in 0..(e.total - 1) : e.chunks[i] # Missing}

\* An entry has counted each of its chunks once.
Counts(e) == e.received = Cardinality(Filled(e))

Waits(e) == Counts(e) /\ 0 < e.received /\ e.received < e.total

AllWait == \A k \in Peers \X FragIds : buffers[k] # NoEntry => Waits(buffers[k])

\* AllWait restates BuffersWait, entry by entry.
LEMMA AllWaitMeans == AllWait <=> BuffersWait
  BY Zenon DEF AllWait, BuffersWait, Waits, Counts, Filled

\* An entry is not the absence of one.
LEMMA EntryIsSome == \A e : Entry(e) => e # NoEntry
  <1> SUFFICES ASSUME NEW e, Entry(e), e = NoEntry PROVE FALSE
    BY Zenon
  <1>1. e = [total |-> e.total, received |-> e.received, chunks |-> e.chunks, stale |-> e.stale]
    BY Zenon DEF Entry
  <1>2. "stale" \in DOMAIN e
    BY <1>1, Zenon
  <1>3. DOMAIN e = {"total"}
    BY Zenon DEF NoEntry
  <1> QED BY <1>2, <1>3, Zenon

\* The numbers below n are n.
LEMMA IntervalFromZero ==
    ASSUME NEW n \in Nat
    PROVE  IsFiniteSet(0..(n - 1)) /\ Cardinality(0..(n - 1)) = n
  <1>1. /\ IsFiniteSet(0..(n - 1))
        /\ Cardinality(0..(n - 1)) = IF 0 > n - 1 THEN 0 ELSE (n - 1) - 0 + 1
    BY FS_Interval
  <1> QED BY <1>1

\* The chunks that have arrived are finitely many.
LEMMA FilledFinite ==
    ASSUME NEW e, Entry(e)
    PROVE  /\ IsFiniteSet(Filled(e)) /\ Cardinality(Filled(e)) \in Nat
           /\ Cardinality(Filled(e)) <= e.total
  <1>1. e.total \in Nat
    BY Zenon DEF Entry
  <1>2. IsFiniteSet(0..(e.total - 1)) /\ Cardinality(0..(e.total - 1)) = e.total
    BY <1>1, IntervalFromZero, Zenon
  <1>3. Filled(e) \in SUBSET (0..(e.total - 1))
    BY Zenon DEF Filled
  <1>4. IsFiniteSet(Filled(e)) /\ Cardinality(Filled(e)) <= Cardinality(0..(e.total - 1))
    BY <1>2, <1>3, FS_Subset, Zenon
  <1> QED BY <1>2, <1>4, FS_CardinalityType, Zenon

\* insert counts a chunk when it fills a place, and only then.
LEMMA InsertCounts ==
    ASSUME NEW e, Entry(e), Counts(e), NEW i \in 0..(e.total - 1), NEW c \in Chunk,
           NEW f, Inserted(e, i, c, f)
    PROVE  Counts(f) /\ 0 < f.received /\ f.received <= f.total
  <1>1. /\ Entry(f) /\ f.total = e.total
        /\ \A j \in 0..(e.total - 1) : j # i => f.chunks[j] = e.chunks[j]
        /\ f.chunks[i] = IF e.chunks[i] = Missing THEN c ELSE e.chunks[i]
        /\ f.received = IF e.chunks[i] = Missing THEN e.received + 1 ELSE e.received
    BY Zenon DEF Inserted
  <1>2. c # Missing
    BY FragConstants, Zenon DEF Chunk
  <1>3. Filled(f) = Filled(e) \cup {i} /\ (i \in Filled(e) <=> e.chunks[i] # Missing)
    BY <1>1, <1>2, Zenon DEF Filled
  <1>4. IsFiniteSet(Filled(e)) /\ Cardinality(Filled(e)) \in Nat
    BY FilledFinite, Zenon
  <1>5. Cardinality(Filled(f)) =
           IF i \in Filled(e) THEN Cardinality(Filled(e)) ELSE Cardinality(Filled(e)) + 1
    BY <1>3, <1>4, FS_AddElement, Zenon
  <1>6. f.received = Cardinality(Filled(f))
    BY <1>1, <1>3, <1>5, Zenon DEF Counts
  <1>7. /\ IsFiniteSet(Filled(f)) /\ Cardinality(Filled(f)) \in Nat
        /\ Cardinality(Filled(f)) <= f.total
    BY <1>1, FilledFinite, Zenon
  <1>8. Cardinality(Filled(f)) # 0
    BY <1>3, <1>7, FS_EmptySet, Zenon
  <1> QED BY <1>6, <1>7, <1>8 DEF Counts

\* The buffer a fragment goes into has counted its chunks before and after.
LEMMA BufferedCounts ==
    ASSUME FragIInv, AllWait, NEW d \in wire, Accepted(d)
    PROVE  Counts(Buffered(d)) /\ 0 < Buffered(d).received /\ Buffered(d).received <= Buffered(d).total
  <1>1. /\ d.total \in Nat /\ d.index \in 0..(d.total - 1) /\ d.chunk \in Chunk
        /\ Key(d) \in Peers \X FragIds
    BY DatagramFacts, Zenon
  <1>2. /\ Entry(EntryFor(d)) /\ EntryFor(d).total = d.total
        /\ Inserted(EntryFor(d), d.index, d.chunk, Buffered(d))
    BY BufferedFacts, Zenon
  <1>3. Counts(EntryFor(d))
    <2>1. CASE buffers[Key(d)] = NoEntry
      <3>1. EntryFor(d) = NewEntry(d.total)
        BY <2>1, Zenon DEF EntryFor
      <3>2. Filled(NewEntry(d.total)) = {} /\ NewEntry(d.total).received = 0
        BY <1>1, NewEntryFacts, Zenon DEF Filled
      <3> QED BY <3>1, <3>2, FS_EmptySet, Zenon DEF Counts
    <2>2. CASE buffers[Key(d)] # NoEntry
      BY <1>1, <2>2, Zenon DEF EntryFor, AllWait, Waits
    <2> QED BY <2>1, <2>2, Zenon
  <1>4. d.index \in 0..(EntryFor(d).total - 1)
    BY <1>1, <1>2, Zenon
  <1> QED BY <1>1, <1>2, <1>3, <1>4, InsertCounts, Zenon

\* Every step keeps the buffers waiting.
LEMMA NextWaits ==
    ASSUME FragIInv, AllWait, [FragNext]_fragVars
    PROVE  AllWait'
  <1>1. ASSUME buffers' = buffers PROVE AllWait'
    BY <1>1, Zenon DEF AllWait
  <1>2. ASSUME NEW d \in wire, ReceivePart(d) PROVE AllWait'
    <2>1. /\ Accepted(d) /\ ~Complete(Buffered(d))
          /\ buffers' = [buffers EXCEPT ![Key(d)] = Buffered(d)]
      BY <1>2, Zenon DEF ReceivePart
    <2>2. Waits(Buffered(d))
      <3>1. Counts(Buffered(d)) /\ 0 < Buffered(d).received /\ Buffered(d).received <= Buffered(d).total
        BY <2>1, BufferedCounts, Zenon
      <3>2. Buffered(d).received # Buffered(d).total
        BY <2>1, Zenon DEF Complete
      <3>3. Buffered(d).received \in Nat /\ Buffered(d).total \in Nat
        BY <2>1, BufferedFacts, Zenon DEF Entry
      <3> QED BY <3>1, <3>2, <3>3 DEF Waits
    <2>3. PICK e : e = Buffered(d)
      BY Zenon
    <2>4. \A k \in Peers \X FragIds : buffers'[k] = IF k = Key(d) THEN e ELSE buffers[k]
      BY <2>1, <2>3, Zenon DEF FragIInv, TypeOK
    <2>5. \A k \in Peers \X FragIds : buffers'[k] # NoEntry => Waits(buffers'[k])
      BY <2>2, <2>3, <2>4, Zenon DEF AllWait
    <2> QED BY <2>5, Zenon DEF AllWait, Waits, Counts, Filled
  <1>3. ASSUME \A k \in Peers \X FragIds : buffers'[k] # NoEntry =>
                  /\ buffers[k] # NoEntry /\ buffers'[k].total = buffers[k].total
                  /\ buffers'[k].received = buffers[k].received
                  /\ buffers'[k].chunks = buffers[k].chunks
        PROVE  AllWait'
    BY <1>3, SMTT(40) DEF AllWait, Waits, Counts, Filled
  <1>4. ASSUME NEW d \in wire, ReceiveLast(d) PROVE AllWait'
    <2>1. buffers' = [buffers EXCEPT ![Key(d)] = NoEntry]
      BY <1>4, Zenon DEF ReceiveLast
    <2>2. \A k \in Peers \X FragIds : buffers'[k] = IF k = Key(d) THEN NoEntry ELSE buffers[k]
      BY <2>1, Zenon DEF FragIInv, TypeOK
    <2> QED BY <1>3, <2>2, Zenon
  <1>5. CASE GcReassembly
    BY <1>3, <1>5, Zenon DEF GcReassembly
  <1>6. CASE TimePasses
    <2>1. ASSUME NEW k \in Peers \X FragIds, buffers'[k] # NoEntry
          PROVE  /\ buffers[k] # NoEntry /\ buffers'[k].total = buffers[k].total
                 /\ buffers'[k].received = buffers[k].received
                 /\ buffers'[k].chunks = buffers[k].chunks
      <3>1. buffers[k] # NoEntry /\ buffers'[k] = [buffers[k] EXCEPT !.stale = TRUE]
        BY <1>6, <2>1, Zenon DEF TimePasses
      <3>2. PICK e : e = buffers[k]
        BY Zenon
      <3>3. e = [total |-> e.total, received |-> e.received, chunks |-> e.chunks, stale |-> e.stale]
        BY <3>1, <3>2, Zenon DEF FragIInv, TypeOK, Entry
      <3>4. buffers'[k] = [total |-> e.total, received |-> e.received, chunks |-> e.chunks, stale |-> TRUE]
        BY <3>1, <3>2, <3>3, Zenon
      <3> QED BY <3>1, <3>2, <3>4, Zenon
    <2> QED BY <1>3, <2>1, Zenon
  <1> QED BY <1>1, <1>2, <1>4, <1>5, <1>6, Zenon
          DEF FragNext, fragVars, Restart, SendFrame, Receive, ReceiveWhole, Discard, Lose

\* A buffer in the map has counted every chunk once and waits for another one:
\* with any number of workers, messages and repeated fragments none is complete
\* and left behind, and none is taken for complete early.
THEOREM BuffersStillWait == FragSafety => []BuffersWait
  <1>1. FragInit => AllWait
    BY Zenon DEF FragInit, AllWait
  <1>2. FragIInv /\ AllWait /\ [FragNext]_fragVars => AllWait'
    BY NextWaits, Zenon
  <1>3. FragSafety => []AllWait
    BY <1>1, <1>2, FragInvariance, PTL DEF FragSafety
  <1> QED BY <1>3, AllWaitMeans, PTL

\* A full buffer assembles: its count is the number of its places.
LEMMA CompleteAssembles ==
    ASSUME NEW e, Entry(e), Counts(e), Complete(e)
    PROVE  Assembles(e)
  <1>1. e.total \in Nat
    BY Zenon DEF Entry
  <1>2. IsFiniteSet(0..(e.total - 1)) /\ Cardinality(0..(e.total - 1)) = e.total
    BY <1>1, IntervalFromZero, Zenon
  <1>3. Filled(e) \in SUBSET (0..(e.total - 1))
    BY Zenon DEF Filled
  <1>4. Cardinality(0..(e.total - 1)) = Cardinality(Filled(e))
    BY <1>2, Zenon DEF Counts, Complete
  <1>5. 0..(e.total - 1) = Filled(e)
    BY <1>2, <1>3, <1>4, FS_Subset, Zenon
  <1> QED BY <1>5, Zenon DEF Assembles, Filled

\* What is in the buffer at k was handed on.
HandedOn(k) ==
    \E x \in delivered' :
        /\ x.peer = k[1]
        /\ DOMAIN x.payload = DOMAIN buffers[k].chunks
        /\ \A i \in DOMAIN buffers[k].chunks : buffers[k].chunks[i] \in {Missing, x.payload[i]}

\* A buffer leaves the map only when it is older than REASSEMBLY_TTL or when
\* everything in it, and what was missing, has been handed on.
THEOREM NoBufferDroppedEarly == FragSafety => NothingDroppedEarly
  <1>1. ASSUME FragIInv, AllWait, [FragNext]_fragVars, NEW k \in Peers \X FragIds,
               buffers[k] # NoEntry, buffers'[k] = NoEntry, ~buffers[k].stale
        PROVE  HandedOn(k)
    <2>1. Entry(buffers[k]) /\ buffers' # buffers
      BY <1>1, Zenon DEF FragIInv, TypeOK
    <2>2. ~GcReassembly
      BY <1>1, Zenon DEF GcReassembly
    <2>3. ~TimePasses
      <3>1. ASSUME TimePasses PROVE FALSE
        <4>1. buffers'[k] = [buffers[k] EXCEPT !.stale = TRUE]
          BY <1>1, <3>1, Zenon DEF TimePasses
        <4>2. "stale" \in DOMAIN buffers[k] /\ DOMAIN buffers'[k] = {"total"}
          <5>1. buffers[k] = [total |-> buffers[k].total, received |-> buffers[k].received,
                              chunks |-> buffers[k].chunks, stale |-> buffers[k].stale]
            BY <2>1, Zenon DEF Entry
          <5> QED BY <1>1, <5>1, Zenon DEF NoEntry
        <4> QED BY <4>1, <4>2, Zenon
      <3> QED BY <3>1, Zenon
    <2>4. ASSUME NEW d \in wire, ReceivePart(d) PROVE FALSE
      <3>1. Entry(Buffered(d)) /\ buffers' = [buffers EXCEPT ![Key(d)] = Buffered(d)]
        BY <1>1, <2>4, BufferedFacts, Zenon DEF ReceivePart
      <3>2. Buffered(d) # NoEntry
        BY <3>1, EntryIsSome, Zenon
      <3> QED BY <1>1, <3>1, <3>2, Zenon DEF FragIInv, TypeOK
    <2>5. ASSUME NEW d \in wire, ReceiveLast(d) PROVE HandedOn(k)
      <3> DEFINE e == Buffered(d)
                 x == [peer |-> d.peer, payload |-> e.chunks]
      <3>1. /\ Accepted(d) /\ Complete(e) /\ buffers' = [buffers EXCEPT ![Key(d)] = NoEntry]
            /\ delivered' = delivered \cup (IF Assembles(e) THEN {x} ELSE {})
        BY <2>5, Zenon DEF ReceiveLast
      <3>2. k = Key(d) /\ EntryFor(d) = buffers[k]
        BY <1>1, <3>1, Zenon DEF FragIInv, TypeOK, EntryFor
      <3>3. /\ Entry(e) /\ e.total = buffers[k].total /\ Inserted(buffers[k], d.index, d.chunk, e)
        BY <1>1, <3>1, <3>2, BufferedFacts, Zenon
      <3>4. x \in delivered'
        BY <1>1, <3>1, <3>3, BufferedCounts, CompleteAssembles, Zenon
      <3>5. /\ e.chunks \in [0..(e.total - 1) -> Chunk \cup {Missing}]
            /\ buffers[k].chunks \in [0..(e.total - 1) -> Chunk \cup {Missing}]
        BY <2>1, <3>3, Zenon DEF Entry
      <3>6. \A i \in 0..(e.total - 1) : buffers[k].chunks[i] \in {Missing, e.chunks[i]}
        BY <3>3, Zenon DEF Inserted
      <3>7. x.peer = k[1] /\ x.payload = e.chunks
        BY <3>2, Zenon DEF Key
      <3> HIDE DEF e, x
      <3> QED BY <3>4, <3>5, <3>6, <3>7, Zenon DEF HandedOn
    <2> QED BY <1>1, <2>1, <2>2, <2>3, <2>4, <2>5, Zenon
            DEF FragNext, fragVars, Restart, SendFrame, Receive, ReceiveWhole, Discard, Lose
  <1>2. FragIInv /\ BuffersWait /\ [FragNext]_fragVars =>
          [\A k \in Peers \X FragIds :
             buffers[k] # NoEntry /\ buffers'[k] = NoEntry =>
               \/ buffers[k].stale
               \/ \E x \in delivered' :
                    /\ x.peer = k[1]
                    /\ DOMAIN x.payload = DOMAIN buffers[k].chunks
                    /\ \A i \in DOMAIN buffers[k].chunks :
                          buffers[k].chunks[i] \in {Missing, x.payload[i]}]_fragVars
    BY <1>1, AllWaitMeans, Zenon DEF HandedOn
  <1> QED BY <1>2, FragInvariance, BuffersStillWait, PTL DEF FragSafety, NothingDroppedEarly

-----------------------------------------------------------------------------
(* The arithmetic of encode_fragments *)

\* A quotient falls short of its number by less than the divisor.
LEMMA Division ==
    ASSUME NEW a \in Nat, NEW b \in Nat \ {0}
    PROVE  a \div b \in Nat /\ (a \div b) * b <= a /\ a < (a \div b) * b + b
  OBVIOUS

\* Multiples of the chunk size are ordered as their factors.
LEMMA Multiples ==
    ASSUME NEW a \in Nat, NEW b \in Nat, NEW c \in Nat \ {0}
    PROVE  /\ a * c \in Nat /\ a <= b => a * c <= b * c
           /\ a * c < b * c => a < b
  OBVIOUS

\* The fragments hold the message, and one fewer would not.
LEMMA FragmentsHold ==
    ASSUME NEW m \in Messages
    PROVE  /\ Length[m] <= Fragments(m) * FragChunkSize
           /\ Fragments(m) > 1 => (Fragments(m) - 1) * FragChunkSize < Length[m]
  <1>1. PICK len \in Nat : len = Length[m]
    BY FragConstants, Zenon
  <1>2. PICK c \in Nat \ {0} : c = FragChunkSize
    BY FragConstants, Zenon
  <1>3. CASE len = 0
    BY <1>1, <1>2, <1>3 DEF Fragments
  <1>4. CASE len # 0
    <2>1. PICK n \in Nat : n = (len + c - 1) \div c /\ n * c <= len + c - 1 /\ len + c - 1 < n * c + c
      BY Division
    <2>2. Fragments(m) = n
      BY <1>1, <1>2, <1>4, <2>1, Zenon DEF Fragments
    <2>3. (n - 1) * c = n * c - c /\ n * c \in Nat
      OBVIOUS
    <2>4. len <= n * c /\ (n - 1) * c < len
      BY <2>1, <2>3
    <2> QED BY <1>1, <1>2, <2>2, <2>4, Zenon
  <1> QED BY <1>3, <1>4, Zenon

\* encode_fragments carries every byte and no empty fragment, for any message
\* length and chunk size, and a message up to the last whole chunk of the limit
\* passes the receiver's check.
THEOREM FragmentsAlwaysFit == FragSafety => []FragmentsFit
  <1>1. FragIInv => FragmentsFit
    <2> SUFFICES ASSUME FragIInv, NEW s \in sent
                 PROVE  /\ Length[s.msg] <= Fragments(s.msg) * FragChunkSize
                        /\ Fragments(s.msg) > 1 => (Fragments(s.msg) - 1) * FragChunkSize < Length[s.msg]
                        /\ Length[s.msg] <= (MaxMessageSize \div FragChunkSize) * FragChunkSize =>
                             \A d \in wire : d.chunk[1] = s.msg => ~Oversized(d) \/ d.total = 1
      BY Zenon DEF FragmentsFit
    <2>1. PICK m \in Messages : m = s.msg
      BY Zenon DEF FragIInv, TypeOK
    <2>2. ASSUME Length[m] <= (MaxMessageSize \div FragChunkSize) * FragChunkSize,
                 NEW d \in wire, d.chunk[1] = m, d.total # 1
          PROVE  ~Oversized(d)
      <3>1. PICK n \in Nat : n = Fragments(m)
        BY FragmentsNat, Zenon
      <3>2. PICK c \in Nat \ {0} : c = FragChunkSize
        BY FragConstants, Zenon
      <3>3. PICK q \in Nat : q = MaxMessageSize \div c /\ q * c <= MaxMessageSize
        BY FragConstants, Division, Zenon
      <3>4. d.total = n
        BY <2>2, <3>1, DatagramFacts
      <3>5. n - 1 < q \/ n <= q
        <4>1. CASE n = 0
          BY <4>1
        <4>2. CASE n > 1
          <5>1. (n - 1) * c < Length[m] /\ Length[m] \in Nat
            BY <3>1, <3>2, <4>2, FragmentsHold, FragConstants, Zenon
          <5>2. n - 1 \in Nat /\ (n - 1) * c \in Nat /\ q * c \in Nat /\ Length[m] <= q * c
            BY <2>2, <3>2, <3>3, <4>2, Multiples
          <5>3. (n - 1) * c < q * c
            BY <5>1, <5>2
          <5> QED BY <5>2, <5>3, Multiples, Zenon
        <4> QED BY <2>2, <3>4, <4>1, <4>2
      <3>6. n * c <= q * c /\ n * c \in Nat /\ q * c \in Nat
        BY <3>5, Multiples
      <3>7. n * c <= MaxMessageSize
        BY <3>3, <3>6, FragConstants
      <3> QED BY <3>2, <3>4, <3>6, <3>7, FragConstants DEF Oversized
    <2> QED BY <2>1, <2>2, FragmentsHold, Zenon
  <1> QED BY <1>1, FragInvariance, PTL
=============================================================================
