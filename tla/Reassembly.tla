----------------------------- MODULE Reassembly -----------------------------
(***************************************************************************)
(* Application-level fragmentation: encode_fragments and send_frame on the *)
(* senders, and on one receiver handle_datagram up to the payload it hands *)
(* to bincode (src/src/fragmentation.rs, src/src/protocol.rs).             *)
(*                                                                         *)
(* UDP loses, repeats and reorders datagrams: `wire' is the set of those   *)
(* in flight.  A sender may restart on the same address; its fragment      *)
(* counter then starts at 0 again.  The receiver's workers take datagrams  *)
(* in any order and lock the reassembly map twice for an incomplete        *)
(* message, to insert and then to collect garbage; `collecting' counts     *)
(* the workers between the two.                                            *)
(***************************************************************************)
EXTENDS Integers, FiniteSets

CONSTANTS
    Peers,          \* sender addresses
    Messages,       \* serialized frames, one for every call of send_frame
    Length,         \* Length[m]: bytes of m
    FragChunkSize,  \* FRAG_CHUNK_SIZE, 1400 in the code
    MaxMessageSize, \* MAX_MESSAGE_SIZE, 262144 in the code
    FragSpace,      \* number of fragment ids, 2^32 in the code
    WorkerCount,    \* workers of the receive loop
    Repeats,        \* {FALSE}, or {FALSE, TRUE} if the network repeats datagrams
    MaxLosses,      \* bound on the datagrams lost
    MaxTimeouts,    \* bound on how often REASSEMBLY_TTL goes by
    MaxRestarts,    \* bound on the restarts of senders
    Missing         \* Option::None for a chunk

ASSUME FragConstants ==
    /\ FragChunkSize \in Nat \ {0}
    /\ MaxMessageSize \in Nat
    /\ Length \in [Messages -> Nat]
    /\ FragSpace \in Nat \ {0}
    /\ WorkerCount \in Nat \ {0}
    /\ Repeats \subseteq BOOLEAN
    /\ MaxLosses \in Nat /\ MaxTimeouts \in Nat /\ MaxRestarts \in Nat
    /\ Missing \notin Messages \X Nat

VARIABLES
    nextFragId, \* nextFragId[p]: next_frag_id of the process at p
    sent,       \* history: the messages handed to the network, with their frag_id
    wire,       \* datagrams in flight
    buffers,    \* the receiver's reassembly map, by (peer, frag_id)
    collecting, \* workers about to collect garbage
    delivered,  \* history: the payloads the receiver put together
    budget      \* losses, timeouts and restarts left

fragVars == <<nextFragId, sent, wire, buffers, collecting, delivered, budget>>

-----------------------------------------------------------------------------
(* fragmentation.rs *)

FragIds == 0..(FragSpace - 1)

\* Wrong variant: the last, shorter chunk is not counted.
FragmentsRoundedDown(m) ==
    IF Length[m] < FragChunkSize THEN 1 ELSE Length[m] \div FragChunkSize

\* encode_fragments: how many fragments carry m; an empty message takes one.
Fragments(m) ==
    IF Length[m] = 0 THEN 1 ELSE (Length[m] + FragChunkSize - 1) \div FragChunkSize

\* encode_fragments: chunk i of message m, with its header.
Datagram(p, f, m, i) ==
    [peer |-> p, fragId |-> f, index |-> i, total |-> Fragments(m), chunk |-> <<m, i>>]

\* What assemble returns for a message all of whose chunks arrived.
Payload(m) == [i \in 0..(Fragments(m) - 1) |-> <<m, i>>]

\* There is no entry in the reassembly map.
NoEntry == [total |-> 0]

\* ReassemblyEntry::new; `stale' once the entry is older than REASSEMBLY_TTL.
NewEntry(total) ==
    [total |-> total, received |-> 0, chunks |-> [i \in 0..(total - 1) |-> Missing],
     stale |-> FALSE]

\* Wrong variant: a repeated fragment is counted again.
InsertCountingRepeats(e, i, c) ==
    [e EXCEPT !.chunks = [@ EXCEPT ![i] = c], !.received = @ + 1]

\* Wrong variant: a chunk goes behind those that came before it.
InsertByArrival(e, i, c) ==
    [e EXCEPT !.chunks = [@ EXCEPT ![e.received] = c], !.received = @ + 1]

\* ReassemblyEntry::insert, the entry it leaves.  parse_fragment has checked
\* that the index is below the total.
Insert(e, i, c) ==
    IF e.chunks[i] = Missing
    THEN [e EXCEPT !.chunks = [@ EXCEPT ![i] = c], !.received = @ + 1]
    ELSE e

\* ReassemblyEntry::insert returns true.
Complete(e) == e.received = e.total

\* ReassemblyEntry::assemble returns Some.
Assembles(e) == \A i \in 0..(e.total - 1) : e.chunks[i] # Missing

-----------------------------------------------------------------------------
(* protocol.rs *)

\* Wrong variant: the counter does not wrap.
NextFragIdUnbounded(f) == f + 1

\* next_frag_id_val: an AtomicU32 wraps.
NextFragId(f) == (f + 1) % FragSpace

FullBudget == [losses |-> MaxLosses, timeouts |-> MaxTimeouts, restarts |-> MaxRestarts]

FragInit ==
    /\ nextFragId = [p \in Peers |-> 0]
    /\ sent = {}
    /\ wire = {}
    /\ buffers = [k \in Peers \X FragIds |-> NoEntry]
    /\ collecting = 0
    /\ delivered = {}
    /\ budget = FullBudget

\* send_frame: a message within the limit takes a fragment id, and its first
\* n fragments get out (send_to may fail for the next one, or the process stop).
SendFrame(p, m) ==
    /\ Length[m] <= MaxMessageSize
    /\ \A s \in sent : s.msg # m
    /\ nextFragId' = [nextFragId EXCEPT ![p] = NextFragId(@)]
    /\ sent' = sent \cup {[peer |-> p, fragId |-> nextFragId[p], msg |-> m]}
    /\ \E n \in 0..Fragments(m) :
          wire' = wire \cup {Datagram(p, nextFragId[p], m, i) : i \in 0..(n - 1)}
    /\ UNCHANGED <<buffers, collecting, delivered, budget>>

\* A datagram reaches a worker; the network may still hold a copy.  Its header
\* parses, as that of every datagram encode_fragments made (parse_fragment).
Arrives(d) ==
    /\ collecting < WorkerCount
    /\ d \in wire
    /\ \E again \in Repeats : wire' = IF again THEN wire ELSE wire \ {d}
    /\ UNCHANGED <<nextFragId, sent, budget>>

\* Wrong variant: buffers of different peers are not told apart.
KeyWithoutPeer(d) == <<CHOOSE p \in Peers : TRUE, d.fragId>>

Key(d) == <<d.peer, d.fragId>>

\* The entry handle_datagram works on, new if there is none.
EntryFor(d) == IF buffers[Key(d)] = NoEntry THEN NewEntry(d.total) ELSE buffers[Key(d)]

Oversized(d) == d.total * FragChunkSize > MaxMessageSize

\* handle_datagram: a message of one fragment needs no buffer.
ReceiveWhole(d) ==
    /\ Arrives(d)
    /\ d.total = 1
    /\ delivered' = delivered \cup {[peer |-> d.peer, payload |-> [i \in {0} |-> d.chunk]]}
    /\ UNCHANGED <<buffers, collecting>>

\* handle_datagram discards a fragment of a message that may be too long, or
\* whose total is not that of the buffer; a new buffer has the same total.
Discard(d) ==
    /\ Arrives(d)
    /\ d.total # 1
    /\ Oversized(d) \/ EntryFor(d).total # d.total
    /\ UNCHANGED <<buffers, collecting, delivered>>

\* The fragment goes into its buffer.
Buffered(d) == Insert(EntryFor(d), d.index, d.chunk)

Accepted(d) == d.total # 1 /\ ~Oversized(d) /\ EntryFor(d).total = d.total

\* handle_datagram: fragments are still missing; the worker unlocks the map
\* and goes on to gc_reassembly.
ReceivePart(d) ==
    /\ Arrives(d)
    /\ Accepted(d)
    /\ ~Complete(Buffered(d))
    /\ buffers' = [buffers EXCEPT ![Key(d)] = Buffered(d)]
    /\ collecting' = collecting + 1
    /\ UNCHANGED delivered

\* Wrong variant: the buffer stays in the map.
ReceiveLastKeeping(d) ==
    /\ Arrives(d)
    /\ Accepted(d)
    /\ Complete(Buffered(d))
    /\ buffers' = [buffers EXCEPT ![Key(d)] = Buffered(d)]
    /\ delivered' = delivered \cup
          (IF Assembles(Buffered(d)) THEN {[peer |-> d.peer, payload |-> Buffered(d).chunks]} ELSE {})
    /\ UNCHANGED collecting

\* handle_datagram: the last fragment; the buffer leaves the map.
ReceiveLast(d) ==
    /\ Arrives(d)
    /\ Accepted(d)
    /\ Complete(Buffered(d))
    /\ buffers' = [buffers EXCEPT ![Key(d)] = NoEntry]
    /\ delivered' = delivered \cup
          (IF Assembles(Buffered(d)) THEN {[peer |-> d.peer, payload |-> Buffered(d).chunks]} ELSE {})
    /\ UNCHANGED collecting

Receive(d) == ReceiveWhole(d) \/ Discard(d) \/ ReceivePart(d) \/ ReceiveLast(d)

\* Wrong variant: the comparison with REASSEMBLY_TTL is inverted.
GcKeepingStale ==
    /\ collecting > 0
    /\ collecting' = collecting - 1
    /\ buffers' = [k \in Peers \X FragIds |->
                     IF buffers[k] # NoEntry /\ ~buffers[k].stale THEN NoEntry ELSE buffers[k]]
    /\ UNCHANGED <<nextFragId, sent, wire, delivered, budget>>

\* gc_reassembly, with the map locked again.
GcReassembly ==
    /\ collecting > 0
    /\ collecting' = collecting - 1
    /\ buffers' = [k \in Peers \X FragIds |->
                     IF buffers[k] # NoEntry /\ buffers[k].stale THEN NoEntry ELSE buffers[k]]
    /\ UNCHANGED <<nextFragId, sent, wire, delivered, budget>>

\* REASSEMBLY_TTL goes by for every buffer there is.
TimePasses ==
    /\ budget.timeouts > 0
    /\ budget' = [budget EXCEPT !.timeouts = @ - 1]
    /\ buffers' = [k \in Peers \X FragIds |->
                     IF buffers[k] = NoEntry THEN NoEntry ELSE [buffers[k] EXCEPT !.stale = TRUE]]
    /\ UNCHANGED <<nextFragId, sent, wire, collecting, delivered>>

\* The network loses a datagram.
Lose(d) ==
    /\ budget.losses > 0
    /\ d \in wire
    /\ wire' = wire \ {d}
    /\ budget' = [budget EXCEPT !.losses = @ - 1]
    /\ UNCHANGED <<nextFragId, sent, buffers, collecting, delivered>>

\* The process at p starts again: KademliaProtocol::new sets next_frag_id to 0.
Restart(p) ==
    /\ budget.restarts > 0
    /\ nextFragId' = [nextFragId EXCEPT ![p] = 0]
    /\ budget' = [budget EXCEPT !.restarts = @ - 1]
    /\ UNCHANGED <<sent, wire, buffers, collecting, delivered>>

FragNext ==
    \/ \E p \in Peers : Restart(p) \/ \E m \in Messages : SendFrame(p, m)
    \/ \E d \in wire : Receive(d) \/ Lose(d)
    \/ GcReassembly
    \/ TimePasses

FragSafety == FragInit /\ [][FragNext]_fragVars

\* A worker takes a datagram whenever one has arrived, and finishes what it
\* has begun.
FragSpec ==
    /\ FragSafety
    /\ WF_fragVars(GcReassembly)
    /\ WF_fragVars(\E d \in wire : Receive(d))

-----------------------------------------------------------------------------
(* Properties *)

Chunk == Messages \X Nat

Entry(e) ==
    /\ e = [total |-> e.total, received |-> e.received, chunks |-> e.chunks, stale |-> e.stale]
    /\ e.total \in Nat
    /\ e.received \in Nat
    /\ e.chunks \in [0..(e.total - 1) -> Chunk \cup {Missing}]
    /\ e.stale \in BOOLEAN

\* Every variable has its type (KademliaProtocol, ReassemblyEntry).
TypeOK ==
    /\ nextFragId \in [Peers -> FragIds]
    /\ sent \subseteq [peer : Peers, fragId : FragIds, msg : Messages]
    /\ wire \subseteq
         [peer : Peers, fragId : FragIds, index : Nat, total : Nat, chunk : Chunk]
    /\ buffers = [k \in Peers \X FragIds |-> buffers[k]]
    /\ \A k \in Peers \X FragIds : buffers[k] = NoEntry \/ Entry(buffers[k])
    /\ collecting \in 0..WorkerCount
    /\ budget \in [losses : Nat, timeouts : Nat, restarts : Nat]

\* No two messages of one sender have been given the same fragment id so far.
FragIdsUnique ==
    \A s, t \in sent : s.peer = t.peer /\ s.fragId = t.fragId => s = t

\* x is, from the first chunk to the last, a message its peer sent.
Intact(x) == \E s \in sent : s.peer = x.peer /\ x.payload = Payload(s.msg)

\* As long as fragment ids have been unique, every payload handle_datagram
\* assembles is one message of the peer it is attributed to, complete and in
\* order: however datagrams are lost, repeated and reordered, whatever is
\* collected in between, and whoever sends under the same fragment id.
DeliveredIntact == FragIdsUnique => \A x \in delivered : Intact(x)

\* A buffer in the map has counted each chunk once and still waits for one:
\* a buffer that is complete never stays behind, and one is never taken for
\* complete early (ReassemblyEntry::insert, handle_datagram's remove).
BuffersWait ==
    \A k \in Peers \X FragIds :
      LET e == buffers[k]
      IN  e # NoEntry =>
            /\ e.received = Cardinality({i \in 0..(e.total - 1) : e.chunks[i] # Missing})
            /\ 0 < e.received /\ e.received < e.total

\* A buffer leaves the map only when it is older than REASSEMBLY_TTL or when
\* everything in it has been handed on (gc_reassembly, handle_datagram).
NothingDroppedEarly ==
    [][\A k \in Peers \X FragIds :
        buffers[k] # NoEntry /\ buffers'[k] = NoEntry =>
          \/ buffers[k].stale
          \/ \E x \in delivered' :
               /\ x.peer = k[1]
               /\ DOMAIN x.payload = DOMAIN buffers[k].chunks
               /\ \A i \in DOMAIN buffers[k].chunks :
                     buffers[k].chunks[i] \in {Missing, x.payload[i]}]_fragVars

\* encode_fragments carries every byte and no empty fragment, and what it
\* makes of a message up to the last whole chunk of the limit passes the
\* receiver's check.
FragmentsFit ==
    \A s \in sent :
      LET n == Fragments(s.msg)
          len == Length[s.msg]
      IN  /\ len <= n * FragChunkSize
          /\ n > 1 => (n - 1) * FragChunkSize < len
          /\ len <= (MaxMessageSize \div FragChunkSize) * FragChunkSize =>
               \A d \in wire : d.chunk[1] = s.msg => ~Oversized(d) \/ d.total = 1

\* A message that gets out whole, of one fragment or no longer than the whole
\* chunks of the limit, is put together on the other side unless a datagram is
\* lost, a buffer grows old or a sender restarts: no fragment is forgotten, in
\* whatever order the workers take them.  Longer ones send_frame still lets out,
\* and handle_datagram discards.
SentIsDelivered ==
    \A p \in Peers, m \in Messages :
      Fragments(m) = 1 \/ Length[m] <= (MaxMessageSize \div FragChunkSize) * FragChunkSize =>
        ((\E f \in FragIds : \A i \in 0..(Fragments(m) - 1) : Datagram(p, f, m, i) \in wire)
         ~> [peer |-> p, payload |-> Payload(m)] \in delivered \/ budget # FullBudget)
=============================================================================
