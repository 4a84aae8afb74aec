------------------------------- MODULE Lookup -------------------------------
(***************************************************************************)
(* One iterative lookup: SpiderCrawl::find_round and the loops of          *)
(* NodeSpiderCrawl::find and ValueSpiderCrawl::find (src/src/crawling.rs)  *)
(* over a NodeHeap (src/src/node.rs).                                      *)
(*                                                                         *)
(* A node stands for its distance to the target, so that a NodeHeap is a   *)
(* set of numbers: what the code sorts by is the number itself.  The peers *)
(* that are asked are external: each fails to answer, or answers with any  *)
(* node list of at most K nodes or, in a value lookup, with any value.     *)
(* The answers of a round are complete before the first is applied         *)
(* (join_all) and are applied in the order of a HashMap, that is, in any.  *)
(***************************************************************************)
EXTENDS Naturals, FiniteSets

CONSTANTS
    Nodes,     \* the nodes of the network, as distances to the target
    K,         \* ksize, the capacity of the heap
    Alpha,     \* how many nodes an ordinary round asks
    Modes,     \* which of "node" and "value" are looked up
    Seeds,     \* the node sets a lookup may start from
    Values,    \* values that peers may hold for the target
    NoValue

ASSUME LookupConstants ==
    /\ Nodes \subseteq Nat /\ IsFiniteSet(Nodes) /\ K \in Nat \ {0} /\ Alpha \in Nat
    /\ Modes \subseteq {"node", "value"} /\ Seeds \subseteq SUBSET Nodes
    /\ NoValue \notin Values

VARIABLES
    mode,        \* NodeSpiderCrawl or ValueSpiderCrawl
    phase,       \* "round", "collect" (answers of the round) or "done"
    nearest,     \* the NodeHeap
    contacted,   \* its contacted set
    lastCrawled, \* last_ids_crawled
    responses,   \* peers of the round whose answers are not applied yet
    toRemove,    \* to_remove
    found,       \* found_values: how many peers gave each value
    without,     \* nearest_without_value, a heap of capacity one
    result,      \* what find returns: [nodes, value, cachedAt]
    history      \* for the properties: nodes learned, nodes that failed,
                 \* nodes that answered without the value

lookupVars == <<mode, phase, nearest, contacted, lastCrawled, responses, toRemove,
                found, without, result, history>>

NoResult == [nodes |-> {}, value |-> NoValue, cachedAt |-> {}]

-----------------------------------------------------------------------------
(* NodeHeap *)

\* The n nodes of S closest to the target.
Closest(S, n) == {x \in S : Cardinality({y \in S : y < x}) < n}

\* A wrong trim, which sorts the entries in descending order.
TrimFarthest(S) == {x \in S : Cardinality({y \in S : y > x}) < K}

\* enforce_maxsize.
Trim(S) == Closest(S, K)

Push(heap, S) == Trim(heap \cup S)

HaveContactedAll(heap, done) == heap \subseteq done

-----------------------------------------------------------------------------
(* One round *)

LookupInit ==
    /\ mode \in Modes /\ phase = "round"
    /\ \E S \in Seeds :
          /\ nearest = Push({}, S)
          /\ history = [learned |-> S, failed |-> {}, empty |-> {}]
    /\ contacted = {} /\ lastCrawled = {} /\ responses = {} /\ toRemove = {}
    /\ found = [v \in Values |-> 0] /\ without = {} /\ result = NoResult

\* How many nodes a round asks: all of them once a round has learned nothing.
Count == IF nearest = lastCrawled THEN Cardinality(nearest) ELSE Alpha

\* find_round up to the calls.
FindRound ==
    /\ phase = "round" /\ phase' = "collect"
    /\ responses' = Closest(nearest \ contacted, Count)
    /\ contacted' = contacted \cup responses'
    /\ lastCrawled' = nearest
    /\ UNCHANGED <<mode, nearest, toRemove, found, without, result, history>>

\* The answer of p is the next that is applied.
Apply(p) ==
    /\ phase = "collect" /\ p \in responses
    /\ responses' = responses \ {p}
    /\ UNCHANGED <<mode, phase, lastCrawled, result>>

\* A wrong treatment of failures: the node stays, to be asked once more.
NoAnswerRetried(p) ==
    /\ Apply(p)
    /\ contacted' = contacted \ {p}
    /\ history' = [history EXCEPT !.failed = @ \cup {p}]
    /\ UNCHANGED <<nearest, toRemove, found, without>>

NoAnswer(p) ==
    /\ Apply(p)
    /\ toRemove' = toRemove \cup {p}
    /\ history' = [history EXCEPT !.failed = @ \cup {p}]
    /\ UNCHANGED <<nearest, contacted, found, without>>

\* nearest_without_value.push_one, for a peer that is still in the heap.
NearestWithout(p) ==
    IF mode = "value" /\ p \in nearest THEN Closest(without \cup {p}, 1) ELSE without

NodeList(p, S) ==
    /\ Apply(p)
    /\ without' = NearestWithout(p)
    /\ nearest' = Push(nearest, S)
    /\ history' = [history EXCEPT !.learned = @ \cup S, !.empty = @ \cup {p}]
    /\ UNCHANGED <<contacted, toRemove, found>>

HasValue(p, v) ==
    /\ mode = "value" /\ Apply(p)
    /\ found' = [found EXCEPT ![v] = @ + 1]
    /\ UNCHANGED <<nearest, contacted, toRemove, without, history>>

Remaining == nearest \ toRemove

EndRound ==
    /\ phase = "collect" /\ responses = {}
    /\ nearest' = Remaining /\ toRemove' = {}
    /\ UNCHANGED <<mode, contacted, lastCrawled, responses, found, without, history>>

Hits == {v \in Values : found[v] > 0}

\* A wrong choice among the values: any of them.
ReturnAnyValue ==
    /\ EndRound /\ Hits # {}
    /\ \E v \in Hits : result' = [nodes |-> {}, value |-> v, cachedAt |-> without]
    /\ phase' = "done"

\* A value was found: the most frequent is cached at the nearest node that
\* answered without one, and returned.
ReturnValue ==
    /\ EndRound /\ Hits # {}
    /\ \E v \in Hits :
          /\ \A w \in Hits : found[w] <= found[v]
          /\ result' = [nodes |-> {}, value |-> v, cachedAt |-> without]
    /\ phase' = "done"

ReturnNodes ==
    /\ EndRound /\ Hits = {} /\ HaveContactedAll(Remaining, contacted)
    /\ result' = [NoResult EXCEPT !.nodes = Remaining]
    /\ phase' = "done"

NextRound ==
    /\ EndRound /\ Hits = {} /\ ~HaveContactedAll(Remaining, contacted)
    /\ phase' = "round" /\ UNCHANGED result

NodeLists == {S \in SUBSET Nodes : Cardinality(S) <= K}

Answers ==
    \E p \in responses :
        \/ NoAnswer(p)
        \/ \E S \in NodeLists : NodeList(p, S)
        \/ \E v \in Values : HasValue(p, v)

LookupNext == FindRound \/ Answers \/ ReturnValue \/ ReturnNodes \/ NextRound

LookupSafety == LookupInit /\ [][LookupNext]_lookupVars

\* Every call of a round returns (at the latest by its timeout), and the task
\* that runs the lookup is scheduled.
LookupSpec == LookupSafety /\ WF_lookupVars(LookupNext)

-----------------------------------------------------------------------------
(* Properties *)

\* The nodes a lookup returns contain every one of the K closest nodes it
\* learned of that never failed to answer it, although failures, trims and
\* answers come in any order; and every one of them was asked.
ResultComplete ==
    phase = "done" /\ result.value = NoValue =>
        /\ Closest(history.learned, K) \ history.failed \subseteq result.nodes
        /\ result.nodes \subseteq contacted

\* A value lookup in which some peer answered with a value returns one that
\* no other value outnumbers, and offers it to a node that answered without
\* it whenever there was one.
HitIsReturned ==
    phase = "done" /\ Hits # {} =>
        /\ result.value \in Hits /\ \A v \in Hits : found[v] <= found[result.value]
        /\ result.cachedAt \subseteq history.empty
        /\ result.cachedAt = {} => history.empty = {}

\* Every lookup ends: although failed nodes are learned again and again, the
\* loops of find run out of nodes to ask.
Terminates == <>(phase = "done")
=============================================================================
