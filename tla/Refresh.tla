------------------------------- MODULE Refresh -------------------------------
(***************************************************************************)
(* The refresh and republish loop of a listening node: schedule_refresh    *)
(* (src/src/network.rs), get_refresh_ids (src/src/protocol.rs), the timers *)
(* of the buckets (src/src/routing.rs) and iter_older_than                 *)
(* (src/src/storage.rs).                                                   *)
(*                                                                         *)
(* Time is counted in ticks, the seconds of the code, and Hour stands for  *)
(* its 3600.  Ages count up to the first at which nothing changes any      *)
(* more.  Of a bucket only its range and timer are kept; the lookups of    *)
(* other parts of the node and the insertions that split buckets happen    *)
(* at any time.  A round's crawls and store calls take a bounded time,     *)
(* because every call has a timeout.                                       *)
(***************************************************************************)
EXTENDS Integers

CONSTANTS
    MaxLong,         \* the largest long id: 2^128 - 1 in the code
    TailBits,        \* the bits of an id beyond those of a long id: 32 in the code
    LongId,          \* for every id, the long id it is folded into (Node::id_to_u128)
    Entries, KeyOf,  \* records that may be stored, and the ids of their keys
    Hour,            \* ticks between two rounds
    MaxRound         \* bound: ticks a round may take

LongIds == 0..MaxLong

\* An id whose last bits are zero is folded into its first bits.
ASSUME RefreshConstants ==
    /\ MaxLong \in Nat /\ TailBits \in Nat /\ Hour \in Nat \ {0} /\ MaxRound \in Nat
    /\ LongId \in [0..((MaxLong + 1) * 2^TailBits - 1) -> LongIds]
    /\ \A r \in LongIds : LongId[r * 2^TailBits] = r
    /\ KeyOf \in [Entries -> DOMAIN LongId]

VARIABLES
    buckets,   \* a set of [lo, hi, age]; age counts from last_updated
    searched,  \* for the properties: [of, age, splits], any long id, and the ticks and splits
               \* of its bucket since a lookup touched it
    stored,    \* for each entry its age in the storage, or Absent
    offered,   \* for the properties: ticks since the loop last dealt with an entry
    round,     \* [pc, left]: what the loop does, and for how much longer
    ids,       \* refresh_ids not yet looked up in this round
    due        \* old_entries not yet republished in this round

refreshVars == <<buckets, searched, stored, offered, round, ids, due>>

Absent == -1

\* The longest a region may go without a lookup while its bucket is not split.
Quiet == 2 * (Hour + MaxRound)

Older(age, cap) == IF age < cap THEN age + 1 ELSE age

Covers(b, x) == b.lo <= x /\ x <= b.hi

RefreshInit ==
    /\ buckets = {[lo |-> 0, hi |-> MaxLong, age |-> 0]}
    /\ \E x \in LongIds : searched = [of |-> x, age |-> 0, splits |-> 0]
    /\ stored = [e \in Entries |-> Absent] /\ offered = [e \in Entries |-> 0]
    /\ round = [pc |-> "sleep", left |-> Hour]
    /\ ids = {} /\ due = {}

-----------------------------------------------------------------------------
(* The buckets' timers *)

\* KBucket::is_lonely.  The age counts to Hour + 2.
IsLonely(b) == b.age > Hour

\* find_neighbors touches the bucket of its target, whoever asks.
Touch(x) ==
    \E b \in buckets :
        /\ Covers(b, x)
        /\ buckets' = (buckets \ {b}) \cup {[b EXCEPT !.age = 0]}
        /\ searched' = IF Covers(b, searched.of) THEN [searched EXCEPT !.age = 0, !.splits = 0]
                                                  ELSE searched

\* KBucket::split: both halves are new buckets, with new timers.
Split(b) ==
    LET mid == b.lo + (b.hi - b.lo) \div 2 IN
    /\ b.lo < b.hi
    /\ buckets' = (buckets \ {b}) \cup {[lo |-> b.lo, hi |-> mid, age |-> 0],
                                         [lo |-> mid + 1, hi |-> b.hi, age |-> 0]}
    /\ searched' = IF Covers(b, searched.of) THEN [searched EXCEPT !.splits = @ + 1] ELSE searched
    /\ UNCHANGED <<stored, offered, round, ids, due>>

\* A lookup by another part of the node.
Traffic(x) == Touch(x) /\ UNCHANGED <<stored, offered, round, ids, due>>

-----------------------------------------------------------------------------
(* The loop *)

\* A wrong id, with the random number at its low end.
RefreshIdLow(r) == r

\* The random number fills the first bits of the id; the rest stays zero.
RefreshId(r) == r * 2^TailBits

LonelyBuckets == {b \in buckets : IsLonely(b)}

\* get_refresh_ids: one random id per lonely bucket.
Wake ==
    /\ round.pc = "sleep" /\ round.left = 0
    /\ \E pick \in [LonelyBuckets -> LongIds] :
          /\ \A b \in LonelyBuckets : Covers(b, pick[b])
          /\ ids' = {RefreshId(pick[b]) : b \in LonelyBuckets}
    /\ round' = [pc |-> "refresh", left |-> MaxRound]
    /\ UNCHANGED <<buckets, searched, stored, offered, due>>

\* find_neighbors for one refresh id; its crawl runs with the others.
SearchFor(id) ==
    /\ round.pc = "refresh" /\ id \in ids
    /\ Touch(LongId[id])
    /\ ids' = ids \ {id}
    /\ UNCHANGED <<stored, offered, round, due>>

\* A wrong selection, strictly older than an hour.
StrictlyOlder == {e \in Entries : stored[e] > Hour}

\* iter_older_than.
OlderThanAnHour == {e \in Entries : stored[e] >= Hour}

\* All crawls have ended.
CrawlsEnd ==
    /\ round.pc = "refresh" /\ ids = {}
    /\ round' = [round EXCEPT !.pc = "republish"]
    /\ due' = OlderThanAnHour
    /\ UNCHANGED <<buckets, searched, stored, offered, ids>>

\* One old entry: find_neighbors for its key, then a crawl and the store calls;
\* without neighbours the entry is passed over.
Republish(e) ==
    /\ round.pc = "republish" /\ e \in due
    /\ Touch(LongId[KeyOf[e]])
    /\ due' = due \ {e}
    /\ offered' = [offered EXCEPT ![e] = 0]
    /\ UNCHANGED <<stored, round, ids>>

SleepAgain == round' = [pc |-> "sleep", left |-> Hour]

RoundEnds ==
    /\ round.pc = "republish" /\ due = {}
    /\ SleepAgain
    /\ UNCHANGED <<buckets, searched, stored, offered, ids, due>>

-----------------------------------------------------------------------------
(* The storage and time *)

\* An entry is written: inserted or replaced.
Store(e) ==
    /\ stored' = [stored EXCEPT ![e] = 0] /\ offered' = [offered EXCEPT ![e] = 0]
    /\ UNCHANGED <<buckets, searched, round, ids, due>>

\* It is deleted, or it expires.
Drop(e) ==
    /\ stored[e] # Absent
    /\ stored' = [stored EXCEPT ![e] = Absent] /\ offered' = [offered EXCEPT ![e] = 0]
    /\ UNCHANGED <<buckets, searched, round, ids, due>>

\* A tick passes unless the loop has to act first: its sleep is over, or its
\* round has taken all the time it can.
Tick ==
    /\ round.left > 0
    /\ round' = [round EXCEPT !.left = @ - 1]
    /\ buckets' = {[b EXCEPT !.age = Older(@, Hour + 2)] : b \in buckets}
    /\ searched' = [searched EXCEPT !.age = Older(@, (1 + searched.splits) * Quiet + 1)]
    /\ stored' = [e \in Entries |-> IF stored[e] = Absent THEN Absent ELSE Older(stored[e], Hour + 1)]
    /\ offered' = [e \in Entries |-> IF stored[e] = Absent THEN 0 ELSE Older(offered[e], Quiet)]
    /\ UNCHANGED <<ids, due>>

ScheduleRefresh ==
    \/ Wake \/ CrawlsEnd \/ RoundEnds
    \/ (\E id \in ids : SearchFor(id)) \/ (\E e \in due : Republish(e))

RefreshNext ==
    \/ ScheduleRefresh \/ Tick
    \/ (\E b \in buckets : Split(b)) \/ (\E x \in LongIds : Traffic(x))
    \/ (\E e \in Entries : Store(e) \/ Drop(e))

RefreshSafety == RefreshInit /\ [][RefreshNext]_refreshVars

-----------------------------------------------------------------------------
(* Properties *)

\* No region of the id space goes without a lookup for longer than two rounds,
\* although a bucket looked up exactly an hour before a round is passed over and
\* every split of a bucket since then starts a new timer (is_lonely,
\* get_refresh_ids, KBucket::new).
RegionsLookedUp == searched.age <= (1 + searched.splits) * Quiet

\* The loop deals with every entry it still holds less than two rounds after
\* the entry was written or last dealt with: one stored right after a round
\* has looked is exactly an hour old when the next one looks
\* (iter_older_than).
EntriesOffered == \A e \in Entries : offered[e] < Quiet
=============================================================================
