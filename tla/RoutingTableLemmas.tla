------------------------- MODULE RoutingTableLemmas -------------------------
(* What the operations of a list, of a bucket and of the list of buckets    *)
(* preserve: the facts the proofs of RoutingTable rest on.                  *)
EXTENDS RoutingTable, SequenceTheorems, TLAPS

-----------------------------------------------------------------------------
(* Lists that hold an element at most once *)

\* Appending a new element to a list (VecDeque::push_back).
LEMMA AppendFacts ==
    ASSUME NEW S, NEW s \in Seq(S), NEW e \in S
    PROVE  /\ Append(s, e) \in Seq(S)
           /\ Len(Append(s, e)) = Len(s) + 1
           /\ Append(s, e) # <<>>
           /\ Range(Append(s, e)) = Range(s) \cup {e}
           /\ IsInjective(s) /\ e \notin Range(s) => IsInjective(Append(s, e))
           /\ Append(s, e)[Len(s) + 1] = e
  BY DEF Range, IsInjective

\* Removing the entry at a position (VecDeque::remove).
LEMMA RemoveAtFacts ==
    ASSUME NEW S, NEW s \in Seq(S), IsInjective(s), NEW i \in 1..Len(s)
    PROVE  /\ RemoveAt(s, i) \in Seq(S)
           /\ Len(RemoveAt(s, i)) = Len(s) - 1
           /\ \A j \in 1..(Len(s) - 1) : RemoveAt(s, i)[j] = IF j < i THEN s[j] ELSE s[j + 1]
           /\ Range(RemoveAt(s, i)) = Range(s) \ {s[i]}
           /\ IsInjective(RemoveAt(s, i))
  <1> DEFINE a == SubSeq(s, 1, i - 1)
             b == SubSeq(s, i + 1, Len(s))
             r == RemoveAt(s, i)
  <1>1. /\ a \in Seq(S)
        /\ Len(a) = i - 1
        /\ \A j \in 1..(i - 1) : a[j] = s[j]
    <2>1. \A j \in 1..(i - 1) : s[j] \in S
      BY ElementOfSeq
    <2> QED BY <2>1, SubSeqProperties
  <1>2. /\ b \in Seq(S)
        /\ Len(b) = Len(s) - i
        /\ \A j \in 1..(Len(s) - i) : b[j] = s[i + j]
    <2>1. \A j \in (i + 1)..Len(s) : s[j] \in S
      BY ElementOfSeq
    <2>2. /\ b \in Seq(S)
          /\ Len(b) = IF i + 1 <= Len(s) THEN Len(s) - (i + 1) + 1 ELSE 0
          /\ \A j \in 1..(Len(s) - (i + 1) + 1) : b[j] = s[(i + 1) + j - 1]
      BY <2>1, SubSeqProperties
    <2> QED BY <2>2
  <1> HIDE DEF a, b
  <1>3. r = a \o b
    BY DEF a, b, RemoveAt
  <1> HIDE DEF r
  <1>4. /\ r \in Seq(S)
        /\ Len(r) = Len(s) - 1
        /\ \A j \in 1..(Len(s) - 1) : r[j] = IF j < i THEN s[j] ELSE s[j + 1]
    <2>1. /\ a \o b \in Seq(S)
          /\ Len(a \o b) = Len(a) + Len(b)
          /\ \A j \in 1 .. Len(a) + Len(b) :
                (a \o b)[j] = IF j <= Len(a) THEN a[j] ELSE b[j - Len(a)]
      BY <1>1, <1>2, ConcatProperties, Zenon
    <2>2. ASSUME NEW j \in 1..(Len(s) - 1)
          PROVE  r[j] = IF j < i THEN s[j] ELSE s[j + 1]
      <3>1. CASE j < i
        BY <1>1, <1>2, <1>3, <2>1, <3>1
      <3>2. CASE j >= i
        <4>1. j - Len(a) \in 1..(Len(s) - i) /\ i + (j - Len(a)) = j + 1
          BY <1>1, <3>2
        <4>2. r[j] = b[j - Len(a)]
          <5>1. j \in 1 .. Len(a) + Len(b) /\ ~(j <= Len(a))
            BY <1>1, <1>2, <3>2
          <5> QED BY <1>3, <2>1, <5>1, Zenon
        <4>3. b[j - Len(a)] = s[i + (j - Len(a))]
          BY <1>2, <4>1, Zenon
        <4>4. ~(j < i)
          BY <3>2
        <4> QED BY <4>1, <4>2, <4>3, <4>4, Zenon
      <3> QED BY <3>1, <3>2
    <2> QED BY <1>1, <1>2, <1>3, <2>1, <2>2, SMTT(20)
  <1>5. Range(r) = Range(s) \ {s[i]}
    <2>1. ASSUME NEW x \in Range(s) \ {s[i]} PROVE x \in Range(r)
      <3>1. PICK j \in 1..Len(s) : x = s[j] /\ j # i
        BY DEF Range
      <3>2. CASE j < i
        BY <1>4, <3>1, <3>2 DEF Range
      <3>3. CASE j > i
        <4>1. j - 1 \in 1..(Len(s) - 1) /\ r[j - 1] = s[j]
          BY <1>4, <3>3
        <4> QED BY <1>4, <3>1, <4>1 DEF Range
      <3> QED BY <3>1, <3>2, <3>3
    <2>2. ASSUME NEW x \in Range(r) PROVE x \in Range(s) \ {s[i]}
      BY <1>4 DEF Range, IsInjective
    <2> QED BY <2>1, <2>2
  <1>6. IsInjective(r)
    <2>1. ASSUME NEW x \in 1..(Len(s) - 1), NEW y \in 1..(Len(s) - 1), r[x] = r[y]
          PROVE  x = y
      <3>1. \A j, k \in 1..Len(s) : s[j] = s[k] => j = k
        BY DEF IsInjective
      <3>2. x + 1 \in 1..Len(s) /\ y + 1 \in 1..Len(s) /\ x \in 1..Len(s) /\ y \in 1..Len(s)
        OBVIOUS
      <3> QED BY <1>4, <2>1, <3>1, <3>2
    <2>2. DOMAIN r = 1..(Len(s) - 1)
      BY <1>4
    <2> QED BY <2>1, <2>2 DEF IsInjective
  <1> QED BY <1>4, <1>5, <1>6 DEF r

\* position() followed by remove(): the element goes, the others keep their
\* order.
LEMMA RemoveFirstFacts ==
    ASSUME NEW S, NEW s \in Seq(S), IsInjective(s), NEW e
    PROVE  /\ RemoveFirst(s, e) \in Seq(S)
           /\ Range(RemoveFirst(s, e)) = Range(s) \ {e}
           /\ IsInjective(RemoveFirst(s, e))
           /\ Len(RemoveFirst(s, e)) = IF e \in Range(s) THEN Len(s) - 1 ELSE Len(s)
           /\ e \notin Range(s) => RemoveFirst(s, e) = s
  <1>1. CASE \E i \in 1..Len(s) : s[i] = e
    <2>1. PICK k \in 1..Len(s) : s[k] = e
      BY <1>1
    <2>2. SelectInSeq(s, LAMBDA v : v = e) = k
      <3>1. {i \in 1..Len(s) : s[i] = e} = {k}
        BY <2>1 DEF IsInjective
      <3>2. Min({k}) = k
        BY DEF Min
      <3> QED BY <3>1, <3>2, Zenon DEF SelectInSeq
    <2>3. RemoveFirst(s, e) = RemoveAt(s, k)
      BY <1>1, <2>2 DEF RemoveFirst
    <2>4. e \in Range(s)
      BY <2>1 DEF Range
    <2>5. /\ RemoveAt(s, k) \in Seq(S)
          /\ Len(RemoveAt(s, k)) = Len(s) - 1
          /\ Range(RemoveAt(s, k)) = Range(s) \ {s[k]}
          /\ IsInjective(RemoveAt(s, k))
      BY RemoveAtFacts
    <2> QED BY <2>1, <2>3, <2>4, <2>5
  <1>2. CASE ~\E i \in 1..Len(s) : s[i] = e
    <2>1. RemoveFirst(s, e) = s
      BY <1>2 DEF RemoveFirst
    <2>2. e \notin Range(s)
      BY <1>2 DEF Range
    <2> QED BY <2>1, <2>2
  <1> QED BY <1>1, <1>2

\* The newest entries of a list, when older ones are popped off its front.
LEMMA SuffixFacts ==
    ASSUME NEW S, NEW s \in Seq(S), IsInjective(s), NEW k \in 1..Len(s)
    PROVE  /\ SubSeq(s, k, Len(s)) \in Seq(S)
           /\ Len(SubSeq(s, k, Len(s))) = Len(s) - k + 1
           /\ Range(SubSeq(s, k, Len(s))) \subseteq Range(s)
           /\ IsInjective(SubSeq(s, k, Len(s)))
           /\ \A i \in 1..(Len(s) - k + 1) : SubSeq(s, k, Len(s))[i] = s[k + i - 1]
  <1> DEFINE r == SubSeq(s, k, Len(s))
  <1>1. /\ r \in Seq(S)
        /\ Len(r) = Len(s) - k + 1
        /\ \A i \in 1..(Len(s) - k + 1) : r[i] = s[k + i - 1]
    <2>1. \A i \in k..Len(s) : s[i] \in S
      BY ElementOfSeq
    <2>2. /\ r \in Seq(S)
          /\ Len(r) = IF k <= Len(s) THEN Len(s) - k + 1 ELSE 0
          /\ \A i \in 1..(Len(s) - k + 1) : r[i] = s[k + i - 1]
      BY <2>1, SubSeqProperties
    <2> QED BY <2>2
  <1> HIDE DEF r
  <1>2. Range(r) \subseteq Range(s)
    BY <1>1 DEF Range
  <1>3. IsInjective(r)
    <2>1. DOMAIN r = 1..(Len(s) - k + 1)
      BY <1>1
    <2>2. ASSUME NEW x \in DOMAIN r, NEW y \in DOMAIN r, r[x] = r[y]
          PROVE  x = y
      <3>1. k + x - 1 \in DOMAIN s /\ k + y - 1 \in DOMAIN s
        BY <2>1
      <3>2. s[k + x - 1] = s[k + y - 1]
        BY <1>1, <2>1, <2>2, SMTT(20)
      <3>3. k + x - 1 = k + y - 1
        BY <3>1, <3>2 DEF IsInjective
      <3> QED BY <2>1, <3>3
    <2> QED BY <2>2 DEF IsInjective
  <1> QED BY <1>1, <1>2, <1>3 DEF r

\* Taking the last entry off a list (VecDeque::pop_back).
LEMMA FrontLastFacts ==
    ASSUME NEW S, NEW s \in Seq(S), IsInjective(s), s # <<>>
    PROVE  /\ Front(s) \in Seq(S)
           /\ Len(Front(s)) = Len(s) - 1
           /\ IsInjective(Front(s))
           /\ Last(s) \in Range(s)
           /\ Range(Front(s)) = Range(s) \ {Last(s)}
  <1> DEFINE r == Front(s)
  <1>0. Len(s) \in Nat /\ Len(s) > 0
    BY EmptySeq
  <1>a. \A i \in 1..(Len(s) - 1) : s[i] \in S
    BY ElementOfSeq
  <1>b. /\ r \in Seq(S)
        /\ Len(r) = IF 1 <= Len(s) - 1 THEN Len(s) - 1 - 1 + 1 ELSE 0
        /\ \A i \in 1..(Len(s) - 1 - 1 + 1) : r[i] = s[1 + i - 1]
    BY <1>0, <1>a, SubSeqProperties DEF Front
  <1> HIDE DEF r
  <1>c. \A i \in 1..(Len(s) - 1) : r[i] = s[i]
    <2>1. TAKE i \in 1..(Len(s) - 1)
    <2>2. i \in 1..(Len(s) - 1 - 1 + 1) /\ 1 + i - 1 = i
      BY <1>0
    <2>3. r[i] = s[1 + i - 1]
      BY <1>b, <2>2
    <2> QED BY <2>2, <2>3
  <1>1. /\ r \in Seq(S)
        /\ Len(r) = Len(s) - 1
        /\ \A i \in 1..(Len(s) - 1) : r[i] = s[i]
    <2>1. Len(r) = Len(s) - 1
      <3>1. CASE Len(s) = 1
        BY <1>b, <3>1
      <3>2. CASE Len(s) > 1
        BY <1>0, <1>b, <3>2
      <3>3. \A n \in Nat : n > 0 => n = 1 \/ n > 1
        OBVIOUS
      <3> QED BY <1>0, <3>1, <3>2, <3>3, Zenon
    <2> QED BY <1>b, <1>c, <2>1
  <1>2. Last(s) \in Range(s)
    BY <1>0 DEF Last, Range
  <1>3. Range(r) = Range(s) \ {Last(s)}
    BY <1>0, <1>1 DEF Last, Range, IsInjective
  <1>4. IsInjective(r)
    BY <1>0, <1>1, SMTT(20) DEF IsInjective
  <1> QED BY <1>1, <1>2, <1>3, <1>4 DEF r

\* Taking the first entry off a list, as an iteration over it does.
LEMMA HeadTailFacts ==
    ASSUME NEW S, NEW s \in Seq(S), IsInjective(s), s # <<>>
    PROVE  /\ Head(s) \in S
           /\ Head(s) = s[1]
           /\ Tail(s) \in Seq(S)
           /\ Len(Tail(s)) = Len(s) - 1
           /\ \A i \in 1..(Len(s) - 1) : Tail(s)[i] = s[i + 1]
           /\ IsInjective(Tail(s))
           /\ Head(s) \in Range(s)
           /\ Range(Tail(s)) = Range(s) \ {Head(s)}
  <1> DEFINE r == Tail(s)
  <1>0. Len(s) \in Nat \ {0} /\ Head(s) = s[1]
    BY EmptySeq
  <1>1. /\ r \in Seq(S)
        /\ Len(r) = Len(s) - 1
        /\ \A i \in 1..(Len(s) - 1) : r[i] = s[i + 1]
    BY <1>0, HeadTailProperties
  <1> HIDE DEF r
  <1>2. Head(s) \in Range(s) /\ Head(s) \in S
    BY <1>0, ElementOfSeq DEF Range
  <1>3. Range(r) = Range(s) \ {Head(s)}
    <2>1. ASSUME NEW x \in Range(s) \ {Head(s)} PROVE x \in Range(r)
      <3>1. PICK j \in 1..Len(s) : x = s[j] /\ j # 1
        BY <1>0 DEF Range
      <3>2. j - 1 \in 1..(Len(s) - 1) /\ r[j - 1] = s[j]
        BY <1>0, <1>1, <3>1
      <3> QED BY <1>1, <3>1, <3>2 DEF Range
    <2>2. ASSUME NEW x \in Range(r) PROVE x \in Range(s) \ {Head(s)}
      BY <1>0, <1>1 DEF Range, IsInjective
    <2> QED BY <2>1, <2>2
  <1>4. IsInjective(r)
    <2>1. DOMAIN r = 1..(Len(s) - 1) /\ DOMAIN s = 1..Len(s)
      BY <1>0, <1>1
    <2>2. ASSUME NEW x \in DOMAIN r, NEW y \in DOMAIN r, r[x] = r[y]
          PROVE  x = y
      <3>1. x + 1 \in DOMAIN s /\ y + 1 \in DOMAIN s
        BY <1>0, <2>1
      <3>2. s[x + 1] = s[y + 1]
        BY <1>1, <2>1, <2>2
      <3>3. x + 1 = y + 1
        BY <3>1, <3>2 DEF IsInjective
      <3> QED BY <2>1, <3>3
    <2> QED BY <2>2 DEF IsInjective
  <1> QED BY <1>0, <1>1, <1>2, <1>3, <1>4 DEF r

\* r is s followed by t, and holds every element once.
Chained(r, s, t, S) ==
    /\ r \in Seq(S)
    /\ Len(r) = Len(s) + Len(t)
    /\ IsInjective(r)
    /\ Range(r) = Range(s) \cup Range(t)
    /\ \A i \in 1..Len(s) : r[i] = s[i]

\* One list after another (Iterator::chain).
LEMMA ChainFacts ==
    ASSUME NEW S, NEW s \in Seq(S), NEW t \in Seq(S),
           IsInjective(s), IsInjective(t), Range(s) \cap Range(t) = {}
    PROVE  Chained(s \o t, s, t, S)
  <1> DEFINE r == s \o t
  <1>1. /\ r \in Seq(S)
        /\ Len(r) = Len(s) + Len(t)
        /\ \A i \in 1..(Len(s) + Len(t)) : r[i] = IF i <= Len(s) THEN s[i] ELSE t[i - Len(s)]
    BY ConcatProperties
  <1>2. Range(r) = Range(s) \cup Range(t)
    BY RangeConcatenation
  <1> HIDE DEF r
  <1>3. IsInjective(r)
    <2>1. DOMAIN r = 1..(Len(s) + Len(t)) /\ Len(s) \in Nat /\ Len(t) \in Nat
      BY <1>1
    <2>2. ASSUME NEW x \in DOMAIN r, NEW y \in DOMAIN r, r[x] = r[y]
          PROVE  x = y
      <3>1. CASE x <= Len(s) /\ y <= Len(s)
        BY <1>1, <2>1, <2>2, <3>1 DEF IsInjective
      <3>2. CASE x > Len(s) /\ y > Len(s)
        <4>1. x - Len(s) \in DOMAIN t /\ y - Len(s) \in DOMAIN t
          BY <2>1, <3>2
        <4>2. t[x - Len(s)] = t[y - Len(s)]
          BY <1>1, <2>1, <2>2, <3>2
        <4>3. x - Len(s) = y - Len(s)
          BY <4>1, <4>2 DEF IsInjective
        <4> QED BY <2>1, <4>3
      <3>3. CASE x <= Len(s) /\ y > Len(s)
        <4>1. r[x] \in Range(s)
          BY <1>1, <2>1, <3>3 DEF Range
        <4>2. y - Len(s) \in DOMAIN t /\ r[y] = t[y - Len(s)]
          BY <1>1, <2>1, <3>3
        <4>3. r[y] \in Range(t)
          BY <4>2 DEF Range
        <4> QED BY <2>2, <4>1, <4>3
      <3>4. CASE x > Len(s) /\ y <= Len(s)
        <4>1. r[y] \in Range(s)
          BY <1>1, <2>1, <3>4 DEF Range
        <4>2. x - Len(s) \in DOMAIN t /\ r[x] = t[x - Len(s)]
          BY <1>1, <2>1, <3>4
        <4>3. r[x] \in Range(t)
          BY <4>2 DEF Range
        <4> QED BY <2>2, <4>1, <4>3
      <3> QED BY <2>1, <3>1, <3>2, <3>3, <3>4, SMTT(20)
    <2> QED BY <2>2 DEF IsInjective
  <1>4. \A i \in 1..Len(s) : r[i] = s[i]
    BY <1>1
  <1> QED BY <1>1, <1>2, <1>3, <1>4, Zenon DEF r, Chained

-----------------------------------------------------------------------------
(* Buckets *)

\* The caps of the two lists are positive numbers.
LEMMA CapFacts == KSize \in Nat /\ KSize > 0 /\ MaxReplacement \in Nat /\ MaxReplacement > 0
  <1>1. \A a, b \in Nat : a > 0 /\ b > 0 => a * b \in Nat /\ a * b > 0
    OBVIOUS
  <1> QED BY <1>1, RoutingConstants DEF RoutingConstants, MaxReplacement

\* Popping the oldest replacements loses only those over the cap.
LEMMA KeepNewestFacts ==
    ASSUME NEW s \in Seq(Ids), IsInjective(s), s # <<>>, Len(s) <= MaxReplacement + 1
    PROVE  /\ KeepNewest(s, MaxReplacement) \in Seq(Ids)
           /\ IsInjective(KeepNewest(s, MaxReplacement))
           /\ KeepNewest(s, MaxReplacement) # <<>>
           /\ Len(KeepNewest(s, MaxReplacement)) <= MaxReplacement
           /\ Last(KeepNewest(s, MaxReplacement)) = Last(s)
           /\ Range(KeepNewest(s, MaxReplacement)) \subseteq Range(s)
           /\ Len(s) <= MaxReplacement => KeepNewest(s, MaxReplacement) = s
           /\ Range(s) \ Range(KeepNewest(s, MaxReplacement)) \subseteq {Head(s)}
  <1> DEFINE m == MaxReplacement
             r == KeepNewest(s, m)
  <1>1. m \in Nat /\ m > 0 /\ Len(s) \in Nat /\ Len(s) # 0
    BY CapFacts, EmptySeq
  <1>2. CASE Len(s) <= m
    <2>1. r = s
      BY <1>1, <1>2 DEF KeepNewest
    <2> QED BY <1>2, <2>1
  <1>3. CASE Len(s) = m + 1
    <2>1. r = SubSeq(s, 2, Len(s))
      BY <1>1, <1>3 DEF KeepNewest
    <2>2. 2 \in 1..Len(s)
      BY <1>1, <1>3
    <2> HIDE DEF m, r
    <2>3. /\ r \in Seq(Ids)
          /\ Len(r) = Len(s) - 2 + 1
          /\ Range(r) \subseteq Range(s)
          /\ IsInjective(r)
          /\ \A i \in 1..(Len(s) - 2 + 1) : r[i] = s[2 + i - 1]
      BY <2>1, <2>2, SuffixFacts
    <2>4. Len(r) = m /\ r # <<>>
      BY <1>1, <1>3, <2>3, EmptySeq
    <2>5. Last(r) = Last(s)
      BY <1>1, <1>3, <2>3 DEF Last
    <2>6. Range(s) \ Range(r) \subseteq {Head(s)}
      <3>1. ASSUME NEW x \in Range(s), x # Head(s) PROVE x \in Range(r)
        <4>1. PICK j \in 1..Len(s) : x = s[j]
          BY DEF Range
        <4>2. j # 1
          BY <1>1, <3>1, <4>1
        <4>3. j - 1 \in 1..(Len(s) - 2 + 1) /\ 2 + (j - 1) - 1 = j
          BY <1>1, <4>1, <4>2
        <4>4. r[j - 1] = s[j] /\ j - 1 \in DOMAIN r
          BY <1>1, <2>3, <4>3
        <4> QED BY <4>1, <4>4 DEF Range
      <3> QED BY <3>1
    <2> QED BY <1>1, <1>3, <2>3, <2>4, <2>5, <2>6 DEF r, m
  <1> QED BY <1>1, <1>2, <1>3

\* Counting one more.
LEMMA OneMore == \A i, j \in Nat : (i + 1) + j = i + j + 1 /\ i + (j + 1) = i + j + 1
  OBVIOUS

\* The types of a bucket's fields.
LEMMA BucketParts ==
    ASSUME NEW b \in Bucket
    PROVE  /\ b.lo \in 0..MaxLong /\ b.hi \in 0..MaxLong
           /\ b.nodes \in Seq(Ids) /\ b.replacement \in Seq(Ids)
  BY DEF Bucket

\* What add_node(n) makes of a bucket b: c is well formed and has b's range.
\* An accepted contact is a primary one and costs nobody a place; a rejected
\* one is the newest replacement, and at most the oldest goes, at the cap.
Added(b, n, c) ==
    /\ c \in Bucket
    /\ WellFormed(c)
    /\ c.lo = b.lo /\ c.hi = b.hi
    /\ Accepts(b, n) => /\ Range(c.nodes) = Range(b.nodes) \cup {n}
                        /\ c.replacement = b.replacement
    /\ ~Accepts(b, n) => /\ c.nodes = b.nodes
                         /\ Len(c.nodes) = KSize
                         /\ n \notin Range(b.nodes)
                         /\ n \in Range(c.replacement)
                         /\ Last(c.replacement) = n
    /\ Members(c) \subseteq Members(b) \cup {n}
    /\ Members(b) \ Members(c) \subseteq
         (IF Len(b.replacement) = MaxReplacement THEN {Head(b.replacement)} ELSE {})
    /\ n \notin Members(b)
         /\ (Len(b.nodes) < KSize \/ Len(b.replacement) < MaxReplacement) =>
         /\ Members(c) = Members(b) \cup {n}
         /\ Size(c) = Size(b) + 1

\* add_node does that, for a contact that belongs to the bucket's range.
LEMMA AddNodeFacts ==
    ASSUME NEW b \in Bucket, WellFormed(b), NEW n \in Ids, n # Local, Covers(b, LongId[n]),
           NEW c, c = AddNode(b, n)
    PROVE  Added(b, n, c)
  <1> DEFINE kept == RemoveFirst(b.nodes, n)
             older == RemoveFirst(b.replacement, n)
             queue == Append(older, n)
  <1>0. /\ b.lo \in 0..MaxLong /\ b.hi \in 0..MaxLong
        /\ b.nodes \in Seq(Ids) /\ b.replacement \in Seq(Ids)
        /\ Len(b.nodes) \in Nat /\ Len(b.replacement) \in Nat
    BY BucketParts
  <1>1. /\ b.lo <= b.hi
        /\ Len(b.nodes) <= KSize
        /\ Len(b.replacement) <= MaxReplacement
        /\ b.replacement # <<>> => Len(b.nodes) = KSize
        /\ IsInjective(b.nodes)
        /\ IsInjective(b.replacement)
        /\ Range(b.nodes) \cap Range(b.replacement) = {}
        /\ \A x \in Members(b) : x # Local /\ Covers(b, LongId[x])
    BY DEF WellFormed
  <1>c. KSize \in Nat /\ KSize > 0 /\ MaxReplacement \in Nat /\ MaxReplacement > 0
    BY CapFacts
  <1>2. CASE Accepts(b, n)
    <2>1. c = [b EXCEPT !.nodes = Append(kept, n)]
      BY <1>2 DEF AddNode
    <2>2. /\ kept \in Seq(Ids)
          /\ Range(kept) = Range(b.nodes) \ {n}
          /\ IsInjective(kept)
          /\ Len(kept) = IF n \in Range(b.nodes) THEN Len(b.nodes) - 1 ELSE Len(b.nodes)
      BY <1>0, <1>1, RemoveFirstFacts
    <2> HIDE DEF kept
    <2>3. /\ Append(kept, n) \in Seq(Ids)
          /\ Len(Append(kept, n)) = Len(kept) + 1
          /\ Range(Append(kept, n)) = Range(kept) \cup {n}
          /\ IsInjective(Append(kept, n))
      BY <2>2, AppendFacts
    <2> DEFINE nodes == Append(kept, n)
    <2> HIDE DEF nodes
    <2>4. /\ c = [b EXCEPT !.nodes = nodes]
          /\ nodes \in Seq(Ids)
          /\ Range(nodes) = Range(b.nodes) \cup {n}
          /\ IsInjective(nodes)
          /\ Len(nodes) = IF n \in Range(b.nodes) THEN Len(b.nodes) ELSE Len(b.nodes) + 1
      BY <1>0, <2>1, <2>2, <2>3 DEF nodes
    <2>5. /\ c \in Bucket /\ c.lo = b.lo /\ c.hi = b.hi
          /\ c.nodes = nodes /\ c.replacement = b.replacement
      BY <2>4 DEF Bucket
    <2>6. n \in Range(b.nodes) \/ Len(b.nodes) < KSize
      BY <1>2 DEF Accepts
    <2>7. n \notin Range(b.replacement)
      <3>1. CASE n \in Range(b.nodes)
        BY <1>1, <3>1
      <3>2. CASE Len(b.nodes) < KSize
        <4>1. b.replacement = <<>>
          BY <1>0, <1>1, <1>c, <3>2
        <4> QED BY <4>1 DEF Range
      <3> QED BY <2>6, <3>1, <3>2
    <2>8. Members(c) = Members(b) \cup {n}
      BY <2>4, <2>5 DEF Members
    <2>9. WellFormed(c)
      <3>1. Len(c.nodes) <= KSize
        BY <1>0, <1>1, <1>c, <2>4, <2>5, <2>6, SMTT(20)
      <3>2. c.replacement # <<>> => Len(c.nodes) = KSize
        BY <1>0, <1>1, <1>c, <2>4, <2>5, <2>6, SMTT(20)
      <3>3. Range(c.nodes) \cap Range(c.replacement) = {}
        BY <1>1, <2>4, <2>5, <2>7
      <3>4. \A x \in Members(c) : x # Local /\ Covers(c, LongId[x])
        BY <1>1, <2>5, <2>8 DEF Covers
      <3> QED BY <1>1, <2>4, <2>5, <3>1, <3>2, <3>3, <3>4, SMTT(20) DEF WellFormed
    <2>10. n \notin Members(b) =>
             Size(c) = Size(b) + 1
      <3>1. n \notin Members(b) => Len(c.nodes) = Len(b.nodes) + 1
        BY <2>4, <2>5 DEF Members
      <3> QED BY <1>0, <2>5, <3>1, OneMore, Zenon DEF Size
    <2> QED BY <1>2, <2>4, <2>5, <2>8, <2>9, <2>10, Zenon DEF Added
  <1>3. CASE ~Accepts(b, n)
    <2>1. c = [b EXCEPT !.replacement = KeepNewest(queue, MaxReplacement)]
      BY <1>3 DEF AddNode
    <2>2. n \notin Range(b.nodes) /\ Len(b.nodes) = KSize
      BY <1>0, <1>1, <1>3, <1>c, SMTT(20) DEF Accepts
    <2>3. /\ older \in Seq(Ids)
          /\ Range(older) = Range(b.replacement) \ {n}
          /\ IsInjective(older)
          /\ Len(older) = IF n \in Range(b.replacement) THEN Len(b.replacement) - 1
                                                        ELSE Len(b.replacement)
          /\ n \notin Range(b.replacement) => older = b.replacement
      BY <1>0, <1>1, RemoveFirstFacts
    <2> HIDE DEF older
    <2>4. /\ queue \in Seq(Ids)
          /\ Len(queue) = Len(older) + 1
          /\ queue # <<>>
          /\ Range(queue) = Range(older) \cup {n}
          /\ IsInjective(queue)
          /\ queue[Len(older) + 1] = n
      BY <2>3, AppendFacts
    <2>5. older # <<>> => Head(queue) = Head(older)
      BY <2>3, <2>4, AppendProperties, EmptySeq
    <2> HIDE DEF queue
    <2>6. Len(queue) <= MaxReplacement + 1 /\ Last(queue) = n
      BY <1>0, <1>1, <1>c, <2>3, <2>4 DEF Last
    <2> DEFINE repl == KeepNewest(queue, MaxReplacement)
    <2>7. /\ repl \in Seq(Ids)
          /\ IsInjective(repl)
          /\ repl # <<>>
          /\ Len(repl) <= MaxReplacement
          /\ Last(repl) = Last(queue)
          /\ Range(repl) \subseteq Range(queue)
          /\ Len(queue) <= MaxReplacement => repl = queue
          /\ Range(queue) \ Range(repl) \subseteq {Head(queue)}
      BY <2>4, <2>6, KeepNewestFacts
    <2> HIDE DEF repl
    <2>8. c = [b EXCEPT !.replacement = repl]
      BY <2>1 DEF repl
    <2>9. /\ c \in Bucket /\ c.lo = b.lo /\ c.hi = b.hi
          /\ c.nodes = b.nodes /\ c.replacement = repl
      BY <2>7, <2>8, Zenon DEF Bucket
    <2>10. n \in Range(repl)
      BY <2>6, <2>7, EmptySeq, SMTT(20) DEF Last, Range
    <2>11. Members(c) \subseteq Members(b) \cup {n}
      BY <2>3, <2>4, <2>7, <2>9, SMTT(20) DEF Members
    <2>12. WellFormed(c)
      <3>1. Range(c.nodes) \cap Range(c.replacement) = {}
        BY <1>1, <2>2, <2>3, <2>4, <2>7, <2>9, SMTT(20)
      <3>2. \A x \in Members(c) : x # Local /\ Covers(c, LongId[x])
        BY <1>1, <2>9, <2>11 DEF Covers
      <3> QED BY <1>1, <2>2, <2>7, <2>9, <3>1, <3>2, SMTT(20) DEF WellFormed
    <2>13. Members(b) \ Members(c) \subseteq
             (IF Len(b.replacement) = MaxReplacement THEN {Head(b.replacement)} ELSE {})
      <3>1. CASE Len(queue) <= MaxReplacement
        BY <2>3, <2>4, <2>7, <2>9, <3>1, SMTT(20) DEF Members
      <3>2. CASE Len(queue) > MaxReplacement
        <4>1. n \notin Range(b.replacement) /\ Len(b.replacement) = MaxReplacement
          BY <1>0, <1>1, <1>c, <2>3, <2>4, <3>2, SMTT(20)
        <4>2. older = b.replacement /\ older # <<>>
          BY <1>c, <2>3, <4>1, EmptySeq
        <4> QED BY <2>3, <2>4, <2>5, <2>7, <2>9, <4>1, <4>2, SMTT(20) DEF Members
      <3> QED BY <1>c, <2>3, <2>4, <3>1, <3>2, SMTT(20)
    <2>14. ASSUME n \notin Members(b), Len(b.nodes) < KSize \/ Len(b.replacement) < MaxReplacement
           PROVE  /\ Members(c) = Members(b) \cup {n}
                  /\ Size(c) = Size(b) + 1
      <3>1. n \notin Range(b.replacement) /\ Len(b.replacement) < MaxReplacement
        BY <1>0, <1>c, <2>2, <2>14, SMTT(20) DEF Members
      <3>2. Len(queue) <= MaxReplacement
        BY <1>0, <1>c, <2>3, <2>4, <3>1, SMTT(20)
      <3>3. c.replacement = queue
        BY <2>7, <2>9, <3>2
      <3>4. Members(c) = Members(b) \cup {n}
        BY <2>3, <2>4, <2>9, <3>1, <3>3, SMTT(20) DEF Members
      <3>5. Len(c.nodes) = Len(b.nodes) /\ Len(c.replacement) = Len(b.replacement) + 1
        BY <2>3, <2>4, <2>9, <3>1, <3>3, SMTT(20)
      <3> QED BY <1>0, <3>4, <3>5, OneMore, Zenon DEF Size
    <2> QED BY <1>3, <2>2, <2>6, <2>7, <2>9, <2>10, <2>11, <2>12, <2>13, <2>14, Zenon DEF Added
  <1> QED BY <1>2, <1>3, Zenon

\* remove_node keeps a bucket well formed: the place that becomes free is
\* taken by the newest replacement, so that nobody waits behind a free place.
LEMMA RemoveNodeFacts ==
    ASSUME NEW b \in Bucket, WellFormed(b), NEW n \in Ids
    PROVE  /\ RemoveNode(b, n) \in Bucket
           /\ WellFormed(RemoveNode(b, n))
           /\ RemoveNode(b, n).lo = b.lo /\ RemoveNode(b, n).hi = b.hi
           /\ Members(RemoveNode(b, n)) \subseteq Members(b)
  <1> DEFINE c == RemoveNode(b, n)
             nodes == RemoveFirst(b.nodes, n)
             repl == RemoveFirst(b.replacement, n)
  <1>0. /\ b.nodes \in Seq(Ids) /\ b.replacement \in Seq(Ids)
        /\ Len(b.nodes) \in Nat /\ Len(b.replacement) \in Nat
    BY BucketParts
  <1>1. /\ b.lo <= b.hi
        /\ Len(b.nodes) <= KSize
        /\ Len(b.replacement) <= MaxReplacement
        /\ b.replacement # <<>> => Len(b.nodes) = KSize
        /\ IsInjective(b.nodes)
        /\ IsInjective(b.replacement)
        /\ Range(b.nodes) \cap Range(b.replacement) = {}
        /\ \A x \in Members(b) : x # Local /\ Covers(b, LongId[x])
    BY DEF WellFormed
  <1>c. KSize \in Nat /\ KSize > 0 /\ MaxReplacement \in Nat /\ MaxReplacement > 0
    BY CapFacts
  <1>2. /\ nodes \in Seq(Ids)
        /\ Range(nodes) = Range(b.nodes) \ {n}
        /\ IsInjective(nodes)
        /\ Len(nodes) = IF n \in Range(b.nodes) THEN Len(b.nodes) - 1 ELSE Len(b.nodes)
    BY <1>0, <1>1, RemoveFirstFacts
  <1>3. /\ repl \in Seq(Ids)
        /\ Range(repl) = Range(b.replacement) \ {n}
        /\ IsInjective(repl)
        /\ Len(repl) = IF n \in Range(b.replacement) THEN Len(b.replacement) - 1
                                                     ELSE Len(b.replacement)
        /\ n \notin Range(b.replacement) => repl = b.replacement
    BY <1>0, <1>1, RemoveFirstFacts
  <1>4. c = IF n \notin Range(b.nodes)
            THEN [b EXCEPT !.replacement = repl]
            ELSE IF repl = <<>>
            THEN [b EXCEPT !.nodes = nodes, !.replacement = repl]
            ELSE [b EXCEPT !.nodes = Append(nodes, Last(repl)), !.replacement = Front(repl)]
    BY DEF RemoveNode
  <1> HIDE DEF nodes, repl, c
  <1>5. CASE n \notin Range(b.nodes)
    <2>1. /\ c \in Bucket /\ c.lo = b.lo /\ c.hi = b.hi
          /\ c.nodes = b.nodes /\ c.replacement = repl
      BY <1>3, <1>4, <1>5, SMTT(20) DEF Bucket
    <2>2. Members(c) \subseteq Members(b)
      BY <1>3, <2>1 DEF Members
    <2>3. \A x \in Members(c) : x # Local /\ Covers(c, LongId[x])
      BY <1>1, <2>1, <2>2 DEF Covers
    <2>4. Len(c.replacement) <= MaxReplacement
      BY <1>0, <1>1, <1>3, <1>c, <2>1, SMTT(20)
    <2>5. c.replacement # <<>> => Len(c.nodes) = KSize
      <3>1. b.replacement = <<>> => n \notin Range(b.replacement)
        BY DEF Range
      <3> QED BY <1>1, <1>3, <2>1, <3>1
    <2>6. Range(c.nodes) \cap Range(c.replacement) = {}
      BY <1>1, <1>3, <2>1
    <2>w. WellFormed(c)
      BY <1>1, <1>3, <2>1, <2>3, <2>4, <2>5, <2>6, SMTT(20) DEF WellFormed
    <2> QED BY <2>1, <2>2, <2>w, Zenon DEF c
  <1>6. CASE n \in Range(b.nodes) /\ repl = <<>>
    <2>1. /\ c \in Bucket /\ c.lo = b.lo /\ c.hi = b.hi
          /\ c.nodes = nodes /\ c.replacement = repl
      BY <1>2, <1>3, <1>4, <1>6, Zenon DEF Bucket
    <2>2. Members(c) \subseteq Members(b)
      BY <1>2, <1>3, <2>1, SMTT(20) DEF Members
    <2>3. \A x \in Members(c) : x # Local /\ Covers(c, LongId[x])
      BY <1>1, <2>1, <2>2, SMTT(20) DEF Covers
    <2>4. Len(c.replacement) <= MaxReplacement /\ Len(c.nodes) <= KSize
      BY <1>0, <1>1, <1>2, <1>3, <1>c, <2>1, SMTT(20)
    <2>5. Range(c.nodes) \cap Range(c.replacement) = {}
      BY <1>1, <1>2, <1>3, <2>1, SMTT(20)
    <2>w. WellFormed(c)
      BY <1>1, <1>2, <1>3, <1>6, <2>1, <2>3, <2>4, <2>5, SMTT(20) DEF WellFormed
    <2> QED BY <2>1, <2>2, <2>w, Zenon DEF c
  <1>7. CASE n \in Range(b.nodes) /\ repl # <<>>
    <2> DEFINE front == Front(repl)
               more == Append(nodes, Last(repl))
    <2>1. /\ front \in Seq(Ids)
          /\ Len(front) = Len(repl) - 1
          /\ IsInjective(front)
          /\ Last(repl) \in Range(repl)
          /\ Range(front) = Range(repl) \ {Last(repl)}
      BY <1>3, <1>7, FrontLastFacts, SMTT(20)
    <2>2. Last(repl) \in Ids /\ Last(repl) \notin Range(nodes)
      BY <1>1, <1>2, <1>3, <2>1, RangeOfSeq, SMTT(20)
    <2>3. /\ more \in Seq(Ids)
          /\ Len(more) = Len(nodes) + 1
          /\ Range(more) = Range(nodes) \cup {Last(repl)}
          /\ IsInjective(more)
      BY <1>2, <2>2, AppendFacts
    <2> HIDE DEF front, more
    <2>4. c = [b EXCEPT !.nodes = more, !.replacement = front]
      BY <1>4, <1>7 DEF front, more
    <2>5. /\ c \in Bucket /\ c.lo = b.lo /\ c.hi = b.hi
          /\ c.nodes = more /\ c.replacement = front
      BY <2>1, <2>3, <2>4, Zenon DEF Bucket
    <2>6. Members(c) \subseteq Members(b)
      BY <1>2, <1>3, <2>1, <2>3, <2>5, SMTT(20) DEF Members
    <2>7. \A x \in Members(c) : x # Local /\ Covers(c, LongId[x])
      BY <1>1, <2>5, <2>6, SMTT(20) DEF Covers
    <2>8. b.replacement # <<>>
      BY <1>3, <1>7, SMTT(20) DEF Range
    <2>9. Len(c.replacement) <= MaxReplacement
      BY <1>0, <1>1, <1>3, <1>c, <2>1, <2>5, SMTT(20)
    <2>10. Len(c.nodes) = KSize
      BY <1>0, <1>1, <1>2, <1>7, <1>c, <2>3, <2>5, <2>8, SMTT(20)
    <2>11. Range(c.nodes) \cap Range(c.replacement) = {}
      BY <1>1, <1>2, <1>3, <2>1, <2>3, <2>5, SMTT(20)
    <2>w. WellFormed(c)
      BY <1>1, <1>c, <2>1, <2>3, <2>5, <2>7, <2>9, <2>10, <2>11, SMTT(20) DEF WellFormed
    <2> QED BY <2>5, <2>6, <2>w, Zenon DEF c
  <1> QED BY <1>5, <1>6, <1>7

\* An empty bucket of the range lo..hi.
EmptyBucket(b, lo, hi) ==
    /\ b \in Bucket
    /\ WellFormed(b)
    /\ b.lo = lo /\ b.hi = hi
    /\ Members(b) = {}
    /\ Len(b.nodes) = 0 /\ Len(b.replacement) = 0

\* A bucket starts empty and well formed.
LEMMA NewBucketFacts ==
    ASSUME NEW lo \in 0..MaxLong, NEW hi \in 0..MaxLong, lo <= hi
    PROVE  EmptyBucket(NewBucket(lo, hi), lo, hi)
  <1> DEFINE b == NewBucket(lo, hi)
  <1>1. /\ b \in Bucket /\ b.lo = lo /\ b.hi = hi
        /\ b.nodes = <<>> /\ b.replacement = <<>>
    BY DEF NewBucket, Bucket
  <1> HIDE DEF b
  <1>2. \A s : s = <<>> => Len(s) = 0 /\ IsInjective(s) /\ Range(s) = {}
    BY DEF IsInjective, Range
  <1>3. Members(b) = {}
    BY <1>1, <1>2 DEF Members
  <1>4. WellFormed(b)
    BY <1>1, <1>2, <1>3, CapFacts, SMTT(20) DEF WellFormed
  <1> QED BY <1>1, <1>2, <1>3, <1>4, SMTT(20) DEF b, EmptyBucket

-----------------------------------------------------------------------------
(* The list of buckets *)

\* bucket_index_for finds the one bucket that covers a long id.
LEMMA IndexFacts ==
    ASSUME NEW bs \in Seq(Bucket), Partition(bs), NEW l \in 0..MaxLong
    PROVE  /\ IndexIn(bs, l) \in DOMAIN bs
           /\ Covers(bs[IndexIn(bs, l)], l)
           /\ \A i \in DOMAIN bs : Covers(bs[i], l) => i = IndexIn(bs, l)
  <1>1. PICK k \in DOMAIN bs : Covers(bs[k], l)
    BY DEF Partition
  <1>2. ASSUME NEW i \in DOMAIN bs, Covers(bs[i], l) PROVE i = k
    <2>1. /\ i \in Nat /\ k \in Nat /\ MaxLong \in Nat
          /\ bs[i].lo \in 0..MaxLong /\ bs[i].hi \in 0..MaxLong
          /\ bs[k].lo \in 0..MaxLong /\ bs[k].hi \in 0..MaxLong
      BY RoutingConstants, BucketParts, ElementOfSeq DEF RoutingConstants
    <2>2. /\ i < k => bs[i].hi < bs[k].lo
          /\ k < i => bs[k].hi < bs[i].lo
      BY DEF Partition
    <2>3. bs[i].lo <= l /\ l <= bs[i].hi /\ bs[k].lo <= l /\ l <= bs[k].hi
      BY <1>1, <1>2 DEF Covers
    <2>4. ~(i < k)
      BY <2>1, <2>2, <2>3
    <2>5. ~(k < i)
      BY <2>1, <2>2, <2>3
    <2> QED BY <2>1, <2>4, <2>5
  <1>3. {i \in 1..Len(bs) : Covers(bs[i], l)} = {k}
    BY <1>1, <1>2
  <1>4. Min({k}) = k /\ k # 0
    BY DEF Min
  <1>5. SelectInSeq(bs, LAMBDA b : Covers(b, l)) = k
    BY <1>3, <1>4, Zenon DEF SelectInSeq
  <1>6. IndexIn(bs, l) = k
    BY <1>4, <1>5 DEF IndexIn
  <1> QED BY <1>1, <1>2, <1>6

\* The ranges decide where a long id belongs, and nothing else does.
LEMMA SameIndex ==
    ASSUME NEW bs \in Seq(Bucket), NEW cs \in Seq(Bucket), Partition(bs), DOMAIN cs = DOMAIN bs,
           \A i \in DOMAIN bs : cs[i].lo = bs[i].lo /\ cs[i].hi = bs[i].hi
    PROVE  /\ Partition(cs)
           /\ \A l \in 0..MaxLong : IndexIn(cs, l) = IndexIn(bs, l)
  <1>1. \A i \in DOMAIN bs : \A l : Covers(cs[i], l) <=> Covers(bs[i], l)
    BY DEF Covers
  <1>2. Partition(cs)
    BY <1>1 DEF Partition
  <1>3. ASSUME NEW l \in 0..MaxLong PROVE IndexIn(cs, l) = IndexIn(bs, l)
    <2>1. IndexIn(cs, l) \in DOMAIN cs /\ Covers(cs[IndexIn(cs, l)], l)
      BY <1>2, IndexFacts
    <2>2. \A i \in DOMAIN bs : Covers(bs[i], l) => i = IndexIn(bs, l)
      BY IndexFacts
    <2> QED BY <1>1, <2>1, <2>2
  <1> QED BY <1>2, <1>3

\* What the invariant says of a list of buckets.
TableOK(bs) ==
    /\ bs \in Seq(Bucket)
    /\ bs # <<>>
    /\ Partition(bs)
    /\ \A i \in DOMAIN bs : WellFormed(bs[i])

\* cs is bs with bucket c in place k.
Updated(bs, k, c, cs) ==
    /\ TableOK(cs)
    /\ \A l \in 0..MaxLong : IndexIn(cs, l) = IndexIn(bs, l)
    /\ DOMAIN cs = DOMAIN bs
    /\ cs[k] = c
    /\ \A i \in DOMAIN bs : i # k => cs[i] = bs[i]

\* Changing what one bucket holds, and not its range.
LEMMA UpdateBucket ==
    ASSUME NEW bs, TableOK(bs), NEW k \in DOMAIN bs, NEW c \in Bucket, WellFormed(c),
           c.lo = bs[k].lo, c.hi = bs[k].hi,
           NEW cs, cs = [bs EXCEPT ![k] = c]
    PROVE  Updated(bs, k, c, cs)
  <1>0. /\ bs \in Seq(Bucket) /\ bs # <<>> /\ Partition(bs)
        /\ \A i \in DOMAIN bs : WellFormed(bs[i])
    BY DEF TableOK
  <1>1. /\ DOMAIN cs = DOMAIN bs /\ cs[k] = c
        /\ \A i \in DOMAIN bs : i # k => cs[i] = bs[i]
    BY <1>0
  <1>2. cs \in Seq(Bucket) /\ Len(cs) = Len(bs)
    BY <1>0, ExceptSeq
  <1>3. cs # <<>>
    BY <1>0, <1>2, EmptySeq
  <1>4. \A i \in DOMAIN bs : cs[i].lo = bs[i].lo /\ cs[i].hi = bs[i].hi
    BY <1>1
  <1>5. Partition(cs) /\ \A l \in 0..MaxLong : IndexIn(cs, l) = IndexIn(bs, l)
    BY <1>0, <1>1, <1>2, <1>4, SameIndex, Zenon
  <1>6. \A i \in DOMAIN cs : WellFormed(cs[i])
    BY <1>0, <1>1
  <1> QED BY <1>1, <1>2, <1>3, <1>5, <1>6, Zenon DEF Updated, TableOK

\* cs is bs with l and h in the place of its k-th bucket.
HalvesAt(cs, bs, k, l, h) ==
    /\ cs \in Seq(Bucket)
    /\ Len(cs) = Len(bs) + 1
    /\ \A j \in 1..(k - 1) : cs[j] = bs[j]
    /\ cs[k] = l
    /\ cs[k + 1] = h
    /\ \A j \in (k + 2)..(Len(bs) + 1) : cs[j] = bs[j - 1]

\* split_bucket puts two entries in the place of one: what is where afterwards.
LEMMA HalvesFacts ==
    ASSUME NEW bs \in Seq(Bucket), NEW k \in 1..Len(bs), NEW l \in Bucket, NEW h \in Bucket
    PROVE  HalvesAt(ReplaceByHalves(bs, k, l, h), bs, k, l, h)
  <1> DEFINE a == SubSeq(bs, 1, k - 1)
             m == <<l, h>>
             z == SubSeq(bs, k + 1, Len(bs))
             am == a \o m
             cs == ReplaceByHalves(bs, k, l, h)
  <1>0. Len(bs) \in Nat
    OBVIOUS
  <1>1. /\ a \in Seq(Bucket)
        /\ Len(a) = k - 1
        /\ \A j \in 1..(k - 1) : a[j] = bs[j]
    <2>1. \A j \in 1..(k - 1) : bs[j] \in Bucket
      BY ElementOfSeq
    <2> QED BY <2>1, SubSeqProperties
  <1>2. /\ z \in Seq(Bucket)
        /\ Len(z) = Len(bs) - k
        /\ \A j \in 1..(Len(bs) - k) : z[j] = bs[k + j]
    <2>1. \A j \in (k + 1)..Len(bs) : bs[j] \in Bucket
      BY ElementOfSeq
    <2>2. /\ z \in Seq(Bucket)
          /\ Len(z) = IF k + 1 <= Len(bs) THEN Len(bs) - (k + 1) + 1 ELSE 0
          /\ \A j \in 1..(Len(bs) - (k + 1) + 1) : z[j] = bs[(k + 1) + j - 1]
      BY <2>1, SubSeqProperties
    <2> QED BY <2>2
  <1>3. m \in Seq(Bucket) /\ Len(m) = 2 /\ m[1] = l /\ m[2] = h
    OBVIOUS
  <1>4. cs = am \o z
    BY DEF ReplaceByHalves
  <1> HIDE DEF a, m, z
  <1>5. /\ am \in Seq(Bucket)
        /\ Len(am) = Len(a) + Len(m)
        /\ \A j \in 1..(Len(a) + Len(m)) : am[j] = IF j <= Len(a) THEN a[j] ELSE m[j - Len(a)]
    BY <1>1, <1>3, ConcatProperties, Zenon
  <1>6. /\ Len(am) = k + 1
        /\ \A j \in 1..(k - 1) : am[j] = bs[j]
        /\ am[k] = l
        /\ am[k + 1] = h
    <2>1. Len(am) = k + 1
      BY <1>1, <1>3, <1>5
    <2>2. \A j \in 1..(k - 1) : am[j] = bs[j]
      BY <1>1, <1>3, <1>5
    <2>3. am[k] = m[1]
      BY <1>1, <1>3, <1>5
    <2>4. am[k + 1] = m[2]
      BY <1>1, <1>3, <1>5
    <2> QED BY <1>3, <2>1, <2>2, <2>3, <2>4, SMTT(20)
  <1> HIDE DEF am, cs
  <1>7. /\ cs \in Seq(Bucket)
        /\ Len(cs) = Len(am) + Len(z)
        /\ \A j \in 1..(Len(am) + Len(z)) : cs[j] = IF j <= Len(am) THEN am[j] ELSE z[j - Len(am)]
    <2>1. /\ am \o z \in Seq(Bucket)
          /\ Len(am \o z) = Len(am) + Len(z)
          /\ \A j \in 1..(Len(am) + Len(z)) :
                (am \o z)[j] = IF j <= Len(am) THEN am[j] ELSE z[j - Len(am)]
      <3>1. am \in Seq(Bucket) /\ z \in Seq(Bucket)
        BY <1>2, <1>5
      <3> QED BY <3>1, ConcatProperties
    <2> QED BY <1>4, <2>1, Zenon
  <1>8. Len(cs) = Len(bs) + 1
    BY <1>0, <1>2, <1>6, <1>7
  <1>9. ASSUME NEW j \in 1..(k + 1) PROVE cs[j] = am[j]
    <2>1. j \in 1..(Len(am) + Len(z)) /\ j <= Len(am)
      BY <1>0, <1>2, <1>6
    <2> QED BY <1>7, <2>1
  <1>10. ASSUME NEW j \in (k + 2)..(Len(bs) + 1) PROVE cs[j] = bs[j - 1]
    <2>1. cs[j] = z[j - (k + 1)]
      <3>1. j \in 1..(Len(am) + Len(z)) /\ ~(j <= Len(am)) /\ Len(am) = k + 1
        BY <1>0, <1>2, <1>6
      <3> QED BY <1>7, <3>1
    <2>2. j - (k + 1) \in 1..(Len(bs) - k) /\ k + (j - (k + 1)) = j - 1
      BY <1>0
    <2> QED BY <1>2, <2>1, <2>2, SMTT(20)
  <1>11. /\ \A j \in 1..(k - 1) : cs[j] = bs[j]
         /\ cs[k] = l
         /\ cs[k + 1] = h
    BY <1>6, <1>9
  <1> QED BY <1>7, <1>8, <1>10, <1>11, Zenon DEF cs, HalvesAt

\* Two halves of a bucket's range keep the id space divided.
LEMMA HalvesPartition ==
    ASSUME NEW bs \in Seq(Bucket), Partition(bs), NEW k \in DOMAIN bs,
           NEW l \in Bucket, NEW h \in Bucket,
           l.lo = bs[k].lo, h.hi = bs[k].hi, h.lo = l.hi + 1, l.lo <= l.hi, h.lo <= h.hi
    PROVE  Partition(ReplaceByHalves(bs, k, l, h))
  <1> DEFINE cs == ReplaceByHalves(bs, k, l, h)
             from(j) == IF j <= k THEN j ELSE j - 1
  <1>0. Len(bs) \in Nat /\ DOMAIN bs = 1..Len(bs) /\ MaxLong \in Nat
    BY RoutingConstants DEF RoutingConstants
  <1>1. /\ cs \in Seq(Bucket)
        /\ Len(cs) = Len(bs) + 1
        /\ \A j \in 1..(k - 1) : cs[j] = bs[j]
        /\ cs[k] = l
        /\ cs[k + 1] = h
        /\ \A j \in (k + 2)..(Len(bs) + 1) : cs[j] = bs[j - 1]
    <2>1. k \in 1..Len(bs)
      BY <1>0
    <2>2. HalvesAt(cs, bs, k, l, h)
      BY <2>1, HalvesFacts, Zenon
    <2> QED BY <2>2, Zenon DEF HalvesAt
  <1> HIDE DEF cs
  <1>2. DOMAIN cs = 1..(Len(bs) + 1)
    BY <1>1
  <1>3. /\ \A i \in DOMAIN bs : bs[i].lo \in 0..MaxLong /\ bs[i].hi \in 0..MaxLong
        /\ l.lo \in 0..MaxLong /\ l.hi \in 0..MaxLong
        /\ h.lo \in 0..MaxLong /\ h.hi \in 0..MaxLong
    <2>1. \A i \in DOMAIN bs : bs[i] \in Bucket
      BY <1>0, ElementOfSeq
    <2> QED BY <2>1, BucketParts
  <1>4. ASSUME NEW j \in DOMAIN cs
        PROVE  /\ from(j) \in DOMAIN bs
               /\ bs[from(j)].lo <= cs[j].lo
               /\ cs[j].hi <= bs[from(j)].hi
               /\ cs[j].lo \in 0..MaxLong /\ cs[j].hi \in 0..MaxLong
    <2>1. CASE j < k
      <3>1. from(j) = j /\ j \in 1..(k - 1) /\ j \in DOMAIN bs
        BY <1>0, <1>2, <2>1
      <3>2. cs[j] = bs[j]
        BY <1>1, <3>1
      <3>3. cs[j].lo \in 0..MaxLong /\ cs[j].hi \in 0..MaxLong
        BY <1>3, <3>1, <3>2, Zenon
      <3>4. cs[j].lo <= cs[j].lo /\ cs[j].hi <= cs[j].hi
        BY <1>0, <3>3
      <3> QED BY <3>1, <3>2, <3>3, <3>4, Zenon
    <2>2. CASE j = k
      <3>1. from(j) = k /\ cs[j] = l
        BY <1>0, <1>1, <2>2
      <3> QED BY <1>0, <1>3, <3>1
    <2>3. CASE j = k + 1
      <3>1. from(j) = k /\ cs[j] = h
        BY <1>0, <1>1, <2>3
      <3> QED BY <1>0, <1>3, <3>1
    <2>4. CASE j > k + 1
      <3>1. from(j) = j - 1 /\ j - 1 \in DOMAIN bs /\ j \in (k + 2)..(Len(bs) + 1)
        BY <1>0, <1>2, <2>4
      <3>2. cs[j] = bs[j - 1]
        BY <1>1, <3>1
      <3>3. from(j) \in DOMAIN bs /\ bs[from(j)] = cs[j]
        BY <3>1, <3>2, Zenon
      <3>4. cs[j].lo \in 0..MaxLong /\ cs[j].hi \in 0..MaxLong
        BY <1>3, <3>3, Zenon
      <3>5. cs[j].lo <= cs[j].lo /\ cs[j].hi <= cs[j].hi
        BY <1>0, <3>4
      <3> QED BY <3>3, <3>4, <3>5, Zenon
    <2>5. j < k \/ j = k \/ j = k + 1 \/ j > k + 1
      BY <1>0, <1>2
    <2> QED BY <2>1, <2>2, <2>3, <2>4, <2>5, Zenon
  <1>5. ASSUME NEW i \in DOMAIN cs, NEW j \in DOMAIN cs, i < j
        PROVE  cs[i].hi < cs[j].lo
    <2>1. CASE i = k /\ j = k + 1
      BY <1>1, <1>3, <2>1
    <2>2. CASE ~(i = k /\ j = k + 1)
      <3>1. from(i) < from(j)
        BY <1>0, <1>2, <1>5, <2>2
      <3>2. from(i) \in DOMAIN bs /\ from(j) \in DOMAIN bs
        BY <1>4
      <3>3. bs[from(i)].hi < bs[from(j)].lo
        BY <3>1, <3>2 DEF Partition
      <3> QED BY <1>3, <1>4, <3>2, <3>3, SMTT(20)
    <2> QED BY <2>1, <2>2
  <1>6. ASSUME NEW x \in 0..MaxLong
        PROVE  \E j \in DOMAIN cs : Covers(cs[j], x)
    <2>1. PICK i \in DOMAIN bs : Covers(bs[i], x)
      BY DEF Partition
    <2>2. CASE i < k
      <3>1. i \in 1..(k - 1) /\ i \in DOMAIN cs
        BY <1>0, <1>2, <2>2
      <3> QED BY <1>1, <2>1, <3>1, Zenon
    <2>3. CASE i = k
      <3>1. Covers(l, x) \/ Covers(h, x)
        BY <1>0, <1>3, <2>1, <2>3 DEF Covers
      <3>2. k \in DOMAIN cs /\ k + 1 \in DOMAIN cs
        BY <1>0, <1>2
      <3> QED BY <1>1, <3>1, <3>2
    <2>4. CASE i > k
      <3>1. i + 1 \in (k + 2)..(Len(bs) + 1) /\ i + 1 \in DOMAIN cs /\ (i + 1) - 1 = i
        BY <1>0, <1>2, <2>4
      <3>2. cs[i + 1] = bs[i]
        BY <1>1, <3>1
      <3> QED BY <2>1, <3>1, <3>2
    <2> QED BY <1>0, <2>2, <2>3, <2>4
  <1> QED BY <1>5, <1>6, Zenon DEF Partition, cs

\* split_bucket keeps the table in order when the halves are well formed.
LEMMA HalvesTable ==
    ASSUME NEW bs, TableOK(bs), NEW k \in DOMAIN bs,
           NEW l \in Bucket, NEW h \in Bucket, WellFormed(l), WellFormed(h),
           l.lo = bs[k].lo, h.hi = bs[k].hi, h.lo = l.hi + 1
    PROVE  TableOK(ReplaceByHalves(bs, k, l, h))
  <1> DEFINE cs == ReplaceByHalves(bs, k, l, h)
  <1>0. /\ bs \in Seq(Bucket) /\ Partition(bs) /\ Len(bs) \in Nat /\ k \in 1..Len(bs)
        /\ \A i \in DOMAIN bs : WellFormed(bs[i])
    BY DEF TableOK
  <1>1. l.lo <= l.hi /\ h.lo <= h.hi
    BY DEF WellFormed
  <1>2. Partition(cs)
    BY <1>0, <1>1, HalvesPartition
  <1>3. HalvesAt(cs, bs, k, l, h)
    BY <1>0, HalvesFacts, Zenon
  <1> HIDE DEF cs
  <1>4. cs \in Seq(Bucket) /\ Len(cs) = Len(bs) + 1 /\ DOMAIN cs = 1..(Len(bs) + 1) /\ cs # <<>>
    BY <1>0, <1>3, EmptySeq DEF HalvesAt
  <1>5. ASSUME NEW j \in DOMAIN cs PROVE WellFormed(cs[j])
    <2>1. CASE j \in 1..(k - 1)
      BY <1>0, <1>3, <2>1 DEF HalvesAt
    <2>2. CASE j = k \/ j = k + 1
      BY <1>3, <2>2 DEF HalvesAt
    <2>3. CASE j \in (k + 2)..(Len(bs) + 1)
      <3>1. cs[j] = bs[j - 1]
        BY <1>3, <2>3 DEF HalvesAt
      <3>2. j - 1 \in DOMAIN bs
        BY <1>0, <2>3
      <3> QED BY <1>0, <3>1, <3>2
    <2> QED BY <1>0, <1>4, <2>1, <2>2, <2>3, SMTT(20)
  <1> QED BY <1>2, <1>4, <1>5 DEF TableOK, cs

-----------------------------------------------------------------------------
(* KBucket::split *)

\* A range of at least two ids is cut into two that are not empty.
LEMMA MidFacts ==
    ASSUME NEW b \in Bucket, b.lo < b.hi
    PROVE  /\ Mid(b) \in 0..MaxLong /\ b.lo <= Mid(b) /\ Mid(b) < b.hi
           /\ HighStart(b) = Mid(b) + 1 /\ HighStart(b) \in 0..MaxLong
  <1>1. b.lo \in Nat /\ b.hi \in Nat /\ b.hi <= MaxLong /\ MaxLong \in Nat
    BY BucketParts, RoutingConstants DEF RoutingConstants
  <1>2. \A x, y \in Nat : x < y => /\ x + (y - x) \div 2 \in Nat
                                   /\ x <= x + (y - x) \div 2
                                   /\ x + (y - x) \div 2 < y
    OBVIOUS
  <1>3. Mid(b) \in Nat /\ b.lo <= Mid(b) /\ Mid(b) < b.hi
    BY <1>1, <1>2 DEF Mid
  <1>4. \A x, m \in Nat : x < m => (x + 1) % (m + 1) = x + 1
    OBVIOUS
  <1>5. Mid(b) < MaxLong
    BY <1>1, <1>3
  <1>6. HighStart(b) = Mid(b) + 1
    BY <1>1, <1>3, <1>4, <1>5 DEF HighStart
  <1> QED BY <1>1, <1>3, <1>5, <1>6

\* The working state of a split.
SplitUp(b, l, h, r) ==
    l \in Bucket /\ h \in Bucket /\ r \in Seq(Ids) /\ Divided(b, l, h, r)

\* The state in which a split begins.
LEMMA DividedAtFirst ==
    ASSUME NEW b \in Bucket, WellFormed(b), b.lo < b.hi,
           NEW l, l = NewBucket(b.lo, Mid(b)), NEW h, h = NewBucket(HighStart(b), b.hi),
           NEW r, r = SplitOrder(b)
    PROVE  SplitUp(b, l, h, r)
  <1>1. /\ b.lo \in 0..MaxLong /\ b.hi \in 0..MaxLong
        /\ b.nodes \in Seq(Ids) /\ b.replacement \in Seq(Ids)
        /\ Len(b.nodes) \in Nat /\ Len(b.replacement) \in Nat
    BY BucketParts
  <1>2. /\ Mid(b) \in 0..MaxLong /\ b.lo <= Mid(b) /\ Mid(b) < b.hi
        /\ HighStart(b) = Mid(b) + 1 /\ HighStart(b) \in 0..MaxLong /\ HighStart(b) <= b.hi
    BY <1>1, MidFacts
  <1>3. /\ l \in Bucket /\ WellFormed(l) /\ Members(l) = {} /\ l.lo = b.lo /\ l.hi = Mid(b)
        /\ Len(l.nodes) = 0 /\ Len(l.replacement) = 0
    <2>1. EmptyBucket(l, b.lo, Mid(b))
      BY <1>1, <1>2, NewBucketFacts, Zenon
    <2> QED BY <2>1, Zenon DEF EmptyBucket
  <1>4. /\ h \in Bucket /\ WellFormed(h) /\ Members(h) = {}
        /\ h.lo = Mid(b) + 1 /\ h.hi = b.hi
        /\ Len(h.nodes) = 0 /\ Len(h.replacement) = 0
    <2>1. EmptyBucket(h, HighStart(b), b.hi)
      BY <1>1, <1>2, NewBucketFacts, Zenon
    <2> QED BY <1>2, <2>1, Zenon DEF EmptyBucket
  <1>5. /\ r \in Seq(Ids)
        /\ Len(r) = Len(b.nodes) + Len(b.replacement)
        /\ IsInjective(r)
        /\ Range(r) = Range(b.nodes) \cup Range(b.replacement)
        /\ \A i \in 1..Len(b.nodes) : r[i] = b.nodes[i]
    <2>1. IsInjective(b.nodes) /\ IsInjective(b.replacement)
      BY Zenon DEF WellFormed
    <2>2. Range(b.nodes) \cap Range(b.replacement) = {}
      BY DEF WellFormed
    <2>3. r = b.nodes \o b.replacement
      BY DEF SplitOrder
    <2>4. Chained(r, b.nodes, b.replacement, Ids)
      BY <1>1, <2>1, <2>2, <2>3, ChainFacts, Zenon
    <2> QED BY <2>4, Zenon DEF Chained
  <1>6. Len(r) - Len(b.replacement) = Len(b.nodes)
    BY <1>1, <1>5
  <1>7. ASSUME NEW n \in Range(b.nodes)
        PROVE  \E i \in 1..(Len(r) - Len(b.replacement)) : n = r[i]
    <2>1. PICK i \in 1..Len(b.nodes) : n = b.nodes[i]
      BY <1>1 DEF Range
    <2>2. n = r[i]
      BY <1>5, <2>1, Zenon
    <2> QED BY <1>6, <2>1, <2>2, Zenon
  <1>8. Members(l) \cup Members(h) \cup Range(r) = Members(b)
    <2>1. Members(b) = Range(r)
      BY <1>5, Zenon DEF Members
    <2>2. Members(l) = {} /\ Members(h) = {}
      BY <1>3, <1>4, Zenon
    <2> QED BY <2>1, <2>2
  <1>9. Size(l) + Size(h) + Len(r) = Size(b)
    <2>1. Size(l) = 0 + 0 /\ Size(h) = 0 + 0
      BY <1>3, <1>4, Zenon DEF Size
    <2>2. Size(b) = Len(r)
      BY <1>5, Zenon DEF Size
    <2>3. r \in Seq(Ids)
      BY <1>5, Zenon
    <2>4. Len(r) \in Nat
      BY <2>3
    <2> QED BY <2>1, <2>2, <2>4
  <1> QED BY <1>3, <1>4, <1>5, <1>7, <1>8, <1>9, Zenon DEF SplitUp, Divided, Shared

\* How many contacts a bucket holds.
LEMMA SizeFacts ==
    ASSUME NEW b \in Bucket
    PROVE  Len(b.nodes) \in Nat /\ Len(b.replacement) \in Nat /\ Size(b) \in Nat
  BY DEF Bucket, Size

\* A part of (pn, pr) entries is not full while y others wait, if with
\* them and x more it is no more than (bn, br), which fits the caps k and m.
HasRoom(bn, br, pn, pr, x, y, k, m) ==
    (pn + pr) + x + y = bn + br /\ y # 0 /\ bn <= k /\ br <= m
    => (pn < k \/ pr < m) /\ (y > br => pn < k)

\* By counting.
LEMMA RoomFacts == \A bn, br, pn, pr, x, y, k, m \in Nat : HasRoom(bn, br, pn, pr, x, y, k, m)
  BY DEF HasRoom

\* A half takes one more contact: it has room, because both halves and the
\* contacts that wait are together no more than the bucket that is split.
LEMMA HalfTakesOne ==
    ASSUME NEW b \in Bucket, WellFormed(b), NEW p \in Bucket, WellFormed(p), NEW r \in Seq(Ids),
           NEW other \in Nat, Size(p) + other + Len(r) = Size(b), r # <<>>
    PROVE  /\ Len(p.nodes) < KSize \/ Len(p.replacement) < MaxReplacement
           /\ Len(r) > Len(b.replacement) => Len(p.nodes) < KSize
  <1>1. /\ Len(b.nodes) \in Nat /\ Len(b.replacement) \in Nat
        /\ Len(p.nodes) \in Nat /\ Len(p.replacement) \in Nat /\ Len(r) \in Nat /\ Len(r) # 0
    BY BucketParts, EmptySeq
  <1>2. /\ Len(b.nodes) <= KSize /\ Len(b.replacement) <= MaxReplacement
        /\ KSize \in Nat /\ MaxReplacement \in Nat
    BY CapFacts DEF WellFormed
  <1>3. HasRoom(Len(b.nodes), Len(b.replacement), Len(p.nodes), Len(p.replacement),
                other, Len(r), KSize, MaxReplacement)
    BY <1>1, <1>2, RoomFacts, Zenon
  <1> QED BY <1>1, <1>2, <1>3, Zenon DEF HasRoom, Size

\* One contact goes from those that wait to a half.
OneLess(x, y, z, s) == z # 0 /\ x + y + z = s => (x + 1) + y + (z - 1) = s

\* By counting.
LEMMA OneLessFacts == \A x, y, z, s \in Nat : OneLess(x, y, z, s)
  BY DEF OneLess

\* p has become c by taking a contact from those that wait, who are t now.
HandedOut(b, p, q, c, t) ==
    /\ c \in Bucket /\ WellFormed(c) /\ c.lo = p.lo /\ c.hi = p.hi
    /\ t \in Seq(Ids)
    /\ Shared(b, c, q, t)

\* Handing out one contact: what holds of the half that takes it.  `q' is the
\* other half.
LEMMA HandOut ==
    ASSUME NEW b \in Bucket, WellFormed(b), NEW r \in Seq(Ids), r # <<>>,
           NEW p \in Bucket, WellFormed(p), NEW q \in Bucket, WellFormed(q), Shared(b, p, q, r),
           Head(r) # Local, Covers(p, LongId[Head(r)]),
           NEW c, c = AddNode(p, Head(r)), NEW t, t = Tail(r)
    PROVE  HandedOut(b, p, q, c, t)
  <1> DEFINE e == Head(r)
  <1>0. /\ Len(b.replacement) \in Nat /\ Size(b) \in Nat /\ Size(p) \in Nat /\ Size(q) \in Nat
        /\ Len(r) \in Nat /\ Len(r) # 0
    BY SizeFacts, EmptySeq
  <1>s. /\ IsInjective(r)
        /\ Members(p) \cap Range(r) = {}
        /\ Members(q) \cap Range(r) = {}
        /\ Members(p) \cup Members(q) \cup Range(r) = Members(b)
        /\ Size(p) + Size(q) + Len(r) = Size(b)
        /\ \A n \in Range(b.nodes) :
              \/ n \in Range(p.nodes) \cup Range(q.nodes)
              \/ \E i \in 1..(Len(r) - Len(b.replacement)) : n = r[i]
    BY Zenon DEF Shared
  <1>1. /\ e \in Ids /\ e = r[1]
        /\ t \in Seq(Ids)
        /\ Len(t) = Len(r) - 1
        /\ \A i \in 1..(Len(r) - 1) : t[i] = r[i + 1]
        /\ IsInjective(t)
        /\ e \in Range(r)
        /\ Range(t) = Range(r) \ {e}
    BY <1>s, HeadTailFacts
  <1>2. Added(p, e, c)
    BY <1>1, AddNodeFacts, Zenon
  <1>3. /\ Len(p.nodes) < KSize \/ Len(p.replacement) < MaxReplacement
        /\ Len(r) > Len(b.replacement) => Len(p.nodes) < KSize
    BY <1>0, <1>s, HalfTakesOne, Zenon
  <1> HIDE DEF e
  <1>4. e \notin Members(p)
    BY <1>1, <1>s, Zenon
  <1>5. /\ c \in Bucket /\ WellFormed(c) /\ c.lo = p.lo /\ c.hi = p.hi
        /\ Members(c) = Members(p) \cup {e}
        /\ Size(c) = Size(p) + 1
    BY <1>2, <1>3, <1>4, Zenon DEF Added
  <1>6. /\ Range(p.nodes) \subseteq Range(c.nodes)
        /\ Len(p.nodes) < KSize => e \in Range(c.nodes)
    BY <1>2, Zenon DEF Added, Accepts
  <1>7. /\ Members(c) \cap Range(t) = {}
        /\ Members(q) \cap Range(t) = {}
        /\ Members(c) \cup Members(q) \cup Range(t) = Members(b)
    <2>1. PICK mp, mq, rr :
            /\ mp = Members(p) /\ mq = Members(q) /\ rr = Range(r)
            /\ mp \cap rr = {} /\ mq \cap rr = {} /\ mp \cup mq \cup rr = Members(b) /\ e \in rr
      BY <1>1, <1>s, Zenon
    <2>2. Members(c) = mp \cup {e} /\ Range(t) = rr \ {e}
      BY <1>1, <1>5, <2>1, Zenon
    <2>3. (mp \cup {e}) \cap (rr \ {e}) = {} /\ mq \cap (rr \ {e}) = {}
      BY <2>1
    <2>4. (mp \cup {e}) \cup mq \cup (rr \ {e}) = mp \cup mq \cup rr
      BY <2>1
    <2> QED BY <2>1, <2>2, <2>3, <2>4, Zenon
  <1>8. Size(c) + Size(q) + Len(t) = Size(b)
    <2>1. OneLess(Size(p), Size(q), Len(r), Size(b))
      BY <1>0, OneLessFacts, Zenon
    <2> QED BY <1>0, <1>1, <1>5, <1>s, <2>1, Zenon DEF OneLess
  <1>9. ASSUME NEW n \in Range(b.nodes), n \notin Range(c.nodes) \cup Range(q.nodes)
        PROVE  \E i \in 1..(Len(t) - Len(b.replacement)) : n = t[i]
    <2>1. n \notin Range(p.nodes) \cup Range(q.nodes)
      BY <1>6, <1>9, SMTT(20)
    <2>2. PICK i \in 1..(Len(r) - Len(b.replacement)) : n = r[i]
      BY <1>s, <2>1
    <2>3. Len(r) > Len(b.replacement)
      BY <1>0, <2>2, SMTT(20)
    <2>4. i # 1
      BY <1>1, <1>3, <1>6, <1>9, <2>2, <2>3, SMTT(20)
    <2>5. /\ i - 1 \in 1..(Len(t) - Len(b.replacement)) /\ i - 1 \in 1..(Len(r) - 1)
          /\ (i - 1) + 1 = i
      <3>1. PICK u, v \in Nat : u = Len(r) /\ v = Len(b.replacement)
        BY <1>0, Zenon
      <3>2. i \in 1..(u - v) /\ i # 1 /\ Len(t) = u - 1
        BY <1>1, <2>2, <2>4, <3>1, Zenon
      <3>3. i - 1 \in 1..((u - 1) - v) /\ i - 1 \in 1..(u - 1) /\ (i - 1) + 1 = i
        BY <3>2
      <3> QED BY <3>1, <3>2, <3>3, Zenon
    <2>6. n = t[i - 1]
      BY <1>1, <2>2, <2>5
    <2> QED BY <2>5, <2>6
  <1> QED BY <1>1, <1>5, <1>7, <1>8, <1>9, Zenon DEF HandedOut, Shared

\* The two halves play the same part.
LEMMA SharedSymmetric ==
    ASSUME NEW b \in Bucket, NEW p \in Bucket, NEW q \in Bucket, NEW r \in Seq(Ids),
           Shared(b, p, q, r)
    PROVE  Shared(b, q, p, r)
  <1>1. Size(q) + Size(p) + Len(r) = Size(b)
    <2>1. Size(p) \in Nat /\ Size(q) \in Nat
      BY SizeFacts
    <2>2. \A x, y \in Nat : x + y = y + x
      OBVIOUS
    <2> QED BY <2>1, <2>2, Zenon DEF Shared
  <1>2. /\ Members(q) \cup Members(p) \cup Range(r) = Members(b)
        /\ \A n : n \in Range(p.nodes) \cup Range(q.nodes) => n \in Range(q.nodes) \cup Range(p.nodes)
    BY DEF Shared
  <1> QED BY <1>1, <1>2, Zenon DEF Shared
=============================================================================
