-------------------------- MODULE StableSortProofs --------------------------
(***************************************************************************)
(* SortByTime returns a permutation that is sorted and stable.  The ranks  *)
(* of the positions of s are an injection from 1 .. Len(s) to itself, hence *)
(* onto, so that the CHOOSE of SortByTime always has something to choose.  *)
(***************************************************************************)
EXTENDS StableSort, TLAPS, FiniteSetTheorems, SequenceTheorems

\* What the events of a buffer need to be sorted: a time.
Timed(S) == \A e \in S : e.time \in Nat

\* The positions that come no later than i in the sorted sequence; their number
\* is the place of i (the comparison of std::stable_sort with sortByTime).
Behind(s, i) == {j \in DOMAIN s : NotAfter(s, j, i)}

\* The order that sortByTime and stability impose on the positions is total.
LEMMA NotAfterTotal ==
  ASSUME NEW S, Timed(S), NEW s \in Seq(S),
         NEW i \in DOMAIN s, NEW j \in DOMAIN s
  PROVE  /\ NotAfter(s, i, j) \/ NotAfter(s, j, i)
         /\ NotAfter(s, i, j) /\ NotAfter(s, j, i) => i = j
         /\ \A k \in DOMAIN s :
              NotAfter(s, k, i) /\ NotAfter(s, i, j) => NotAfter(s, k, j)
<1>1. \A k \in DOMAIN s : s[k].time \in Nat /\ k \in Nat
  BY DEF Timed
<1> QED
  BY <1>1 DEF NotAfter

\* A position has a finite number of predecessors, itself among them.
LEMMA BehindFinite ==
  ASSUME NEW S, Timed(S), NEW s \in Seq(S), NEW i \in DOMAIN s
  PROVE  /\ IsFiniteSet(Behind(s, i))
         /\ Rank(s, i) = Cardinality(Behind(s, i))
         /\ Rank(s, i) \in 1 .. Len(s)
<1>1. DOMAIN s = 1 .. Len(s) /\ Len(s) \in Nat
  OBVIOUS
<1>2. IsFiniteSet(1 .. Len(s)) /\ Cardinality(1 .. Len(s)) = Len(s)
  <2>1. Len(s) >= 1
    BY <1>1
  <2> QED
    BY <1>1, <2>1, FS_Interval
<1>3. Behind(s, i) \in SUBSET (1 .. Len(s))
  BY <1>1 DEF Behind
<1>4. IsFiniteSet(Behind(s, i)) /\ Cardinality(Behind(s, i)) <= Len(s)
  BY <1>2, <1>3, FS_Subset
<1>5. i \in Behind(s, i)
  BY NotAfterTotal DEF Behind
<1>6. Cardinality(Behind(s, i)) \in Nat /\ Cardinality(Behind(s, i)) # 0
  BY <1>4, <1>5, FS_EmptySet, FS_CardinalityType
<1> QED
  BY <1>1, <1>4, <1>6 DEF Rank, Behind

\* A position that comes no later has no larger rank.
LEMMA RankMonotonic ==
  ASSUME NEW S, Timed(S), NEW s \in Seq(S),
         NEW i \in DOMAIN s, NEW j \in DOMAIN s, NotAfter(s, i, j)
  PROVE  Rank(s, i) <= Rank(s, j)
<1>1. Behind(s, i) \in SUBSET Behind(s, j)
  BY NotAfterTotal DEF Behind
<1> QED
  BY <1>1, BehindFinite, FS_Subset

\* Different positions have different ranks.
LEMMA RankInjective ==
  ASSUME NEW S, Timed(S), NEW s \in Seq(S),
         NEW i \in DOMAIN s, NEW j \in DOMAIN s, Rank(s, i) = Rank(s, j)
  PROVE  i = j
<1>1. ASSUME NEW k \in DOMAIN s, NEW l \in DOMAIN s,
             NotAfter(s, k, l), Rank(s, k) = Rank(s, l)
      PROVE  k = l
  <2>1. Behind(s, k) \in SUBSET Behind(s, l)
    BY <1>1, NotAfterTotal DEF Behind
  <2>2. Behind(s, l) = Behind(s, k)
    BY <1>1, <2>1, BehindFinite, FS_Subset
  <2>3. l \in Behind(s, l)
    BY NotAfterTotal DEF Behind
  <2>4. NotAfter(s, l, k)
    BY <2>2, <2>3 DEF Behind
  <2> QED
    BY <1>1, <2>4, NotAfterTotal
<1>2. NotAfter(s, i, j) \/ NotAfter(s, j, i)
  BY NotAfterTotal
<1> QED
  BY <1>1, <1>2

\* Every place is the rank of a position.
LEMMA RankOnto ==
  ASSUME NEW S, Timed(S), NEW s \in Seq(S), NEW k \in 1 .. Len(s)
  PROVE  \E i \in 1 .. Len(s) : Rank(s, i) = k
<1> DEFINE D == 1 .. Len(s)
           f == [i \in D |-> Rank(s, i)]
<1>1. DOMAIN s = D /\ Len(s) \in Nat
  OBVIOUS
<1>2. IsFiniteSet(D)
  BY <1>1, FS_Interval
<1>3. f \in [D -> D]
  BY <1>1, BehindFinite
<1>4. \A i, j \in D : f[i] = f[j] => i = j
  BY <1>1, RankInjective
<1>5. f \in Injection(D, D)
  BY <1>3, <1>4, Zenon DEF Injection, IsInjective
<1>6. f \in Surjection(D, D)
  BY <1>2, <1>5, FS_Injection
<1>7. \E i \in D : f[i] = k
  BY <1>6 DEF Surjection
<1> QED
  BY <1>7

\* The position that SortByTime takes the event of place k from.
From(s, k) == CHOOSE i \in 1 .. Len(s) : Rank(s, i) = k

\* stable_sort returns as many events, each of them one of the events given.
THEOREM SortIsSequence ==
  ASSUME NEW S, Timed(S), NEW s \in Seq(S)
  PROVE  /\ SortByTime(s) \in Seq(S)
         /\ Len(SortByTime(s)) = Len(s)
         /\ \A k \in 1 .. Len(s) :
              /\ From(s, k) \in 1 .. Len(s)
              /\ Rank(s, From(s, k)) = k
              /\ SortByTime(s)[k] = s[From(s, k)]
<1>1. \A k \in 1 .. Len(s) :
        From(s, k) \in 1 .. Len(s) /\ Rank(s, From(s, k)) = k
  BY RankOnto DEF From
<1>2. SortByTime(s) = [k \in 1 .. Len(s) |-> s[From(s, k)]]
  BY DEF SortByTime, From
<1>3. \A k \in 1 .. Len(s) : s[From(s, k)] \in S
  BY <1>1
<1>4. SortByTime(s) \in [1 .. Len(s) -> S]
  BY <1>2, <1>3
<1>5. Len(s) \in Nat
  OBVIOUS
<1>6. SortByTime(s) \in Seq(S) /\ Len(SortByTime(s)) = Len(s)
  BY <1>4, <1>5, SeqDef
<1> QED
  BY <1>1, <1>2, <1>6

\* stable_sort loses no event: every event given is at one of the places.
THEOREM SortKeepsAll ==
  ASSUME NEW S, Timed(S), NEW s \in Seq(S), NEW i \in 1 .. Len(s)
  PROVE  \E k \in 1 .. Len(s) : SortByTime(s)[k] = s[i]
<1>1. PICK k \in 1 .. Len(s) : k = Rank(s, i)
  BY BehindFinite
<1>2. From(s, k) \in DOMAIN s /\ Rank(s, From(s, k)) = Rank(s, i)
  <2>1. DOMAIN s = 1 .. Len(s)
    OBVIOUS
  <2> QED
    BY <1>1, <2>1, SortIsSequence
<1>3. From(s, k) = i
  BY <1>2, RankInjective
<1> QED
  BY <1>3, SortIsSequence

\* stable_sort returns the events in the order of their times.
THEOREM SortIsSorted ==
  ASSUME NEW S, Timed(S), NEW s \in Seq(S),
         NEW k \in 1 .. Len(s), NEW l \in 1 .. Len(s), k <= l
  PROVE  SortByTime(s)[k].time <= SortByTime(s)[l].time
<1> DEFINE i == From(s, k)
           j == From(s, l)
<1>1. i \in DOMAIN s /\ j \in DOMAIN s /\ Rank(s, i) = k /\ Rank(s, j) = l
  <2>1. DOMAIN s = 1 .. Len(s)
    OBVIOUS
  <2> QED
    BY <2>1, SortIsSequence
<1>2. s[i].time \in Nat /\ s[j].time \in Nat
  BY <1>1 DEF Timed
<1>3. CASE NotAfter(s, i, j)
  <2>1. s[i].time <= s[j].time
    BY ONLY <1>2, <1>3 DEF NotAfter
  <2>2. SortByTime(s)[k] = s[i] /\ SortByTime(s)[l] = s[j]
    BY SortIsSequence
  <2> QED
    BY ONLY <2>1, <2>2
<1>4. CASE NotAfter(s, j, i)
  <2>1. Rank(s, j) <= Rank(s, i)
    BY <1>1, <1>4, RankMonotonic
  <2>2. i = j
    BY <1>1, <2>1, RankInjective
  <2> QED
    BY <1>2, <2>2, SortIsSequence
<1> QED
  BY <1>1, <1>3, <1>4, NotAfterTotal

\* stable_sort keeps events of the same time in the order they had.
THEOREM SortIsStable ==
  ASSUME NEW S, Timed(S), NEW s \in Seq(S),
         NEW k \in 1 .. Len(s), NEW l \in 1 .. Len(s), k < l,
         SortByTime(s)[k].time = SortByTime(s)[l].time
  PROVE  From(s, k) < From(s, l)
<1> DEFINE i == From(s, k)
           j == From(s, l)
<1>1. i \in DOMAIN s /\ j \in DOMAIN s /\ Rank(s, i) = k /\ Rank(s, j) = l
  <2>1. DOMAIN s = 1 .. Len(s)
    OBVIOUS
  <2> QED
    BY <2>1, SortIsSequence
<1>2. s[i].time = s[j].time /\ s[i].time \in Nat
  BY <1>1, SortIsSequence DEF Timed
<1>3. CASE j <= i
  <2>1. NotAfter(s, j, i)
    BY <1>2, <1>3 DEF NotAfter
  <2>2. Rank(s, j) <= Rank(s, i)
    BY <1>1, <2>1, RankMonotonic
  <2> QED
    BY <1>1, <2>2
<1> QED
  BY <1>1, <1>3
=============================================================================
