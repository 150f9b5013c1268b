----------------------------- MODULE StableSort -----------------------------
(***************************************************************************)
(* std::stable_sort with sortByTime, as flushEventBuffer uses it           *)
(* (src/app/perfunwind.cpp), on sequences of records with a field time.    *)
(***************************************************************************)
EXTENDS Integers, Sequences, FiniteSets

\* Faulty: an unstable sort, which may put equal times in the other order.
NotAfterUnstable(s, i, j) ==
  s[i].time < s[j].time \/ (s[i].time = s[j].time /\ i >= j)

(***************************************************************************)
(* The event at position i of s goes to the place Rank(s, i), behind those *)
(* that are earlier, or as old and before it in s.                         *)
(***************************************************************************)
NotAfter(s, i, j) ==
  s[i].time < s[j].time \/ (s[i].time = s[j].time /\ i <= j)

Rank(s, i) == Cardinality({j \in DOMAIN s : NotAfter(s, j, i)})

SortByTime(s) ==
  [k \in 1 .. Len(s) |-> s[CHOOSE i \in 1 .. Len(s) : Rank(s, i) = k]]
=============================================================================
