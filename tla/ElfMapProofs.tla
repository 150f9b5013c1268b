---------------------------- MODULE ElfMapProofs ----------------------------
(***************************************************************************)
(* Theorems about PerfElfMap for all mappings and addresses: its mappings  *)
(* stay disjoint, the assertions of registerElf hold, findElf finds what   *)
(* covers an address, and the map implements an address space.             *)
(***************************************************************************)
EXTENDS ElfMap, TLAPS

-----------------------------------------------------------------------------
(***************************************************************************)
(* The inductive invariant.  While registerElf runs, its range has grown   *)
(* over parts of the same file in the same place, which are to be removed; *)
(* what it visited and keeps lies below the range, what it removes is      *)
(* covered by the range and the fragments, and every fragment shows what   *)
(* the removed mapping showed.                                             *)
(***************************************************************************)
Visited == elfs \ todo

\* The range starts at the arguments and grows at the same distance of addresses
\* and offsets.
RangeGrows ==
  /\ addr <= mmap.addr /\ mmap.addr + mmap.len <= addrEnd
  /\ addr - pgoff = mmap.addr - mmap.pgoff

\* The loop goes upwards.
VisitsInOrder ==
  /\ todo \subseteq elfs
  /\ removedElfs \subseteq Visited
  /\ \A v \in Visited, t \in todo : End(v) <= t.addr

KeptAreBelow == \A v \in Visited \ removedElfs : End(v) <= addr

RemovedReachRange == \A r \in removedElfs : End(r) > addr

RemovedAreCovered ==
  \A r \in removedElfs : \A a \in Nat :
    Covers(r, a) => \/ addr <= a /\ a < addrEnd
                    \/ \E n \in newElfs : Covers(n, a)

\* n is a part of r.
PartOf(n, r) ==
  /\ r.addr <= n.addr /\ End(n) <= End(r) /\ n.path = r.path
  /\ n.addr - n.pgoff = r.addr - r.pgoff

FragmentsAreParts ==
  \A n \in newElfs :
    /\ n.length > 0
    /\ End(n) <= addr \/ addrEnd <= n.addr
    /\ \E r \in removedElfs : PartOf(n, r)

ExtensionIsKnown ==
  \A a \in Nat :
    addr <= a /\ a < addrEnd =>
      \/ mmap.addr <= a /\ a < mmap.addr + mmap.len
      \/ \E r \in removedElfs :
           Covers(r, a) /\ r.path = mmap.path /\ r.addr - r.pgoff = addr - pgoff

LoopInv ==
  active => /\ RangeGrows /\ VisitsInOrder /\ KeptAreBelow
            /\ RemovedReachRange /\ RemovedAreCovered
            /\ FragmentsAreParts /\ Disjoint(newElfs) /\ ExtensionIsKnown

\* A module begins at or below the mapping it was reported for.
ModulesBeginBelow ==
  \A e \in elfs \cup newElfs : e.dwflStart <= e.addr

Inv == TypeOK /\ MappingsDisjoint /\ LoopInv /\ ModulesBeginBelow

-----------------------------------------------------------------------------
\* The parameters are what their names say (ElfMapAssumption).
LEMMA MmapType ==
  ASSUME NEW m \in Mmaps
  PROVE  /\ m.addr \in Nat /\ m.len \in Nat /\ m.len > 0 /\ m.pgoff \in Nat
         /\ m.addr + m.len <= AddrMax
         /\ m.path \in Paths /\ m.file \in BOOLEAN
<1>1. m \in [addr : Nat, len : Nat \ {0}, pgoff : Nat,
            path : STRING \ {""}, file : BOOLEAN]
  BY ElfMapAssumption
<1>2. m.addr + m.len <= AddrMax
  BY ElfMapAssumption
<1>3. m.path \in Paths
  BY DEF Paths
<1>4. /\ m.addr \in Nat /\ m.pgoff \in Nat /\ m.file \in BOOLEAN
      /\ m.len \in Nat \ {0}
  BY <1>1
<1>5. m.len > 0
  BY <1>4
<1> QED
  BY <1>2, <1>3, <1>4, <1>5

LEMMA ElfType ==
  ASSUME NEW e \in ElfInfo
  PROVE  /\ e.addr \in Nat /\ e.length \in Nat /\ e.pgoff \in Nat
         /\ e.path \in Paths /\ e.file \in BOOLEAN
         /\ e.baseAddr \in Nat \cup {NoBase}
         /\ e.dwflStart \in Nat /\ e.dwflEnd \in Nat
         /\ End(e) \in Nat /\ End(e) = e.addr + e.length
BY DEF ElfInfo, End

\* The constructor of ElfInfo.
LEMMA NewElfType ==
  ASSUME NEW path \in Paths, NEW file \in BOOLEAN, NEW start \in Nat,
         NEW end \in Nat, start < end, NEW offset \in Nat
  PROVE  LET n == NewElf(path, file, start, end, offset)
         IN  /\ n \in ElfInfo
             /\ n.addr = start /\ End(n) = end /\ n.pgoff = offset
             /\ n.length > 0 /\ n.path = path /\ n.dwflStart = 0
BY DEF NewElf, ElfInfo, NoBase, End

\* What remains of a mapping on both sides of a range shows what it showed there,
\* and together with the range covers it.
LEMMA FragmentsLemma ==
  ASSUME NEW i \in ElfInfo, NEW start \in Nat, NEW end \in Nat,
         start < end, i.addr < end, start <= End(i)
  PROVE  /\ \A n \in Fragments(i, start, end) :
              /\ n \in ElfInfo /\ n.length > 0 /\ PartOf(n, i)
              /\ End(n) <= start \/ end <= n.addr
              /\ n.dwflStart <= n.addr
         /\ Disjoint(Fragments(i, start, end))
         /\ \A a \in Nat :
              Covers(i, a) => \/ start <= a /\ a < end
                              \/ \E n \in Fragments(i, start, end) : Covers(n, a)
<1> DEFINE left  == NewElf(i.path, i.file, i.addr, start, i.pgoff)
           right == NewElf(i.path, i.file, end, End(i), i.pgoff + end - i.addr)
<1>1. /\ i.addr \in Nat /\ i.pgoff \in Nat /\ i.path \in Paths
      /\ i.file \in BOOLEAN /\ End(i) \in Nat
  BY ElfType
<1>2. i.pgoff + end - i.addr \in Nat
  BY <1>1
<1>3. ASSUME i.addr < start
      PROVE  /\ left \in ElfInfo /\ left.addr = i.addr /\ End(left) = start
             /\ left.pgoff = i.pgoff /\ left.length > 0
             /\ left.path = i.path /\ left.dwflStart = 0
  BY <1>1, <1>3, NewElfType
<1>4. ASSUME End(i) > end
      PROVE  /\ right \in ElfInfo /\ right.addr = end /\ End(right) = End(i)
             /\ right.pgoff = i.pgoff + end - i.addr /\ right.length > 0
             /\ right.path = i.path /\ right.dwflStart = 0
  BY <1>1, <1>2, <1>4, NewElfType
<1>5. \A n : n \in Fragments(i, start, end) <=>
               \/ i.addr < start /\ n = left
               \/ End(i) > end /\ n = right
  BY DEF Fragments
<1> HIDE DEF left, right
<1>6. ASSUME NEW n \in Fragments(i, start, end)
      PROVE  /\ n \in ElfInfo /\ n.length > 0 /\ PartOf(n, i)
             /\ End(n) <= start \/ end <= n.addr
             /\ n.dwflStart <= n.addr
  <2>1. CASE i.addr < start /\ n = left
    BY <1>1, <1>3, <2>1 DEF PartOf
  <2>2. CASE End(i) > end /\ n = right
    BY <1>1, <1>4, <2>2 DEF PartOf
  <2> QED
    BY <1>5, <2>1, <2>2
<1>7. Disjoint(Fragments(i, start, end))
  <2>1. ASSUME i.addr < start, End(i) > end
        PROVE  Apart(left, right) /\ Apart(right, left)
    BY <1>3, <1>4, <2>1 DEF Apart
  <2> QED
    BY <1>5, <1>6, <2>1 DEF Disjoint
<1>8. ASSUME NEW a \in Nat, Covers(i, a)
      PROVE  \/ start <= a /\ a < end
             \/ \E n \in Fragments(i, start, end) : Covers(n, a)
  <2>1. CASE a < start
    <3>1. i.addr < start /\ Covers(left, a)
      BY <1>1, <1>3, <1>8, <2>1 DEF Covers
    <3> QED
      BY <1>5, <3>1
  <2>2. CASE a >= end
    <3>1. End(i) > end /\ Covers(right, a)
      BY <1>1, <1>4, <1>8, <2>2 DEF Covers
    <3> QED
      BY <1>5, <3>1
  <2> QED
    BY <2>1, <2>2
<1> QED
  BY <1>6, <1>7, <1>8

\* Two sets of mappings that lie apart can be joined.
LEMMA DisjointUnion ==
  ASSUME NEW E, NEW F, Disjoint(E), Disjoint(F),
         \A e \in E, f \in F : Apart(e, f)
  PROVE  Disjoint(E \cup F)
BY DEF Disjoint, Apart

-----------------------------------------------------------------------------
LEMMA InitInv == Init => Inv
<1> SUFFICES ASSUME Init PROVE Inv
  OBVIOUS
<1>1. TypeOK
  BY DEF Init, TypeOK, InvalidBase
<1>2. MappingsDisjoint /\ LoopInv /\ ModulesBeginBelow
  BY DEF Init, MappingsDisjoint, Disjoint, LoopInv, ModulesBeginBelow
<1> QED
  BY <1>1, <1>2 DEF Inv

\* A call starts with a range that nothing has grown.
LEMMA RegisterInv ==
  ASSUME Inv, NEW m \in Mmaps, registerElf(m)
  PROVE  Inv'
<1> USE DEF Inv
<1>1. /\ m.addr \in Nat /\ m.len \in Nat /\ m.len > 0 /\ m.pgoff \in Nat
  BY MmapType
<1>2. TypeOK'
  <2>1. m.addr + m.len \in Nat
    BY <1>1
  <2>2. /\ elfs \subseteq ElfInfo
        /\ lastBase \in [path : Paths \cup {""}, addr : Nat]
        /\ latest \in Mmaps \cup {NoMapping}
    BY DEF TypeOK
  <2>3. /\ elfs' = elfs /\ lastBase' = lastBase /\ latest' = latest
        /\ active' = TRUE /\ mmap' = m
        /\ addr' = m.addr /\ addrEnd' = m.addr + m.len /\ pgoff' = m.pgoff
        /\ todo' = elfs /\ newElfs' = {} /\ removedElfs' = {}
    BY DEF registerElf
  <2> QED
    BY <1>1, <2>1, <2>2, <2>3 DEF TypeOK
<1>3. RangeGrows' /\ KeptAreBelow' /\ RemovedReachRange' /\ RemovedAreCovered'
  BY <1>1 DEF registerElf, RangeGrows, KeptAreBelow, Visited, RemovedReachRange,
              RemovedAreCovered
<1>4. VisitsInOrder' /\ FragmentsAreParts' /\ Disjoint(newElfs)'
  BY DEF registerElf, VisitsInOrder, Visited, FragmentsAreParts, Disjoint
<1>5. ExtensionIsKnown'
  BY DEF registerElf, ExtensionIsKnown
<1>6. MappingsDisjoint' /\ ModulesBeginBelow'
  BY DEF registerElf, MappingsDisjoint, ModulesBeginBelow
<1> QED
  BY <1>2, <1>3, <1>4, <1>5, <1>6 DEF LoopInv

-----------------------------------------------------------------------------
\* What the loop knows about the mapping it visits: nothing visited reaches it.
LEMMA VisitFacts ==
  ASSUME Inv, NEW i \in todo, Visits(i)
  PROVE  /\ RangeGrows /\ VisitsInOrder /\ KeptAreBelow /\ RemovedReachRange
         /\ RemovedAreCovered /\ FragmentsAreParts /\ Disjoint(newElfs)
         /\ ExtensionIsKnown
         /\ i \in ElfInfo /\ i \in elfs /\ i.length > 0 /\ i.addr < addrEnd
         /\ \A v \in Visited : v \in ElfInfo /\ End(v) <= i.addr
         /\ \A t \in todo \ {i} : t \in ElfInfo /\ End(i) <= t.addr
         /\ Visited \cup {i} = elfs \ (todo \ {i})
         /\ addr \in Nat /\ addrEnd \in Nat /\ pgoff \in Nat /\ addr < addrEnd
         /\ mmap \in Mmaps
<1>1. /\ RangeGrows /\ VisitsInOrder /\ KeptAreBelow /\ RemovedReachRange
      /\ RemovedAreCovered /\ FragmentsAreParts /\ Disjoint(newElfs)
      /\ ExtensionIsKnown
  BY DEF Visits, Inv, LoopInv
<1>2. /\ i \in elfs /\ i \in ElfInfo /\ i.addr < addrEnd /\ mmap \in Mmaps
      /\ addr \in Nat /\ addrEnd \in Nat /\ pgoff \in Nat
      /\ todo \subseteq elfs /\ elfs \subseteq ElfInfo
  BY <1>1 DEF Visits, Inv, TypeOK, VisitsInOrder
<1>3. i.length > 0
  BY <1>2 DEF Inv, MappingsDisjoint, Disjoint
<1>4. \A v \in Visited : v \in ElfInfo /\ End(v) <= i.addr
  BY <1>1, <1>2 DEF VisitsInOrder, Visited
<1>5. ASSUME NEW t \in todo \ {i}
      PROVE  t \in ElfInfo /\ End(i) <= t.addr
  <2>1. t \in ElfInfo /\ t \in elfs /\ t # i /\ i.addr <= t.addr /\ t.length > 0
    BY <1>2 DEF Visits, Inv, MappingsDisjoint, Disjoint
  <2>2. Apart(i, t)
    BY <1>2, <2>1 DEF Inv, MappingsDisjoint, Disjoint
  <2>3. /\ i.addr \in Nat /\ t.addr \in Nat /\ t.length \in Nat
        /\ End(t) = t.addr + t.length
    BY <1>2, <2>1, ElfType
  <2> QED
    BY <2>1, <2>2, <2>3 DEF Apart
<1>6. Visited \cup {i} = elfs \ (todo \ {i})
  BY <1>2 DEF Visited
<1>7. addr < addrEnd
  BY <1>1, <1>2, MmapType DEF RangeGrows
<1> QED
  BY <1>1, <1>2, <1>3, <1>4, <1>5, <1>6, <1>7

\* A mapping below the range stays as it is.
LEMMA IgnoreInv ==
  ASSUME Inv, NEW i \in todo, Ignore(i)
  PROVE  Inv'
<1>1. Visits(i) /\ End(i) <= addr
  <2>1. Visits(i) /\ (End(i) < addr \/ End(i) = addr)
    BY DEF Ignore
  <2>2. i \in ElfInfo /\ addr \in Nat
    BY <2>1, VisitFacts
  <2> QED
    BY <2>1, <2>2, ElfType
<1>2. /\ todo' = todo \ {i}
      /\ UNCHANGED <<elfs, lastBase, active, mmap, addr, addrEnd, pgoff, newElfs,
                     removedElfs, latest>>
  BY DEF Ignore, range
<1>3. Visited' = Visited \cup {i}
  BY <1>1, <1>2, VisitFacts DEF Visited
<1>4. TypeOK' /\ MappingsDisjoint' /\ ModulesBeginBelow'
  BY <1>2 DEF Inv, TypeOK, MappingsDisjoint, ModulesBeginBelow
<1>5. /\ RangeGrows' /\ RemovedReachRange' /\ RemovedAreCovered'
      /\ FragmentsAreParts' /\ Disjoint(newElfs)' /\ ExtensionIsKnown'
  BY <1>1, <1>2, VisitFacts
     DEF RangeGrows, RemovedReachRange, RemovedAreCovered, FragmentsAreParts,
         ExtensionIsKnown
<1>6. VisitsInOrder' /\ KeptAreBelow'
  BY <1>1, <1>2, <1>3, VisitFacts DEF VisitsInOrder, KeptAreBelow
<1> QED
  BY <1>4, <1>5, <1>6 DEF Inv, LoopInv

\* A mapping that contains the new one is all there is.
LEMMA ReturnEarlyInv ==
  ASSUME Inv, NEW i \in todo, ReturnEarly(i)
  PROVE  Inv'
<1>1. /\ active' = FALSE /\ latest' = mmap
      /\ UNCHANGED <<elfs, lastBase, mmap>>
      /\ addr' = 0 /\ addrEnd' = 0 /\ pgoff' = 0
      /\ todo' = {} /\ newElfs' = {} /\ removedElfs' = {}
  BY DEF ReturnEarly, Return
<1>2. TypeOK' /\ MappingsDisjoint' /\ ModulesBeginBelow'
  BY <1>1 DEF Inv, TypeOK, MappingsDisjoint, ModulesBeginBelow
<1> QED
  BY <1>1, <1>2 DEF Inv, LoopInv

-----------------------------------------------------------------------------
\* Facts about the range that a part of the same file extends.
LEMMA ExtensionFacts ==
  ASSUME Inv, NEW i \in todo, Visits(i), End(i) >= addr, SamePlace(i),
         NEW start, start = Smallest(addr, i.addr),
         NEW end, end = Largest(addrEnd, End(i)),
         NEW offset, offset = Smallest(pgoff, i.pgoff)
  PROVE  /\ start \in Nat /\ end \in Nat /\ offset \in Nat
         /\ start <= addr /\ addrEnd <= end
         /\ start <= i.addr /\ End(i) <= end
         /\ start - offset = addr - pgoff
         /\ \A a \in Nat : start <= a /\ a < end =>
              (addr <= a /\ a < addrEnd) \/ Covers(i, a)
         /\ Fragments(i, start, end) = {}
<1>1. /\ addr \in Nat /\ addrEnd \in Nat /\ pgoff \in Nat
      /\ i \in ElfInfo /\ i.addr < addrEnd
  BY VisitFacts
<1>2. i.addr \in Nat /\ i.pgoff \in Nat /\ End(i) \in Nat
  BY <1>1, ElfType
<1>3. addr - pgoff = i.addr - i.pgoff
  BY DEF SamePlace
<1>4. /\ start \in Nat /\ end \in Nat /\ offset \in Nat
      /\ start <= addr /\ addrEnd <= end
      /\ start <= i.addr /\ End(i) <= end
      /\ start - offset = addr - pgoff
  BY <1>1, <1>2, <1>3 DEF Smallest, Largest
<1>5. ASSUME NEW a \in Nat, start <= a, a < end
      PROVE  (addr <= a /\ a < addrEnd) \/ Covers(i, a)
  BY <1>1, <1>2, <1>5 DEF Smallest, Largest, Covers
<1>6. Fragments(i, start, end) = {}
  BY <1>2, <1>4 DEF Fragments
<1> QED
  BY <1>4, <1>5, <1>6

\* A part of the same file grows the range and is removed without a fragment.
LEMMA ExtendInv ==
  ASSUME Inv, NEW i \in todo, Extend(i)
  PROVE  Inv'
<1>1. /\ Visits(i) /\ End(i) >= addr /\ SamePlace(i)
      /\ addr' = Smallest(addr, i.addr) /\ pgoff' = Smallest(pgoff, i.pgoff)
      /\ addrEnd' = Largest(addrEnd, End(i))
      /\ newElfs' = newElfs \cup Fragments(i, addr', addrEnd')
      /\ removedElfs' = removedElfs \cup {i}
      /\ todo' = todo \ {i}
      /\ UNCHANGED <<elfs, lastBase, active, mmap, latest>>
  BY DEF Extend
<1>2. /\ addr' \in Nat /\ addrEnd' \in Nat /\ pgoff' \in Nat
      /\ addr' <= addr /\ addrEnd <= addrEnd'
      /\ addr' <= i.addr /\ End(i) <= addrEnd'
      /\ addr' - pgoff' = addr - pgoff
      /\ newElfs' = newElfs
  BY <1>1, ExtensionFacts
<1>3. \A a \in Nat : addr' <= a /\ a < addrEnd' =>
        (addr <= a /\ a < addrEnd) \/ Covers(i, a)
  BY <1>1, ExtensionFacts
<1>4. Visited' = Visited \cup {i}
  BY <1>1, VisitFacts DEF Visited
<1>5. /\ addr \in Nat /\ addrEnd \in Nat /\ pgoff \in Nat /\ mmap \in Mmaps
      /\ i \in ElfInfo /\ i \in elfs /\ i.length > 0 /\ i.addr < addrEnd
  BY <1>1, VisitFacts
<1>6. /\ i.addr \in Nat /\ i.length \in Nat /\ i.pgoff \in Nat
      /\ End(i) = i.addr + i.length
  BY <1>5, ElfType
<1>7. TypeOK'
  BY <1>1, <1>2, <1>5 DEF Inv, TypeOK
<1>8. MappingsDisjoint' /\ ModulesBeginBelow'
  BY <1>1, <1>2 DEF Inv, MappingsDisjoint, ModulesBeginBelow
<1>9. RangeGrows'
  <2>1. RangeGrows
    BY <1>1, VisitFacts
  <2>2. mmap.addr \in Nat /\ mmap.len \in Nat
    BY <1>5, MmapType
  <2> QED
    BY <1>1, <1>2, <1>5, <2>1, <2>2 DEF RangeGrows
<1>10. VisitsInOrder' /\ KeptAreBelow'
  <2>1. VisitsInOrder' 
    BY <1>1, <1>4, <1>5, VisitFacts DEF VisitsInOrder
  <2>2. ASSUME NEW v \in Visited' \ removedElfs'
        PROVE  End(v) <= addr'
    <3>1. v \in ElfInfo /\ v \in Visited \ removedElfs
      BY <1>1, <1>4, <2>2, VisitFacts
    <3>2. End(v) <= addr /\ End(v) <= i.addr
      BY <1>1, <3>1, VisitFacts DEF KeptAreBelow
    <3> QED
      BY <1>1, <1>5, <1>6, <3>1, <3>2, ElfType DEF Smallest
  <2> QED
    BY <2>1, <2>2 DEF KeptAreBelow
<1>11. RemovedReachRange' /\ RemovedAreCovered'
  <2>1. ASSUME NEW r \in removedElfs'
        PROVE  End(r) > addr'
    <3>1. CASE r = i
      BY <1>2, <1>5, <1>6, <3>1
    <3>2. CASE r \in removedElfs
      <4>1. End(r) > addr /\ End(r) \in Nat
        BY <1>1, <3>2, VisitFacts, ElfType DEF RemovedReachRange, VisitsInOrder
      <4> QED
        BY <1>2, <1>5, <4>1
    <3> QED
      BY <1>1, <3>1, <3>2
  <2>2. ASSUME NEW r \in removedElfs', NEW a \in Nat, Covers(r, a)
        PROVE  (addr' <= a /\ a < addrEnd') \/ \E n \in newElfs' : Covers(n, a)
    <3>1. CASE r = i
      BY <1>2, <1>5, <1>6, <2>2, <3>1 DEF Covers
    <3>2. CASE r \in removedElfs
      <4>1. (addr <= a /\ a < addrEnd) \/ \E n \in newElfs : Covers(n, a)
        BY <1>1, <2>2, <3>2, VisitFacts DEF RemovedAreCovered
      <4> QED
        BY <1>2, <1>5, <4>1
    <3> QED
      BY <1>1, <3>1, <3>2
  <2> QED
    BY <2>1, <2>2 DEF RemovedReachRange, RemovedAreCovered
<1>12. FragmentsAreParts' /\ Disjoint(newElfs)'
  <2>1. ASSUME NEW n \in newElfs
        PROVE  End(n) <= addr' \/ addrEnd' <= n.addr
    <3>1. PICK r \in removedElfs : PartOf(n, r)
      BY <1>1, VisitFacts DEF FragmentsAreParts
    <3>2. r \in ElfInfo /\ n \in ElfInfo /\ End(r) <= i.addr
      BY <1>1, VisitFacts DEF VisitsInOrder, Inv, TypeOK
    <3>3. /\ n.addr \in Nat /\ End(n) = n.addr + n.length /\ n.length \in Nat
          /\ End(r) \in Nat
      BY <3>2, ElfType
    <3>4. End(n) <= i.addr /\ (End(n) <= addr \/ addrEnd <= n.addr)
      BY <1>1, <1>6, <3>1, <3>2, <3>3, VisitFacts DEF PartOf, FragmentsAreParts
    <3> QED
      BY <1>1, <1>5, <1>6, <3>3, <3>4 DEF Smallest
  <2>2. FragmentsAreParts'
    BY <1>1, <1>2, <2>1, VisitFacts DEF FragmentsAreParts
  <2> QED
    BY <1>1, <1>2, <2>2, VisitFacts
<1>13. ExtensionIsKnown'
  <2> SUFFICES ASSUME NEW a \in Nat, addr' <= a, a < addrEnd'
               PROVE  \/ mmap.addr <= a /\ a < mmap.addr + mmap.len
                      \/ \E r \in removedElfs' :
                           /\ Covers(r, a) /\ r.path = mmap.path
                           /\ r.addr - r.pgoff = addr' - pgoff'
    BY <1>1 DEF ExtensionIsKnown
  <2>1. CASE Covers(i, a)
    BY <1>1, <1>2, <2>1 DEF SamePlace
  <2>2. CASE addr <= a /\ a < addrEnd
    <3>1. \/ mmap.addr <= a /\ a < mmap.addr + mmap.len
          \/ \E r \in removedElfs :
               /\ Covers(r, a) /\ r.path = mmap.path
               /\ r.addr - r.pgoff = addr - pgoff
      BY <1>1, <2>2, VisitFacts DEF ExtensionIsKnown
    <3> QED
      BY <1>1, <1>2, <3>1
  <2> QED
    BY <1>3, <2>1, <2>2
<1> QED
  BY <1>7, <1>8, <1>9, <1>10, <1>11, <1>12, <1>13 DEF Inv, LoopInv

\* A mapping that the range overlaps leaves its fragments.
LEMMA OverwriteInv ==
  ASSUME Inv, NEW i \in todo, Overwrite(i)
  PROVE  Inv'
<1> DEFINE F == Fragments(i, addr, addrEnd)
<1>1. /\ Visits(i) /\ End(i) > addr
      /\ newElfs' = newElfs \cup F
      /\ removedElfs' = removedElfs \cup {i}
      /\ todo' = todo \ {i}
      /\ UNCHANGED <<elfs, lastBase, active, mmap, addr, addrEnd, pgoff, latest>>
  BY DEF Overwrite, range
<1>2. Visited' = Visited \cup {i}
  BY <1>1, VisitFacts DEF Visited
<1>3. /\ addr \in Nat /\ addrEnd \in Nat /\ addr < addrEnd
      /\ i \in ElfInfo /\ i \in elfs /\ i.length > 0 /\ i.addr < addrEnd
  BY <1>1, VisitFacts
<1>4. i.addr \in Nat /\ End(i) \in Nat
  BY <1>3, ElfType
<1>4a. addr <= End(i)
  BY <1>1, <1>3, <1>4
<1>5. ASSUME NEW n \in F
      PROVE  /\ n \in ElfInfo /\ n.length > 0 /\ PartOf(n, i)
             /\ End(n) <= addr \/ addrEnd <= n.addr
             /\ n.dwflStart <= n.addr
  BY <1>3, <1>5, <1>4a, FragmentsLemma
<1>5a. /\ Disjoint(F)
       /\ \A a \in Nat : Covers(i, a) => \/ addr <= a /\ a < addrEnd
                                        \/ \E n \in F : Covers(n, a)
  BY <1>3, <1>4a, FragmentsLemma
<1> HIDE DEF F
<1>6. TypeOK'
  <2>1. newElfs' \subseteq ElfInfo /\ removedElfs' \subseteq ElfInfo
    BY <1>1, <1>3, <1>5 DEF Inv, TypeOK
  <2> QED
    BY <1>1, <2>1 DEF Inv, TypeOK
<1>7. MappingsDisjoint' /\ ModulesBeginBelow'
  BY <1>1, <1>5 DEF Inv, MappingsDisjoint, ModulesBeginBelow
<1>8. RangeGrows' /\ ExtensionIsKnown'
  BY <1>1, VisitFacts DEF RangeGrows, ExtensionIsKnown
<1>9. VisitsInOrder' /\ KeptAreBelow'
  BY <1>1, <1>2, <1>3, VisitFacts DEF VisitsInOrder, KeptAreBelow
<1>10. RemovedReachRange'
  BY <1>1, VisitFacts DEF RemovedReachRange
<1>11. RemovedAreCovered'
  <2> SUFFICES ASSUME NEW r \in removedElfs', NEW a \in Nat, Covers(r, a)
               PROVE  \/ addr <= a /\ a < addrEnd
                      \/ \E n \in newElfs' : Covers(n, a)
    BY <1>1 DEF RemovedAreCovered
  <2>1. CASE r = i
    BY <1>1, <1>5a, <2>1
  <2>2. CASE r \in removedElfs
    <3>1. (addr <= a /\ a < addrEnd) \/ \E n \in newElfs : Covers(n, a)
      BY <1>1, <2>2, VisitFacts DEF RemovedAreCovered
    <3> QED
      BY <1>1, <3>1
  <2> QED
    BY <1>1, <2>1, <2>2
<1>12. FragmentsAreParts'
  <2> SUFFICES ASSUME NEW n \in newElfs'
               PROVE  /\ n.length > 0
                      /\ End(n) <= addr \/ addrEnd <= n.addr
                      /\ \E r \in removedElfs' : PartOf(n, r)
    BY <1>1 DEF FragmentsAreParts
  <2>1. CASE n \in newElfs
    BY <1>1, <2>1, VisitFacts DEF FragmentsAreParts
  <2>2. CASE n \in F
    BY <1>1, <1>5, <2>2
  <2> QED
    BY <1>1, <2>1, <2>2
<1>13. Disjoint(newElfs)'
  <2>1. Disjoint(newElfs)
    BY <1>1, VisitFacts
  <2>2. ASSUME NEW n \in newElfs, NEW f \in F
        PROVE  Apart(n, f)
    <3>1. PICK r \in removedElfs : PartOf(n, r)
      BY <1>1, VisitFacts DEF FragmentsAreParts
    <3>2. r \in ElfInfo /\ n \in ElfInfo /\ End(r) <= i.addr
      BY <1>1, VisitFacts DEF VisitsInOrder, Inv, TypeOK
    <3>2a. f \in ElfInfo /\ PartOf(f, i)
      BY <1>5
    <3>3. End(n) <= End(r) /\ i.addr <= f.addr
      BY <3>1, <3>2a DEF PartOf
    <3>4. /\ End(n) \in Nat /\ End(r) \in Nat /\ f.addr \in Nat
      BY <3>2, <3>2a, ElfType
    <3> QED
      BY <1>4, <3>2, <3>3, <3>4 DEF Apart
  <2>3. Disjoint(newElfs \cup F)
    BY <1>5a, <2>1, <2>2, DisjointUnion
  <2> QED
    BY <1>1, <2>3
<1> QED
  BY <1>6, <1>7, <1>8, <1>9, <1>10, <1>11, <1>12, <1>13 DEF Inv, LoopInv

-----------------------------------------------------------------------------
\* What is inserted at the end of the loop, and how it relates to what stays.
Kept == elfs \ removedElfs

LEMMA InsertFacts ==
  ASSUME Inv, Insert
  PROVE  /\ RangeGrows /\ RemovedAreCovered /\ FragmentsAreParts
         /\ ExtensionIsKnown
         /\ removedElfs \subseteq elfs /\ mmap \in Mmaps
         /\ addr \in Nat /\ addrEnd \in Nat /\ pgoff \in Nat
         /\ Registered \in ElfInfo
         /\ Registered.addr = addr /\ End(Registered) = addrEnd
         /\ Registered.pgoff = pgoff /\ Registered.path = mmap.path
         /\ Registered.length > 0 /\ Registered.dwflStart <= Registered.addr
         /\ elfs' = Kept \cup newElfs \cup {Registered}
         /\ Disjoint(elfs')
<1>1. /\ RangeGrows /\ VisitsInOrder /\ KeptAreBelow /\ RemovedAreCovered
      /\ FragmentsAreParts /\ Disjoint(newElfs) /\ ExtensionIsKnown
  BY DEF Insert, Inv, LoopInv
<1>2. /\ addr \in Nat /\ addrEnd \in Nat /\ pgoff \in Nat /\ mmap \in Mmaps
      /\ elfs \subseteq ElfInfo /\ newElfs \subseteq ElfInfo
      /\ lastBase.addr \in Nat
  BY DEF Inv, TypeOK
<1>3. addr < addrEnd /\ mmap.path \in Paths /\ mmap.file \in BOOLEAN
  BY <1>1, <1>2, MmapType DEF RangeGrows
<1>4. /\ Registered \in ElfInfo
      /\ Registered.addr = addr /\ End(Registered) = addrEnd
      /\ Registered.pgoff = pgoff /\ Registered.path = mmap.path
      /\ Registered.length > 0 /\ Registered.dwflStart <= Registered.addr
  <2> DEFINE n == NewElf(mmap.path, mmap.file, addr, addrEnd, pgoff)
             base == IF HasBase THEN lastBase.addr ELSE NoBase
  <2>1. /\ n \in ElfInfo /\ n.addr = addr /\ End(n) = addrEnd /\ n.pgoff = pgoff
        /\ n.length > 0 /\ n.path = mmap.path /\ n.dwflStart = 0
    BY <1>2, <1>3, NewElfType
  <2>2. base \in Nat \cup {NoBase}
    BY <1>2
  <2>3. Registered = [n EXCEPT !.baseAddr = base]
    BY DEF Registered
  <2> HIDE DEF n, base
  <2>4. Registered \in ElfInfo
    BY <2>1, <2>2, <2>3 DEF ElfInfo
  <2>5. /\ Registered.addr = n.addr /\ Registered.length = n.length
        /\ Registered.pgoff = n.pgoff /\ Registered.path = n.path
        /\ Registered.dwflStart = n.dwflStart
    BY <2>1, <2>3 DEF ElfInfo
  <2> QED
    BY <1>2, <2>1, <2>4, <2>5 DEF End
<1>5. elfs' = Kept \cup newElfs \cup {Registered}
  BY DEF Insert, Kept
<1>6. removedElfs \subseteq elfs
  BY <1>1 DEF VisitsInOrder, Visited
<1>7. Disjoint(Kept \cup newElfs)
  <2>1. Disjoint(Kept)
    BY DEF Kept, Inv, MappingsDisjoint, Disjoint
  <2>2. ASSUME NEW k \in Kept, NEW n \in newElfs
        PROVE  Apart(k, n)
    <3>1. PICK r \in removedElfs : PartOf(n, r)
      BY <1>1 DEF FragmentsAreParts
    <3>2. /\ k \in ElfInfo /\ n \in ElfInfo /\ r \in ElfInfo
          /\ Apart(k, r)
      BY <1>2, <1>6 DEF Kept, Inv, MappingsDisjoint, Disjoint
    <3>3. /\ k.addr \in Nat /\ End(k) \in Nat /\ n.addr \in Nat
          /\ End(n) \in Nat /\ r.addr \in Nat /\ End(r) \in Nat
      BY <3>2, ElfType
    <3> QED
      BY <3>1, <3>2, <3>3 DEF Apart, PartOf
  <2> QED
    BY <1>1, <2>1, <2>2, DisjointUnion
<1>8. Disjoint({Registered})
  BY <1>4 DEF Disjoint
<1>9. ASSUME NEW e \in Kept \cup newElfs
      PROVE  Apart(e, Registered)
  <2>1. CASE e \in newElfs
    BY <1>1, <1>4, <2>1 DEF FragmentsAreParts, Apart
  <2>2. CASE e \in todo
    BY <1>4, <2>2 DEF Insert, Apart
  <2>3. CASE e \in Visited \ removedElfs
    BY <1>1, <1>4, <2>3 DEF KeptAreBelow, Apart
  <2> QED
    BY <2>1, <2>2, <2>3 DEF Kept, Visited
<1>10. Disjoint(elfs')
  BY <1>5, <1>7, <1>8, <1>9, DisjointUnion
<1> QED
  BY <1>1, <1>2, <1>4, <1>5, <1>6, <1>10

LEMMA InsertInv ==
  ASSUME Inv, Insert
  PROVE  Inv'
<1>1. /\ active' = FALSE /\ latest' = mmap
      /\ UNCHANGED mmap
      /\ addr' = 0 /\ addrEnd' = 0 /\ pgoff' = 0
      /\ todo' = {} /\ newElfs' = {} /\ removedElfs' = {}
  BY DEF Insert, Return
<1>2. elfs' = Kept \cup newElfs \cup {Registered} /\ Registered \in ElfInfo
  BY InsertFacts
<1>3. lastBase' \in [path : Paths \cup {""}, addr : Nat]
  <2>1. mmap.path \in Paths /\ addr \in Nat
    BY MmapType DEF Inv, TypeOK
  <2> QED
    BY <2>1 DEF Insert, Inv, TypeOK, InvalidBase
<1>4. TypeOK'
  BY <1>1, <1>2, <1>3 DEF Inv, TypeOK, Kept
<1>5. MappingsDisjoint' /\ ModulesBeginBelow'
  BY <1>1, <1>2, InsertFacts DEF Inv, MappingsDisjoint, ModulesBeginBelow, Kept
<1> QED
  BY <1>1, <1>4, <1>5 DEF Inv, LoopInv

\* A module that is reported changes no mapping.
LEMMA UpdateElfFacts ==
  ASSUME Inv, NEW e \in elfs, updateElf(e)
  PROVE  \E u \in ElfInfo :
           /\ elfs' = (elfs \ {e}) \cup {u}
           /\ u.addr = e.addr /\ u.length = e.length /\ u.pgoff = e.pgoff
           /\ u.path = e.path /\ u.dwflStart <= u.addr
<1> DEFINE start == e.addr - e.pgoff
           end == e.addr - e.pgoff + ModuleSize[e.path]
           u == [e EXCEPT !.dwflStart = start, !.dwflEnd = end]
<1>1. e \in ElfInfo /\ e.addr >= e.pgoff
  BY DEF updateElf, Inv, TypeOK
<1>2. e.addr \in Nat /\ e.pgoff \in Nat /\ e.path \in Paths
  BY <1>1, ElfType
<1>3. ModuleSize[e.path] \in Nat
  BY <1>2, ElfMapAssumption
<1>4. start \in Nat /\ end \in Nat /\ start <= e.addr
  BY <1>1, <1>2, <1>3
<1>5. elfs' = (elfs \ {e}) \cup {u}
  BY DEF updateElf
<1> HIDE DEF start, end
<1>6. u \in ElfInfo
  BY <1>1, <1>4 DEF ElfInfo
<1>7. /\ u.addr = e.addr /\ u.length = e.length /\ u.pgoff = e.pgoff
      /\ u.path = e.path /\ u.dwflStart = start
  BY <1>1 DEF ElfInfo
<1> QED
  BY <1>4, <1>5, <1>6, <1>7

LEMMA UpdateElfInv ==
  ASSUME Inv, NEW e \in elfs, updateElf(e)
  PROVE  Inv'
<1>1. PICK u \in ElfInfo :
        /\ elfs' = (elfs \ {e}) \cup {u}
        /\ u.addr = e.addr /\ u.length = e.length /\ u.pgoff = e.pgoff
        /\ u.path = e.path /\ u.dwflStart <= u.addr
  BY UpdateElfFacts
<1>2. /\ ~active /\ active' = active
      /\ UNCHANGED <<lastBase, mmap, addr, addrEnd, pgoff, todo, newElfs,
                     removedElfs, latest>>
  BY DEF updateElf, locals, range
<1>3. TypeOK'
  BY <1>1, <1>2 DEF Inv, TypeOK
<1>4. MappingsDisjoint'
  <2>1. Disjoint(elfs \ {e}) /\ Disjoint({u})
    BY <1>1 DEF Inv, MappingsDisjoint, Disjoint
  <2>2. \A f \in elfs \ {e} : Apart(f, u)
    BY <1>1 DEF Inv, MappingsDisjoint, Disjoint, Apart, End
  <2>3. Disjoint((elfs \ {e}) \cup {u})
    BY <2>1, <2>2, DisjointUnion
  <2> QED
    BY <1>1, <2>3 DEF MappingsDisjoint
<1>5. ModulesBeginBelow'
  BY <1>1, <1>2 DEF Inv, ModulesBeginBelow
<1> QED
  BY <1>2, <1>3, <1>4, <1>5 DEF Inv, LoopInv

LEMMA NextInv == Inv /\ [Next]_vars => Inv'
<1> SUFFICES ASSUME Inv, [Next]_vars PROVE Inv'
  OBVIOUS
<1>1. CASE UNCHANGED vars
  BY <1>1 DEF vars, locals, range, Inv, TypeOK, MappingsDisjoint, LoopInv,
     RangeGrows, VisitsInOrder, Visited, KeptAreBelow, RemovedReachRange,
     RemovedAreCovered, FragmentsAreParts, ExtensionIsKnown, ModulesBeginBelow
<1>2. ASSUME NEW m \in Mmaps, registerElf(m) PROVE Inv'
  BY <1>2, RegisterInv
<1>3. ASSUME NEW i \in todo,
             Ignore(i) \/ ReturnEarly(i) \/ Extend(i) \/ Overwrite(i)
      PROVE  Inv'
  BY <1>3, IgnoreInv, ReturnEarlyInv, ExtendInv, OverwriteInv
<1>4. CASE Insert
  BY <1>4, InsertInv
<1>5. ASSUME NEW e \in elfs, updateElf(e) PROVE Inv'
  BY <1>5, UpdateElfInv
<1> QED
  BY <1>1, <1>2, <1>3, <1>4, <1>5 DEF Next, Step

LEMMA InvHolds == Spec => []Inv
  BY InitInv, NextInv, PTL DEF Spec

-----------------------------------------------------------------------------
(***************************************************************************)
(* The theorems                                                            *)
(***************************************************************************)
\* Every variable keeps its type (TypeOK).
THEOREM ElfMapTypeCorrect == Spec => []TypeOK
<1>1. Inv => TypeOK
  BY DEF Inv
<1> QED
  BY <1>1, InvHolds, PTL

\* No two mappings of m_elfs share an address (registerElf).
THEOREM AlwaysDisjoint == Spec => []MappingsDisjoint
<1>1. Inv => MappingsDisjoint
  BY DEF Inv
<1> QED
  BY <1>1, InvHolds, PTL

\* The assertions before the early return of registerElf hold: what was removed
\* reaches into the range, which lies in i, but ends below i.
LEMMA EarlyReturnLemma == Inv => EarlyReturnOverwritesNothing
<1> SUFFICES ASSUME Inv, NEW i \in todo, Visits(i), End(i) >= addr, SamePlace(i),
                    Contained(i)
             PROVE  newElfs = {} /\ removedElfs = {}
  BY DEF EarlyReturnOverwritesNothing
<1>1. i \in ElfInfo /\ addr \in Nat
  BY VisitFacts
<1>2. i.addr \in Nat /\ i.addr <= addr
  BY <1>1, ElfType DEF Contained, Smallest
<1>3. ASSUME NEW r \in removedElfs PROVE FALSE
  <2>1. r \in ElfInfo /\ End(r) <= i.addr /\ End(r) > addr
    BY VisitFacts DEF VisitsInOrder, RemovedReachRange
  <2>2. End(r) \in Nat
    BY <2>1, ElfType
  <2> QED
    BY <1>1, <1>2, <2>1, <2>2
<1>4. newElfs = {}
  BY <1>3, VisitFacts DEF FragmentsAreParts
<1> QED
  BY <1>3, <1>4

THEOREM AssertionsHold == Spec => []EarlyReturnOverwritesNothing
  BY InvHolds, EarlyReturnLemma, PTL

\* Addresses are numbers.
LEMMA AddressType == ASSUME NEW a \in Addresses PROVE a \in Nat
<1>1. AddrMax \in Nat
  BY ElfMapAssumption
<1> QED
  BY <1>1 DEF Addresses

\* findElf finds what covers an address: as mappings lie apart, no other one
\* begins between the first address of the mapping and this one.
LEMMA FindsLemma == Inv => FindsMapping
<1> SUFFICES ASSUME Inv, NEW e \in elfs, NEW ip \in Addresses, Covers(e, ip),
                    e.dwflStart < e.dwflEnd => ip < e.dwflEnd,
                    NEW i \in elfs
             PROVE  Finds(ip, i) <=> i = e
  BY DEF FindsMapping
<1>1. ip \in Nat
  BY AddressType
<1>2. ASSUME NEW f \in elfs
      PROVE  /\ f \in ElfInfo /\ f.length > 0 /\ f.addr \in Nat /\ f.length \in Nat
             /\ End(f) = f.addr + f.length
             /\ f.dwflStart \in Nat /\ f.dwflEnd \in Nat
             /\ f # e => Apart(f, e)
  BY ElfType DEF Inv, TypeOK, MappingsDisjoint, Disjoint
<1>3. e.addr <= ip /\ ip < End(e) /\ e.dwflStart <= e.addr
  BY DEF Covers, Inv, ModulesBeginBelow
<1>4. ASSUME NEW f \in elfs, f.addr <= ip
      PROVE  f.addr <= e.addr
  BY <1>1, <1>2, <1>3, <1>4 DEF Apart
<1>5. ASSUME NEW f \in elfs, f.addr = e.addr
      PROVE  f = e
  BY <1>2, <1>5 DEF Apart
<1>6. Finds(ip, e)
  BY <1>1, <1>2, <1>3, <1>4 DEF Finds, IsBefore
<1>7. ASSUME Finds(ip, i)
      PROVE  i = e
  <2>1. i.addr <= ip /\ e.addr <= i.addr
    BY <1>3, <1>7 DEF Finds, IsBefore
  <2>2. i.addr = e.addr
    BY <1>2, <1>4, <2>1
  <2> QED
    BY <1>5, <2>2
<1> QED
  BY <1>6, <1>7

THEOREM FindsWhatCovers == Spec => []FindsMapping
  BY InvHolds, FindsLemma, PTL

-----------------------------------------------------------------------------
(***************************************************************************)
(* The refinement of AddressSpace                                          *)
(***************************************************************************)
\* What a set of mappings shows at an address that one of them covers ...
LEMMA ShownAt ==
  ASSUME NEW E, E \subseteq ElfInfo, Disjoint(E), NEW e \in E,
         NEW a \in Addresses, Covers(e, a)
  PROVE  ShownBy(E)[a] = [path |-> e.path, offset |-> a - e.addr + e.pgoff]
<1>1. a \in Nat
  BY AddressType
<1>2. ASSUME NEW f \in E, Covers(f, a)
      PROVE  f = e
  <2>1. /\ f.addr \in Nat /\ End(f) \in Nat
        /\ e.addr \in Nat /\ End(e) \in Nat
    BY ElfType
  <2> QED
    BY <1>1, <1>2, <2>1 DEF Covers, Disjoint, Apart
<1>3. (CHOOSE f \in E : Covers(f, a)) = e
  BY <1>2
<1> QED
  BY <1>3 DEF ShownBy

\* ... and at one that none covers.
LEMMA NothingShownAt ==
  ASSUME NEW E, NEW a \in Addresses, \A e \in E : ~Covers(e, a)
  PROVE  ShownBy(E)[a] = [path |-> "", offset |-> 0]
BY DEF ShownBy

\* Ranges in the same place show the same offset at an address.
LEMMA OffsetIn ==
  ASSUME NEW a \in Int, NEW start \in Int, NEW offset \in Int,
         NEW start2 \in Int, NEW offset2 \in Int, start - offset = start2 - offset2
  PROVE  a - start + offset = a - start2 + offset2
OBVIOUS

\* The address space after a mapping.
After(m, E) ==
  [a \in Addresses |->
     IF m.addr <= a /\ a < m.addr + m.len
     THEN [path |-> m.path, offset |-> a - m.addr + m.pgoff]
     ELSE ShownBy(E)[a]]

LEMMA InsertShows ==
  ASSUME Inv, Insert
  PROVE  ShownBy(elfs') = After(mmap, elfs)
<1>1. /\ elfs \subseteq ElfInfo /\ Disjoint(elfs) /\ elfs' \subseteq ElfInfo
      /\ newElfs \subseteq ElfInfo
  BY InsertInv DEF Inv, TypeOK, MappingsDisjoint
<1>2. /\ Disjoint(elfs') /\ elfs' = Kept \cup newElfs \cup {Registered}
      /\ addr \in Nat /\ addrEnd \in Nat /\ pgoff \in Nat /\ mmap \in Mmaps
  BY InsertFacts
<1>3. mmap.addr \in Nat /\ mmap.len \in Nat /\ mmap.pgoff \in Nat
  BY <1>2, MmapType
<1>4. /\ addr <= mmap.addr /\ mmap.addr + mmap.len <= addrEnd
      /\ addr - pgoff = mmap.addr - mmap.pgoff
  BY InsertFacts DEF RangeGrows
<1> SUFFICES ASSUME NEW a \in Addresses
             PROVE  ShownBy(elfs')[a] = After(mmap, elfs)[a]
  BY DEF ShownBy, After
<1>5. a \in Nat
  BY AddressType
<1>6. CASE addr <= a /\ a < addrEnd
  <2>1. Covers(Registered, a)
    BY <1>6, InsertFacts DEF Covers
  <2>2. ShownBy(elfs')[a] = [path |-> mmap.path, offset |-> a - addr + pgoff]
    BY <1>1, <1>2, <2>1, ShownAt, InsertFacts
  <2>3. a - addr + pgoff = a - mmap.addr + mmap.pgoff
    <3>1. /\ a \in Int /\ addr \in Int /\ pgoff \in Int
          /\ mmap.addr \in Int /\ mmap.pgoff \in Int
      BY <1>2, <1>3, <1>5
    <3>2. addr - pgoff = mmap.addr - mmap.pgoff
      BY <1>4
    <3> QED
      BY <3>1, <3>2, OffsetIn
  <2>4. CASE mmap.addr <= a /\ a < mmap.addr + mmap.len
    BY <2>2, <2>3, <2>4 DEF After
  <2>5. CASE ~(mmap.addr <= a /\ a < mmap.addr + mmap.len)
    <3>1. PICK r \in removedElfs :
            Covers(r, a) /\ r.path = mmap.path /\ r.addr - r.pgoff = addr - pgoff
      BY <1>5, <1>6, <2>5, InsertFacts DEF ExtensionIsKnown
    <3>2. r \in elfs
      BY InsertFacts
    <3>3. ShownBy(elfs)[a] = [path |-> r.path, offset |-> a - r.addr + r.pgoff]
      BY <1>1, <3>1, <3>2, ShownAt
    <3>4. a - r.addr + r.pgoff = a - addr + pgoff
      <4>1. r.addr \in Nat /\ r.pgoff \in Nat
        BY <1>1, <3>2, ElfType
      <4> QED
        BY <1>2, <1>5, <3>1, <4>1
    <3> QED
      BY <2>2, <2>5, <3>1, <3>3, <3>4 DEF After
  <2> QED
    BY <2>4, <2>5
<1>7. CASE ~(addr <= a /\ a < addrEnd)
  <2>1. ~(mmap.addr <= a /\ a < mmap.addr + mmap.len)
    BY <1>2, <1>3, <1>4, <1>5, <1>7
  <2>2. After(mmap, elfs)[a] = ShownBy(elfs)[a]
    BY <2>1 DEF After
  <2>3. CASE \E n \in newElfs : Covers(n, a)
    <3>1. PICK n \in newElfs : Covers(n, a)
      BY <2>3
    <3>2. PICK r \in removedElfs : PartOf(n, r)
      BY InsertFacts DEF FragmentsAreParts
    <3>3. r \in elfs /\ n \in elfs'
      BY <1>2, InsertFacts
    <3>4. /\ n.addr \in Nat /\ n.pgoff \in Nat /\ End(n) \in Nat
          /\ r.addr \in Nat /\ r.pgoff \in Nat /\ End(r) \in Nat
      BY <1>1, <3>3, ElfType
    <3>5. Covers(r, a) /\ a - n.addr + n.pgoff = a - r.addr + r.pgoff
      <4>1. /\ r.addr <= n.addr /\ End(n) <= End(r)
            /\ n.addr - n.pgoff = r.addr - r.pgoff
        BY <3>2, <3>4 DEF PartOf
      <4>2. n.addr <= a /\ a < End(n)
        BY <3>1 DEF Covers
      <4>3. Covers(r, a)
        BY <1>5, <3>4, <4>1, <4>2 DEF Covers
      <4> QED
        BY <1>5, <3>4, <4>1, <4>3, OffsetIn
    <3>6. ShownBy(elfs')[a] = [path |-> n.path, offset |-> a - n.addr + n.pgoff]
      BY <1>1, <1>2, <3>1, <3>3, ShownAt
    <3>7. ShownBy(elfs)[a] = [path |-> r.path, offset |-> a - r.addr + r.pgoff]
      BY <1>1, <3>3, <3>5, ShownAt
    <3> QED
      BY <2>2, <3>2, <3>5, <3>6, <3>7 DEF PartOf
  <2>4. CASE \E k \in Kept : Covers(k, a)
    <3>1. PICK k \in Kept : Covers(k, a)
      BY <2>4
    <3>2. k \in elfs /\ k \in elfs'
      BY <1>2 DEF Kept
    <3>3. ShownBy(elfs')[a] = [path |-> k.path, offset |-> a - k.addr + k.pgoff]
      BY <1>1, <1>2, <3>1, <3>2, ShownAt
    <3>4. ShownBy(elfs)[a] = [path |-> k.path, offset |-> a - k.addr + k.pgoff]
      BY <1>1, <3>1, <3>2, ShownAt
    <3> QED
      BY <2>2, <3>3, <3>4
  <2>5. CASE /\ ~\E n \in newElfs : Covers(n, a)
             /\ ~\E k \in Kept : Covers(k, a)
    <3>1. \A r \in removedElfs : ~Covers(r, a)
      BY <1>5, <1>7, <2>5, InsertFacts DEF RemovedAreCovered
    <3>2. \A e \in elfs : ~Covers(e, a)
      BY <2>5, <3>1 DEF Kept
    <3>3. ~Covers(Registered, a)
      BY <1>7, InsertFacts DEF Covers
    <3>4. \A e \in elfs' : ~Covers(e, a)
      BY <1>2, <2>5, <3>3
    <3> QED
      BY <2>2, <3>2, <3>4, NothingShownAt
  <2> QED
    BY <2>3, <2>4, <2>5
<1> QED
  BY <1>6, <1>7

LEMMA ReturnEarlyShows ==
  ASSUME Inv, NEW i \in todo, ReturnEarly(i)
  PROVE  ShownBy(elfs') = After(mmap, elfs)
<1>1. /\ elfs' = elfs /\ Visits(i) /\ SamePlace(i) /\ Contained(i)
      /\ End(i) >= addr
  BY DEF ReturnEarly
<1>2. /\ elfs \subseteq ElfInfo /\ Disjoint(elfs) /\ i \in elfs /\ mmap \in Mmaps
      /\ addr \in Nat /\ addrEnd \in Nat /\ pgoff \in Nat
      /\ addr <= mmap.addr /\ mmap.addr + mmap.len <= addrEnd
      /\ addr - pgoff = mmap.addr - mmap.pgoff
  BY <1>1, VisitFacts DEF Inv, TypeOK, MappingsDisjoint, RangeGrows
<1>3. /\ i.addr \in Nat /\ i.length \in Nat /\ i.pgoff \in Nat
      /\ End(i) = i.addr + i.length
      /\ mmap.addr \in Nat /\ mmap.len \in Nat /\ mmap.pgoff \in Nat
  BY <1>2, ElfType, MmapType
<1>4. i.addr <= addr /\ addrEnd <= End(i)
  BY <1>1, <1>2, <1>3 DEF Contained, Smallest, Largest
<1> SUFFICES ASSUME NEW a \in Addresses, mmap.addr <= a, a < mmap.addr + mmap.len
             PROVE  ShownBy(elfs)[a] =
                      [path |-> mmap.path, offset |-> a - mmap.addr + mmap.pgoff]
  BY <1>1 DEF After, ShownBy
<1>5. a \in Nat
  BY AddressType
<1>6. Covers(i, a) /\ a - i.addr + i.pgoff = a - mmap.addr + mmap.pgoff
  BY <1>1, <1>2, <1>3, <1>4, <1>5 DEF Covers, SamePlace
<1>7. ShownBy(elfs)[a] = [path |-> i.path, offset |-> a - i.addr + i.pgoff]
  BY <1>2, <1>6, ShownAt
<1> QED
  BY <1>1, <1>6, <1>7 DEF SamePlace

LEMMA UpdateElfShows ==
  ASSUME Inv, NEW e \in elfs, updateElf(e)
  PROVE  ShownBy(elfs') = ShownBy(elfs)
<1>1. PICK u \in ElfInfo :
        /\ elfs' = (elfs \ {e}) \cup {u}
        /\ u.addr = e.addr /\ u.length = e.length /\ u.pgoff = e.pgoff
        /\ u.path = e.path
  BY UpdateElfFacts
<1>2. /\ elfs \subseteq ElfInfo /\ Disjoint(elfs)
      /\ elfs' \subseteq ElfInfo /\ Disjoint(elfs')
  BY UpdateElfInv DEF Inv, TypeOK, MappingsDisjoint
<1> SUFFICES ASSUME NEW a \in Addresses
             PROVE  ShownBy(elfs')[a] = ShownBy(elfs)[a]
  BY DEF ShownBy
<1>3. CASE Covers(e, a)
  <2>1. Covers(u, a)
    BY <1>1, <1>3 DEF Covers, End
  <2>2. u \in elfs'
    BY <1>1
  <2>3. ShownBy(elfs')[a] = [path |-> u.path, offset |-> a - u.addr + u.pgoff]
    BY <1>2, <2>1, <2>2, ShownAt
  <2>4. ShownBy(elfs)[a] = [path |-> e.path, offset |-> a - e.addr + e.pgoff]
    BY <1>2, <1>3, ShownAt
  <2> QED
    BY <1>1, <2>3, <2>4
<1>4. CASE \E f \in elfs \ {e} : Covers(f, a)
  <2>1. PICK f \in elfs \ {e} : Covers(f, a)
    BY <1>4
  <2>2. f \in elfs /\ f \in elfs'
    BY <1>1
  <2>3. ShownBy(elfs')[a] = [path |-> f.path, offset |-> a - f.addr + f.pgoff]
    BY <1>2, <2>1, <2>2, ShownAt
  <2>4. ShownBy(elfs)[a] = [path |-> f.path, offset |-> a - f.addr + f.pgoff]
    BY <1>2, <2>1, <2>2, ShownAt
  <2> QED
    BY <2>3, <2>4
<1>5. CASE \A f \in elfs : ~Covers(f, a)
  <2>1. ~Covers(u, a)
    BY <1>1, <1>5 DEF Covers, End
  <2> QED
    BY <1>1, <1>5, <2>1, NothingShownAt
<1> QED
  BY <1>3, <1>4, <1>5

\* PerfElfMap implements an address space where the last mapping wins: a call of
\* registerElf takes effect when it returns, everything else changes nothing.
THEOREM Implementation == Spec => ImplementsAddressSpace
<1>1. Init => Space!Init
  BY NothingShownAt DEF Init, Space!Init, Space!Nothing, Space!NoMapping,
     NoMapping, ShownBy, Addresses
<1>2. Inv /\ [Next]_vars => [Space!Next]_<<ShownBy(elfs), latest>>
  <2> SUFFICES ASSUME Inv, [Next]_vars
               PROVE  Space!Next \/ UNCHANGED <<ShownBy(elfs), latest>>
    OBVIOUS
  <2>1. ASSUME ShownBy(elfs') = After(mmap, elfs), latest' = mmap
        PROVE  Space!Next
    <3>1. mmap \in Mmaps
      BY DEF Inv, TypeOK
    <3>2. Space!Map(mmap)
      BY <2>1 DEF Space!Map, After, Addresses
    <3> QED
      BY <3>1, <3>2 DEF Space!Next
  <2>2. ASSUME elfs' = elfs, latest' = latest
        PROVE  UNCHANGED <<ShownBy(elfs), latest>>
    BY <2>2
  <2>3. CASE UNCHANGED vars
    BY <2>2, <2>3 DEF vars
  <2>4. ASSUME NEW m \in Mmaps, registerElf(m)
        PROVE  UNCHANGED <<ShownBy(elfs), latest>>
    BY <2>2, <2>4 DEF registerElf
  <2>5. ASSUME NEW i \in todo, Ignore(i) \/ Extend(i) \/ Overwrite(i)
        PROVE  UNCHANGED <<ShownBy(elfs), latest>>
    BY <2>2, <2>5 DEF Ignore, Extend, Overwrite
  <2>6. ASSUME NEW i \in todo, ReturnEarly(i)
        PROVE  Space!Next
    BY <2>1, <2>6, ReturnEarlyShows DEF ReturnEarly, Return
  <2>7. CASE Insert
    BY <2>1, <2>7, InsertShows DEF Insert, Return
  <2>8. ASSUME NEW e \in elfs, updateElf(e)
        PROVE  UNCHANGED <<ShownBy(elfs), latest>>
    BY <2>8, UpdateElfShows DEF updateElf
  <2> QED
    BY <2>3, <2>4, <2>5, <2>6, <2>7, <2>8 DEF Next, Step
<1> QED
  BY <1>1, <1>2, InvHolds, PTL DEF Spec, ImplementsAddressSpace, Space!Spec
=============================================================================
