------------------------------- MODULE ElfMap -------------------------------
(***************************************************************************)
(* PerfElfMap (src/app/perfelfmap.cpp): the mappings of one process, as    *)
(* perf reports them.  Processes unmap without telling, so mappings        *)
(* overlap older ones; registerElf cuts the older ones to fragments and    *)
(* joins parts of the same file.  It is modelled one iteration of its loop *)
(* at a time.                                                              *)
(*                                                                         *)
(* The vector m_elfs is sorted by address: the model keeps the set of its  *)
(* elements and takes the lowest one first.  No mapping reaches the end of *)
(* the address space, so addresses are plain numbers.                      *)
(***************************************************************************)
EXTENDS Integers, FiniteSets

CONSTANTS
  AddrMax,     \* the largest address
  Mmaps,       \* what perf may report: [addr, len, pgoff, path, file], where
               \* file tells whether the path is a file found on this machine
  ModuleSize   \* how much memory libdwfl gives the module of a path

VARIABLES
  elfs,        \* m_elfs
  lastBase,    \* m_lastBase: [path, addr]
  active,      \* whether registerElf is running, and its arguments and locals:
  mmap,        \*   the mapping it was called with
  addr, addrEnd, pgoff,  \* the address range and the offset, which grow
  todo,        \*   what the loop has not visited
  newElfs,     \*   fragments to be inserted
  removedElfs, \*   mappings to be removed
  latest       \* history: the argument of the last call that returned

range  == <<addr, addrEnd, pgoff>>
locals == <<mmap, range, todo, newElfs, removedElfs>>
vars   == <<elfs, lastBase, active, locals, latest>>

Paths == {m.path : m \in Mmaps}

ASSUME ElfMapAssumption ==
  /\ AddrMax \in Nat
  /\ Mmaps \subseteq [addr : Nat, len : Nat \ {0}, pgoff : Nat,
                      path : STRING \ {""}, file : BOOLEAN]
  /\ \A m \in Mmaps : m.addr + m.len <= AddrMax
  /\ ModuleSize \in [Paths -> Nat]

-----------------------------------------------------------------------------
NoBase == -1

\* ElfInfo; without a module dwflStart = dwflEnd.
ElfInfo == [addr : Nat, length : Nat, pgoff : Nat, path : Paths, file : BOOLEAN,
            baseAddr : Nat \cup {NoBase}, dwflStart : Nat, dwflEnd : Nat]

End(e) == e.addr + e.length

NewElf(path, file, start, end, offset) ==
  [addr |-> start, length |-> end - start, pgoff |-> offset, path |-> path,
   file |-> file, baseAddr |-> NoBase, dwflStart |-> 0, dwflEnd |-> 0]

\* Before the first call.
NoMapping == [addr |-> 0, len |-> 0, pgoff |-> 0, path |-> "", file |-> FALSE]

\* An ElfInfo() without a path.
InvalidBase == [path |-> "", addr |-> 0]

Smallest(m, n) == IF m < n THEN m ELSE n
Largest(m, n)  == IF m > n THEN m ELSE n

-----------------------------------------------------------------------------
registerElf(m) ==
  /\ ~active
  /\ active' = TRUE
  /\ mmap' = m
  /\ addr' = m.addr /\ addrEnd' = m.addr + m.len /\ pgoff' = m.pgoff
  /\ todo' = elfs
  /\ newElfs' = {} /\ removedElfs' = {}
  /\ UNCHANGED <<elfs, lastBase, latest>>

\* The loop visits i, in the order of the addresses, until they pass addrEnd.
Visits(i) ==
  /\ active /\ i \in todo /\ i.addr < addrEnd
  /\ \A e \in todo : i.addr <= e.addr

\* Parts of the same file in the same place.
SamePlace(i) == addr - pgoff = i.addr - i.pgoff /\ mmap.path = i.path

\* Faulty: only looks at where it ends.
ContainedAtEnd(i) == Largest(addrEnd, End(i)) = End(i)

\* The range that such a part extends the mapping to is i itself.
Contained(i) ==
  /\ Smallest(addr, i.addr) = i.addr
  /\ Largest(addrEnd, End(i)) - Smallest(addr, i.addr) = i.length

Ignore(i) ==
  /\ Visits(i)
  /\ End(i) < addr \/ (End(i) = addr /\ ~SamePlace(i))
  /\ todo' = todo \ {i}
  /\ UNCHANGED <<elfs, lastBase, active, mmap, range, newElfs, removedElfs,
                 latest>>

\* The locals are gone.
Return ==
  /\ active' = FALSE /\ latest' = mmap
  /\ addr' = 0 /\ addrEnd' = 0 /\ pgoff' = 0
  /\ todo' = {} /\ newElfs' = {} /\ removedElfs' = {}
  /\ UNCHANGED mmap

ReturnEarly(i) ==
  /\ Visits(i) /\ End(i) >= addr
  /\ SamePlace(i) /\ Contained(i)
  /\ Return
  /\ UNCHANGED <<elfs, lastBase>>

\* Faulty: the part behind the new mapping keeps the offset of the whole.
FragmentsSameOffset(i, start, end) ==
  (IF i.addr < start
   THEN {NewElf(i.path, i.file, i.addr, start, i.pgoff)} ELSE {})
  \cup
  (IF End(i) > end
   THEN {NewElf(i.path, i.file, end, End(i), i.pgoff)} ELSE {})

\* Faulty: moves the offset in the wrong direction.
FragmentsWrongWay(i, start, end) ==
  (IF i.addr < start
   THEN {NewElf(i.path, i.file, i.addr, start, i.pgoff)} ELSE {})
  \cup
  (IF End(i) > end
   THEN {NewElf(i.path, i.file, end, End(i), i.pgoff - (end - i.addr))} ELSE {})

\* What remains of i on both sides of the range [start, end).
Fragments(i, start, end) ==
  (IF i.addr < start
   THEN {NewElf(i.path, i.file, i.addr, start, i.pgoff)} ELSE {})
  \cup
  (IF End(i) > end
   THEN {NewElf(i.path, i.file, end, End(i), i.pgoff + end - i.addr)} ELSE {})

Extend(i) ==
  /\ Visits(i) /\ End(i) >= addr
  /\ SamePlace(i) /\ ~Contained(i)
  /\ addr' = Smallest(addr, i.addr)
  /\ pgoff' = Smallest(pgoff, i.pgoff)
  /\ addrEnd' = Largest(addrEnd, End(i))
  /\ newElfs' = newElfs \cup Fragments(i, addr', addrEnd')
  /\ removedElfs' = removedElfs \cup {i}
  /\ todo' = todo \ {i}
  /\ UNCHANGED <<elfs, lastBase, active, mmap, latest>>

\* Faulty: the fragments join what they are fragments of.
OverwriteKeep(i) ==
  /\ Visits(i) /\ End(i) > addr
  /\ ~SamePlace(i)
  /\ newElfs' = newElfs \cup Fragments(i, addr, addrEnd)
  /\ todo' = todo \ {i}
  /\ UNCHANGED <<elfs, lastBase, active, mmap, range, removedElfs, latest>>

Overwrite(i) ==
  /\ Visits(i) /\ End(i) > addr
  /\ ~SamePlace(i)
  /\ newElfs' = newElfs \cup Fragments(i, addr, addrEnd)
  /\ removedElfs' = removedElfs \cup {i}
  /\ todo' = todo \ {i}
  /\ UNCHANGED <<elfs, lastBase, active, mmap, range, latest>>

\* The base address comes from the last file mapped from its beginning.
HasBase == mmap.file /\ lastBase.path = mmap.path /\ addr > lastBase.addr

Registered ==
  [NewElf(mmap.path, mmap.file, addr, addrEnd, pgoff)
     EXCEPT !.baseAddr = IF HasBase THEN lastBase.addr ELSE NoBase]

Insert ==
  /\ active
  /\ \A e \in todo : e.addr >= addrEnd
  /\ elfs' = (elfs \ removedElfs) \cup newElfs \cup {Registered}
  /\ lastBase' = IF ~mmap.file \/ HasBase THEN lastBase
                 ELSE IF pgoff = 0 THEN [path |-> mmap.path, addr |-> addr]
                                   ELSE InvalidBase
  /\ Return

\* PerfSymbolTable::reportElf has libdwfl load the file and stores the range of
\* the module, which begins where the file's first byte would be.
updateElf(e) ==
  /\ ~active /\ e \in elfs /\ e.file /\ e.addr >= e.pgoff
  /\ elfs' = (elfs \ {e}) \cup
             {[e EXCEPT !.dwflStart = e.addr - e.pgoff,
                        !.dwflEnd = e.addr - e.pgoff + ModuleSize[e.path]]}
  /\ UNCHANGED <<lastBase, active, locals, latest>>

Init ==
  /\ elfs = {} /\ lastBase = InvalidBase
  /\ active = FALSE
  /\ mmap \in Mmaps
  /\ addr = 0 /\ addrEnd = 0 /\ pgoff = 0
  /\ todo = {} /\ newElfs = {} /\ removedElfs = {}
  /\ latest = NoMapping

Step ==
  \/ \E i \in todo : Ignore(i) \/ ReturnEarly(i) \/ Extend(i) \/ Overwrite(i)
  \/ Insert

Next ==
  \/ \E m \in Mmaps : registerElf(m)
  \/ Step
  \/ \E e \in elfs : updateElf(e)

Spec == Init /\ [][Next]_vars
-----------------------------------------------------------------------------
(***************************************************************************)
(* Lookups                                                                 *)
(***************************************************************************)
\* Faulty: a mapping does not contain its first address.
IsBeforeStrictly(i, ip) ==
  i.addr < ip /\ \A e \in elfs : e.addr < ip => e.addr <= i.addr

\* i is the last mapping that begins at or before ip.
IsBefore(i, ip) ==
  i.addr <= ip /\ \A e \in elfs : e.addr <= ip => e.addr <= i.addr

\* findElf(ip) is i; it is invalid if it is none.  The range of a module counts
\* more than the range of the mapping.
Finds(ip, i) ==
  /\ i \in elfs /\ IsBefore(i, ip)
  /\ IF i.dwflStart < i.dwflEnd THEN i.dwflStart <= ip /\ ip < i.dwflEnd
                               ELSE ip < End(i)

-----------------------------------------------------------------------------
Addresses == 0 .. AddrMax

Covers(e, a) == e.addr <= a /\ a < End(e)

\* Mappings and locals have the types of their C++ counterparts.
TypeOK ==
  /\ elfs \subseteq ElfInfo
  /\ lastBase \in [path : Paths \cup {""}, addr : Nat]
  /\ active \in BOOLEAN
  /\ mmap \in Mmaps
  /\ addr \in Nat /\ addrEnd \in Nat /\ pgoff \in Nat
  /\ todo \subseteq ElfInfo /\ newElfs \subseteq ElfInfo
  /\ removedElfs \subseteq ElfInfo
  /\ latest \in Mmaps \cup {NoMapping}

Apart(e, f) == End(e) <= f.addr \/ End(f) <= e.addr

Disjoint(E) ==
  /\ \A e \in E : e.length > 0
  /\ \A e, f \in E : e # f => Apart(e, f)

\* No two mappings share an address, and none is empty: findElf relies on it
\* (binary search by the first address), and registerElf restores it from
\* fragments and extensions.
MappingsDisjoint == Disjoint(elfs)

\* Q_ASSERT(newElfs.isEmpty()), Q_ASSERT(removedElfs.isEmpty()): when the mapping
\* is contained in an old one, nothing was overwritten on the way to it.
EarlyReturnOverwritesNothing ==
  \A i \in todo :
    Visits(i) /\ End(i) >= addr /\ SamePlace(i) /\ Contained(i) =>
      newElfs = {} /\ removedElfs = {}

\* findElf returns the mapping that covers the address, whatever ranges modules
\* claim around it, unless that mapping's own module ends before the address.
FindsMapping ==
  \A e \in elfs, ip \in Addresses :
    Covers(e, ip) /\ (e.dwflStart < e.dwflEnd => ip < e.dwflEnd) =>
      \A i \in elfs : Finds(ip, i) <=> i = e

\* The address space that a set of mappings shows.
ShownBy(E) ==
  [a \in Addresses |->
     IF \E e \in E : Covers(e, a)
     THEN LET e == CHOOSE e \in E : Covers(e, a)
          IN  [path |-> e.path, offset |-> a - e.addr + e.pgoff]
     ELSE [path |-> "", offset |-> 0]]

Space == INSTANCE AddressSpace WITH space <- ShownBy(elfs)

\* registerElf implements an address space in which the last mapping wins,
\* through all extensions, early returns and fragments.
ImplementsAddressSpace == Space!Spec
=============================================================================
