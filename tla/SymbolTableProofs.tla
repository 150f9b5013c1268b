------------------------- MODULE SymbolTableProofs -------------------------
(***************************************************************************)
(* Theorems about PerfSymbolTable for all mappings and samples: looking up *)
(* frames keeps what is proved about its ELF map, libdwfl keeps no module  *)
(* of a mapping that was overwritten, and the frames that are sent for a   *)
(* sample are its own, in order.                                           *)
(***************************************************************************)
EXTENDS SymbolTable, ElfMapProofs

-----------------------------------------------------------------------------
(***************************************************************************)
(* Every step is a step of the ELF map, or leaves it alone.                *)
(***************************************************************************)
LEMMA LookupImplements == Lookup => [Next]_vars
<1> SUFFICES ASSUME Lookup PROVE [Next]_vars
  OBVIOUS
<1>1. CASE Report
  BY <1>1 DEF Report, updateElf, Next
<1>2. CASE GoToBase \/ ReturnModule \/ NothingToReport \/ ReportFails
  BY <1>2 DEF GoToBase, ReturnModule, NothingToReport, ReportFails
<1> QED
  BY <1>1, <1>2 DEF Lookup

LEMMA FrameImplements ==
  ASSUME NEW ip, lookupFrame(ip)
  PROVE  UNCHANGED <<vars, modules, dirty>>
BY DEF lookupFrame, BeginCall

LEMMA AnalyzeImplements == Analyze => [Next]_vars
<1> SUFFICES ASSUME Analyze PROVE [Next]_vars
  OBVIOUS
<1>1. CASE Lookup
  BY <1>1, LookupImplements
<1>2. CASE resolveCallchain \/ LookupIp
  BY <1>2, FrameImplements DEF resolveCallchain, LookupIp
<1>3. CASE frameCallback
  BY <1>3, FrameImplements DEF frameCallback, BeginCall
<1>4. CASE unwindStack \/ Retry \/ Finish \/ Send
  BY <1>4 DEF unwindStack, Retry, Finish, Send
<1> QED
  BY <1>1, <1>2, <1>3, <1>4 DEF Analyze

LEMMA RegisterImplements == Register => [Next]_vars
<1> SUFFICES ASSUME Register PROVE [Next]_vars
  OBVIOUS
<1>1. ASSUME NEW i \in todo, KeepMapping(i) \/ InvalidateMapping(i)
      PROVE  Next
  BY <1>1 DEF KeepMapping, InvalidateMapping, Next, Step
<1>2. ASSUME EndRegister PROVE Next
  BY <1>2 DEF EndRegister, Next, Step
<1> QED
  BY <1>1, <1>2 DEF Register

LEMMA StepImplements == [TableNext]_tableVars => [Next]_vars
<1> SUFFICES ASSUME [TableNext]_tableVars PROVE [Next]_vars
  OBVIOUS
<1>1. ASSUME NEW m \in Mmaps, BeginRegister(m) PROVE Next
  BY <1>1 DEF BeginRegister, Next
<1>2. ASSUME NEW s \in Samples, analyze(s) PROVE UNCHANGED vars
  BY <1>2 DEF analyze
<1>3. CASE UNCHANGED tableVars
  BY <1>3 DEF tableVars
<1> QED
  BY <1>1, <1>2, <1>3, RegisterImplements, AnalyzeImplements DEF TableNext

\* Between and during calls of lookupFrame and module, the ELF map is changed only
\* by registerElf, and by updateElf for a mapping that it has (ImplementsElfMap).
THEOREM TableImplementsElfMap == TableSpec => ImplementsElfMap
<1>1. TableInit => Init
  BY DEF TableInit
<1> QED
  BY <1>1, StepImplements, PTL DEF TableSpec, Spec, ImplementsElfMap

\* So the mappings of a table stay disjoint, and show what was mapped last, while
\* samples are analyzed (registerElf, reportElf).
THEOREM TableShowsLastMapping ==
  TableSpec => []MappingsDisjoint /\ ImplementsAddressSpace
BY TableImplementsElfMap, AlwaysDisjoint, Implementation, PTL
   DEF ImplementsElfMap
-----------------------------------------------------------------------------
(***************************************************************************)
(* The inductive invariant.  A module covers the first address of every    *)
(* mapping that it can belong to, because all mappings of a file fit into  *)
(* its module.  So aboutToInvalidate finds it, or another module there,    *)
(* and makes the cache dirty before its mapping is removed.                *)
(***************************************************************************)
\* A part of the file that reaches up to an offset is part of a mapping perf
\* reported, and inside of the module.
Fits(path, file, end) ==
  \E m \in Mmaps : /\ m.path = path /\ m.file = file
                   /\ file => end <= ModuleSize[path]

FilesFit ==
  /\ \A e \in elfs \cup newElfs : Fits(e.path, e.file, e.pgoff + e.length)
  /\ active => Fits(mmap.path, mmap.file, pgoff + (addrEnd - addr))

\* What a module may belong to: what registerElf has not removed yet.
Present == elfs \ (IF active THEN removedElfs ELSE {})

TableInv == Inv /\ FilesFit /\ ModulesAreMapped

LEMMA FitsSmaller ==
  ASSUME NEW path \in Paths, NEW file, NEW n \in Int, NEW k \in Int,
         Fits(path, file, n), k <= n
  PROVE  Fits(path, file, k)
<1>1. ModuleSize[path] \in Nat
  BY ElfMapAssumption
<1>2. n <= ModuleSize[path] => k <= ModuleSize[path]
  BY <1>1
<1> QED
  BY <1>2 DEF Fits

\* The same path is the same file.
LEMMA FitsUnique ==
  ASSUME NEW path, NEW file, NEW file2, NEW n, NEW k,
         Fits(path, file, n), Fits(path, file2, k)
  PROVE  file = file2
BY TableAssumption DEF Fits

LEMMA MmapFits ==
  ASSUME NEW m \in Mmaps
  PROVE  Fits(m.path, m.file, m.pgoff + m.len)
BY TableAssumption DEF Fits

\* What remains of a mapping on both sides of a range.
LEMMA FragmentsFit ==
  ASSUME NEW i \in ElfInfo, NEW start \in Nat, NEW end \in Nat,
         start < end, i.addr < end, start <= End(i),
         Fits(i.path, i.file, i.pgoff + i.length)
  PROVE  \A n \in Fragments(i, start, end) :
           Fits(n.path, n.file, n.pgoff + n.length)
<1> SUFFICES ASSUME NEW n \in Fragments(i, start, end)
             PROVE  Fits(n.path, n.file, n.pgoff + n.length)
  OBVIOUS
<1>1. /\ i.addr \in Nat /\ i.pgoff \in Nat /\ i.length \in Nat
      /\ i.path \in Paths /\ End(i) = i.addr + i.length
  BY ElfType
<1>2. n \in ElfInfo /\ PartOf(n, i)
  BY FragmentsLemma
<1>3. /\ n.addr \in Nat /\ n.pgoff \in Nat /\ n.length \in Nat
      /\ End(n) = n.addr + n.length
  BY <1>2, ElfType
<1>4. n.pgoff + n.length <= i.pgoff + i.length
  BY <1>1, <1>2, <1>3 DEF PartOf
<1>5. n.path = i.path /\ n.file = i.file
  BY DEF Fragments, NewElf
<1> QED
  BY <1>1, <1>3, <1>4, <1>5, FitsSmaller

-----------------------------------------------------------------------------
\* The first call of registerElf, as any other, begins with a range that fits.
LEMMA RegisterFits ==
  ASSUME Inv, FilesFit, NEW m \in Mmaps, registerElf(m)
  PROVE  FilesFit'
<1>1. /\ elfs' = elfs /\ newElfs' = {} /\ mmap' = m
      /\ addr' = m.addr /\ addrEnd' = m.addr + m.len /\ pgoff' = m.pgoff
  BY DEF registerElf
<1>2. pgoff' + (addrEnd' - addr') = m.pgoff + m.len
  BY <1>1, MmapType
<1> QED
  BY <1>1, <1>2, MmapFits DEF FilesFit, Fits

LEMMA ExtendFits ==
  ASSUME Inv, FilesFit, NEW i \in todo, Extend(i)
  PROVE  FilesFit'
<1> DEFINE start == Smallest(addr, i.addr)
           end == Largest(addrEnd, End(i))
           offset == Smallest(pgoff, i.pgoff)
<1>1. Visits(i) /\ End(i) >= addr /\ SamePlace(i) /\ active
  BY DEF Extend, Visits
<1>2. /\ addr' = start /\ addrEnd' = end /\ pgoff' = offset
      /\ elfs' = elfs /\ mmap' = mmap
      /\ newElfs' = newElfs \cup Fragments(i, start, end)
  BY DEF Extend
<1>3. /\ start \in Nat /\ end \in Nat /\ offset \in Nat
      /\ start - offset = addr - pgoff /\ Fragments(i, start, end) = {}
  BY <1>1, ExtensionFacts
<1>4. /\ addr \in Nat /\ addrEnd \in Nat /\ pgoff \in Nat
      /\ i \in ElfInfo /\ i \in elfs /\ mmap \in Mmaps
  BY <1>1, VisitFacts
<1>5. /\ i.addr \in Nat /\ i.pgoff \in Nat /\ i.length \in Nat
      /\ i.path \in Paths /\ End(i) = i.addr + i.length
  BY <1>4, ElfType
<1>6. i.path = mmap.path /\ addr - pgoff = i.addr - i.pgoff
  BY <1>1 DEF SamePlace
<1>7. /\ Fits(mmap.path, i.file, i.pgoff + i.length)
      /\ Fits(mmap.path, mmap.file, pgoff + (addrEnd - addr))
  BY <1>1, <1>4, <1>6 DEF FilesFit
<1>8. i.file = mmap.file
  BY <1>7, FitsUnique
<1>9. \/ offset + (end - start) = pgoff + (addrEnd - addr)
      \/ offset + (end - start) = i.pgoff + i.length
  <2>1. end = addrEnd \/ end = End(i)
    BY DEF Largest
  <2> HIDE DEF start, end, offset
  <2> QED
    BY <1>3, <1>4, <1>5, <1>6, <2>1
<1>10. Fits(mmap.path, mmap.file, offset + (end - start))
  BY <1>7, <1>8, <1>9
<1> QED
  BY <1>2, <1>3, <1>10 DEF FilesFit, Fits

LEMMA OverwriteFits ==
  ASSUME Inv, FilesFit, NEW i \in todo, Overwrite(i)
  PROVE  FilesFit'
<1>1. Visits(i) /\ End(i) > addr /\ active
  BY DEF Overwrite, Visits
<1>2. /\ i \in ElfInfo /\ i \in elfs /\ i.addr < addrEnd
      /\ addr \in Nat /\ addrEnd \in Nat /\ addr < addrEnd
  BY <1>1, VisitFacts
<1>3. End(i) \in Nat
  BY <1>2, ElfType
<1>4. Fits(i.path, i.file, i.pgoff + i.length)
  BY <1>2 DEF FilesFit
<1>5. \A n \in Fragments(i, addr, addrEnd) :
        Fits(n.path, n.file, n.pgoff + n.length)
  BY <1>1, <1>2, <1>3, <1>4, FragmentsFit
<1>6. /\ elfs' = elfs /\ mmap' = mmap /\ active' = active
      /\ addr' = addr /\ addrEnd' = addrEnd /\ pgoff' = pgoff
      /\ newElfs' = newElfs \cup Fragments(i, addr, addrEnd)
  BY DEF Overwrite, range
<1> QED
  BY <1>5, <1>6 DEF FilesFit, Fits

LEMMA InsertFits ==
  ASSUME Inv, FilesFit, Insert
  PROVE  FilesFit'
<1>1. /\ active /\ active' = FALSE /\ newElfs' = {}
  BY DEF Insert, Return
<1>2. /\ Registered \in ElfInfo
      /\ Registered.addr = addr /\ End(Registered) = addrEnd
      /\ Registered.pgoff = pgoff /\ Registered.path = mmap.path
      /\ addr \in Nat /\ addrEnd \in Nat /\ pgoff \in Nat
      /\ elfs' = Kept \cup newElfs \cup {Registered}
  BY InsertFacts
<1>3. Registered.file = mmap.file
  BY DEF Registered, NewElf
<1>4. Registered.length = addrEnd - addr
  BY <1>2, ElfType
<1>5. Fits(Registered.path, Registered.file, Registered.pgoff + Registered.length)
  BY <1>1, <1>2, <1>3, <1>4 DEF FilesFit
<1> QED
  BY <1>1, <1>2, <1>5 DEF FilesFit, Fits, Kept

LEMMA UpdateElfFits ==
  ASSUME Inv, FilesFit, NEW e \in elfs, updateElf(e)
  PROVE  FilesFit'
<1> DEFINE u == [e EXCEPT !.dwflStart = e.addr - e.pgoff,
                          !.dwflEnd = e.addr - e.pgoff + ModuleSize[e.path]]
<1>1. /\ elfs' = (elfs \ {e}) \cup {u} /\ newElfs' = newElfs
      /\ ~active /\ active' = active
  BY DEF updateElf, locals
<1>2. e \in ElfInfo
  BY DEF Inv, TypeOK
<1>3. u.path = e.path /\ u.file = e.file /\ u.pgoff = e.pgoff /\ u.length = e.length
  BY <1>2 DEF ElfInfo
<1> HIDE DEF u
<1> QED
  BY <1>1, <1>3 DEF FilesFit, Fits

LEMMA NextFits == Inv /\ FilesFit /\ [Next]_vars => FilesFit'
<1> SUFFICES ASSUME Inv, FilesFit, [Next]_vars PROVE FilesFit'
  OBVIOUS
<1>1. CASE UNCHANGED vars
  BY <1>1 DEF vars, locals, range, FilesFit, Fits
<1>2. ASSUME NEW m \in Mmaps, registerElf(m) PROVE FilesFit'
  BY <1>2, RegisterFits
<1>3. ASSUME NEW i \in todo, Ignore(i) PROVE FilesFit'
  BY <1>3 DEF Ignore, range, FilesFit, Fits
<1>4. ASSUME NEW i \in todo, ReturnEarly(i) PROVE FilesFit'
  BY <1>4 DEF ReturnEarly, Return, FilesFit, Fits
<1>5. ASSUME NEW i \in todo, Extend(i) \/ Overwrite(i) PROVE FilesFit'
  BY <1>5, ExtendFits, OverwriteFits
<1>6. CASE Insert
  BY <1>6, InsertFits
<1>7. ASSUME NEW e \in elfs, updateElf(e) PROVE FilesFit'
  BY <1>7, UpdateElfFits
<1> QED
  BY <1>1, <1>2, <1>3, <1>4, <1>5, <1>6, <1>7 DEF Next, Step

-----------------------------------------------------------------------------
\* What is present stays justified where only the set of mappings grows.
LEMMA MappedLemma ==
  ASSUME ModulesAreMapped, ~dirty' => ~dirty, modules' = modules,
         Present \subseteq Present'
  PROVE  ModulesAreMapped'
BY DEF ModulesAreMapped, Present

LEMMA ClearedLemma == ASSUME clearCache PROVE ModulesAreMapped'
BY DEF clearCache, ModulesAreMapped

\* The module of a removed mapping covers the mapping's first address, where
\* aboutToInvalidate looks for it.
LEMMA InvalidateMapped ==
  ASSUME Inv, FilesFit, ModulesAreMapped, NEW i \in todo, InvalidateMapping(i)
  PROVE  ModulesAreMapped'
<1>1. Visits(i) /\ active
  BY DEF InvalidateMapping, Extend, Overwrite, Visits
<1>2. /\ elfs' = elfs /\ active' = active /\ modules' = modules
      /\ removedElfs' = removedElfs \cup {i}
      /\ dirty' = (dirty \/ AddrModules(i.addr) # {})
  BY DEF InvalidateMapping, Extend, Overwrite, aboutToInvalidate
<1>3. i \in ElfInfo /\ i \in elfs /\ i.length > 0
  BY <1>1, VisitFacts
<1>4. /\ i.addr \in Nat /\ i.pgoff \in Nat /\ i.length \in Nat /\ i.path \in Paths
  BY <1>3, ElfType
<1>5. i.file => i.pgoff + i.length <= ModuleSize[i.path]
  BY <1>3 DEF FilesFit, Fits
<1>6. ModuleSize[i.path] \in Nat
  BY <1>4, ElfMapAssumption
<1>7. ASSUME ~dirty', NEW d \in modules
      PROVE  \E e \in elfs \ removedElfs' : e.file /\ ModuleOf(e) = d
  <2>1. ~dirty /\ AddrModules(i.addr) = {}
    BY <1>2, <1>7
  <2>2. PICK e \in elfs \ removedElfs : e.file /\ ModuleOf(e) = d
    BY <1>1, <1>7, <2>1 DEF ModulesAreMapped
  <2>3. e # i
    <3> SUFFICES ASSUME e = i PROVE d \in AddrModules(i.addr)
      BY <2>1
    <3>1. /\ d.start = i.addr - i.pgoff
          /\ d.end = i.addr - i.pgoff + ModuleSize[i.path]
      BY <2>2 DEF ModuleOf, Start
    <3>2. d.start <= i.addr /\ i.addr < d.end
      BY <1>3, <1>4, <1>5, <1>6, <2>2, <3>1
    <3> QED
      BY <3>2 DEF AddrModules
  <2> QED
    BY <1>2, <2>2, <2>3
<1> QED
  BY <1>1, <1>2, <1>7 DEF ModulesAreMapped

\* A reported module belongs to the mapping that it was reported for.
LEMMA ReportMapped ==
  ASSUME Inv, ModulesAreMapped, Report
  PROVE  ModulesAreMapped'
<1> DEFINE e == call.wanted
           u == [e EXCEPT !.dwflStart = e.addr - e.pgoff,
                          !.dwflEnd = e.addr - e.pgoff + ModuleSize[e.path]]
<1>1. /\ e \in elfs /\ e.file /\ ~active /\ active' = active /\ dirty' = dirty
      /\ elfs' = (elfs \ {e}) \cup {u}
      /\ modules' = modules \cup {ModuleOf(e)}
  BY DEF Report, updateElf
<1>2. e \in ElfInfo
  BY <1>1 DEF Inv, TypeOK
<1>3. u.file = e.file /\ u.path = e.path /\ u.addr = e.addr /\ u.pgoff = e.pgoff
  BY <1>2 DEF ElfInfo
<1> HIDE DEF u
<1>4. u.file /\ ModuleOf(u) = ModuleOf(e)
  BY <1>1, <1>3 DEF ModuleOf, Start
<1> HIDE DEF e
<1>5. ASSUME ~dirty', NEW d \in modules'
      PROVE  \E f \in elfs' : f.file /\ ModuleOf(f) = d
  <2>1. CASE d = ModuleOf(e)
    BY <1>1, <1>4, <2>1
  <2>2. CASE d \in modules
    <3>1. PICK f \in elfs : f.file /\ ModuleOf(f) = d
      BY <1>1, <1>5, <2>2 DEF ModulesAreMapped
    <3> QED
      BY <1>1, <1>4, <3>1
  <2> QED
    BY <1>1, <1>5, <2>1, <2>2
<1> QED
  BY <1>1, <1>5 DEF ModulesAreMapped

LEMMA LookupMapped ==
  ASSUME Inv, ModulesAreMapped, Lookup
  PROVE  ModulesAreMapped'
<1>1. CASE Report
  BY <1>1, ReportMapped
<1>2. CASE GoToBase \/ ReturnModule \/ NothingToReport
  BY <1>2 DEF GoToBase, ReturnModule, NothingToReport, vars, locals,
              ModulesAreMapped
<1>3. CASE ReportFails
  BY <1>3 DEF ReportFails, ModulesAreMapped
<1> QED
  BY <1>1, <1>2, <1>3 DEF Lookup

LEMMA AnalyzeMapped ==
  ASSUME Inv, ModulesAreMapped, Analyze
  PROVE  ModulesAreMapped'
<1>1. CASE Lookup
  BY <1>1, LookupMapped
<1>2. CASE resolveCallchain \/ frameCallback \/ LookupIp
  <2>1. UNCHANGED <<vars, modules, dirty>>
    BY <1>2, FrameImplements DEF resolveCallchain, frameCallback, LookupIp, BeginCall
  <2> QED
    BY <2>1 DEF vars, locals, ModulesAreMapped
<1>3. CASE unwindStack \/ Send
  BY <1>3 DEF unwindStack, Send, vars, locals, ModulesAreMapped
<1>4. CASE Retry
  BY <1>4, ClearedLemma DEF Retry
<1>5. CASE Finish
  <2>1. CASE dirty
    BY <1>5, <2>1, ClearedLemma DEF Finish
  <2>2. CASE ~dirty
    BY <1>5, <2>2 DEF Finish, vars, locals, ModulesAreMapped
  <2> QED
    BY <2>1, <2>2
<1> QED
  BY <1>1, <1>2, <1>3, <1>4, <1>5 DEF Analyze

LEMMA RegisterMapped ==
  ASSUME Inv, FilesFit, ModulesAreMapped, Register
  PROVE  ModulesAreMapped'
<1>1. ASSUME NEW i \in todo, KeepMapping(i) PROVE ModulesAreMapped'
  BY <1>1 DEF KeepMapping, Ignore, ModulesAreMapped
<1>2. ASSUME NEW i \in todo, InvalidateMapping(i) PROVE ModulesAreMapped'
  BY <1>2, InvalidateMapped
<1>3. ASSUME EndRegister PROVE ModulesAreMapped'
  <2>1. CASE dirty
    BY <1>3, <2>1, ClearedLemma DEF EndRegister
  <2>2. CASE ~dirty
    <3>1. active /\ active' = FALSE
      BY <1>3 DEF EndRegister, ReturnEarly, Visits, Insert, Return
    <3>2. elfs \ removedElfs \subseteq elfs'
      BY <1>3 DEF EndRegister, ReturnEarly, Insert
    <3>3. modules' = modules /\ dirty' = dirty
      BY <1>3, <2>2 DEF EndRegister
    <3> QED
      BY <3>1, <3>2, <3>3, MappedLemma DEF Present
  <2> QED
    BY <2>1, <2>2
<1> QED
  BY <1>1, <1>2, <1>3 DEF Register

LEMMA TableNextInv == TableInv /\ [TableNext]_tableVars => TableInv'
<1> SUFFICES ASSUME TableInv, [TableNext]_tableVars PROVE TableInv'
  OBVIOUS
<1>1. Inv /\ FilesFit /\ ModulesAreMapped
  BY DEF TableInv
<1>2. Inv' /\ FilesFit'
  BY <1>1, StepImplements, NextInv, NextFits
<1>3. ASSUME NEW m \in Mmaps, BeginRegister(m) PROVE ModulesAreMapped'
  <2>1. elfs' = elfs /\ removedElfs' = {} /\ ~active
    BY <1>3 DEF BeginRegister, registerElf
  <2>2. modules' = modules /\ dirty' = dirty
    BY <1>3 DEF BeginRegister
  <2> QED
    BY <1>1, <2>1, <2>2, MappedLemma DEF Present
<1>4. ASSUME NEW s \in Samples, analyze(s) PROVE ModulesAreMapped'
  BY <1>1, <1>4 DEF analyze, vars, locals, ModulesAreMapped
<1>5. ASSUME UNCHANGED tableVars PROVE ModulesAreMapped'
  BY <1>1, <1>5 DEF tableVars, vars, locals, ModulesAreMapped
<1>6. ModulesAreMapped'
  BY <1>1, <1>3, <1>4, <1>5, RegisterMapped, AnalyzeMapped DEF TableNext
<1> QED
  BY <1>2, <1>6 DEF TableInv

LEMMA TableInitInv == TableInit => TableInv
<1> SUFFICES ASSUME TableInit PROVE TableInv
  OBVIOUS
<1>1. Inv
  BY InitInv DEF TableInit
<1>2. FilesFit /\ ModulesAreMapped
  BY DEF TableInit, Init, FilesFit, ModulesAreMapped
<1> QED
  BY <1>1, <1>2 DEF TableInv

\* libdwfl keeps no module of a mapping that was overwritten, once the cache is
\* clean (aboutToInvalidate, clearCache).
THEOREM TableForgetsOverwritten == TableSpec => []ModulesAreMapped
<1>1. TableInv => ModulesAreMapped
  BY DEF TableInv
<1> QED
  BY <1>1, TableInitInv, TableNextInv, PTL DEF TableSpec
-----------------------------------------------------------------------------
(***************************************************************************)
(* The frames of a sample.  What was looked up so far follows from the     *)
(* position in the call chain or in the stack; a call of lookupFrame       *)
(* returns for the frame at the position.  No mapping is registered while  *)
(* a sample is analyzed, so in the second attempt, which begins clean,     *)
(* nothing makes the cache dirty but a file that cannot be loaded.         *)
(***************************************************************************)
\* How many frames the call chain of a sample has, and all of it.
Chain(s) == Len(s.callchain)
Total(s) == Chain(s) + Len(s.stack)

\* The address that is looked up next.
NextIp(a) == CASE a.stage = "callchain" -> a.sample.callchain[a.pos]
               [] a.stage = "unwind"    -> a.sample.stack[a.pos].ip
               [] OTHER                 -> a.sample.ip

Stages == {"idle", "callchain", "unwind", "send", "ip"}

Analyzed(a) ==
  /\ a.stage \in Stages
  /\ \E S : a.frames \in Seq(S)
  /\ a.pos \in Nat \ {0}
  /\ a.stage # "idle" => a.sample \in Samples /\ a.attempt \in 1 .. 2

\* The frames are those up to the position.
Follows(a) ==
  /\ a.stage = "callchain" => a.pos = Len(a.frames) + 1 /\ a.pos <= Chain(a.sample) + 1
  /\ a.stage = "unwind" => /\ Len(a.frames) = Chain(a.sample) + a.pos - 1
                           /\ Len(a.frames) <= Total(a.sample)
  /\ a.stage = "send" => Len(a.frames) <= Total(a.sample)
  /\ a.stage \in {"callchain", "unwind", "send"} =>
       \A k \in 1 .. Len(a.frames) : a.frames[k].ip = IpsOf(a.sample)[k]

\* Someone waits for a call: for the module of a frame of the stack, or for a frame.
Waits(a, c) ==
  c # NoCall =>
    /\ a.stage \in {"callchain", "unwind", "ip"}
    /\ c.by = "module" => a.stage = "unwind"
    /\ c.by # "module" => c.ip = NextIp(a)
    /\ a.stage = "callchain" => a.pos <= Chain(a.sample)
    /\ a.stage = "unwind" => a.pos <= Len(a.sample.stack)

\* What is missing in the second attempt, or at its end, is missing because of a file.
Excused(a) ==
  /\ a.stage \in {"callchain", "unwind"} /\ a.attempt = 2 /\ dirty => failed
  /\ a.stage = "send" => failed \/ Len(a.frames) = Total(a.sample)

OrderInv ==
  /\ analysis.stage # "idle" => ~active
  /\ failed \in BOOLEAN
  /\ Analyzed(analysis) /\ Follows(analysis) /\ Waits(analysis, call) /\ Excused(analysis)

LEMMA IpsLemma ==
  ASSUME NEW s \in Samples
  PROVE  /\ Chain(s) \in Nat /\ Len(s.stack) \in Nat /\ Total(s) \in Nat
         /\ Total(s) = Chain(s) + Len(s.stack)
         /\ IpsOf(s) \in Seq(Addresses) /\ Len(IpsOf(s)) = Total(s)
         /\ \A k \in 1 .. Chain(s) : IpsOf(s)[k] = s.callchain[k]
         /\ \A k \in 1 .. Len(s.stack) : IpsOf(s)[Chain(s) + k] = s.stack[k].ip
<1> DEFINE own   == [k \in DOMAIN s.stack |-> s.stack[k].ip]
           Words == [pc : Addresses, ip : Addresses]
<1>1. s.callchain \in Seq(Addresses) /\ s.stack \in Seq(Words)
  BY TableAssumption
<1>2. PICK c : c = s.callchain
  OBVIOUS
<1>3. PICK w : w = s.stack
  OBVIOUS
<1>4. \A e \in Words : e.ip \in Addresses
  OBVIOUS
<1> HIDE DEF Words
<1>5. Len(w) \in Nat /\ DOMAIN w = 1 .. Len(w) /\ \A k \in 1 .. Len(w) : w[k] \in Words
  BY <1>1, <1>3
<1>6. own = [k \in 1 .. Len(w) |-> w[k].ip]
  BY <1>3, <1>5
<1> HIDE DEF own
<1>7. own \in [1 .. Len(w) -> Addresses]
  BY <1>4, <1>5, <1>6
<1>8. own \in Seq(Addresses) /\ Len(own) = Len(w)
  BY <1>5, <1>7
<1>9. c \in Seq(Addresses) /\ Len(c) \in Nat
  BY <1>1, <1>2
<1>10. Len(c \o own) = Len(c) + Len(own)
       /\ (\A k \in 1 .. Len(c) : (c \o own)[k] = c[k])
       /\ \A k \in 1 .. Len(own) : (c \o own)[Len(c) + k] = own[k]
  <2>1. ASSUME NEW q \in Seq(Addresses), NEW r \in Seq(Addresses)
        PROVE  /\ Len(q \o r) = Len(q) + Len(r)
               /\ \A k \in 1 .. Len(q) : (q \o r)[k] = q[k]
               /\ \A k \in 1 .. Len(r) : (q \o r)[Len(q) + k] = r[k]
    OBVIOUS
  <2> QED
    BY <1>8, <1>9, <2>1
<1>11. IpsOf(s) = c \o own
  BY <1>2 DEF IpsOf, own
<1>12. \A k \in 1 .. Len(w) : (c \o own)[Len(c) + k] = w[k].ip
  BY <1>6, <1>8, <1>10
<1>13. Chain(s) = Len(c) /\ Total(s) = Len(c) + Len(w)
  BY <1>2, <1>3 DEF Chain, Total
<1>14. \A k \in 1 .. Chain(s) : IpsOf(s)[k] = s.callchain[k]
  BY ONLY <1>2, <1>10, <1>11, <1>13
<1>15. \A k \in 1 .. Len(s.stack) : IpsOf(s)[Chain(s) + k] = s.stack[k].ip
  BY ONLY <1>3, <1>11, <1>12, <1>13
<1>16. IpsOf(s) \in Seq(Addresses) /\ Len(IpsOf(s)) = Total(s)
  <2>1. c \o own \in Seq(Addresses)
    BY ONLY <1>8, <1>9
  <2> QED
    BY ONLY <2>1, <1>8, <1>10, <1>11, <1>13
<1>17. Len(s.stack) = Len(w)
  BY <1>3
<1>18. Total(s) \in Nat /\ Total(s) = Chain(s) + Len(s.stack) /\ Chain(s) \in Nat
  BY ONLY <1>5, <1>9, <1>13, <1>17
<1>19. Len(s.stack) \in Nat
  BY ONLY <1>5, <1>17
<1> QED
  BY <1>14, <1>15, <1>16, <1>18, <1>19

Longer(f, e) ==
  /\ \E T : Append(f, e) \in Seq(T)
  /\ Len(Append(f, e)) = Len(f) + 1
  /\ Append(f, e)[Len(f) + 1] = e
  /\ \A k \in 1 .. Len(f) : Append(f, e)[k] = f[k]

LEMMA AppendLemma ==
  ASSUME NEW f, NEW S, f \in Seq(S), NEW e
  PROVE  Longer(f, e)
<1>1. f \in Seq(S \cup {e}) /\ e \in S \cup {e}
  OBVIOUS
<1>2. Append(f, e) \in Seq(S \cup {e})
  BY <1>1
<1> QED
  BY <1>2 DEF Longer

\* A frame is found for the address at the position, and is the next one of the sample.
LEMMA AddFrameFollows ==
  ASSUME NEW ip, NEW location, AddFrame(ip, location), OrderInv,
         analysis.stage \in {"callchain", "unwind", "ip"}, ip = NextIp(analysis),
         analysis.stage = "callchain" => analysis.pos <= Chain(analysis.sample),
         analysis.stage = "unwind" => analysis.pos <= Len(analysis.sample.stack),
         failed' \in BOOLEAN, failed => failed', dirty' => dirty \/ failed'
  PROVE  Analyzed(analysis') /\ Follows(analysis') /\ Excused(analysis)'
         /\ analysis'.stage # "idle"
<1>1. analysis.sample \in Samples
  BY DEF OrderInv, Analyzed
<1>2. PICK S : analysis.frames \in Seq(S)
  BY DEF OrderInv, Analyzed
<1>3. CASE analysis.stage = "unwind" /\ dirty'
  <2>1. analysis' = [analysis EXCEPT !.reported = FALSE]
    BY <1>3 DEF AddFrame
  <2>2. /\ analysis'.stage = analysis.stage /\ analysis'.frames = analysis.frames
        /\ analysis'.pos = analysis.pos /\ analysis'.sample = analysis.sample
        /\ analysis'.attempt = analysis.attempt
    BY <2>1
  <2>3. Analyzed(analysis')
    BY <1>1, <1>2, <2>2 DEF OrderInv, Analyzed
  <2>4. Follows(analysis')
    BY <2>2, <1>3 DEF OrderInv, Follows
  <2>5. Excused(analysis)'
    BY <2>2, <1>3 DEF OrderInv, Excused
  <2> QED
    BY <1>3, <2>2, <2>3, <2>4, <2>5
<1>4. CASE ~(analysis.stage = "unwind" /\ dirty')
  <2> DEFINE e == [ip |-> ip, location |-> location]
             n == Len(analysis.frames)
  <2>1. analysis' = [analysis EXCEPT !.frames = Append(@, e), !.pos = @ + 1, !.reported = FALSE]
    BY <1>4 DEF AddFrame
  <2>2. e.ip = ip
    OBVIOUS
  <2> HIDE DEF e
  <2>3. /\ analysis'.stage = analysis.stage
        /\ analysis'.frames = Append(analysis.frames, e)
        /\ analysis'.pos = analysis.pos + 1 /\ analysis'.sample = analysis.sample
        /\ analysis'.attempt = analysis.attempt
    BY <2>1
  <2>4. /\ n \in Nat
        /\ \E T : analysis'.frames \in Seq(T)
        /\ Len(analysis'.frames) = n + 1 /\ analysis'.frames[n + 1].ip = ip
        /\ \A k \in 1 .. n : analysis'.frames[k] = analysis.frames[k]
    <3>1. PICK f : f = analysis.frames
      OBVIOUS
    <3>2. f \in Seq(S) /\ n = Len(f) /\ analysis'.frames = Append(f, e)
      BY <1>2, <2>3, <3>1
    <3>0. Longer(f, e)
      BY <3>2, AppendLemma, Zenon
    <3>3. /\ \E T : Append(f, e) \in Seq(T)
          /\ Len(Append(f, e)) = Len(f) + 1
          /\ Append(f, e)[Len(f) + 1] = e
          /\ \A k \in 1 .. Len(f) : Append(f, e)[k] = f[k]
      BY ONLY <3>0, Zenon DEF Longer
    <3>4. Len(f) \in Nat
      BY <3>2
    <3>5. n = Len(f)
      BY ONLY <3>2
    <3> HIDE DEF n
    <3> QED
      BY ONLY <2>2, <3>1, <3>2, <3>3, <3>4, <3>5, Zenon
  <2> HIDE DEF n
  <2>5. n = Len(analysis.frames)
    BY DEF n
  <2>6. Analyzed(analysis')
    BY <1>1, <2>3, <2>4 DEF OrderInv, Analyzed
  <2>7. analysis.pos \in Nat \ {0}
    BY DEF OrderInv, Analyzed
  <2>8. Follows(analysis')
    <3>1. CASE analysis.stage = "callchain"
      <4>1. analysis.pos = n + 1 /\ analysis.pos <= Chain(analysis.sample)
            /\ \A k \in 1 .. n : analysis.frames[k].ip = IpsOf(analysis.sample)[k]
        BY <3>1, <2>5 DEF OrderInv, Follows
      <4>2. ip = IpsOf(analysis.sample)[n + 1]
        <5>1. ip = analysis.sample.callchain[analysis.pos]
          BY <3>1 DEF NextIp
        <5>2. analysis.pos \in 1 .. Chain(analysis.sample)
          BY <4>1, <2>4, <1>1, IpsLemma
        <5> QED
          BY <5>1, <5>2, <4>1, <1>1, IpsLemma
      <4>3. \A k \in 1 .. n + 1 : analysis'.frames[k].ip = IpsOf(analysis.sample)[k]
        <5>1. \A k \in 1 .. n + 1 : k \in 1 .. n \/ k = n + 1
          BY <2>4
        <5> QED
          BY <4>1, <4>2, <2>4, <5>1
      <4> QED
        BY <3>1, <4>1, <4>3, <2>3, <2>4, <1>1, IpsLemma DEF Follows
    <3>2. CASE analysis.stage = "unwind"
      <4>1. n = Chain(analysis.sample) + analysis.pos - 1
            /\ analysis.pos <= Len(analysis.sample.stack)
            /\ \A k \in 1 .. n : analysis.frames[k].ip = IpsOf(analysis.sample)[k]
        BY <3>2, <2>5 DEF OrderInv, Follows
      <4>2. ip = IpsOf(analysis.sample)[n + 1]
        <5>1. n + 1 = Chain(analysis.sample) + analysis.pos
              /\ analysis.pos \in 1 .. Len(analysis.sample.stack)
          BY <4>1, <2>4, <2>7, <1>1, IpsLemma
        <5> QED
          BY <3>2, <5>1, <1>1, IpsLemma DEF NextIp
      <4>3. \A k \in 1 .. n + 1 : analysis'.frames[k].ip = IpsOf(analysis.sample)[k]
        <5>1. \A k \in 1 .. n + 1 : k \in 1 .. n \/ k = n + 1
          BY <2>4
        <5> QED
          BY <4>1, <4>2, <2>4, <5>1
      <4>4. n + 1 = Chain(analysis.sample) + (analysis.pos + 1) - 1
            /\ n + 1 <= Total(analysis.sample)
        <5>1. PICK c \in Nat, s \in Nat : /\ c = Chain(analysis.sample)
                                          /\ s = Len(analysis.sample.stack)
                                          /\ Total(analysis.sample) = c + s
          BY <1>1, IpsLemma
        <5>2. PICK p \in Int : p = analysis.pos
          BY <2>4, <2>7, <1>1
        <5>3. n = c + p - 1 /\ p <= s
          BY ONLY <4>1, <5>1, <5>2, Zenon
        <5>4. n + 1 = c + (p + 1) - 1 /\ n + 1 <= c + s
          BY ONLY <5>3, c \in Nat, s \in Nat, p \in Int
        <5> QED
          BY ONLY <5>1, <5>2, <5>4, Zenon
      <4> QED
        BY <3>2, <4>3, <4>4, <2>3, <2>4 DEF Follows
    <3>3. CASE analysis.stage = "ip"
      BY <3>3, <2>3 DEF Follows
    <3> QED
      BY <3>1, <3>2, <3>3
  <2>9. Excused(analysis)'
    BY <2>3, <1>4 DEF OrderInv, Excused
  <2> QED
    BY <2>3, <2>6, <2>8, <2>9
<1> QED
  BY <1>3, <1>4

\* Nothing but the analysis changes, and nobody waits.
LEMMA UnchangedFollows ==
  ASSUME OrderInv, UNCHANGED <<analysis, call, failed>>, dirty' => dirty,
         analysis.stage # "idle" => ~active'
  PROVE  OrderInv'
BY DEF OrderInv, Excused

LEMMA FoundFrame ==
  ASSUME NEW ip, lookupFrame(ip), OrderInv, call = NoCall, UNCHANGED failed,
         analysis.stage \in {"callchain", "unwind", "ip"}, ip = NextIp(analysis),
         analysis.stage = "callchain" => analysis.pos <= Chain(analysis.sample),
         analysis.stage = "unwind" => analysis.pos <= Len(analysis.sample.stack)
  PROVE  OrderInv'
<1>1. ASSUME NEW c \in Cached(ip), UNCHANGED <<vars, modules, dirty, cache, call>>,
             AddFrame(ip, c.location)
      PROVE  OrderInv'
  <2>1. failed' \in BOOLEAN /\ (failed => failed') /\ (dirty' => dirty \/ failed')
    BY <1>1 DEF OrderInv
  <2>2. Analyzed(analysis') /\ Follows(analysis') /\ Excused(analysis)'
        /\ analysis'.stage # "idle"
    BY <1>1, <2>1, AddFrameFollows
  <2>3. ~active'
    BY <1>1 DEF OrderInv, vars
  <2> QED
    BY <1>1, <2>1, <2>2, <2>3 DEF OrderInv, Waits
<1>2. ASSUME BeginCall("lookupFrame", ip)
      PROVE  OrderInv'
  <2>1. call' = [by |-> "lookupFrame", ip |-> ip, elf |-> findElf(ip), wanted |-> findElf(ip)]
        /\ UNCHANGED <<vars, modules, dirty, cache, analysis>>
    BY <1>2 DEF BeginCall
  <2>2. call'.by = "lookupFrame" /\ call'.ip = ip
    BY <2>1
  <2>3. Waits(analysis, call)'
    BY <2>1, <2>2 DEF Waits
  <2> QED
    BY <2>1, <2>3 DEF OrderInv, Excused, vars
<1> QED
  BY <1>1, <1>2 DEF lookupFrame

LEMMA ReturnFollows ==
  ASSUME ReturnToCaller, OrderInv, call # NoCall, active' = active,
         failed' \in BOOLEAN, failed => failed', dirty' => dirty \/ failed'
  PROVE  OrderInv'
<1>0. analysis.stage # "idle" /\ ~active' /\ call' = NoCall
  BY DEF OrderInv, Waits, ReturnToCaller
<1>1. CASE call.by = "module"
  <2>1. analysis' = [analysis EXCEPT !.reported = TRUE]
    BY <1>1 DEF ReturnToCaller
  <2>2. /\ analysis'.stage = analysis.stage /\ analysis'.frames = analysis.frames
        /\ analysis'.pos = analysis.pos /\ analysis'.sample = analysis.sample
        /\ analysis'.attempt = analysis.attempt
    BY <2>1
  <2>3. Analyzed(analysis')
    BY <2>2 DEF OrderInv, Analyzed
  <2>4. Follows(analysis')
    BY <2>2 DEF OrderInv, Follows
  <2>5. Excused(analysis)'
    BY <2>2 DEF OrderInv, Excused
  <2> QED
    BY <1>0, <2>3, <2>4, <2>5 DEF OrderInv, Waits
<1>2. CASE call.by # "module"
  <2>1. AddFrame(call.ip, Location(call.elf, call.ip))
    BY <1>2 DEF ReturnToCaller
  <2>2. /\ analysis.stage \in {"callchain", "unwind", "ip"} /\ call.ip = NextIp(analysis)
        /\ analysis.stage = "callchain" => analysis.pos <= Chain(analysis.sample)
        /\ analysis.stage = "unwind" => analysis.pos <= Len(analysis.sample.stack)
    BY <1>2 DEF OrderInv, Waits
  <2>3. Analyzed(analysis') /\ Follows(analysis') /\ Excused(analysis)'
    BY <2>1, <2>2, AddFrameFollows
  <2> QED
    BY <1>0, <2>3 DEF OrderInv, Waits
<1> QED
  BY <1>1, <1>2

LEMMA LookupFollows ==
  ASSUME OrderInv, Lookup
  PROVE  OrderInv'
<1>1. CASE ReportFails
  <2>1. call # NoCall /\ active' = active /\ ReturnToCaller /\ failed' = TRUE
    BY <1>1 DEF ReportFails, Unreported, InModule, vars
  <2> QED
    BY <2>1, ReturnFollows
<1>2. CASE (GoToBase \/ ReturnModule \/ NothingToReport \/ Report) /\ UNCHANGED failed
  <2>1. failed' \in BOOLEAN /\ (failed => failed')
    BY <1>2 DEF OrderInv
  <2>2. CASE GoToBase
    <3>1. PICK b \in Bases(call.wanted) : call' = [call EXCEPT !.wanted = b]
      BY <2>2 DEF GoToBase
    <3>2. call'.by = call.by /\ call'.ip = call.ip /\ call # NoCall
      BY <2>2, <3>1 DEF GoToBase
    <3>3. UNCHANGED <<vars, dirty, analysis, failed>>
      BY <2>2, <1>2 DEF GoToBase
    <3>4. Waits(analysis, call)'
      BY <3>2, <3>3 DEF OrderInv, Waits
    <3> QED
      BY <3>3, <3>4 DEF OrderInv, Excused, vars
  <2>3. CASE ReturnModule \/ NothingToReport \/ Report
    <3>1. call # NoCall /\ active' = active /\ ReturnToCaller /\ dirty' = dirty
      BY <2>3 DEF ReturnModule, NothingToReport, Report, updateElf, Unreported, InModule, vars
    <3> QED
      BY <2>1, <3>1, ReturnFollows
  <2> QED
    BY <1>2, <2>2, <2>3
<1> QED
  BY <1>1, <1>2 DEF Lookup

\* A stage that follows another one.
LEMMA AttemptEndsLemma ==
  ASSUME OrderInv, AttemptEnds
  PROVE  /\ analysis.stage \in {"callchain", "unwind"} /\ call = NoCall
         /\ analysis.sample \in Samples
         /\ Len(analysis.frames) \in Nat /\ Len(analysis.frames) <= Total(analysis.sample)
         /\ ~dirty => Len(analysis.frames) = Total(analysis.sample)
<1>1. analysis.stage \in {"callchain", "unwind"} /\ call = NoCall
  BY DEF AttemptEnds, At
<1>2. analysis.sample \in Samples /\ analysis.pos \in Nat \ {0}
  BY <1>1 DEF OrderInv, Analyzed
<1>3. Len(analysis.frames) \in Nat
  <2>1. \A S : analysis.frames \in Seq(S) => Len(analysis.frames) \in Nat
    OBVIOUS
  <2> QED
    BY <2>1 DEF OrderInv, Analyzed
<1>4. CASE analysis.stage = "callchain"
  <2>1. analysis.pos = Len(analysis.frames) + 1 /\ analysis.pos <= Chain(analysis.sample) + 1
    BY <1>4 DEF OrderInv, Follows
  <2>2. ~dirty => analysis.pos > Chain(analysis.sample) /\ analysis.sample.stack = <<>>
    BY <1>4 DEF AttemptEnds, At, CallchainEnds, Chain
  <2>3. analysis.sample.stack = <<>> => Len(analysis.sample.stack) = 0
    OBVIOUS
  <2> QED
    BY <1>1, <1>2, <1>3, <2>1, <2>2, <2>3, IpsLemma
<1>5. CASE analysis.stage = "unwind"
  <2>1. Len(analysis.frames) = Chain(analysis.sample) + analysis.pos - 1
        /\ Len(analysis.frames) <= Total(analysis.sample)
    BY <1>5 DEF OrderInv, Follows
  <2>2. ~dirty => analysis.pos > Len(analysis.sample.stack)
    BY <1>5 DEF AttemptEnds, At, UnwindEnds
  <2> QED
    BY <1>1, <1>2, <1>3, <2>1, <2>2, IpsLemma
<1> QED
  BY <1>1, <1>4, <1>5

LEMMA NewAttempt ==
  ASSUME NEW a, NEW s \in Samples, NEW n \in 1 .. 2,
         a.stage = "callchain", a.sample = s, a.attempt = n, a.pos = 1, a.frames = <<>>
  PROVE  Analyzed(a) /\ Follows(a) /\ Waits(a, NoCall)
<1>1. a.frames \in Seq({}) /\ Len(a.frames) = 0
  OBVIOUS
<1>2. Chain(s) \in Nat
  BY IpsLemma
<1>3. Analyzed(a)
  BY <1>1 DEF Analyzed, Stages
<1>4. Follows(a)
  BY <1>1, <1>2 DEF Follows
<1> QED
  BY <1>3, <1>4 DEF Waits

LEMMA AnalyzeFollows ==
  ASSUME OrderInv, Analyze
  PROVE  OrderInv'
<1>1. ASSUME resolveCallchain PROVE OrderInv'
  <2>1. /\ analysis.stage = "callchain" /\ call = NoCall /\ UNCHANGED failed
        /\ analysis.pos <= Chain(analysis.sample)
        /\ lookupFrame(analysis.sample.callchain[analysis.pos])
    <3>1. analysis.stage = "callchain" /\ ~CallchainEnds
      BY <1>1 DEF resolveCallchain, At
    <3>2. analysis.pos \in Nat /\ Chain(analysis.sample) \in Nat
      BY <3>1, IpsLemma DEF OrderInv, Analyzed
    <3> QED
      BY <1>1, <3>1, <3>2 DEF resolveCallchain, At, CallchainEnds, Chain
  <2> QED
    BY <2>1, FoundFrame DEF NextIp
<1>2. ASSUME unwindStack PROVE OrderInv'
  <2>1. /\ analysis.stage = "callchain" /\ CallchainEnds /\ ~dirty /\ call = NoCall
        /\ analysis' = [analysis EXCEPT !.stage = "unwind", !.pos = 1]
        /\ UNCHANGED <<vars, modules, dirty, cache, call, failed>>
    BY <1>2 DEF unwindStack, At
  <2>2. /\ analysis'.stage = "unwind" /\ analysis'.pos = 1
        /\ analysis'.frames = analysis.frames /\ analysis'.sample = analysis.sample
        /\ analysis'.attempt = analysis.attempt
    BY <2>1 DEF OrderInv, Analyzed
  <2>3. analysis.sample \in Samples /\ analysis.pos \in Nat \ {0}
    BY <2>1 DEF OrderInv, Analyzed
  <2>4. /\ analysis.pos = Len(analysis.frames) + 1
        /\ analysis.pos <= Chain(analysis.sample) + 1
        /\ analysis.pos > Chain(analysis.sample)
    BY <2>1 DEF OrderInv, Follows, CallchainEnds, Chain
  <2>5. \A S : analysis.frames \in Seq(S) => Len(analysis.frames) \in Nat
    OBVIOUS
  <2>6. Len(analysis.frames) \in Nat
    BY <2>5 DEF OrderInv, Analyzed
  <2>7. Len(analysis.frames) = Chain(analysis.sample) + 1 - 1
        /\ Len(analysis.frames) <= Total(analysis.sample)
    BY <2>3, <2>4, <2>6, IpsLemma
  <2>8. Follows(analysis')
    BY <2>1, <2>2, <2>7 DEF OrderInv, Follows
  <2>9. Analyzed(analysis')
    BY <2>1, <2>2 DEF OrderInv, Analyzed, Stages
  <2>10. Excused(analysis)' /\ Waits(analysis, call)'
    BY <2>1, <2>2 DEF Excused, Waits
  <2> QED
    BY <2>1, <2>8, <2>9, <2>10 DEF OrderInv, vars
<1>3. ASSUME frameCallback PROVE OrderInv'
  <2>1. /\ analysis.stage = "unwind" /\ call = NoCall /\ UNCHANGED failed /\ ~UnwindEnds
    BY <1>3 DEF frameCallback, At
  <2>2. analysis.pos \in Nat /\ Len(analysis.sample.stack) \in Nat
    BY <2>1, IpsLemma DEF OrderInv, Analyzed
  <2>3. analysis.pos <= Len(analysis.sample.stack)
    BY <2>1, <2>2 DEF UnwindEnds
  <2> DEFINE frame == analysis.sample.stack[analysis.pos]
  <2>4. CASE analysis.reported
    <3>1. lookupFrame(frame.ip) /\ frame.ip = NextIp(analysis)
      BY <1>3, <2>1, <2>4 DEF frameCallback, NextIp
    <3> QED
      BY <2>1, <2>3, <3>1, FoundFrame
  <2>5. CASE ~analysis.reported
    <3>1. BeginCall("module", frame.pc)
      BY <1>3, <2>5 DEF frameCallback
    <3>2. call'.by = "module" /\ UNCHANGED <<vars, dirty, analysis>>
      BY <3>1 DEF BeginCall
    <3>3. Waits(analysis, call)'
      BY <2>1, <2>3, <3>2 DEF Waits
    <3> QED
      BY <2>1, <3>2, <3>3 DEF OrderInv, Excused, vars
  <2> QED
    BY <2>4, <2>5
<1>4. ASSUME Retry PROVE OrderInv'
  <2>1. /\ UNCHANGED <<vars, call, failed>> /\ dirty' = FALSE
        /\ analysis' = [analysis EXCEPT !.stage = "callchain", !.attempt = 2, !.pos = 1,
                                        !.frames = <<>>]
    BY <1>4 DEF Retry, clearCache
  <2>2. call' = NoCall /\ analysis.sample \in Samples /\ analysis.stage # "idle"
    BY <1>4, <2>1, AttemptEndsLemma DEF Retry
  <2>3. /\ analysis'.stage = "callchain" /\ analysis'.sample = analysis.sample
        /\ analysis'.attempt = 2 /\ analysis'.pos = 1 /\ analysis'.frames = <<>>
    BY <2>1 DEF OrderInv, Analyzed
  <2>4. Analyzed(analysis') /\ Follows(analysis') /\ Waits(analysis', NoCall)
    BY <2>2, <2>3, NewAttempt
  <2> QED
    BY <2>1, <2>2, <2>3, <2>4 DEF OrderInv, Excused, vars
<1>5. ASSUME Finish PROVE OrderInv'
  <2>1. /\ UNCHANGED <<vars, call, failed>> /\ ~dirty'
        /\ analysis' = [analysis EXCEPT !.stage = IF analysis.frames = <<>> THEN "ip" ELSE "send"]
        /\ ~dirty \/ analysis.attempt = 2
    <3>1. ~dirty'
      BY <1>5 DEF Finish, clearCache
    <3> QED
      BY <1>5, <3>1 DEF Finish
  <2>2. /\ analysis.stage \in {"callchain", "unwind"} /\ call = NoCall
        /\ Len(analysis.frames) <= Total(analysis.sample)
        /\ ~dirty => Len(analysis.frames) = Total(analysis.sample)
    BY <1>5, AttemptEndsLemma DEF Finish
  <2>3. /\ analysis'.stage \in {"ip", "send"} /\ analysis'.sample = analysis.sample
        /\ analysis'.attempt = analysis.attempt /\ analysis'.pos = analysis.pos
        /\ analysis'.frames = analysis.frames
    BY <2>1 DEF OrderInv, Analyzed
  <2>4. Analyzed(analysis')
    BY <2>2, <2>3 DEF OrderInv, Analyzed, Stages
  <2>5. Follows(analysis')
    BY <2>2, <2>3 DEF OrderInv, Follows
  <2>6. Excused(analysis)'
    BY <2>1, <2>2, <2>3 DEF OrderInv, Excused
  <2> QED
    BY <2>1, <2>2, <2>4, <2>5, <2>6 DEF OrderInv, Waits, vars
<1>6. ASSUME LookupIp PROVE OrderInv'
  <2>1. analysis.stage = "ip" /\ call = NoCall /\ UNCHANGED failed
        /\ lookupFrame(analysis.sample.ip)
    BY <1>6 DEF LookupIp, At
  <2> QED
    BY <2>1, FoundFrame DEF NextIp
<1>7. ASSUME Send PROVE OrderInv'
  <2>1. analysis' = Idle /\ UNCHANGED <<vars, dirty, call, failed>> /\ call = NoCall
    BY <1>7 DEF Send, At
  <2>2. <<>> \in Seq({})
    OBVIOUS
  <2>3. Analyzed(analysis') /\ Follows(analysis') /\ Excused(analysis)' /\ Waits(analysis, call)'
    BY <2>1, <2>2 DEF Idle, Analyzed, Stages, Follows, Excused, Waits
  <2> QED
    BY <2>1, <2>3 DEF OrderInv, Idle, vars
<1> QED
  BY <1>1, <1>2, <1>3, <1>4, <1>5, <1>6, <1>7, LookupFollows DEF Analyze

LEMMA NextFollows == OrderInv /\ [TableNext]_tableVars => OrderInv'
<1> SUFFICES ASSUME OrderInv, [TableNext]_tableVars PROVE OrderInv'
  OBVIOUS
<1>1. ASSUME NEW m \in Mmaps, BeginRegister(m) PROVE failed' = failed => OrderInv'
  BY <1>1 DEF BeginRegister, OrderInv, Excused
<1>2. ASSUME Register PROVE OrderInv'
  <2>1. active
    BY <1>2 DEF Register, KeepMapping, Ignore, InvalidateMapping, Extend, Overwrite, EndRegister,
                ReturnEarly, Insert, Visits
  <2>2. analysis.stage = "idle"
    BY <2>1 DEF OrderInv
  <2>3. UNCHANGED <<analysis, call, failed>>
    BY <1>2 DEF Register, KeepMapping, InvalidateMapping, EndRegister
  <2> QED
    BY <2>2, <2>3 DEF OrderInv, Excused
<1>3. ASSUME NEW s \in Samples, analyze(s) PROVE OrderInv'
  <2>1. /\ ~active /\ call = NoCall /\ failed' = FALSE /\ UNCHANGED <<vars, dirty, call>>
        /\ analysis' = [Idle EXCEPT !.stage = "callchain", !.sample = s, !.attempt = 1]
    BY <1>3 DEF analyze, At
  <2>2. /\ analysis'.stage = "callchain" /\ analysis'.sample = s
        /\ analysis'.attempt = 1 /\ analysis'.pos = 1 /\ analysis'.frames = <<>>
    BY <2>1 DEF Idle
  <2>3. Analyzed(analysis') /\ Follows(analysis') /\ Waits(analysis', NoCall)
    BY <2>2, NewAttempt
  <2>4. Excused(analysis)'
    BY <2>2 DEF Excused
  <2>5. ~active'
    BY <2>1 DEF vars
  <2>6. Waits(analysis, call)'
    BY <2>1, <2>3
  <2>7. Analyzed(analysis)' /\ Follows(analysis)'
    BY <2>3
  <2> QED
    BY <2>1, <2>4, <2>5, <2>6, <2>7 DEF OrderInv
<1>4. ASSUME UNCHANGED tableVars PROVE OrderInv'
  BY <1>4 DEF tableVars, vars, OrderInv, Excused
<1> QED
  BY <1>1, <1>2, <1>3, <1>4, AnalyzeFollows DEF TableNext

LEMMA InitFollows == TableInit => OrderInv
<1> SUFFICES ASSUME TableInit PROVE OrderInv
  OBVIOUS
<1>1. <<>> \in Seq({})
  OBVIOUS
<1>2. analysis = Idle /\ call = NoCall /\ failed = FALSE
  BY DEF TableInit
<1>3. Idle.stage = "idle" /\ Idle.frames = <<>> /\ Idle.pos = 1
  BY DEF Idle
<1>4. Analyzed(analysis) /\ Follows(analysis) /\ Excused(analysis) /\ Waits(analysis, call)
  BY <1>1, <1>2, <1>3 DEF Analyzed, Stages, Follows, Excused, Waits
<1> QED
  BY <1>2, <1>3, <1>4 DEF OrderInv

LEMMA FollowingIsOrder == OrderInv => FramesAreInOrder
<1> SUFFICES ASSUME OrderInv, analysis.stage = "send"
    PROVE  LET ips == [k \in DOMAIN analysis.frames |-> analysis.frames[k].ip]
           IN  /\ IsPrefixOf(ips, IpsOf(analysis.sample))
               /\ ~failed => ips = IpsOf(analysis.sample)
  BY DEF FramesAreInOrder
<1> DEFINE ips == [k \in DOMAIN analysis.frames |-> analysis.frames[k].ip]
<1>1. PICK S : analysis.frames \in Seq(S)
  BY DEF OrderInv, Analyzed
<1>2. PICK n \in Nat : n = Len(analysis.frames)
  BY <1>1
<1>3. PICK s \in Samples : s = analysis.sample
  BY DEF OrderInv, Analyzed
<1>4. PICK all : all = IpsOf(s)
  OBVIOUS
<1>5. n <= Total(s) /\ (~failed => n = Total(s))
  BY <1>2, <1>3 DEF OrderInv, Follows, Excused
<1>6. ips = [k \in 1 .. n |-> all[k]]
  <2>1. DOMAIN analysis.frames = 1 .. n
    BY <1>1, <1>2
  <2>2. \A k \in 1 .. n : analysis.frames[k].ip = all[k]
    BY <1>2, <1>3, <1>4 DEF OrderInv, Follows
  <2> QED
    BY <2>1, <2>2
<1>7. Len(all) = Total(s) /\ Total(s) \in Nat
  BY <1>3, <1>4, IpsLemma
<1>8. all \in Seq(Addresses)
  BY <1>3, <1>4, IpsLemma
<1> HIDE DEF ips
<1>9. ips = SubSeq(all, 1, n) /\ Len(ips) = n
  BY <1>5, <1>6, <1>7, <1>8
<1>10. n = Total(s) => ips = all
  BY <1>6, <1>7, <1>8
<1>11. IsPrefixOf(ips, all) /\ (~failed => ips = all)
  BY <1>5, <1>7, <1>9, <1>10 DEF IsPrefixOf
<1> QED
  BY <1>3, <1>4, <1>11 DEF ips

\* The frames sent for a sample are its own, each once and in order, and all of them unless
\* a file could not be loaded (analyze, resolveCallchain, frameCallback).
THEOREM TableSendsFramesInOrder == TableSpec => []FramesAreInOrder
BY InitFollows, NextFollows, FollowingIsOrder, PTL DEF TableSpec
=============================================================================
