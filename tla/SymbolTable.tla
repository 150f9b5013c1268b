---------------------------- MODULE SymbolTable ----------------------------
(***************************************************************************)
(* PerfSymbolTable (src/app/perfsymboltable.cpp), the table of one         *)
(* process, and PerfUnwind::analyze, which looks up the frames of samples  *)
(* in it.  Mappings are registered in the ELF map; a lookup reports the    *)
(* file of the mapping to libdwfl, which keeps it as a module.  Mappings   *)
(* that overwrite others make the cache dirty, and so do files that        *)
(* cannot be loaded: then all modules are dropped, and the sample that was *)
(* being analyzed is tried once more.                                      *)
(*                                                                         *)
(* Which return addresses a stack has is data: a sample names them.        *)
(***************************************************************************)
EXTENDS ElfMap, Sequences

CONSTANTS
  Samples,    \* [callchain : addresses, stack : [pc, ip], ip]; ip is pc,
              \* or the address before it where pc returns to
  Unloadable  \* paths of the files that libdwfl may fail to load

\* Whether a file is found depends on its path, and its module has room for all
\* of its mappings.
ASSUME TableAssumption ==
  /\ \A m, n \in Mmaps : m.path = n.path => m.file = n.file
  /\ \A m \in Mmaps :
       m.file => m.pgoff <= m.addr /\ m.pgoff + m.len <= ModuleSize[m.path]
  /\ \A s \in Samples : s.ip \in Addresses /\ s.callchain \in Seq(Addresses)
                        /\ s.stack \in Seq([pc : Addresses, ip : Addresses])
  /\ Unloadable \subseteq Paths

VARIABLES
  modules,   \* what m_dwfl has: [path, start, end]
  dirty,     \* m_cacheIsDirty
  cache,     \* PerfAddressCache, and m_invalidAddressCache: [key, location]
  analysis,  \* the locals of analyze
  call,      \* those of lookupFrame and module, or NoCall
  failed     \* history: whether a file could not be loaded for this sample

tableVars == <<vars, modules, dirty, cache, analysis, call, failed>>

-----------------------------------------------------------------------------
(***************************************************************************)
(* External: libdwfl                                                       *)
(***************************************************************************)
\* Where the file's first byte would be.
Start(e) == e.addr - e.pgoff

ModuleOf(e) ==
  [path |-> e.path, start |-> Start(e), end |-> Start(e) + ModuleSize[e.path]]

\* dwfl_addrmodule(a) is any of these: modules may overlap.
AddrModules(a) == {d \in modules : d.start <= a /\ a < d.end}

-----------------------------------------------------------------------------
(***************************************************************************)
(* Registering mappings                                                    *)
(***************************************************************************)
Idle ==
  [stage |-> "idle", sample |-> [callchain |-> <<>>, stack |-> <<>>, ip |-> 0],
   attempt |-> 0, pos |-> 1, reported |-> FALSE, frames |-> <<>>]

NoElf  == NewElf("", FALSE, 0, 0, 0)
NoCall == [by |-> "nobody", ip |-> 0, elf |-> NoElf, wanted |-> NoElf]

\* The locations of valid mappings are shared with other tables, and stay.
clearCache ==
  /\ modules' = {}
  /\ cache' = {c \in cache : c.key.path # ""}
  /\ dirty' = FALSE

BeginRegister(m) ==
  /\ analysis.stage = "idle"
  /\ registerElf(m)
  /\ UNCHANGED <<modules, dirty, cache, analysis, call>>

KeepMapping(i) ==
  /\ Ignore(i)
  /\ UNCHANGED <<modules, dirty, cache, analysis, call>>

\* Faulty: looks for the module at the wrong end.
aboutToInvalidateEnd(i) == dirty' = (dirty \/ AddrModules(End(i)) # {})

\* The signal that registerElf emits for every mapping it overwrites.
aboutToInvalidate(i) == dirty' = (dirty \/ AddrModules(i.addr) # {})

InvalidateMapping(i) ==
  /\ Extend(i) \/ Overwrite(i)
  /\ aboutToInvalidate(i)
  /\ UNCHANGED <<modules, cache, analysis, call>>

EndRegister ==
  /\ (\E i \in todo : ReturnEarly(i)) \/ Insert
  /\ IF dirty THEN clearCache ELSE UNCHANGED <<modules, dirty, cache>>
  /\ UNCHANGED <<analysis, call>>

-----------------------------------------------------------------------------
(***************************************************************************)
(* lookupFrame and module                                                  *)
(***************************************************************************)
findElf(ip) ==
  IF \E i \in elfs : Finds(ip, i) THEN CHOOSE i \in elfs : Finds(ip, i) ELSE NoElf

\* relativeAddress; a mapping that is not valid has its key by the address.
Key(e, ip) ==
  [path |-> e.path,
   rel  |-> ip - (IF e.baseAddr # NoBase THEN e.baseAddr ELSE e.addr)]

\* The code that a location was made for: a byte of a file.
Location(e, ip) == [path |-> e.path, offset |-> ip - e.addr + e.pgoff]

Cached(ip) == {c \in cache : c.key = Key(findElf(ip), ip)}

\* A frame was looked up.  The call chain takes it in any case, unwinding only
\* while the cache is clean (frameCallback).
AddFrame(ip, location) ==
  analysis' =
    IF analysis.stage = "unwind" /\ dirty'
    THEN [analysis EXCEPT !.reported = FALSE]
    ELSE [analysis EXCEPT !.frames = Append(@, [ip |-> ip, location |-> location]),
                          !.pos = @ + 1, !.reported = FALSE]

BeginCall(by, ip) ==
  /\ call' = [by |-> by, ip |-> ip, elf |-> findElf(ip), wanted |-> findElf(ip)]
  /\ UNCHANGED <<vars, modules, dirty, cache, analysis>>

lookupFrame(ip) ==
  \/ \E c \in Cached(ip) :
       /\ UNCHANGED <<vars, modules, dirty, cache, call>>
       /\ AddFrame(ip, c.location)
  \/ Cached(ip) = {} /\ BeginCall("lookupFrame", ip)

\* module() prefers the mapping that a file has at its base address.
Bases(e) ==
  {b \in elfs : /\ b.addr = e.baseAddr /\ Finds(e.baseAddr, b)
                /\ b.pgoff = 0 /\ b.path = e.path /\ b.addr # e.addr}

\* The modules that libdwfl may return for a call.
Candidates ==
  IF AddrModules(call.ip) # {} \/ call.wanted.length = 0 THEN AddrModules(call.ip)
                               ELSE AddrModules(Start(call.wanted))

InModule == call # NoCall /\ Bases(call.wanted) = {}

\* module() returns to its caller; lookupFrame makes a location and caches it.
ReturnToCaller ==
  /\ call' = NoCall
  /\ IF call.by = "module"
     THEN analysis' = [analysis EXCEPT !.reported = TRUE] /\ UNCHANGED cache
     ELSE LET location == Location(call.elf, call.ip)
          IN  /\ AddFrame(call.ip, location)
              /\ cache' = cache \cup
                   {[key |-> Key(call.elf, call.ip), location |-> location]}

GoToBase ==
  /\ call # NoCall
  /\ \E b \in Bases(call.wanted) : call' = [call EXCEPT !.wanted = b]
  /\ UNCHANGED <<vars, modules, dirty, cache, analysis>>

ReturnModule ==
  /\ InModule
  /\ \E d \in Candidates : d.start = Start(call.wanted)
  /\ UNCHANGED dirty /\ ReturnToCaller
  /\ UNCHANGED <<vars, modules>>

\* libdwfl has no module, or another one: reportElf.
Unreported ==
  InModule /\ (Candidates = {} \/ \E d \in Candidates : d.start # Start(call.wanted))

NothingToReport ==
  /\ Unreported /\ ~call.wanted.file
  /\ UNCHANGED dirty /\ ReturnToCaller
  /\ UNCHANGED <<vars, modules>>

\* Faulty: sets the range of the mapping that was looked up.
ReportLookedUp ==
  /\ Unreported /\ call.wanted.file
  /\ modules' = modules \cup {ModuleOf(call.wanted)}
  /\ elfs' = (elfs \ {call.elf}) \cup
             {[call.elf EXCEPT !.dwflStart = Start(call.wanted),
                               !.dwflEnd = ModuleOf(call.wanted).end]}
  /\ UNCHANGED <<lastBase, active, locals, latest>>
  /\ UNCHANGED dirty /\ ReturnToCaller

Report ==
  /\ Unreported /\ call.wanted.file
  /\ modules' = modules \cup {ModuleOf(call.wanted)}
  /\ updateElf(call.wanted)
  /\ UNCHANGED dirty /\ ReturnToCaller

ReportFails ==
  /\ Unreported /\ call.wanted.file /\ call.wanted.path \in Unloadable
  /\ dirty' = TRUE /\ ReturnToCaller
  /\ failed' = TRUE
  /\ UNCHANGED <<vars, modules>>

Lookup ==
  \/ (GoToBase \/ ReturnModule \/ NothingToReport \/ Report) /\ UNCHANGED failed
  \/ ReportFails

-----------------------------------------------------------------------------
(***************************************************************************)
(* analyze                                                                 *)
(***************************************************************************)
At(stage) == analysis.stage = stage /\ call = NoCall

analyze(s) ==
  /\ ~active /\ At("idle")
  /\ analysis' = [Idle EXCEPT !.stage = "callchain", !.sample = s, !.attempt = 1]
  /\ failed' = FALSE
  /\ UNCHANGED <<vars, modules, dirty, cache, call>>

\* resolveCallchain stops after a frame that made the cache dirty.
CallchainEnds == analysis.pos > Len(analysis.sample.callchain)
                 \/ (dirty /\ analysis.pos > 1)

resolveCallchain ==
  /\ At("callchain") /\ ~CallchainEnds
  /\ lookupFrame(analysis.sample.callchain[analysis.pos])
  /\ UNCHANGED failed

unwindStack ==
  /\ At("callchain") /\ CallchainEnds /\ ~dirty
  /\ analysis.sample.stack # <<>>
  /\ analysis' = [analysis EXCEPT !.stage = "unwind", !.pos = 1]
  /\ UNCHANGED <<vars, modules, dirty, cache, call, failed>>

UnwindEnds == analysis.pos > Len(analysis.sample.stack)
              \/ (dirty /\ ~analysis.reported)

\* frameCallback has the module reported first, then looks up the frame.
frameCallback ==
  /\ At("unwind") /\ ~UnwindEnds
  /\ LET frame == analysis.sample.stack[analysis.pos]
     IN  IF analysis.reported THEN lookupFrame(frame.ip)
                              ELSE BeginCall("module", frame.pc)
  /\ UNCHANGED failed

AttemptEnds ==
  \/ At("callchain") /\ CallchainEnds /\ (dirty \/ analysis.sample.stack = <<>>)
  \/ At("unwind") /\ UnwindEnds

\* Faulty: what the first attempt found stays.
RetryKeep ==
  /\ AttemptEnds /\ dirty /\ analysis.attempt < 2
  /\ clearCache
  /\ analysis' = [analysis EXCEPT !.stage = "callchain", !.attempt = 2, !.pos = 1]
  /\ UNCHANGED <<vars, call, failed>>

\* Faulty: tries until it succeeds.
RetryAlways ==
  /\ AttemptEnds /\ dirty
  /\ clearCache
  /\ analysis' = [analysis EXCEPT !.stage = "callchain", !.pos = 1, !.frames = <<>>]
  /\ UNCHANGED <<vars, call, failed>>

Retry ==
  /\ AttemptEnds /\ dirty /\ analysis.attempt < 2
  /\ clearCache
  /\ analysis' = [analysis EXCEPT !.stage = "callchain", !.attempt = 2, !.pos = 1,
                                  !.frames = <<>>]
  /\ UNCHANGED <<vars, call, failed>>

Finish ==
  /\ AttemptEnds /\ (~dirty \/ analysis.attempt = 2)
  /\ IF dirty THEN clearCache ELSE UNCHANGED <<modules, dirty, cache>>
  /\ analysis' = [analysis EXCEPT !.stage = IF analysis.frames = <<>> THEN "ip" ELSE "send"]
  /\ UNCHANGED <<vars, call, failed>>

\* If nothing was found, at least look up the IP.
LookupIp ==
  /\ At("ip") /\ analysis.frames = <<>>
  /\ lookupFrame(analysis.sample.ip)
  /\ UNCHANGED failed

Send ==
  /\ At("send") \/ (At("ip") /\ analysis.frames # <<>>)
  /\ analysis' = Idle
  /\ UNCHANGED <<vars, modules, dirty, cache, call, failed>>

Analyze ==
  \/ Lookup \/ resolveCallchain \/ unwindStack \/ frameCallback
  \/ Retry \/ Finish \/ LookupIp \/ Send

-----------------------------------------------------------------------------
Register ==
  /\ \/ \E i \in todo : KeepMapping(i) \/ InvalidateMapping(i)
     \/ EndRegister
  /\ UNCHANGED failed

TableInit ==
  /\ Init
  /\ modules = {} /\ dirty = FALSE /\ cache = {}
  /\ analysis = Idle /\ call = NoCall /\ failed = FALSE

TableNext ==
  \/ \E m \in Mmaps : BeginRegister(m) /\ UNCHANGED failed
  \/ Register
  \/ \E s \in Samples : analyze(s)
  \/ Analyze

\* The program registers and analyzes without waiting for anything.
TableSpec ==
  /\ TableInit /\ [][TableNext]_tableVars
  /\ WF_tableVars(Register) /\ WF_tableVars(Analyze)

-----------------------------------------------------------------------------
\* A module belongs to a mapping of its file in its place: a library that was
\* overwritten is forgotten by libdwfl before the next sample is analyzed, as
\* aboutToInvalidate notices all that registerElf removes.
ModulesAreMapped ==
  ~dirty =>
    \A d \in modules : \E e \in elfs \ (IF active THEN removedElfs ELSE {}) :
      e.file /\ ModuleOf(e) = d

\* module() returns the module of the mapping's own file: "If dwfl has a module
\* and it's not the same as what we want, report the module we want".
ReturnsModuleOfMapping ==
  InModule => \A d \in Candidates :
                d.start = Start(call.wanted) => d.path = call.wanted.path

\* What is looked up in the address cache was cached for the same byte of the same
\* file: registerElf is to "invalidate the symbol and address cache" of mappings
\* that it overwrites.
FramesAreFresh ==
  \A k \in DOMAIN analysis.frames :
    LET f == analysis.frames[k]
        e == findElf(f.ip)
    IN  f.location.path = e.path /\ f.location.offset = f.ip - e.addr + e.pgoff

IpsOf(s) == s.callchain \o [k \in DOMAIN s.stack |-> s.stack[k].ip]

IsPrefixOf(p, q) == Len(p) <= Len(q) /\ p = SubSeq(q, 1, Len(p))

\* What is sent for a sample are its frames from the innermost one on, each once
\* even if a second attempt was needed, and all of them unless a file could not
\* be loaded.
FramesAreInOrder ==
  analysis.stage = "send" =>
    LET ips == [k \in DOMAIN analysis.frames |-> analysis.frames[k].ip]
    IN  /\ IsPrefixOf(ips, IpsOf(analysis.sample))
        /\ ~failed => ips = IpsOf(analysis.sample)

\* analyze returns, with at most two attempts.
AnalysisEnds == analysis.stage # "idle" ~> analysis.stage = "idle"

\* Looking up frames changes nothing in the ELF map but the ranges of modules.
ImplementsElfMap == Spec
=============================================================================
