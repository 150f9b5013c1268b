---------------------------- MODULE FrameLookup ----------------------------
(***************************************************************************)
(* PerfSymbolTable::lookupFrame (src/app/perfsymboltable.cpp): from an     *)
(* address of a process to a location that the client knows, with the      *)
(* function it is in, and the functions that one was inlined into.  What   *)
(* SymbolTable leaves out of a lookup is here: names, caches of names, and *)
(* definitions for the client.  Which module covers an address is data.    *)
(***************************************************************************)
EXTENDS SymbolLookup, DwarfDies

CONSTANTS
  Worlds,     \* recordings with the files they refer to, see World
  MaxSamples  \* how many samples are analyzed

\* A frame is of a process whose mappings are known, and only files that exist load.
ASSUME FrameAssumption ==
  \A w \in Worlds :
    /\ \A pid \in DOMAIN w.maps : \A e \in w.maps[pid] : e.loads => e.path \in DOMAIN w.files
    /\ \A path \in DOMAIN w.files : w.files[path].dies \in Seq(ToSet(w.files[path].dies))
    /\ \A s \in w.samples : /\ s.pid \in DOMAIN w.maps
                            /\ s.frames \in Seq(ToSet(s.frames))
                            /\ \A f \in ToSet(s.frames) : f.pid \in DOMAIN w.maps
    /\ \A f \in w.formats : f.fields \in Seq(ToSet(f.fields))
    /\ DOMAIN w.perfMaps \subseteq DOMAIN w.maps
    /\ \A pid \in DOMAIN w.perfMaps : w.perfMaps[pid] \in Seq(ToSet(w.perfMaps[pid]))

KernelPid == -1

VARIABLES
  world,        \* one of Worlds:
                \*   arm, samples, comms, attributes, formats,
                \*   maps: for each process, what is mapped [start, end, base, bias,
                \*     path, name, local, loads], one at most for an address,
                \*   files: for each path, symtab, sections, plt, dies, source,
                \*   perfMaps: for a process, the lines that it writes,
                \*   kallsyms: what the files of the build id have, and the default
  output,       \* an output, see Output
  handled,      \* comms, attributes and formats read so far
  pending,      \* comms in the buffer of events
  addressCache, \* PerfAddressCache: from <<path, relative address>> to an entry
  invalidCache, \* m_invalidAddressCache: from <<pid, address>>
  symbolCache,  \* the symbols of paths
  names,        \* m_dieNameCache, by <<pid, path, compile unit>>
  perfMap,      \* m_perfMap by pid
  written,      \* lines that a process has written to its perf map
  position,     \* lines that were read of it
  kallsyms,     \* [entries, error]
  analysis      \* [phase, pid, frames, ids, attempt]

caches == <<addressCache, invalidCache, symbolCache, names, kallsyms>>
maps   == <<perfMap, written, position>>
vars   == <<world, output, handled, pending, caches, maps, analysis>>

-----------------------------------------------------------------------------
NoElf == [start |-> 0, end |-> 0, base |-> 0, bias |-> 0, path |-> <<>>, name |-> <<>>,
          local |-> <<>>, loads |-> FALSE]

ElfOf(f) ==
  LET found == {e \in world.maps[f.pid] : e.start <= f.ip /\ f.ip < e.end}
  IN  IF found = {} THEN NoElf ELSE CHOOSE e \in found : TRUE

Valid(elf) == elf # NoElf

CacheKey(f) == <<ElfOf(f).path, f.ip - ElfOf(f).base>>

Cached(f) ==
  IF Valid(ElfOf(f))
  THEN IF CacheKey(f) \in DOMAIN addressCache THEN {addressCache[CacheKey(f)]} ELSE {}
  ELSE IF <<f.pid, f.ip>> \in DOMAIN invalidCache THEN {invalidCache[<<f.pid, f.ip>>]} ELSE {}

Location(address, relAddr, file, pid, line, parent) ==
  [address |-> address, relAddr |-> relAddr, file |-> file, pid |-> pid,
   line |-> line, parentLocationId |-> parent]

-----------------------------------------------------------------------------
(***************************************************************************)
(* Functions with debug information.  c is what the calls have in common:  *)
(* the frame, the entries of the file, the ids of its names, and symbol.   *)
(***************************************************************************)
absoluteSourcePath(path, cudie) ==
  IF path = <<>> \/ Head(path) = "/" \/ cudie.compDir = <<>> THEN path
  ELSE cudie.compDir \o <<"/">> \o path

Decl(c, d) ==
  [file |-> absoluteSourcePath(Attr(c.dies, d, LAMBDA die : die.declFile, <<>>), c.dies[c.cudie]),
   line |-> Attr(c.dies, d, LAMBDA die : die.declLine, 0)]

SymbolAs(c, name, isInline) ==
  [name |-> name, relAddr |-> c.start, size |-> c.size, binary |-> c.ids[1],
   path |-> c.ids[2], actualPath |-> c.ids[3], isKernel |-> c.kernel,
   isInline |-> isInline]

\* The location of a function, whose file is sent first.
Place(output0, c, d, source, relAddr, parent) ==
  With(source, LAMBDA it :
  With(resolveString(output0, it.file), LAMBDA o :
    [output |-> o, at |-> Location(EntryPc(c.dies[d]) + c.bias, relAddr, lookupString(o, it.file),
                                   c.pid, it.line, parent)]))

insertSubprogram(acc, c, d, call, isInline) ==
  With(Place(acc.output, c, d, Decl(c, d), c.relAddr, call), LAMBDA place :
  With(dieName(c.dies, d, acc.names), LAMBDA named :
  With(resolveString(resolveLocation(place.output, place.at), named.name), LAMBDA o :
    [output |-> resolveSymbol(o, lookupLocation(o, place.at),
                              SymbolAs(c, lookupString(o, named.name), isInline)),
     names |-> named.cache, parent |-> lookupLocation(o, place.at)])))

\* An inlined function is called from a place in the function around it.
CalledFrom(acc, c, d) ==
  Place(acc.output, c, d,
        [file |-> absoluteSourcePath(c.dies[d].callFile, c.dies[c.cudie]),
         line |-> c.dies[d].callLine], 0, acc.parent)

insertInlined(acc, c, d) ==
  With(CalledFrom(acc, c, d), LAMBDA call :
  With(resolveLocation(call.output, call.at), LAMBDA o :
    insertSubprogram([acc EXCEPT !.output = o], c, d, lookupLocation(o, call.at), TRUE)))

parseDie(parsed, c, d) ==
  With(parsed, LAMBDA acc :
    IF c.dies[d].tag = "subprogram" THEN insertSubprogram(acc, c, d, None, FALSE)
                                    ELSE insertInlined(acc, c, d))

\* Faulty: the function itself is not a part of the chain.
parseDwarfInlined(acc, c, subprogram, scopes) ==
  FoldLeft(LAMBDA a, d : parseDie(a, c, d), acc, scopes)

\* The function, and then what was inlined into it, from the outermost one.
parseDwarf(acc, c, subprogram, scopes) ==
  LET parsed[k \in 0 .. Len(scopes)] ==
        IF k = 0 THEN parseDie(acc, c, subprogram)
        ELSE parseDie(parsed[k - 1], c, scopes[k])
  IN  parsed[Len(scopes)]

\* findSourceLocation
SourceOf(c, offset) ==
  IF offset \in DOMAIN c.source
  THEN [file |-> absoluteSourcePath(c.source[offset].file, c.dies[c.cudie]),
        line |-> c.source[offset].line]
  ELSE [file |-> <<>>, line |-> 0]

-----------------------------------------------------------------------------
(***************************************************************************)
(* lookupFrame                                                             *)
(***************************************************************************)
\* Faulty: sends the symbol with each location.
NameFunctionAgain(output0, c, parent, name) ==
  With(resolveString(output0, name), LAMBDA o :
    resolveSymbol(o, parent, SymbolAs(c, lookupString(o, name), FALSE)))

\* The symbol of the function, unless its location has one.
NameFunction(output0, c, parent, name) ==
  IF hasSymbol(output0, parent) THEN output0
  ELSE With(resolveString(output0, name), LAMBDA o :
         resolveSymbol(o, parent, SymbolAs(c, lookupString(o, name), FALSE)))

\* The chain of inlined functions is sent, unless the client has the function.
ChainOrKnown(acc, c, subprogram, scopes) ==
  IF scopes # <<>> /\ ~hasSymbol(acc.output, acc.parent)
  THEN parseDwarf([acc EXCEPT !.parent = None], c, subprogram, scopes)
  ELSE acc

\* The function that debug information has for the address.
WithSubprogram(acc, c, subprogram, scopes) ==
  With(IF scopes = <<>> THEN subprogram ELSE Last(scopes), LAMBDA die :
  With(dieName(c.dies, die, acc.names), LAMBDA named :
  With(Place(acc.output, c, die, Decl(c, die), 0, None), LAMBDA better :
    [acc |-> ChainOrKnown([output |-> better.output, names |-> named.cache,
                           parent |-> lookupLocation(better.output, better.at)],
                          c, subprogram, scopes),
     function |-> better.at, name |-> named.name])))

\* What is known of a frame in a module by its symbol: debug information is only asked
\* for an address that has one.
InSymbol(f, elf, ids) ==
  LET file    == world.files[elf.path]
      address == symbolAddress(f.ip, world.arm)
      symbol  == findSymbol(symbolCache'[elf.path], address - elf.base)
      off     == address - elf.base - symbol.offset
      start   == alignedAddress(symbol.offset + elf.base - elf.bias, world.arm)
      cudie   == findCuDie(file.dies, address - elf.bias)
      Known(name, distance, first, rel, unit) ==
        [address |-> address, offset |-> address - elf.bias, function |-> address - distance,
         name |-> name, start |-> first, size |-> symbol.size, relAddr |-> rel, cudie |-> unit,
         dies |-> file.dies, source |-> file.source, pid |-> f.pid, kernel |-> f.kernel,
         bias |-> elf.bias, ids |-> ids, key |-> <<f.pid, elf.path, unit>>]
  IN  IF symbol.name = <<>>
      THEN Known(fakeSymbolFromSection(file, address - elf.bias), 0, 0, 0, 0)
      ELSE Known(symbol.name, off, start, alignedAddress(start + off, world.arm), cudie)

\* At least the location of the function, and a symbol for it.
NameAndPlace(c, source, debug) ==
  With(IF debug.acc.parent # None THEN debug.acc.output
       ELSE resolveLocation(debug.acc.output, debug.function), LAMBDA o :
  With(IF debug.acc.parent # None THEN debug.acc.parent
       ELSE lookupLocation(o, debug.function), LAMBDA parent :
    [output |-> NameFunction(o, c, parent, debug.name), name |-> debug.name,
     names |-> IF c.cudie = 0 THEN names ELSE insert(names, c.key, debug.acc.names),
     at |-> Location(c.address, c.relAddr, lookupString(o, source.file), c.pid, source.line,
                     parent)]))

LookupInModule(output0, c) ==
  With(IF c.cudie = 0 THEN [file |-> <<>>, line |-> 0] ELSE SourceOf(c, c.offset), LAMBDA source :
  With([output |-> resolveString(output0, source.file), parent |-> None,
        names |-> IF c.key \in DOMAIN names THEN names[c.key] ELSE <<>>], LAMBDA acc :
  With(IF c.cudie = 0 THEN 0 ELSE findSubprogramDie(c.dies, c.cudie, c.offset), LAMBDA subprogram :
    NameAndPlace(c, source,
      IF subprogram = 0
      THEN [acc |-> acc, name |-> c.name,
            function |-> Location(c.function, 0, None, c.pid, 0, None)]
      ELSE WithSubprogram(acc, c, subprogram, findInlineScopes(c.dies, subprogram, c.offset))))))

\* Without a module: a function of the kernel, or one that the process wrote itself.
KernelFunction(entries, address) ==
  With(findEntry(entries, address), LAMBDA entry :
    [name |-> entry.symbol, off |-> address - entry.address, module |-> entry.module])

ProcessFunction(pid, address) ==
  With(symbolFromPerfMap(perfMap[pid], address), LAMBDA symbol :
    [name |-> symbol.name, off |-> symbol.off, module |-> <<>>])

LookupElsewhere(output0, f, elf, ids, found) ==
  With(symbolAddress(f.ip, world.arm), LAMBDA address :
  With(Location(IF found.off # 0 THEN address - found.off ELSE elf.base, 0, None, f.pid, 0, None),
    LAMBDA function :
  With(resolveLocation(resolveString(output0, found.module), function), LAMBDA o :
  With([ids |-> IF found.module = <<>> THEN ids
                ELSE [ids EXCEPT ![1] = lookupString(o, found.module)],
        kernel |-> f.kernel, start |-> 0, size |-> 0], LAMBDA c :
    [output |-> NameFunction(o, c, lookupLocation(o, function), found.name), names |-> names,
     name |-> found.name,
     at |-> Location(address, 0, None, f.pid, 0, lookupLocation(o, function))]))))

-----------------------------------------------------------------------------
(***************************************************************************)
(* The analysis of samples                                                 *)
(***************************************************************************)
Idle == [phase |-> "idle", pid |-> 0, frames |-> <<>>, ids |-> <<>>, attempt |-> 1]

Samples == Len(SelectSeq(output.stream, LAMBDA b : b.type = "Sample"))

\* Faulty: reads the whole file each time.
updatePerfMapAgain(pid, known, from) ==
  IF pid \notin DOMAIN world.perfMaps
  THEN UNCHANGED <<perfMap, position>>
  ELSE /\ position' = [position EXCEPT ![pid] = written[pid]]
       /\ perfMap' = [perfMap EXCEPT ![pid] =
                        known \o ReadLines(SubSeq(world.perfMaps[pid], 1, written[pid]))]

\* Reads what is new in the file, and sorts all of it.
updatePerfMap(pid, known, from) ==
  IF pid \notin DOMAIN world.perfMaps
  THEN UNCHANGED <<perfMap, position>>
  ELSE LET new == ReadLines(SubSeq(world.perfMaps[pid], from + 1, written[pid]))
       IN  /\ position' = [position EXCEPT ![pid] = written[pid]]
           /\ \E sorted \in (IF new = <<>> THEN {known}
                             ELSE Sorts(known \o new, LAMBDA l : l.start)) :
                perfMap' = [perfMap EXCEPT ![pid] = sorted]

\* The first file that exists, see findKallsymEntry.
KallsymsFile ==
  LET found == SelectSeq(world.kallsyms.ofBuildId, LAMBDA file : file # Missing)
  IN  IF found = <<>> THEN world.kallsyms.default ELSE found[1]

ReadKallsyms ==
  IF kallsyms.entries = <<>> /\ ~kallsyms.error
  THEN kallsyms' \in parseMapping(KallsymsFile)
  ELSE UNCHANGED kallsyms

cache(f, entry) ==
  IF Valid(ElfOf(f))
  THEN addressCache' = insert(addressCache, CacheKey(f), entry) /\ UNCHANGED invalidCache
  ELSE invalidCache' = insert(invalidCache, <<f.pid, f.ip>>, entry) /\ UNCHANGED addressCache

Mapping == {"$a", "$t"}

Resolved(f, found) ==
  LET o == resolveLocation(found.output, found.at)
      id == lookupLocation(o, found.at)
  IN  /\ output' = o
      /\ names' = found.names
      /\ cache(f, [id |-> id, interworking |-> found.name \in {<<m>> : m \in Mapping}])
      /\ analysis' = [analysis EXCEPT !.ids = Append(@, id)]

InModule(f, elf, o, ids) ==
  LET file == world.files[elf.path]
  IN  /\ elf.loads
      /\ symbolCache' =
           IF elf.path \in DOMAIN symbolCache THEN symbolCache
           ELSE insert(symbolCache, elf.path,
                       setSymbolCache(extractSymbols(file.symtab, elf.bias, elf.base)))
      /\ \E c \in {InSymbol(f, elf, ids)} : \E found \in {LookupInModule(o, c)} : Resolved(f, found)
      /\ UNCHANGED kallsyms

InKernel(f, elf, o, ids) ==
  /\ ~elf.loads /\ f.kernel
  /\ ReadKallsyms
  /\ LET told == IF kallsyms'.error /\ ~kallsyms.error THEN sendError(o) ELSE o
         function == KernelFunction(kallsyms'.entries, symbolAddress(f.ip, world.arm))
     IN  \E found \in {LookupElsewhere(told, f, elf, ids, function)} : Resolved(f, found)
  /\ UNCHANGED symbolCache

InProcess(f, elf, o, ids) ==
  /\ ~elf.loads /\ ~f.kernel
  /\ LET function == ProcessFunction(f.pid, symbolAddress(f.ip, world.arm))
     IN  \E found \in {LookupElsewhere(o, f, elf, ids, function)} : Resolved(f, found)
  /\ UNCHANGED <<symbolCache, kallsyms>>

-----------------------------------------------------------------------------
Init ==
  /\ world \in Worlds
  /\ output = NoOutput
  /\ handled = {} /\ pending = <<>>
  /\ addressCache = <<>> /\ invalidCache = <<>> /\ symbolCache = <<>> /\ names = <<>>
  /\ kallsyms = [entries |-> <<>>, error |-> FALSE]
  /\ perfMap = [pid \in DOMAIN world.maps |-> <<>>]
  /\ written = [pid \in DOMAIN world.maps |-> 0]
  /\ position = written
  /\ analysis = Idle

\* Records and sections that only define something.
Comm ==
  \E name \in {n \in world.comms : <<"comm", n>> \notin handled} :
    /\ handled' = handled \cup {<<"comm", name>>}
    /\ output' = comm(output, name)
    /\ pending' = Append(pending, name)
    /\ UNCHANGED <<world, caches, maps, analysis>>

SendCommand ==
  /\ pending # <<>>
  /\ output' = sendTaskEvent(output, Head(pending))
  /\ pending' = Tail(pending)
  /\ UNCHANGED <<world, handled, caches, maps, analysis>>

AddAttributes ==
  \E name \in {n \in world.attributes : <<"attributes", n>> \notin handled} :
    /\ handled' = handled \cup {<<"attributes", name>>}
    /\ output' = sendAttributes(output, name)
    /\ UNCHANGED <<world, pending, caches, maps, analysis>>

AddFormat ==
  \E format \in {f \in world.formats : <<"format", f.id>> \notin handled} :
    /\ handled' = handled \cup {<<"format", format.id>>}
    /\ output' = sendEventFormat(output, format)
    /\ UNCHANGED <<world, pending, caches, maps, analysis>>

\* External: a process appends to its map, and perfparser reads it at another time.
WriteLine(pid) ==
  /\ written[pid] < Len(world.perfMaps[pid])
  /\ written' = [written EXCEPT ![pid] = @ + 1]
  /\ UNCHANGED <<world, output, handled, pending, caches, perfMap, position, analysis>>

BeginAnalysis ==
  /\ analysis.phase = "idle"
  /\ Samples < MaxSamples
  /\ \E s \in world.samples :
       /\ analysis' = [Idle EXCEPT !.phase = "resolve", !.pid = s.pid, !.frames = s.frames]
       /\ updatePerfMap(s.pid, perfMap[s.pid], position[s.pid])
  /\ UNCHANGED <<world, output, handled, pending, caches, written>>

LookUp ==
  /\ analysis.phase = "resolve"
  /\ Len(analysis.ids) < Len(analysis.frames)
  /\ LET f   == analysis.frames[Len(analysis.ids) + 1]
         elf == ElfOf(f)
         o   == IF Valid(elf)
                THEN resolveStrings(output, <<elf.name, elf.path, elf.local>>)
                ELSE output
         ids == <<lookupString(o, elf.name), lookupString(o, elf.path), lookupString(o, elf.local)>>
     IN  \/ /\ Cached(f) # {}
            /\ analysis' = [analysis EXCEPT !.ids = Append(@, (CHOOSE e \in Cached(f) : TRUE).id)]
            /\ UNCHANGED <<output, caches>>
         \/ Cached(f) = {} /\ InModule(f, elf, o, ids)
         \/ Cached(f) = {} /\ InKernel(f, elf, o, ids)
         \/ Cached(f) = {} /\ InProcess(f, elf, o, ids)
  /\ UNCHANGED <<world, handled, pending, maps>>

Forget(pid) ==
  /\ invalidCache' = [k \in {k \in DOMAIN invalidCache : k[1] # pid} |-> invalidCache[k]]
  /\ names' = [k \in {k \in DOMAIN names : k[1] # pid} |-> names[k]]

\* clearCache between two samples, when a module is replaced, see SymbolTable.
clearCache(pid) ==
  /\ analysis.phase = "idle"
  /\ Forget(pid)
  /\ perfMap' = [perfMap EXCEPT ![pid] = <<>>]
  /\ position' = [position EXCEPT ![pid] = 0]
  /\ UNCHANGED <<world, output, handled, pending, addressCache, symbolCache, kallsyms, written,
                 analysis>>

\* The first attempt has dirtied the table: clearCache, and all frames once more.
Retry ==
  /\ analysis.phase = "resolve" /\ analysis.ids # <<>> /\ analysis.attempt = 1
  /\ analysis' = [analysis EXCEPT !.ids = <<>>, !.attempt = 2]
  /\ Forget(analysis.pid)
  /\ updatePerfMap(analysis.pid, <<>>, 0)
  /\ UNCHANGED <<world, output, handled, pending, addressCache, symbolCache, kallsyms, written>>

\* The end of analyze: ids of attributes and formats are those handled by now.
Send ==
  /\ analysis.phase = "resolve" /\ Len(analysis.ids) = Len(analysis.frames)
  /\ \E attribute \in {None} \cup 0 .. output.attributes - 1,
       format \in {f \in world.formats : <<"format", f.id>> \in handled} \cup {[fields |-> <<>>]} :
       output' = sendSample(output, ToSet(analysis.ids), attribute, format.fields)
  /\ analysis' = Idle
  /\ UNCHANGED <<world, handled, pending, caches, maps>>

Next ==
  \/ Comm \/ SendCommand \/ AddAttributes \/ AddFormat
  \/ \E pid \in DOMAIN world.perfMaps : WriteLine(pid)
  \/ BeginAnalysis \/ LookUp \/ Retry \/ Send
  \/ \E pid \in DOMAIN world.maps : clearCache(pid)

Spec == Init /\ [][Next]_vars

-----------------------------------------------------------------------------
Ids(table) == 0 .. Len(table) - 1

\* The state of a lookup is well-formed: caches name locations that exist, and all
\* that was read of a perf map was written before.
FrameTypeOK ==
  /\ DOMAIN output.symbols \subseteq Ids(output.locations)
  /\ \A k \in DOMAIN addressCache : addressCache[k].id \in Ids(output.locations)
  /\ \A k \in DOMAIN invalidCache : invalidCache[k].id \in Ids(output.locations)
  /\ \A pid \in DOMAIN perfMap : position[pid] <= written[pid] /\ Len(perfMap[pid]) <= position[pid]
  /\ analysis.phase \in {"idle", "resolve"} /\ analysis.attempt \in 1 .. 2

\* The rules of the client: ids of strings, locations and attributes count up in the
\* order of the definitions (perfparsertestclient.cpp), and a buffer only
\* names what an earlier one has defined.
EveryIdIsDefined ==
  \A k \in DOMAIN output.stream :
    LET b == output.stream[k]
        Sent(type) == Cardinality({j \in 1 .. k - 1 : output.stream[j].type = type})
    IN  /\ b.strings \subseteq 0 .. Sent("StringDefinition") - 1
        /\ b.locations \subseteq 0 .. Sent("LocationDefinition") - 1
        /\ b.attributes \subseteq 0 .. Sent("AttributesDefinition") - 1
        /\ b.type \in {"StringDefinition", "LocationDefinition", "AttributesDefinition"}
             => b.id = Sent(b.type)

\* A symbol that the client has for a location never becomes another one, although
\* caches are thrown away and functions looked up anew (resolveSymbol replaces).
SymbolsAreStable ==
  [][\A id \in DOMAIN output.symbols : output'.symbols[id] = output.symbols[id]]_vars

\* The functions that the client finds behind a location, from the innermost.
String(id) == IF id = None THEN <<>> ELSE output.strings[id + 1]

FunctionsOf ==
  LET up[id \in Ids(output.locations) \cup {None}] ==
        IF id = None THEN <<>>
        ELSE (IF hasSymbol(output, id) THEN <<String(output.symbols[id].name)>> ELSE <<>>)
             \o up[output.locations[id + 1].parentLocationId]
  IN  up

Mapped == UNION {{<<pid, elf>> : elf \in world.maps[pid]} : pid \in DOMAIN world.maps}

\* The functions behind the location of an address in a module are what debug
\* information says of the address, from the innermost inlined function to the one
\* that is none; without it, the symbol, or the section (lookupFrame).
NamesFollowDebugInfo ==
  \A m \in Mapped :
    \A key \in {k \in DOMAIN addressCache : k[1] = m[2].path /\ m[2].loads} :
      LET elf       == m[2]
          file      == world.files[elf.path]
          offset    == symbolAddress(key[2] + elf.base, world.arm) - elf.bias
          symbol    == SymbolOf(file.symtab, offset)
          functions == FunctionsAt(file.dies, offset)
      IN  FunctionsOf[addressCache[key].id] =
            CASE symbol = NoSymbol -> <<fakeSymbolFromSection(file, offset)>>
              [] functions = <<>>  -> <<symbol.name>>
              [] OTHER -> [k \in DOMAIN functions |-> FullName(file.dies, functions[k])]

\* Addresses that were looked up and are in no module, with their locations.
Outside ==
  {[pid |-> k[1], ip |-> k[2], start |-> 0, id |-> invalidCache[k].id] : k \in DOMAIN invalidCache}
    \cup UNION {{[pid |-> m[1], ip |-> k[2] + m[2].base, start |-> m[2].base,
                  id |-> addressCache[k].id] :
                   k \in {k \in DOMAIN addressCache : ~m[2].loads /\ k[1] = m[2].path}} :
                m \in Mapped}

KernelFunctions(ip) ==
  LET before == {e \in ToSet(kallsyms.entries) : e.address <= ip}
  IN  {[start |-> e.address, name |-> e.symbol] :
         e \in {e \in before : \A l \in before : l.address <= e.address}}

WrittenFunctions(pid, ip) ==
  {[start |-> l.start, name |-> l.name] :
     l \in {l \in ToSet(SubSeq(world.perfMaps[pid], 1, written[pid])) :
             l.start <= ip /\ ip < l.start + l.length}}

Functions(a) ==
  CASE a.pid = KernelPid               -> KernelFunctions(a.ip)
    [] a.pid \in DOMAIN world.perfMaps -> WrittenFunctions(a.pid, a.ip)
    [] OTHER                           -> {}

\* A process may write a line after the address was looked up.
NamedAs(a, functions) ==
  FunctionsOf[a.id][1] \in {g.name : g \in functions}
                             \cup (IF a.pid = KernelPid THEN {} ELSE {<<>>})

\* An address of the kernel that is in no module has the name of the last function in
\* the file of symbols that begins before it, and one of a process a name that the
\* process has written for it; unless it is the first address of a function, or the
\* function the first one of a mapping.
NamesComeFromTheMap ==
  \A a \in Outside :
    LET functions == Functions(a)
    IN  \/ functions = {} \/ NamedAs(a, functions)
        \/ \E g \in functions : g.start \in {a.ip, a.start}

\* What m_dieNameCache holds of a scope or function is its full name, whatever was
\* looked up before.
CachedNamesAreFull ==
  \A key \in DOMAIN names : \A d \in DOMAIN names[key] :
    names[key][d] = FullName(world.files[key[2]].dies, d)
=============================================================================
