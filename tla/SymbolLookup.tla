---------------------------- MODULE SymbolLookup ----------------------------
(***************************************************************************)
(* The four places where perfparser finds the name of an address without   *)
(* debug information: the cached symbols of a file                         *)
(* (src/app/perfaddresscache.cpp), its sections and its procedure linkage  *)
(* table, the map that a just-in-time compiler writes                      *)
(* (src/app/perfsymboltable.cpp), and the symbols of the kernel            *)
(* (src/app/perfkallsyms.cpp).  Each is a sorted vector and a binary       *)
(* search; what the searches are for is stated next to them.               *)
(***************************************************************************)
EXTENDS Integers, SequencesExt, TLC

\* The end of the elements before which a sorted sequence satisfies Before.
Partition(s, Before(_)) == Cardinality({i \in DOMAIN s : Before(s[i])})

\* All results that std::sort may have, and the only one of std::stable_sort.
Sorts(s, Key(_)) ==
  {[k \in DOMAIN s |-> s[p[k]]] :
     p \in {q \in Permutations(DOMAIN s) :
              \A i, j \in DOMAIN s : i < j => Key(s[q[i]]) <= Key(s[q[j]])}}

Indices(s) == [k \in DOMAIN s |-> k]

StableSort(s, Key(_)) ==
  LET Before(i, j) == Key(s[i]) < Key(s[j]) \/ (Key(s[i]) = Key(s[j]) /\ i < j)
      order == SortSeq(Indices(s), Before)
  IN  [k \in DOMAIN s |-> s[order[k]]]

-----------------------------------------------------------------------------
(***************************************************************************)
(* The symbols of a file: [offset, size, name]                             *)
(***************************************************************************)
NoSymbol == [offset |-> 0, size |-> 0, name |-> <<>>]

\* On ARM, the lowest bit of the address of a function says that it is Thumb code.
symbolAddress(ip, arm)   == IF arm /\ ip % 2 = 0 THEN ip + 1 ELSE ip
alignedAddress(ip, arm)  == IF arm /\ ip % 2 = 1 THEN ip - 1 ELSE ip

\* What libdwfl lists, in its order, by the distance from the start of the mapping.
extractSymbols(symtab, bias, elfStart) ==
  [k \in DOMAIN symtab |-> [symtab[k] EXCEPT !.offset = @ + bias - elfStart]]

\* Of neighbours with the same range the first one stays.
setSymbolCache(symbols) ==
  LET sorted == StableSort(symbols, LAMBDA s : s.offset)
      Repeats(k) == k > 1 /\ sorted[k].offset = sorted[k - 1].offset
                          /\ sorted[k].size = sorted[k - 1].size
      kept == SelectSeq(Indices(sorted), LAMBDA k : ~Repeats(k))
  IN  [k \in DOMAIN kept |-> sorted[kept[k]]]

\* std::lower_bound, and one step back.
findSymbol(cache, rel) ==
  LET at == Partition(cache, LAMBDA s : s.offset < rel)
      Covers(s) == s.offset <= rel /\ (s.offset + s.size > rel \/ s.size = 0)
  IN  CASE at < Len(cache) /\ cache[at + 1].offset = rel -> cache[at + 1]
        [] at > 0 /\ Covers(cache[at])                   -> cache[at]
        [] OTHER                                         -> NoSymbol

\* What it is for: of the symbols that cover an address, the nearest, and of those
\* the one that is listed first.
SymbolOf(symtab, rel) ==
  LET Covers(s) == s.offset <= rel /\ (rel < s.offset + s.size \/ s.size = 0)
      found == {k \in DOMAIN symtab : Covers(symtab[k])}
      nearest == {k \in found : \A l \in found : symtab[l].offset <= symtab[k].offset}
  IN  IF found = {} THEN NoSymbol ELSE symtab[CHOOSE k \in nearest : \A l \in nearest : k <= l]

-----------------------------------------------------------------------------
(***************************************************************************)
(* Sections and the procedure linkage table                                *)
(***************************************************************************)
\* The relocation of the entry of the global offset table that the entry of the
\* procedure linkage table jumps to names a dynamic symbol.  Each section of
\* relocations is sorted.
findPltSymbolIndex(relocations, addr) ==
  LET at == Partition(relocations, LAMBDA r : r.offset < addr)
  IN  IF at = Len(relocations) \/ relocations[at + 1].offset # addr
      THEN -1 ELSE relocations[at + 1].symbol

\* The first entry is special, and two words of the offset table are reserved.
findPltSymbol(plt, index) ==
  LET indexAddr == plt.got + index + 2
      hits == {k \in DOMAIN plt.relocations :
                 findPltSymbolIndex(plt.relocations[k], indexAddr) # -1}
      first == CHOOSE k \in hits : \A l \in hits : k <= l
      symbol == findPltSymbolIndex(plt.relocations[first], indexAddr)
  IN  IF index = 0 \/ hits = {} \/ symbol >= Len(plt.symbols) THEN <<>>
      ELSE plt.symbols[symbol + 1]

fakeSymbolFromSection(file, offset) ==
  LET sections == {s \in file.sections : s.low <= offset /\ offset < s.high}
      s == CHOOSE s \in sections : TRUE
      plt == findPltSymbol(file.plt, (offset - s.low) \div s.entsize)
  IN  CASE sections = {} \/ s.name = ".text"  -> <<>>
        [] s.name = ".plt" /\ plt # <<>>      -> plt \o <<"@plt">>
        [] OTHER -> <<"<", s.name, "+", ToString(offset), ">">>

-----------------------------------------------------------------------------
(***************************************************************************)
(* Maps of just-in-time compiled code: [start, length, name]               *)
(***************************************************************************)
Invalid == -1

\* Only lines that begin with two numbers are symbols.
ReadLines(lines) ==
  LET symbols == {k \in DOMAIN lines : lines[k].start # Invalid /\ lines[k].length # Invalid}
      Nth(n)  == CHOOSE k \in symbols : Cardinality({l \in symbols : l < k}) = n - 1
  IN  [n \in 1 .. Cardinality(symbols) |-> lines[Nth(n)]]

symbolFromPerfMap(perfMap, ip) ==
  LET at == Partition(perfMap, LAMBDA s : s.start <= ip)
  IN  IF at > 0 /\ perfMap[at].start + perfMap[at].length > ip
      THEN [name |-> perfMap[at].name, off |-> ip - perfMap[at].start]
      ELSE [name |-> <<>>, off |-> 0]

-----------------------------------------------------------------------------
(***************************************************************************)
(* Kernel symbols: lines of [address, symbol, module]                      *)
(***************************************************************************)
Null    == -1  \* "(null)"
Garbage == -2
Missing == <<[address |-> Null, symbol |-> <<>>, module |-> <<>>]>>  \* no file

NoEntry == [address |-> 0, symbol |-> <<>>, module |-> <<>>]

\* Faulty: keeps the entries in the order of the file.
parseMappingUnsorted(lines) ==
  {[entries |-> SelectSeq(lines, LAMBDA e : e.address > 0), error |-> FALSE]}

\* The results of parseMapping.  Parsing stops at an invalid address, and what was
\* read before stays; an entry without an address is left out.
parseMapping(lines) ==
  LET bad == {k \in DOMAIN lines : lines[k].address = Garbage}
      read == IF bad = {} THEN lines
              ELSE SubSeq(lines, 1, (CHOOSE k \in bad : \A l \in bad : k <= l) - 1)
      entries == SelectSeq(read, LAMBDA e : e.address > 0)
  IN  {[entries |-> sorted, error |-> bad # {} \/ entries = <<>>] :
         sorted \in Sorts(entries, LAMBDA e : e.address)}

\* std::upper_bound, and one step back.
findEntry(entries, address) ==
  LET at == Partition(entries, LAMBDA e : e.address <= address)
  IN  IF at > 0 THEN entries[at] ELSE NoEntry
=============================================================================
