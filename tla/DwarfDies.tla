------------------------------ MODULE DwarfDies ------------------------------
(***************************************************************************)
(* Debugging information entries, and the caches that                      *)
(* src/app/perfdwarfdiecache.cpp keeps of them.  The entries of a file are *)
(* a sequence in the order of a depth first walk, each with                *)
(*   tag, parent (a compile unit has none: 0), ranges (the set of offsets  *)
(*   it covers), name, linkage, spec (the declaration that it completes),  *)
(*   origin (what it is an instance of), declFile and declLine, callLine.  *)
(* Names are sequences of tokens; a name that is missing is empty.         *)
(***************************************************************************)
EXTENDS Output

MinOf(S) == CHOOSE x \in S : \A y \in S : x <= y

\* The entries around an entry.
Around(dies) ==
  LET above[d \in 0 .. Len(dies)] ==
        IF d = 0 \/ dies[d].parent = 0 THEN {}
        ELSE {dies[d].parent} \cup above[dies[d].parent]
  IN  above

\* walkDieTree: what is visited below top when the callback recurses into some.
Walk(dies, top, Recurses(_)) ==
  {d \in DOMAIN dies :
     \/ d = top
     \/ /\ top \in Around(dies)[d]
        /\ \A a \in Around(dies)[d] \ Around(dies)[top] : Recurses(a)}

\* A set of entries in the order of the walk.
InOrder(S) ==
  [k \in 1 .. Cardinality(S) |-> CHOOSE d \in S : Cardinality({e \in S : e < d}) = k - 1]

-----------------------------------------------------------------------------
(***************************************************************************)
(* Which entries contain an address                                        *)
(***************************************************************************)
mayHaveScopes(die) ==
  die.tag \in {"compile_unit", "module", "lexical_block", "entry_point",
               "inlined_subroutine", "subprogram", "namespace", "class_type",
               "structure_type"}

dieContainsAddress(die, offset) == offset \in die.ranges

\* The first compile unit with the address, or 0.
findCuDie(dies, offset) ==
  LET found == {d \in DOMAIN dies : dies[d].parent = 0 /\ dieContainsAddress(dies[d], offset)}
  IN  IF found = {} THEN 0 ELSE MinOf(found)

\* Subprograms that have ranges, without those nested in others.
addSubprograms(dies, cudie) ==
  LET Recurses(d) == mayHaveScopes(dies[d]) /\ dies[d].tag # "subprogram"
  IN  {d \in Walk(dies, cudie, Recurses) : dies[d].tag = "subprogram" /\ dies[d].ranges # {}}

findSubprogramDie(dies, cudie, offset) ==
  LET found == {d \in addSubprograms(dies, cudie) : dieContainsAddress(dies[d], offset)}
  IN  IF found = {} THEN 0 ELSE MinOf(found)

\* From the outermost inlined function to the innermost.
findInlineScopes(dies, subprogram, offset) ==
  LET Inlined(d) == dies[d].tag = "inlined_subroutine"
      Covers(d) == dieContainsAddress(dies[d], offset)
      Recurses(d) == ~Inlined(d) \/ Covers(d)
  IN  InOrder({d \in Walk(dies, subprogram, Recurses) : Inlined(d) /\ Covers(d)})

-----------------------------------------------------------------------------
(***************************************************************************)
(* External: dwarf_attr_integrate, which looks for an attribute in what an *)
(* entry is an instance or a completion of, and dwarf_entrypc.             *)
(***************************************************************************)
Integrated(dies, d) ==
  LET chain[e \in 0 .. Len(dies)] ==
        IF e = 0 THEN <<>>
        ELSE <<dies[e]>> \o chain[IF dies[e].origin # 0 THEN dies[e].origin ELSE dies[e].spec]
  IN  chain[d]

Attr(dies, d, Of(_), missing) ==
  FoldLeft(LAMBDA value, die : IF value = missing THEN Of(die) ELSE value,
           missing, Integrated(dies, d))

EntryPc(die) == MinOf(die.ranges)

linkageName(dies, d)      == Attr(dies, d, LAMBDA die : die.linkage, <<>>)
DieNameOf(dies, d)        == Attr(dies, d, LAMBDA die : die.name, <<>>)
specificationDie(dies, d) == Attr(dies, d, LAMBDA die : die.spec, 0)

-----------------------------------------------------------------------------
(***************************************************************************)
(* Names.  The cache maps entries to qualified names.                      *)
(***************************************************************************)
\* The scopes that prependScopeNames visits, the nearest first: those around the
\* entry without the compile unit, and then those around the declaration of one.
ScopesOf(dies, entry) ==
  LET Declared(d, declaration) == IF declaration # 0 THEN declaration ELSE d
      scopes[d \in DOMAIN dies] ==
        With(dies[d].parent, LAMBDA scope :
          IF scope = 0 \/ dies[scope].parent = 0 THEN <<>>
          ELSE <<scope>> \o scopes[Declared(scope, specificationDie(dies, scope))])
  IN  scopes[entry]

\* Faulty: goes on from a scope whose name is known.
VisitedAll(dies, d, cache) == ScopesOf(dies, d)

\* It stops at a scope whose name is known or complete.
Visited(dies, d, cache) ==
  LET Ends(scope) == scope \in DOMAIN cache \/ linkageName(dies, scope) # <<>>
      Add(visited, scope) ==
        IF visited # <<>> /\ Ends(Last(visited)) THEN visited ELSE Append(visited, scope)
  IN  FoldLeft(Add, <<>>, ScopesOf(dies, d))

\* done has the name so far, and the entries to store a part of the name for: all but
\* what trails behind.
PrependOwn(done, scope, own) ==
  IF own = <<>> THEN done
  ELSE [name |-> own \o <<"::">> \o done.name,
        store |-> Append(done.store, [die |-> scope, trailing |-> Len(done.name) + 1])]

\* A scope with a declaration is stored once more, with what precedes its name.
StoreDeclared(done, scope, declaration) ==
  IF declaration = 0 THEN done
  ELSE [done EXCEPT !.store = @ \o <<[die |-> scope, trailing |-> Len(done.name)],
                                     [die |-> declaration, trailing |-> Len(done.name)]>>]

PrependScope(dies, cache, done, scope) ==
  IF scope \in DOMAIN cache
  THEN [done EXCEPT !.name = cache[scope] \o (IF @ = <<>> THEN <<>> ELSE <<"::">> \o @)]
  ELSE With(linkageName(dies, scope), LAMBDA linkage :
         IF linkage # <<>> THEN PrependOwn(done, scope, linkage)
         ELSE With(PrependOwn(done, scope, DieNameOf(dies, scope)), LAMBDA named :
                StoreDeclared(named, scope, specificationDie(dies, scope))))

prependScopeNames(dies, d, name, cache) ==
  With(FoldLeft(LAMBDA done, scope : With(done, LAMBDA v : PrependScope(dies, cache, v, scope)),
                [name |-> name, store |-> <<>>], Visited(dies, d, cache)),
    LAMBDA full :
      [name |-> full.name,
       cache |-> FoldLeft(LAMBDA known, s :
                   (s.die :> SubSeq(full.name, 1, Len(full.name) - s.trailing)) @@ known,
                   cache, full.store)])

qualifiedDieName(dies, d, cache) ==
  With(linkageName(dies, d), LAMBDA linkage :
    IF linkage # <<>> THEN [name |-> linkage, cache |-> cache]
    ELSE With(specificationDie(dies, d), LAMBDA declaration :
           prependScopeNames(dies, IF declaration # 0 THEN declaration ELSE d,
                             DieNameOf(dies, d), cache)))

dieName(dies, d, cache) ==
  IF d \in DOMAIN cache /\ cache[d] # <<>> THEN [name |-> cache[d], cache |-> cache]
  ELSE With(qualifiedDieName(dies, d, cache), LAMBDA qualified :
         [qualified EXCEPT !.cache = (d :> qualified.name) @@ @])

-----------------------------------------------------------------------------
(***************************************************************************)
(* What the names and the walks are for                                    *)
(***************************************************************************)
\* A linkage name, or the name behind the qualified name of the scope that the
\* entry is declared in.
FullName(dies, entry) ==
  LET Behind(outer, name) == IF outer = <<>> \/ name = <<>> THEN outer \o name
                             ELSE outer \o <<"::">> \o name
      full[d \in DOMAIN dies] ==
        With([linkage |-> linkageName(dies, d), declaration |-> specificationDie(dies, d)],
          LAMBDA it :
            With(dies[IF it.declaration # 0 THEN it.declaration ELSE d].parent, LAMBDA scope :
              IF it.linkage # <<>> THEN it.linkage
              ELSE Behind(IF scope = 0 \/ dies[scope].parent = 0 THEN <<>> ELSE full[scope],
                          DieNameOf(dies, d))))
  IN  full[entry]

\* The functions around an address, from the innermost.
FunctionsAt(dies, offset) ==
  Reverse(InOrder({d \in DOMAIN dies :
    dies[d].tag \in {"inlined_subroutine", "subprogram"} /\ offset \in dies[d].ranges}))
=============================================================================
