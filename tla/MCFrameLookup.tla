--------------------------- MODULE MCFrameLookup ---------------------------
(***************************************************************************)
(* Small recordings for FrameLookup, one for each place that a name can    *)
(* come from.                                                              *)
(***************************************************************************)
EXTENDS FrameLookup

User(ip)   == [pid |-> 1, ip |-> ip, kernel |-> FALSE]
Other(ip)  == [pid |-> 2, ip |-> ip, kernel |-> FALSE]
Kernel(ip) == [pid |-> KernelPid, ip |-> ip, kernel |-> TRUE]
Chain(frames) == [pid |-> 1, frames |-> frames]

NoMaps == (1 :> {}) @@ (KernelPid :> {})

Bare ==
  [arm |-> FALSE, samples |-> {}, comms |-> {}, attributes |-> {}, formats |-> {},
   maps |-> NoMaps, files |-> <<>>, perfMaps |-> <<>>,
   kallsyms |-> [ofBuildId |-> <<>>, default |-> Missing]]

\* Names of commands, events and fields that are partly the same.
Definitions ==
  [Bare EXCEPT
    !.samples = {Chain(<<User(3)>>)}, !.comms = {<<"x">>},
    !.attributes = {<<"cycles">>},
    !.formats = {[id |-> 1, system |-> <<"sched">>, name |-> <<"x">>, fields |-> <<<<"x">>, <<"y">>>>]}]

-----------------------------------------------------------------------------
Elf(path, start, end, base, bias, loads) ==
  [start |-> start, end |-> end, base |-> base, bias |-> bias, path |-> path, name |-> Tail(path),
   local |-> path, loads |-> loads]

Sym(offset, size, name) == [offset |-> offset, size |-> size, name |-> <<name>>]

NoPlt == [got |-> 0, relocations |-> <<>>, symbols |-> <<>>]
Stripped == [symtab |-> <<>>, sections |-> {}, plt |-> NoPlt, dies |-> <<>>, source |-> <<>>]

Die(tag, parent, ranges, name) ==
  [tag |-> tag, parent |-> parent, ranges |-> ranges, name |-> name, linkage |-> <<>>,
   spec |-> 0, origin |-> 0, declFile |-> <<>>, declLine |-> 0, callFile |-> <<>>,
   callLine |-> 0, compDir |-> <<>>]

\* ns::S::f has k() and in it m inlined; d is declared in S and defined outside.
Dies ==
  << [Die("compile_unit", 0, 10 .. 27, <<>>) EXCEPT !.compDir = <<"/", "src">>],
     Die("namespace", 1, {}, <<"ns">>),
     Die("structure_type", 2, {}, <<"S">>),
     [Die("subprogram", 3, 10 .. 17, <<"f">>) EXCEPT !.declFile = <<"f.h">>, !.declLine = 4],
     [Die("inlined_subroutine", 4, 12 .. 15, <<>>)
        EXCEPT !.origin = 8, !.callFile = <<"f.cpp">>, !.callLine = 7],
     Die("lexical_block", 5, 13 .. 14, <<>>),
     [Die("inlined_subroutine", 6, 13 .. 14, <<>>) EXCEPT !.origin = 9, !.callLine = 8],
     [Die("subprogram", 1, {}, <<"k">>) EXCEPT !.linkage = <<"k()">>],
     Die("subprogram", 2, {}, <<"m">>),
     Die("subprogram", 2, 20 .. 25, <<"g">>),
     Die("subprogram", 3, {}, <<"d">>),
     [Die("subprogram", 1, 26 .. 27, <<>>) EXCEPT !.spec = 11] >>

Program ==
  [symtab |-> <<Sym(20, 6, "g"), Sym(10, 8, "f"), Sym(26, 2, "d"), Sym(28, 2, "t"),
                Sym(10, 8, "alias")>>,
   sections |-> {[name |-> ".text", low |-> 10, high |-> 30, entsize |-> 0],
                 [name |-> ".plt", low |-> 30, high |-> 34, entsize |-> 2],
                 [name |-> ".init", low |-> 34, high |-> 36, entsize |-> 0]},
   plt |-> [got |-> 40, symbols |-> <<<<"puts">>, <<"exit">>>>,
            relocations |-> <<<<[offset |-> 50, symbol |-> 0]>>,
                              <<[offset |-> 42, symbol |-> 0], [offset |-> 43, symbol |-> 1]>>>>],
   dies |-> Dies,
   source |-> (13 :> [file |-> <<"m.h">>, line |-> 2]) @@ (11 :> [file |-> <<"/", "f.cpp">>, line |-> 5])]

Path == <<"/", "a">>

Debug ==
  [Bare EXCEPT
    !.maps = (1 :> {Elf(Path, 110, 136, 102, 100, TRUE)})
               @@ (2 :> {Elf(Path, 210, 236, 202, 200, TRUE)}) @@ (KernelPid :> {}),
    !.files = Path :> Program,
    !.samples = {Chain(<<User(113), User(111)>>), Chain(<<User(121), User(114)>>),
                 Chain(<<User(126), User(128)>>), Chain(<<User(132), User(135), User(131)>>),
                 [pid |-> 2, frames |-> <<Other(214), Other(221)>>]}]

\* Thumb code begins at an odd address; nothing but a mapping symbol covers 120.
Arm ==
  [Bare EXCEPT
    !.arm = TRUE,
    !.maps = (1 :> {Elf(Path, 110, 130, 110, 100, TRUE)}) @@ (KernelPid :> {}),
    !.files = Path :> [Stripped EXCEPT !.symtab = <<Sym(20, 0, "$t"), Sym(11, 4, "f")>>],
    !.samples = {Chain(<<User(112), User(113)>>), Chain(<<User(111), User(122)>>)}]

\* A process that writes its map late, and not in order.
Jit ==
  [Bare EXCEPT
    !.perfMaps = 1 :>
      <<[start |-> 20, length |-> 4, name |-> <<"q">>], [start |-> Invalid, length |-> 4, name |-> <<"#">>],
        [start |-> 10, length |-> 4, name |-> <<"p">>], [start |-> 20, length |-> 4, name |-> <<"r">>]>>,
    !.samples = {Chain(<<User(11), User(21)>>), Chain(<<User(22), User(13)>>), Chain(<<User(30)>>)}]

Line(address, symbol, module) == [address |-> address, symbol |-> <<symbol>>, module |-> module]

Lines ==
  <<Line(Null, "absolute", <<>>), Line(230, "vfs", <<>>), Line(210, "text", <<>>),
    Line(250, "ext", <<"[ext4]">>)>>

\* The kernel is mapped, but is no file; the module is not mapped.
Kallsyms(ofBuildId, default) ==
  [Bare EXCEPT
    !.maps = (1 :> {}) @@ (KernelPid :> {Elf(<<"[kernel]">>, 200, 240, 200, 0, FALSE)}),
    !.kallsyms = [ofBuildId |-> ofBuildId, default |-> default],
    !.samples = {Chain(<<Kernel(235), Kernel(255)>>), Chain(<<Kernel(211), Kernel(205)>>)}]

MCWorlds ==
  { Definitions, Debug, Arm, Jit, Kallsyms(<<Missing, Lines>>, Missing), Kallsyms(<<>>, Lines),
    Kallsyms(<<Missing>>, Missing), Kallsyms(<<>>, Append(Lines, Line(Garbage, "x", <<>>))) }

\* A class that is declared in another and defined outside of it, with two functions.
NestedDies ==
  << Die("compile_unit", 0, 10 .. 19, <<>>),
     Die("structure_type", 1, {}, <<"A">>),
     Die("structure_type", 2, {}, <<"B">>),
     [Die("structure_type", 1, {}, <<>>) EXCEPT !.spec = 3],
     Die("subprogram", 4, 10 .. 14, <<"f">>),
     Die("subprogram", 4, 15 .. 19, <<"g">>) >>

NestedWorlds ==
  { [Debug EXCEPT
      !.files = Path :> [Stripped EXCEPT !.dies = NestedDies,
                                        !.symtab = <<Sym(10, 5, "f"), Sym(15, 5, "g")>>],
      !.samples = {Chain(<<User(111), User(116)>>)}] }
=============================================================================
