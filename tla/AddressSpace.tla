---------------------------- MODULE AddressSpace ----------------------------
(***************************************************************************)
(* What an ELF map promises: the address space of a process, where the     *)
(* last mapping of an address wins.  Every address shows a byte of a file, *)
(* identified by the file and the offset in it, or nothing.                *)
(***************************************************************************)
EXTENDS Integers

CONSTANTS
  AddrMax,  \* the largest address
  Mmaps     \* mappings: [addr, len, pgoff, path, file], see module ElfMap

VARIABLES
  space,   \* what every address shows
  latest   \* the mapping that was made last

Nothing   == [path |-> "", offset |-> 0]
NoMapping == [addr |-> 0, len |-> 0, pgoff |-> 0, path |-> "", file |-> FALSE]

Init ==
  /\ space = [a \in 0 .. AddrMax |-> Nothing]
  /\ latest = NoMapping

Map(m) ==
  /\ space' = [a \in 0 .. AddrMax |->
                 IF m.addr <= a /\ a < m.addr + m.len
                 THEN [path |-> m.path, offset |-> a - m.addr + m.pgoff]
                 ELSE space[a]]
  /\ latest' = m

Next == \E m \in Mmaps : Map(m)

Spec == Init /\ [][Next]_<<space, latest>>
=============================================================================
