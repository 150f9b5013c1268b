------------------------------ MODULE MCElfMap ------------------------------
(***************************************************************************)
(* A small instance of ElfMap for TLC: two libraries and one region that   *)
(* is not a file, in an address space of ten addresses.                    *)
(***************************************************************************)
EXTENDS ElfMap

Mmap(path, start, end, offset) ==
  [addr |-> start, len |-> end - start, pgoff |-> offset, path |-> path,
   file |-> path # "//anon"]

\* A library in two parts that touch, one that overlaps both, and elsewhere.
MCMmaps ==
  { Mmap("a", 1, 3, 0), Mmap("a", 3, 6, 2), Mmap("a", 2, 5, 1),
    Mmap("a", 4, 8, 1), Mmap("b", 2, 4, 0), Mmap("b", 5, 9, 3),
    Mmap("//anon", 3, 7, 0) }

MCModuleSize == [path \in {m.path : m \in MCMmaps} |-> IF path = "a" THEN 6 ELSE 3]
=============================================================================
