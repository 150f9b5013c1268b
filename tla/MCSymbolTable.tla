--------------------------- MODULE MCSymbolTable ---------------------------
(***************************************************************************)
(* A small instance of SymbolTable for TLC: a library in two parts, another *)
(* one that can be mapped over it, and a region that is no file.           *)
(***************************************************************************)
EXTENDS SymbolTable

Mmap(path, start, end, offset) ==
  [addr |-> start, len |-> end - start, pgoff |-> offset, path |-> path,
   file |-> path # "//anon"]

\* b covers both parts of a or lies in the first one.
MCMmaps ==
  { Mmap("a", 1, 3, 0), Mmap("a", 4, 6, 2), Mmap("b", 1, 6, 0),
    Mmap("b", 2, 3, 1), Mmap("//anon", 5, 7, 0) }

MCModuleSize == [path \in {m.path : m \in MCMmaps} |-> 5]

\* The sample without a call chain sends at least its ip.
MCSamples ==
  { [callchain |-> <<1>>, stack |-> <<[pc |-> 5, ip |-> 4]>>, ip |-> 1],
    [callchain |-> <<>>, ip |-> 1,
     stack |-> <<[pc |-> 1, ip |-> 1], [pc |-> 5, ip |-> 4]>>] }

\* A region over the beginning of a library, and samples in both.
StaleMmaps == { Mmap("a", 1, 6, 0), Mmap("//anon", 1, 3, 0) }

StaleModuleSize == [path \in {m.path : m \in StaleMmaps} |-> 5]

StaleSamples ==
  { [callchain |-> <<ip>>, stack |-> <<>>, ip |-> ip] : ip \in {2, 4} }
=============================================================================
