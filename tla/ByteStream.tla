----------------------------- MODULE ByteStream -----------------------------
(***************************************************************************)
(* What a sequential device promises to those who read from it: all bytes  *)
(* of the stream, in their order, and its end only behind the last one.    *)
(* The bytes are numbered from 0.                                          *)
(***************************************************************************)
EXTENDS Naturals, Sequences

VARIABLES
  size,       \* how many bytes the stream has
  taken,      \* how many have been taken from it
  delivered,  \* those that were read from the device
  closed      \* it has been closed

vars == <<size, taken, delivered, closed>>

Init == size \in Nat /\ taken = 0 /\ delivered = <<>> /\ closed = FALSE

Take ==
  /\ taken' \in taken .. size
  /\ UNCHANGED <<size, delivered, closed>>

Deliver ==
  /\ \E n \in 0 .. taken - Len(delivered) :
       delivered' = delivered \o [k \in 1 .. n |-> Len(delivered) + k - 1]
  /\ UNCHANGED <<size, taken, closed>>

\* Whoever reads has had the chance to read everything.
Close ==
  /\ Len(delivered) = size
  /\ closed' = TRUE
  /\ UNCHANGED <<size, taken, delivered>>

Next == Take \/ Deliver \/ Close

Spec == Init /\ [][Next]_vars
=============================================================================
