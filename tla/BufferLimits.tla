---------------------------- MODULE BufferLimits ----------------------------
(***************************************************************************)
(* The three sizes that decide when PerfUnwind flushes its event buffer    *)
(* (src/app/perfunwind.cpp) and the command line options that preset them  *)
(* (src/app/main.cpp).  A value of these sizes is a record                 *)
(*     [target |-> m_targetEventBufferSize,   0 means: on FINISHED_ROUND   *)
(*      last   |-> m_lastEventBufferSize,                                  *)
(*      max    |-> m_maxEventBufferSize].                                  *)
(***************************************************************************)
EXTENDS Integers

CONSTANTS
  UIntMax,        \* UINT_MAX of the build
  InitialTarget,  \* 1 << 25 in the code
  InitialLast,    \* 1 << 20
  InitialMax,     \* 1 << 30
  KiloByte        \* 1024

ASSUME LimitsAssumption ==
  /\ UIntMax \in Nat /\ KiloByte \in Nat
  /\ InitialLast \in 0 .. UIntMax
  /\ InitialTarget \in 0 .. UIntMax
  /\ InitialMax \in InitialTarget .. UIntMax

\* Unsigned arithmetic: the value of n in a uint.
UInt(n) == n % (UIntMax + 1)

Larger(m, n) == IF m > n THEN m ELSE n
Smaller(m, n) == IF m < n THEN m ELSE n

Limits == [target : 0 .. UIntMax, last : 0 .. UIntMax, max : 0 .. UIntMax]

InitialLimits ==
  [target |-> InitialTarget, last |-> InitialLast, max |-> InitialMax]

\* setTargetEventBufferSize and setMaxEventBufferSize call each other; neither
\* recursion goes deeper than one call.
SetTarget(lim, size) ==
  [target |-> size, last |-> lim.target, max |-> Larger(lim.max, size)]

SetMax(lim, size) ==
  IF size < lim.target
  THEN [target |-> size, last |-> lim.target, max |-> size]
  ELSE [lim EXCEPT !.max = size]

\* revertTargetEventBufferSize
RevertTarget(lim) == SetTarget(lim, lim.last)

\* Faulty: the product is not a uint.
BytesUnbounded(option) == option * KiloByte

\* main(): the options count in kilobytes, and the product is a uint.
Bytes(option) == UInt(option * KiloByte)

Configured(targetOption, maxOption) ==
  SetMax(SetTarget(InitialLimits, Bytes(targetOption)), Bytes(maxOption))

\* Faulty: not clamped by the maximum.
EnlargedTargetUnclamped(lim, bufferSize) ==
  Smaller(2 * Larger(bufferSize, lim.last), UIntMax)

\* The end of flushEventBuffer, after a time order violation: double what was
\* buffered when the flush began (at least the last target), up to the maximum.
EnlargedTarget(lim, bufferSize) ==
  Smaller(Smaller(2 * Larger(bufferSize, lim.last), UIntMax), lim.max)
=============================================================================
