---------------------------- MODULE MCEventBuffer ----------------------------
(***************************************************************************)
(* Small instances of EventBuffer and EventTimeline for TLC.               *)
(***************************************************************************)
EXTENDS EventTimeline

Record(type, pid, tid, time, size, payload) ==
  [type |-> type, pid |-> pid, tid |-> tid, time |-> time, size |-> size,
   payload |-> payload]

\* Samples and mmaps of one process, with equal times and a mmap at time 0.
MCOrderRecords ==
  { Record("sample", 1, 1, 1, 4, 0), Record("sample", 1, 1, 2, 4, 0),
    Record("sample", 1, 1, 3, 4, 7), Record("mmap", 1, 1, 0, 3, 0),
    Record("mmap", 1, 1, 2, 3, 0) }

\* A process forks a child, which ends at the time of its last sample.
MCForkRecords ==
  { Record("mmap", 1, 1, 1, 3, 0), Record("fork", 2, 2, 2, 1, 1),
    Record("mmap", 2, 2, 2, 3, 0), Record("sample", 2, 2, 3, 4, 0),
    Record("exit", 2, 2, 4, 1, 0), Record("sample", 2, 2, 4, 4, 0) }

\* One record of every type, the task events at the times of the samples.
MCTypeRecords ==
  { Record("sample", 1, 1, 2, 4, 0), Record("comm", 1, 1, 2, 1, 0),
    Record("lost", 1, 1, 1, 1, 0), Record("switch", 1, 1, 2, 1, 0),
    Record("fork", 1, 2, 1, 1, 1), Record("mmap", 0, 0, 1, 2, 0) }

MCRecordings == {MCOrderRecords, MCForkRecords, MCTypeRecords}
MCOrderOnly  == {MCOrderRecords}

MCPipe == {[pipe |-> TRUE, recentPerf |-> FALSE]}
MCAll  == [pipe : BOOLEAN, recentPerf : BOOLEAN]

MCCycles == [tracepoint |-> FALSE, ids |-> {}]
MCTrace  == [tracepoint |-> TRUE, ids |-> {7}]
MCPlain  == [tracepoint |-> FALSE, ids |-> {7}]
MCAttributes == {MCCycles, MCTrace, MCPlain}

\* Three records are enough to make each way of buffering flush and violate.
MCFewRecords ==
  { Record("sample", 1, 1, 2, 4, 7), Record("sample", 1, 1, 1, 4, 0),
    Record("mmap", 1, 1, 1, 3, 0) }

MCFewOnly == {MCFewRecords}

MCNoDescs    == {<<>>}
MCDescs      == {<<>>, <<MCCycles>>, <<MCCycles, MCTrace>>, <<MCPlain>>}
MCNoFile     == <<>>
MCNone       == {}
MCFile       == <<MCCycles, MCTrace>>
=============================================================================
