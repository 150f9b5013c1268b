---------------------------- MODULE EventTimeline ----------------------------
(***************************************************************************)
(* What PerfUnwind's event buffer is for: analyzing every sample with the  *)
(* mappings its process had at that time.  The reference is a replay of    *)
(* the events that arrived, in the order of their times, without a buffer. *)
(***************************************************************************)
EXTENDS EventBuffer

ChangesMappings(e) == e.type = "mmap" \/ StartsProcess(e) \/ EndsProcess(e)

\* One event of the timeline: an mmap adds a mapping, the start of a process
\* copies its parent's mappings, its end drops them.
Apply(tables, e) ==
  CASE e.type = "mmap"   -> [tables EXCEPT ![e.pid] = Append(@, e)]
    [] StartsProcess(e)  -> [tables EXCEPT ![e.pid] = tables[e.payload]]
    [] EndsProcess(e)    -> [tables EXCEPT ![e.pid] = <<>>]
    [] OTHER             -> tables

\* The order of the timeline, for the places i and j in the order a of arrival:
\* by time, the mmaps of an instant before its task events.
Precedes(a, i, j) ==
  LET d == a[i].event
      e == a[j].event
  IN  \/ d.time < e.time
      \/ d.time = e.time /\ d.type = "mmap" /\ e.type # "mmap"
      \/ d.time = e.time /\ (d.type = "mmap" <=> e.type = "mmap") /\ i < j

Last(a, D) == CHOOSE i \in D : \A j \in D \ {i} : Precedes(a, j, i)

\* The tables after the events at the places D.
Replay(a) ==
  LET tables[D \in SUBSET DOMAIN a] ==
        IF D = {} THEN [pid \in Pids |-> <<>>]
        ELSE Apply(tables[D \ {Last(a, D)}], a[Last(a, D)].event)
  IN  tables

\* The tables at time t, by the first n events that arrived.
Timeline(n, t) ==
  Replay(arrived)[{i \in 1 .. n : /\ ChangesMappings(arrived[i].event)
                                  /\ arrived[i].event.time <= t}]

\* An event is late when samples of its time or of a later one are analyzed.
NoneLate(n) ==
  \A i \in 1 .. n, k \in DOMAIN analyzed :
    analyzed[k].known < i => analyzed[k].event.time < arrived[i].event.time

\* A sample lies between each mmap of a process and the end of that process: the
\* end drops the table, but not the mmaps that still wait to be forwarded to it.
EndsFollowSamples(n, t) ==
  \A i, j \in 1 .. n :
    LET mmap == arrived[i].event
        end  == arrived[j].event
    IN  /\ mmap.type = "mmap" /\ EndsProcess(end)
        /\ mmap.pid = end.pid /\ mmap.time <= end.time /\ end.time <= t
        => \E k \in 1 .. n : /\ arrived[k].event.type = "sample"
                             /\ mmap.time <= arrived[k].event.time
                             /\ arrived[k].event.time < end.time

NoTrailingFork ==
  \A i \in DOMAIN sent :
    sent[i].trailing =>
      ~StartsProcess(sent[i].event) /\ ~EndsProcess(sent[i].event)

\* Every sample is analyzed with the mappings the timeline gives its process and
\* the kernel, if no event was late, no process ended with mmaps that no sample
\* had followed, and none started or ended behind the last sample of a flush.
\* (bufferEvent, flushEventBuffer, analyze)
AnalysisMatchesTimeline ==
  NoTrailingFork =>
    \A i \in DOMAIN analyzed :
      LET a == analyzed[i]
          tables == Timeline(a.known, a.event.time)
      IN  NoneLate(a.known) /\ EndsFollowSamples(a.known, a.event.time) =>
            /\ a.user = tables[a.event.pid]
            /\ a.kernel = tables[KernelPid]
=============================================================================
