----------------------------- MODULE EventBuffer -----------------------------
(***************************************************************************)
(* The event buffer of PerfUnwind (src/app/perfunwind.cpp): records arrive *)
(* from perf in any order, are buffered, and are forwarded sorted by time  *)
(* to the symbol tables (mmaps), to the analysis (samples) and to the      *)
(* client (task events).  flushEventBuffer is modelled step by step, one   *)
(* step per iteration of its loops; nothing else runs while it is active,  *)
(* because the program handles records in a single thread.                 *)
(*                                                                         *)
(* A symbol table is the sequence of the mmaps registered in it; one that  *)
(* does not exist is the empty one, as symbolTable() creates it on demand. *)
(* Statistics mode (--print-stats) is not part of this module.             *)
(***************************************************************************)
EXTENDS BufferLimits, StableSort

CONSTANTS
  Recordings,     \* what perf may have recorded: sets of records, each of
                  \* which arrives at most once
  Attributes,     \* event attributes: [tracepoint |-> BOOLEAN, ids |-> ids]
  EventDescs,     \* possible EVENT_DESC features: sequences of attributes
  FileAttributes, \* the attributes in the header of a perf.data file
  PipeAttributes, \* the attributes that may arrive as records of a pipe
  Pids,           \* process and thread ids
  KernelPid,      \* s_kernelPid
  Payloads,       \* sample ids, interned names, ...; parent pids of forks
  DefaultId,      \* the sample id 0, which every attribute claims
  TaskEventSize,  \* sizeof(TaskEvent)
  Inputs,         \* kinds of input: [pipe, recentPerf], where recentPerf
                  \* tells whether features.version() is at least 3.17
  TargetOptions,  \* values of --buffer-size
  MaxOptions,     \* values of --max-buffer-size
  MaxRounds       \* bound on the number of FINISHED_ROUND records

VARIABLES
  setup,               \* the input and the options, in bytes
  stage,               \* how far main() is with its input
  pending,             \* attributes that readFileHeader() has yet to hand over
  unread,              \* records not read yet
  rounds,              \* number of FINISHED_ROUND records read
  attributes,          \* m_attributes
  attributeIds,        \* m_attributeIds
  limits,              \* the sizes of module BufferLimits
  sampleBuffer,        \* m_sampleBuffer
  mmapBuffer,          \* m_mmapBuffer
  taskEventsBuffer,    \* m_taskEventsBuffer
  eventBufferSize,     \* m_eventBufferSize
  timeOrderViolations, \* m_timeOrderViolations
  lastFlushMaxTime,    \* m_lastFlushMaxTime
  flush,               \* the locals of flushEventBuffer and where it stands
  symbolTables,        \* m_symbolTables
  arrived,             \* history: events in order of arrival
  registered,          \* history: mmaps in the order they were registered
  sent,                \* history: task events in the order they were sent
  analyzed,            \* history: samples in the order they were analyzed
  errors               \* history: the mmap each TimeOrderViolation names

inputs  == <<setup, stage, pending, unread, rounds>>
attrs   == <<attributes, attributeIds>>
buffers == <<sampleBuffer, mmapBuffer, taskEventsBuffer>>
order   == <<timeOrderViolations, lastFlushMaxTime>>
outputs == <<symbolTables, registered, sent, analyzed>>
vars    == <<inputs, attrs, limits, buffers, eventBufferSize, order, flush,
             outputs, arrived, errors>>

-----------------------------------------------------------------------------
RecordTypes == {"sample", "mmap", "comm", "lost", "fork", "exit", "switch"}
TaskTypes   == {"Command", "LostDefinition", "ThreadStart", "ThreadEnd",
                "ContextSwitchDefinition"}

\* The size of a record is at least that of its header, which counts.
Event(types) == [type : types, pid : Pids, tid : Pids, time : Nat,
                 size : Nat \ {0}, payload : Payloads]

Samples    == Event({"sample"})
Mmaps      == Event({"mmap"})
TaskEvents == {e \in Event(TaskTypes) :
                 e.type = "ThreadStart" => e.payload \in Pids}
Events     == Samples \cup Mmaps \cup TaskEvents

Records == UNION Recordings

ASSUME BufferAssumption ==
  /\ Records \subseteq Event(RecordTypes)
  /\ \A r \in Records : r.type = "fork" => r.payload \in Pids
  /\ Attributes \subseteq [tracepoint : BOOLEAN, ids : SUBSET Payloads]
  /\ EventDescs \subseteq Seq(Attributes)
  /\ FileAttributes \in Seq(Attributes)
  /\ PipeAttributes \subseteq Attributes
  /\ KernelPid \in Pids /\ DefaultId \in Payloads
  /\ TaskEventSize \in Nat \ {0}
  /\ TargetOptions \subseteq Nat /\ MaxOptions \subseteq Nat
  /\ Inputs \subseteq [pipe : BOOLEAN, recentPerf : BOOLEAN]
  /\ MaxRounds \in Nat

-----------------------------------------------------------------------------
Phases == {"idle", "samples", "tasks", "break", "tail"}

Idle  == flush.phase = "idle"
\* The header of a perf.data file is dealt with, the data is being read.
Ready == stage = "data" /\ pending = <<>> /\ Idle

\* flushEventBuffer up to its first loop.
BeginFlush(samples, mmaps, tasks, bufferSize, desired) ==
  LET sorted == SortByTime(mmaps)
      late   == sorted # <<>> /\ Head(sorted).time < lastFlushMaxTime
  IN  /\ sampleBuffer' = SortByTime(samples)
      /\ mmapBuffer' = sorted
      /\ taskEventsBuffer' = SortByTime(tasks)
      /\ errors' = IF late THEN Append(errors, Head(sorted)) ELSE errors
      /\ flush' = [phase |-> "samples", desired |-> desired,
                   violates |-> late, sizeAtStart |-> bufferSize]

\* The buffers arrive here with the event appended to one of them.
bufferEvent(event, samples, mmaps, tasks) ==
  LET size == UInt(eventBufferSize + event.size)
  IN  /\ eventBufferSize' = size
      /\ arrived' = Append(arrived,
                           [event |-> event, bound |-> lastFlushMaxTime])
      /\ IF limits.target # 0 /\ size > limits.target
         THEN BeginFlush(samples, mmaps, tasks, size, limits.target \div 2)
         ELSE /\ sampleBuffer' = samples
              /\ mmapBuffer' = mmaps
              /\ taskEventsBuffer' = tasks
              /\ UNCHANGED <<flush, errors>>

TaskEvent(r, type) ==
  [type |-> type, pid |-> r.pid, tid |-> r.tid, time |-> r.time,
   size |-> TaskEventSize, payload |-> r.payload]

\* Records of a recording that differ in their sizes only make one task event.
\* A recording has no such records: as in a set, all of them can be told apart.
ASSUME DistinctAssumption ==
  \A R \in Recordings : \A r, q \in R :
    /\ r.type \notin {"sample", "mmap"}
    /\ TaskEvent(r, r.type) = TaskEvent(q, q.type)
    => r = q

bufferTaskEvent(event) ==
  bufferEvent(event, sampleBuffer, mmapBuffer, Append(taskEventsBuffer, event))

Read(type, r) ==
  /\ Ready /\ r \in unread /\ r.type = type
  /\ unread' = unread \ {r}
  /\ UNCHANGED <<setup, stage, pending, rounds, attrs, limits, order, outputs>>

sample(r) ==
  /\ Read("sample", r)
  /\ bufferEvent(r, Append(sampleBuffer, r), mmapBuffer, taskEventsBuffer)

registerElf(r) ==
  /\ Read("mmap", r)
  /\ bufferEvent(r, sampleBuffer, Append(mmapBuffer, r), taskEventsBuffer)

comm(r) ==
  Read("comm", r) /\ bufferTaskEvent(TaskEvent(r, "Command"))

lost(r) ==
  Read("lost", r) /\ bufferTaskEvent(TaskEvent(r, "LostDefinition"))

fork(r) ==
  Read("fork", r) /\ bufferTaskEvent(TaskEvent(r, "ThreadStart"))

exit(r) ==
  Read("exit", r) /\ bufferTaskEvent(TaskEvent(r, "ThreadEnd"))

contextSwitch(r) ==
  Read("switch", r) /\ bufferTaskEvent(TaskEvent(r, "ContextSwitchDefinition"))

-----------------------------------------------------------------------------
hasTracePointAttributes ==
  \E i \in DOMAIN attributes : attributes[i].tracepoint

\* The first attribute also gets the samples without an id.
addAttributes(attr) ==
  LET filteredIds == (attr.ids \cup {DefaultId}) \ DOMAIN attributeIds
  IN  /\ limits' = IF attr.tracepoint /\ limits.target = 0
                   THEN RevertTarget(limits) ELSE limits
      /\ IF filteredIds = {}
         THEN UNCHANGED attrs
         ELSE /\ attributes' = Append(attributes, attr)
              /\ attributeIds' =
                   [id \in DOMAIN attributeIds \cup filteredIds |->
                      IF id \in filteredIds THEN Len(attributes)
                                            ELSE attributeIds[id]]

\* features(): its loop over the event descriptions ...
FeaturesEventDesc ==
  /\ stage = "features" /\ pending # <<>>
  /\ addAttributes(Head(pending))
  /\ pending' = Tail(pending)
  /\ UNCHANGED <<setup, stage, unread, rounds, buffers, eventBufferSize, order,
                 flush, outputs, arrived, errors>>

\* Faulty: switches to automatic buffering in spite of trace points.
FeaturesVersionOnly ==
  /\ stage = "features" /\ pending = <<>>
  /\ limits' = IF setup.input.recentPerf THEN SetTarget(limits, 0) ELSE limits
  /\ stage' = "data"
  /\ pending' = FileAttributes
  /\ UNCHANGED <<setup, unread, rounds, attrs, buffers, eventBufferSize, order,
                 flush, outputs, arrived, errors>>

\* ... and what follows it; then main() turns to the header's attributes.
FeaturesVersion ==
  /\ stage = "features" /\ pending = <<>>
  /\ limits' = IF /\ setup.input.recentPerf
                  /\ timeOrderViolations = 0
                  /\ ~hasTracePointAttributes
               THEN SetTarget(limits, 0) ELSE limits
  /\ stage' = "data"
  /\ pending' = FileAttributes
  /\ UNCHANGED <<setup, unread, rounds, attrs, buffers, eventBufferSize, order,
                 flush, outputs, arrived, errors>>

HeaderAttribute ==
  /\ stage = "data" /\ pending # <<>>
  /\ addAttributes(Head(pending))
  /\ pending' = Tail(pending)
  /\ UNCHANGED <<setup, stage, unread, rounds, buffers, eventBufferSize, order,
                 flush, outputs, arrived, errors>>

\* attr(): a pipe has its attributes between the other records.
PipeAttribute(attr) ==
  /\ Ready /\ setup.input.pipe
  /\ addAttributes(attr)
  /\ UNCHANGED <<inputs, buffers, eventBufferSize, order, flush, outputs,
                 arrived, errors>>

\* Faulty: returns to automatic buffering after violations.
RoundFinishedForgetful ==
  IF limits.target = 0
  THEN /\ BeginFlush(sampleBuffer, mmapBuffer, taskEventsBuffer,
                     eventBufferSize, eventBufferSize \div 2)
       /\ UNCHANGED limits
  ELSE /\ limits' = IF ~hasTracePointAttributes
                    THEN SetTarget(limits, 0) ELSE limits
       /\ UNCHANGED <<buffers, flush, errors>>

\* finishedRound()
RoundFinished ==
  IF limits.target = 0
  THEN /\ BeginFlush(sampleBuffer, mmapBuffer, taskEventsBuffer,
                     eventBufferSize, eventBufferSize \div 2)
       /\ UNCHANGED limits
  ELSE /\ limits' = IF timeOrderViolations = 0 /\ ~hasTracePointAttributes
                    THEN SetTarget(limits, 0) ELSE limits
       /\ UNCHANGED <<buffers, flush, errors>>

finishedRound ==
  /\ Ready /\ rounds < MaxRounds
  /\ rounds' = rounds + 1
  /\ RoundFinished
  /\ UNCHANGED <<setup, stage, pending, unread, attrs, eventBufferSize, order,
                 outputs, arrived>>

\* finalize(), at the end of the input: finishedRound(), flushEventBuffer(0).
Finalize ==
  /\ Ready
  /\ stage' = "finalizing"
  /\ RoundFinished
  /\ UNCHANGED <<setup, pending, unread, rounds, attrs, eventBufferSize, order,
                 outputs, arrived>>

\* Faulty: the last flush keeps half of the events, like the others.
FinalFlushHalf ==
  /\ stage = "finalizing" /\ Idle
  /\ stage' = "finalFlush"
  /\ BeginFlush(sampleBuffer, mmapBuffer, taskEventsBuffer, eventBufferSize,
                eventBufferSize \div 2)
  /\ UNCHANGED <<setup, pending, unread, rounds, attrs, limits,
                 eventBufferSize, order, outputs, arrived>>

FinalFlush ==
  /\ stage = "finalizing" /\ Idle
  /\ stage' = "finalFlush"
  /\ BeginFlush(sampleBuffer, mmapBuffer, taskEventsBuffer, eventBufferSize, 0)
  /\ UNCHANGED <<setup, pending, unread, rounds, attrs, limits,
                 eventBufferSize, order, outputs, arrived>>

Finalized == stage = "finalFlush" /\ Idle

-----------------------------------------------------------------------------
(***************************************************************************)
(* flushEventBuffer.  The iterators of the code are the heads of the three *)
(* buffers; what is in front of them is gone (the code erases it at the    *)
(* end, and nothing looks at it before).                                   *)
(***************************************************************************)
\* Faulty: leaves the mmaps of the same instant behind.
MmapDueBefore(t) == mmapBuffer # <<>> /\ Head(mmapBuffer).time < t

MmapDue(t) == mmapBuffer # <<>> /\ Head(mmapBuffer).time <= t

\* Faulty: does not give the size of the mmap back.
ForwardMmapKeepSize(t) ==
  LET mmap == Head(mmapBuffer)
  IN  /\ MmapDue(t)
      /\ symbolTables' = [symbolTables EXCEPT ![mmap.pid] = Append(@, mmap)]
      /\ registered' = Append(registered, mmap)
      /\ mmapBuffer' = Tail(mmapBuffer)
      /\ UNCHANGED <<inputs, attrs, limits, sampleBuffer, taskEventsBuffer,
                     eventBufferSize, order, flush, sent, analyzed, arrived,
                     errors>>

\* One iteration of forwardMmapBuffer(t).
ForwardMmap(t) ==
  LET mmap == Head(mmapBuffer)
  IN  /\ MmapDue(t)
      /\ symbolTables' = [symbolTables EXCEPT ![mmap.pid] = Append(@, mmap)]
      /\ registered' = Append(registered, mmap)
      /\ mmapBuffer' = Tail(mmapBuffer)
      /\ eventBufferSize' = UInt(eventBufferSize - mmap.size)
      /\ UNCHANGED <<inputs, attrs, limits, sampleBuffer, taskEventsBuffer,
                     order, flush, sent, analyzed, arrived, errors>>

\* The condition of the loop over the samples.
MoreSamples == eventBufferSize > flush.desired /\ sampleBuffer # <<>>

NextSampleTime == Head(sampleBuffer).time

StepOverSamples(phase) ==
  /\ flush' = [flush EXCEPT !.phase = phase]
  /\ UNCHANGED <<inputs, attrs, limits, buffers, eventBufferSize, order,
                 outputs, arrived, errors>>

\* A sample older than what an earlier flush forwarded.
SampleTooLate ==
  /\ flush.phase = "samples" /\ MoreSamples
  /\ NextSampleTime < lastFlushMaxTime
  /\ flush' = [flush EXCEPT !.phase = "tasks", !.violates = TRUE]
  /\ UNCHANGED <<inputs, attrs, limits, buffers, eventBufferSize, order,
                 outputs, arrived, errors>>

\* Faulty: steps over the sample before it leaves the loop.
SamplesCanWaitSkip ==
  /\ flush.phase = "samples" /\ MoreSamples
  /\ NextSampleTime >= lastFlushMaxTime /\ flush.violates
  /\ flush' = [flush EXCEPT !.phase = "break"]
  /\ sampleBuffer' = Tail(sampleBuffer)
  /\ UNCHANGED <<inputs, attrs, limits, mmapBuffer, taskEventsBuffer,
                 eventBufferSize, order, outputs, arrived, errors>>

\* Past the samples that violate the order: wait for the larger buffer.
SamplesCanWait ==
  /\ flush.phase = "samples" /\ MoreSamples
  /\ NextSampleTime >= lastFlushMaxTime /\ flush.violates
  /\ StepOverSamples("break")

\* Faulty: does not remember how far the flush has come.
SampleInTimeForgotten ==
  /\ flush.phase = "samples" /\ MoreSamples
  /\ NextSampleTime >= lastFlushMaxTime /\ ~flush.violates
  /\ StepOverSamples("tasks")

SampleInTime ==
  /\ flush.phase = "samples" /\ MoreSamples
  /\ NextSampleTime >= lastFlushMaxTime /\ ~flush.violates
  /\ lastFlushMaxTime' = NextSampleTime
  /\ flush' = [flush EXCEPT !.phase = "tasks"]
  /\ UNCHANGED <<inputs, attrs, limits, buffers, eventBufferSize,
                 timeOrderViolations, outputs, arrived, errors>>

NoMoreSamples ==
  /\ flush.phase = "samples" /\ ~MoreSamples
  /\ StepOverSamples("tail")

\* Mmaps that violate the order are forwarded before the loop is left.
ForwardLateMmap == flush.phase = "break" /\ ForwardMmap(lastFlushMaxTime)

\* Faulty: goes on with the loop instead of leaving it.
LeaveSamplesContinue ==
  /\ flush.phase = "break" /\ ~MmapDue(lastFlushMaxTime)
  /\ StepOverSamples("samples")

LeaveSamples ==
  /\ flush.phase = "break" /\ ~MmapDue(lastFlushMaxTime)
  /\ StepOverSamples("tail")

TaskDue == /\ taskEventsBuffer # <<>>
           /\ Head(taskEventsBuffer).time <= NextSampleTime

StartsProcess(e) == e.type = "ThreadStart" /\ e.pid # e.payload
EndsProcess(e)   == e.type = "ThreadEnd" /\ e.pid = e.tid

ForwardMmapBeforeFork ==
  /\ flush.phase = "tasks" /\ TaskDue
  /\ StartsProcess(Head(taskEventsBuffer))
  /\ ForwardMmap(Head(taskEventsBuffer).time)

\* Faulty: the size is not kept in a uint.
sendTaskEventUnderflow(e, trailing) ==
  /\ sent' = Append(sent, [event |-> e, trailing |-> trailing])
  /\ taskEventsBuffer' = Tail(taskEventsBuffer)
  /\ eventBufferSize' = eventBufferSize - 2 * e.size

sendTaskEvent(e, trailing) ==
  /\ sent' = Append(sent, [event |-> e, trailing |-> trailing])
  /\ taskEventsBuffer' = Tail(taskEventsBuffer)
  /\ eventBufferSize' = UInt(eventBufferSize - e.size)

\* Faulty: does not wait for the mmaps up to the fork.
FlushTaskEventEarly ==
  LET e == Head(taskEventsBuffer)
  IN  /\ flush.phase = "tasks" /\ TaskDue
      /\ symbolTables' =
           IF StartsProcess(e)
           THEN [symbolTables EXCEPT ![e.pid] = symbolTables[e.payload]]
           ELSE IF EndsProcess(e) THEN [symbolTables EXCEPT ![e.pid] = <<>>]
                                  ELSE symbolTables
      /\ sendTaskEvent(e, FALSE)
      /\ UNCHANGED <<inputs, attrs, limits, sampleBuffer, mmapBuffer, order,
                     flush, registered, analyzed, arrived, errors>>

\* Faulty: a new process starts without mappings.
FlushTaskEventNoInit ==
  LET e == Head(taskEventsBuffer)
  IN  /\ flush.phase = "tasks" /\ TaskDue
      /\ StartsProcess(e) => ~MmapDue(e.time)
      /\ symbolTables' = IF EndsProcess(e)
                         THEN [symbolTables EXCEPT ![e.pid] = <<>>]
                         ELSE symbolTables
      /\ sendTaskEvent(e, FALSE)
      /\ UNCHANGED <<inputs, attrs, limits, sampleBuffer, mmapBuffer, order,
                     flush, registered, analyzed, arrived, errors>>

\* A task event before the next sample.  A new process gets its parent's
\* symbol table (initAfterFork), the table of a process that ends is deleted.
FlushTaskEvent ==
  LET e == Head(taskEventsBuffer)
  IN  /\ flush.phase = "tasks" /\ TaskDue
      /\ StartsProcess(e) => ~MmapDue(e.time)
      /\ symbolTables' =
           IF StartsProcess(e)
           THEN [symbolTables EXCEPT ![e.pid] = symbolTables[e.payload]]
           ELSE IF EndsProcess(e) THEN [symbolTables EXCEPT ![e.pid] = <<>>]
                                  ELSE symbolTables
      /\ sendTaskEvent(e, FALSE)
      /\ UNCHANGED <<inputs, attrs, limits, sampleBuffer, mmapBuffer, order,
                     flush, registered, analyzed, arrived, errors>>

ForwardMmapBeforeSample ==
  flush.phase = "tasks" /\ ~TaskDue /\ ForwardMmap(NextSampleTime)

\* analyze(): the frames are looked up in the symbol tables of the kernel and
\* of the sample's process; an unknown sample id leaves the attribute at -1.
AnalyzeSample ==
  LET s == Head(sampleBuffer)
  IN  /\ flush.phase = "tasks" /\ ~TaskDue /\ ~MmapDue(NextSampleTime)
      /\ analyzed' =
           Append(analyzed,
             [event     |-> s,
              attribute |-> IF s.payload \in DOMAIN attributeIds
                            THEN attributeIds[s.payload] ELSE -1,
              user      |-> symbolTables[s.pid],
              kernel    |-> symbolTables[KernelPid],
              known     |-> Len(arrived)])
      /\ sampleBuffer' = Tail(sampleBuffer)
      /\ eventBufferSize' = UInt(eventBufferSize - s.size)
      /\ flush' = [flush EXCEPT !.phase = "samples"]
      /\ UNCHANGED <<inputs, attrs, limits, mmapBuffer, taskEventsBuffer, order,
                     symbolTables, registered, sent, arrived, errors>>

\* The loop over the task events left when the samples are done.
MoreTaskEvents == eventBufferSize > flush.desired /\ taskEventsBuffer # <<>>

TrailingTaskEvent ==
  /\ flush.phase = "tail" /\ MoreTaskEvents
  /\ sendTaskEvent(Head(taskEventsBuffer), TRUE)
  /\ UNCHANGED <<inputs, attrs, limits, sampleBuffer, mmapBuffer, order, flush,
                 symbolTables, registered, analyzed, arrived, errors>>

EndFlush ==
  /\ flush.phase = "tail" /\ ~MoreTaskEvents
  /\ flush' = [flush EXCEPT !.phase = "idle"]
  /\ IF flush.violates
     THEN /\ timeOrderViolations' = timeOrderViolations + 1
          /\ limits' = SetTarget(limits,
                                 EnlargedTarget(limits, flush.sizeAtStart))
     ELSE UNCHANGED <<timeOrderViolations, limits>>
  /\ UNCHANGED <<inputs, attrs, buffers, eventBufferSize, lastFlushMaxTime,
                 outputs, arrived, errors>>

FlushStep ==
  \/ SampleTooLate \/ SamplesCanWait \/ SampleInTime \/ NoMoreSamples
  \/ ForwardLateMmap \/ LeaveSamples
  \/ ForwardMmapBeforeFork \/ FlushTaskEvent
  \/ ForwardMmapBeforeSample \/ AnalyzeSample
  \/ TrailingTaskEvent \/ EndFlush

-----------------------------------------------------------------------------
Init ==
  /\ \E t \in TargetOptions, m \in MaxOptions, input \in Inputs,
        descs \in EventDescs :
       /\ limits = Configured(t, m)
       /\ setup = [input |-> input, targetOption |-> Bytes(t),
                   maxOption |-> Bytes(m)]
       /\ stage = IF input.pipe THEN "data" ELSE "features"
       /\ pending = IF input.pipe THEN <<>> ELSE descs
  /\ unread \in Recordings
  /\ rounds = 0
  /\ attributes = <<>>
  /\ attributeIds = [id \in {} |-> 0]
  /\ sampleBuffer = <<>> /\ mmapBuffer = <<>> /\ taskEventsBuffer = <<>>
  /\ eventBufferSize = 0
  /\ timeOrderViolations = 0
  /\ lastFlushMaxTime = 0
  /\ flush = [phase |-> "idle", desired |-> 0, violates |-> FALSE,
              sizeAtStart |-> 0]
  /\ symbolTables = [pid \in Pids |-> <<>>]
  /\ arrived = <<>> /\ registered = <<>> /\ sent = <<>> /\ analyzed = <<>>
  /\ errors = <<>>

ReadRecord(r) ==
  \/ sample(r) \/ registerElf(r) \/ comm(r) \/ lost(r)
  \/ fork(r) \/ exit(r) \/ contextSwitch(r)

\* What the program does without waiting for input.
Internal ==
  FeaturesEventDesc \/ FeaturesVersion \/ HeaderAttribute \/ FinalFlush
  \/ FlushStep

\* The program ends after finalize().
Terminated == Finalized /\ UNCHANGED vars

Next ==
  \/ \E r \in Records : ReadRecord(r)
  \/ \E attr \in PipeAttributes : PipeAttribute(attr)
  \/ finishedRound
  \/ Finalize
  \/ Internal
  \/ Terminated

\* The steps the program takes by itself are loops that nothing can delay.
Fairness == WF_vars(Internal)

Spec == Init /\ [][Next]_vars /\ Fairness

-----------------------------------------------------------------------------
Elements(s) == {s[i] : i \in DOMAIN s}
Newest(s) == s[Len(s)]

Sent == [event : TaskEvents, trailing : BOOLEAN]
Analyzed == [event : Samples, attribute : Int, user : Seq(Mmaps),
             kernel : Seq(Mmaps), known : Nat]

\* Every variable has the type its C++ counterpart can take.
TypeOK ==
  /\ setup \in [input : Inputs,
                targetOption : 0 .. UIntMax, maxOption : 0 .. UIntMax]
  /\ stage \in {"features", "data", "finalizing", "finalFlush"}
  /\ pending \in Seq(Attributes)
  /\ unread \subseteq Records
  /\ rounds \in 0 .. MaxRounds
  /\ attributes \in Seq(Attributes)
  /\ DOMAIN attributeIds \subseteq Payloads
  /\ \A id \in DOMAIN attributeIds :
       attributeIds[id] \in 0 .. Len(attributes) - 1
  /\ limits \in Limits
  /\ sampleBuffer \in Seq(Samples)
  /\ mmapBuffer \in Seq(Mmaps)
  /\ taskEventsBuffer \in Seq(TaskEvents)
  /\ eventBufferSize \in 0 .. UIntMax
  /\ timeOrderViolations \in Nat
  /\ lastFlushMaxTime \in Nat
  /\ flush \in [phase : Phases, desired : 0 .. UIntMax,
                violates : BOOLEAN, sizeAtStart : 0 .. UIntMax]
  /\ symbolTables \in [Pids -> Seq(Mmaps)]
  /\ arrived \in Seq([event : Events, bound : Nat])
  /\ registered \in Seq(Mmaps)
  /\ sent \in Seq(Sent)
  /\ analyzed \in Seq(Analyzed)
  /\ errors \in Seq(Mmaps)

\* A buffer larger than its maximum is never asked for: setTargetEventBufferSize
\* and setMaxEventBufferSize keep target and maximum consistent.
TargetWithinMax == limits.target <= limits.max

\* The user's maximum is never exceeded, unless an option of 0 makes buffering
\* start in automatic mode: neither reverting to the last target nor a violation
\* raises it.
MaxRespected ==
  setup.targetOption # 0 /\ setup.maxOption # 0 =>
    limits.max <= setup.maxOption

\* With trace points the buffer is flushed by its size, never by rounds, when
\* both options are given (addAttributes, finishedRound, features).
TracePointsBufferDynamically ==
  /\ hasTracePointAttributes
  /\ setup.targetOption # 0 /\ setup.maxOption # 0
  => limits.target # 0

\* Samples are analyzed in the order of their times until a flush notices a
\* violation: late arrivals never reorder the output unnoticed.
SamplesInOrder ==
  timeOrderViolations = 0 /\ ~flush.violates =>
    \A i, j \in DOMAIN analyzed :
      i < j => analyzed[i].event.time <= analyzed[j].event.time

\* Every event that arrived is in its buffer or was forwarded, and exactly once:
\* the three iterators of flushEventBuffer neither skip nor repeat anything.
NothingLostOrRepeated ==
  /\ {a.event : a \in Elements(arrived)} =
       Elements(sampleBuffer) \cup Elements(mmapBuffer)
         \cup Elements(taskEventsBuffer) \cup Elements(registered)
         \cup {s.event : s \in Elements(sent)}
         \cup {a.event : a \in Elements(analyzed)}
  /\ Len(arrived) = Len(sampleBuffer) + Len(mmapBuffer) + Len(taskEventsBuffer)
                      + Len(registered) + Len(sent) + Len(analyzed)

\* The bytes of a buffer: each is a byte of the event at some position.
BytesOf(s) == UNION {{i} \X (1 .. s[i].size) : i \in DOMAIN s}

SizeOf(s) == Cardinality(BytesOf(s))

BufferedSize ==
  SizeOf(sampleBuffer) + SizeOf(mmapBuffer) + SizeOf(taskEventsBuffer)

\* m_eventBufferSize is the size of what is buffered: what decides about flushing
\* is never off, also in the middle of a flush.  (bufferEvent, flushEventBuffer)
SizeAccounting == eventBufferSize = UInt(BufferedSize)

\* When a sample is analyzed, all mmaps and task events up to its time have been
\* applied and no older sample waits (the inner loops of flushEventBuffer).
LeavesNothingEarlier ==
  analyzed' # analyzed =>
    LET now == Newest(analyzed').event.time
    IN  /\ \A i \in DOMAIN mmapBuffer' : mmapBuffer'[i].time > now
        /\ \A i \in DOMAIN taskEventsBuffer' : taskEventsBuffer'[i].time > now
        /\ \A i \in DOMAIN sampleBuffer' : sampleBuffer'[i].time >= now

NothingEarlierLeftBehind == [][LeavesNothingEarlier]_vars

\* A process forked before a sample starts with the mappings its parent has, and
\* the parent's mappings up to the fork are applied ("flush the mmap buffer on
\* fork events to allow initialization with the correct state").
ChildInherits(s) ==
  StartsProcess(s.event) =>
    /\ symbolTables'[s.event.pid] = symbolTables'[s.event.payload]
    /\ \A i \in DOMAIN mmapBuffer' : mmapBuffer'[i].time > s.event.time

ForkSnapshot ==
  [][sent' # sent /\ ~Newest(sent').trailing => ChildInherits(Newest(sent'))]_vars

\* stable_sort: events with the same time are forwarded as they arrived ("esp.
\* when we runtime-attach, we will get lots of mmap events with time 0").
ArrivalIndex(e) == CHOOSE i \in DOMAIN arrived : arrived[i].event = e

KeepsArrivalOrder(s) ==
  \A i, j \in DOMAIN s :
    i < j /\ s[i].time = s[j].time => ArrivalIndex(s[i]) < ArrivalIndex(s[j])

EqualTimesKeepArrivalOrder ==
  /\ KeepsArrivalOrder(registered)
  /\ KeepsArrivalOrder([i \in DOMAIN sent |-> sent[i].event])
  /\ KeepsArrivalOrder([i \in DOMAIN analyzed |-> analyzed[i].event])

\* Once the order was violated the buffer never gets smaller again, and in
\* particular never returns to automatic buffering, while data is read.
KeepsTarget ==
  stage = "data" /\ timeOrderViolations' > 0 => limits'.target >= limits.target

NoSmallerAfterViolation == [][KeepsTarget]_vars

\* finalize() sends all task events, and analyzes all samples unless its own
\* flush finds the order violated.
FinalFlushIsComplete ==
  Finalized => /\ taskEventsBuffer = <<>>
               /\ ~flush.violates => sampleBuffer = <<>>

\* finalize() analyzes all samples: "wait for the larger buffer to fill up, so
\* that we avoid further violations in the yet to be processed events".
FinalizeAnalyzesAllSamples == Finalized => sampleBuffer = <<>>

\* Every flush ends, with all the loops it consists of.
FlushTerminates == ~Idle ~> Idle
=============================================================================
