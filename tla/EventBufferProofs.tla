-------------------------- MODULE EventBufferProofs --------------------------
(***************************************************************************)
(* Theorems about EventBuffer, and about what its analysis has to do with  *)
(* the timeline, for all constants that their assumptions allow.           *)
(***************************************************************************)
EXTENDS EventTimeline, StableSortProofs

-----------------------------------------------------------------------------
\* Unsigned arithmetic stays in the range of a uint.
LEMMA UIntType ==
  ASSUME NEW n \in Int
  PROVE  UInt(n) \in 0 .. UIntMax
BY LimitsAssumption DEF UInt

\* Half of a uint is a uint.
LEMMA HalfType ==
  ASSUME NEW n \in 0 .. UIntMax
  PROVE  n \div 2 \in 0 .. UIntMax
<1>1. UIntMax \in Nat /\ n \in Nat
  BY LimitsAssumption
<1>2. n \div 2 \in Nat /\ n \div 2 <= n
  BY <1>1, Z3
<1> QED
  BY <1>1, <1>2

\* Setting, reverting and enlarging the sizes keeps them uints, with the target
\* within the maximum (setTargetEventBufferSize, setMaxEventBufferSize).
LEMMA LimitsLemma ==
  ASSUME NEW lim \in Limits, NEW size \in 0 .. UIntMax
  PROVE  /\ SetTarget(lim, size) \in Limits
         /\ SetMax(lim, size) \in Limits
         /\ RevertTarget(lim) \in Limits
         /\ EnlargedTarget(lim, size) \in 0 .. UIntMax
         /\ RevertTarget(lim).target <= RevertTarget(lim).max
         /\ SetTarget(lim, size).target <= SetTarget(lim, size).max
         /\ lim.target <= lim.max =>
              SetMax(lim, size).target <= SetMax(lim, size).max
<1>1. UIntMax \in Nat
  BY LimitsAssumption
<1>2. SetTarget(lim, size) \in Limits /\ SetMax(lim, size) \in Limits
  BY <1>1 DEF Limits, SetTarget, SetMax, Larger
<1>3. RevertTarget(lim) \in Limits
  BY <1>1 DEF Limits, SetTarget, RevertTarget, Larger
<1>4. EnlargedTarget(lim, size) \in 0 .. UIntMax
  BY <1>1 DEF Limits, EnlargedTarget, Smaller, Larger
<1>5. /\ RevertTarget(lim).target <= RevertTarget(lim).max
      /\ SetTarget(lim, size).target <= SetTarget(lim, size).max
  BY <1>1 DEF Limits, SetTarget, RevertTarget, Larger
<1>6. SetMax(lim, size).target <= SetMax(lim, size).max
  BY <1>1 DEF Limits, SetMax
<1> QED
  BY <1>2, <1>3, <1>4, <1>5, <1>6

\* The options leave the sizes consistent (main).
LEMMA ConfiguredLemma ==
  ASSUME NEW t \in Nat, NEW m \in Nat
  PROVE  /\ Configured(t, m) \in Limits
         /\ Configured(t, m).target <= Configured(t, m).max
<1>1. Bytes(t) \in 0 .. UIntMax /\ Bytes(m) \in 0 .. UIntMax
  <2>1. t * KiloByte \in Int /\ m * KiloByte \in Int
    BY LimitsAssumption
  <2> QED
    BY <2>1, UIntType DEF Bytes
<1>2. InitialLimits \in Limits
  BY LimitsAssumption DEF InitialLimits, Limits
<1> DEFINE lim == SetTarget(InitialLimits, Bytes(t))
<1>3. lim \in Limits /\ lim.target <= lim.max
  BY <1>1, <1>2, LimitsLemma
<1>4. SetMax(lim, Bytes(m)) \in Limits
  BY <1>1, <1>3, LimitsLemma
<1>5. SetMax(lim, Bytes(m)).target <= SetMax(lim, Bytes(m)).max
  BY <1>1, <1>3, LimitsLemma
<1> QED
  BY <1>4, <1>5 DEF Configured

\* What is buffered has a time to sort it by, and a size.
LEMMA EventsTimed ==
  /\ Timed(Samples) /\ Timed(Mmaps) /\ Timed(TaskEvents)
  /\ \A e \in Events : e.size \in Nat /\ e.time \in Nat
BY DEF Timed, Samples, Mmaps, TaskEvents, Events, Event

\* The types of the variables that the steps of a flush compute with.
LEMMA Typed ==
  ASSUME TypeOK
  PROVE  /\ eventBufferSize \in Int
         /\ sampleBuffer \in Seq(Samples)
         /\ mmapBuffer \in Seq(Mmaps)
         /\ taskEventsBuffer \in Seq(TaskEvents)
         /\ symbolTables \in [Pids -> Seq(Mmaps)]
         /\ sent \in Seq(Sent)
         /\ analyzed \in Seq(Analyzed)
         /\ Len(arrived) \in Nat
         /\ timeOrderViolations \in Nat
         /\ limits \in Limits
<1>1. eventBufferSize \in Int
  BY LimitsAssumption DEF TypeOK
<1>2. Len(arrived) \in Nat
  BY DEF TypeOK
<1> QED
  BY <1>1, <1>2 DEF TypeOK

-----------------------------------------------------------------------------
\* flushEventBuffer begins with buffers of the right types ...
LEMMA BeginFlushType ==
  ASSUME TypeOK,
         NEW samples \in Seq(Samples), NEW mmaps \in Seq(Mmaps),
         NEW tasks \in Seq(TaskEvents),
         NEW size \in 0 .. UIntMax, NEW desired \in 0 .. UIntMax,
         BeginFlush(samples, mmaps, tasks, size, desired)
  PROVE  /\ sampleBuffer' \in Seq(Samples)
         /\ mmapBuffer' \in Seq(Mmaps)
         /\ taskEventsBuffer' \in Seq(TaskEvents)
         /\ flush' \in [phase : Phases, desired : 0 .. UIntMax,
                        violates : BOOLEAN, sizeAtStart : 0 .. UIntMax]
         /\ errors' \in Seq(Mmaps)
<1> DEFINE sorted == SortByTime(mmaps)
           late == sorted # <<>> /\ Head(sorted).time < lastFlushMaxTime
<1>1. /\ SortByTime(samples) \in Seq(Samples)
      /\ sorted \in Seq(Mmaps)
      /\ SortByTime(tasks) \in Seq(TaskEvents)
  BY EventsTimed, SortIsSequence
<1>2. /\ sampleBuffer' = SortByTime(samples)
      /\ mmapBuffer' = sorted
      /\ taskEventsBuffer' = SortByTime(tasks)
      /\ errors' = IF late THEN Append(errors, Head(sorted)) ELSE errors
      /\ flush' = [phase |-> "samples", desired |-> desired,
                   violates |-> late, sizeAtStart |-> size]
  BY DEF BeginFlush
<1>3. errors' \in Seq(Mmaps)
  <2>1. errors \in Seq(Mmaps)
    BY DEF TypeOK
  <2>2. CASE late
    <3>1. Head(sorted) \in Mmaps
      BY <1>1, <2>2, HeadTailProperties
    <3> QED
      BY <1>2, <2>1, <2>2, <3>1
  <2> QED
    BY <1>2, <2>1, <2>2
<1>4. late \in BOOLEAN
  OBVIOUS
<1>5. flush' \in [phase : Phases, desired : 0 .. UIntMax,
                  violates : BOOLEAN, sizeAtStart : 0 .. UIntMax]
  BY <1>2, <1>4, Zenon DEF Phases
<1> QED
  BY <1>1, <1>2, <1>3, <1>5

\* ... which bufferEvent hands to it.
LEMMA BufferEventType ==
  ASSUME TypeOK, NEW event \in Events,
         NEW samples \in Seq(Samples), NEW mmaps \in Seq(Mmaps),
         NEW tasks \in Seq(TaskEvents),
         bufferEvent(event, samples, mmaps, tasks)
  PROVE  /\ sampleBuffer' \in Seq(Samples)
         /\ mmapBuffer' \in Seq(Mmaps)
         /\ taskEventsBuffer' \in Seq(TaskEvents)
         /\ flush' \in [phase : Phases, desired : 0 .. UIntMax,
                        violates : BOOLEAN, sizeAtStart : 0 .. UIntMax]
         /\ errors' \in Seq(Mmaps)
         /\ eventBufferSize' \in 0 .. UIntMax
         /\ arrived' \in Seq([event : Events, bound : Nat])
<1> DEFINE size == UInt(eventBufferSize + event.size)
<1>1. size \in 0 .. UIntMax
  <2>1. eventBufferSize \in Int
    BY LimitsAssumption DEF TypeOK
  <2>2. event.size \in Nat
    BY EventsTimed
  <2>3. eventBufferSize + event.size \in Int
    BY <2>1, <2>2
  <2> QED
    BY <2>3, UIntType
<1>2. eventBufferSize' = size
  BY DEF bufferEvent
<1>3. arrived' \in Seq([event : Events, bound : Nat])
  BY DEF bufferEvent, TypeOK
<1>4. CASE limits.target # 0 /\ size > limits.target
  <2>1. limits.target \div 2 \in 0 .. UIntMax
    BY HalfType DEF TypeOK, Limits
  <2>2. BeginFlush(samples, mmaps, tasks, size, limits.target \div 2)
    BY <1>4 DEF bufferEvent
  <2> QED
    BY <1>1, <1>2, <1>3, <2>1, <2>2, BeginFlushType
<1>5. CASE ~(limits.target # 0 /\ size > limits.target)
  BY <1>1, <1>2, <1>3, <1>5 DEF bufferEvent, TypeOK
<1> QED
  BY <1>4, <1>5

-----------------------------------------------------------------------------
\* A record that is read keeps the types (sample, registerElf, comm, lost, fork,
\* exit, contextSwitch).
LEMMA ReadRecordType ==
  ASSUME TypeOK, NEW r \in Records, ReadRecord(r)
  PROVE  TypeOK'
<1> USE DEF TypeOK
<1>1. r \in Event(RecordTypes) /\ (r.type = "fork" => r.payload \in Pids)
  BY BufferAssumption
<1>2. /\ sampleBuffer \in Seq(Samples)
      /\ mmapBuffer \in Seq(Mmaps)
      /\ taskEventsBuffer \in Seq(TaskEvents)
  OBVIOUS
<1>3. ASSUME NEW event \in Events, NEW samples \in Seq(Samples),
             NEW mmaps \in Seq(Mmaps), NEW tasks \in Seq(TaskEvents),
             NEW type, Read(type, r),
             bufferEvent(event, samples, mmaps, tasks)
      PROVE  TypeOK'
  <2>1. /\ sampleBuffer' \in Seq(Samples)
        /\ mmapBuffer' \in Seq(Mmaps)
        /\ taskEventsBuffer' \in Seq(TaskEvents)
        /\ flush' \in [phase : Phases, desired : 0 .. UIntMax,
                       violates : BOOLEAN, sizeAtStart : 0 .. UIntMax]
        /\ errors' \in Seq(Mmaps)
        /\ eventBufferSize' \in 0 .. UIntMax
        /\ arrived' \in Seq([event : Events, bound : Nat])
    BY <1>3, BufferEventType
  <2>2. unread' \subseteq Records
    BY <1>3 DEF Read
  <2>3. UNCHANGED <<setup, stage, pending, rounds, attrs, limits, order,
                    outputs>>
    BY <1>3 DEF Read
  <2> QED
    BY <2>1, <2>2, <2>3 DEF attrs, order, outputs
<1>4. CASE sample(r)
  <2>1. r \in Samples
    BY <1>1, <1>4 DEF sample, Read, Samples, Event
  <2>2. r \in Events /\ Append(sampleBuffer, r) \in Seq(Samples)
    BY <1>2, <2>1 DEF Events
  <2> QED
    BY <1>2, <1>3, <1>4, <2>2 DEF sample
<1>5. CASE registerElf(r)
  <2>1. r \in Mmaps
    BY <1>1, <1>5 DEF registerElf, Read, Mmaps, Event
  <2>2. r \in Events /\ Append(mmapBuffer, r) \in Seq(Mmaps)
    BY <1>2, <2>1 DEF Events
  <2> QED
    BY <1>2, <1>3, <1>5, <2>2 DEF registerElf
<1>6. ASSUME NEW type, NEW t \in TaskTypes, Read(type, r),
             type = "fork" \/ t # "ThreadStart",
             bufferTaskEvent(TaskEvent(r, t))
      PROVE  TypeOK'
  <2>1. TaskEvent(r, t) \in Event(TaskTypes)
    BY <1>1, BufferAssumption DEF TaskEvent, Event
  <2>2. TaskEvent(r, t).type = "ThreadStart" =>
          TaskEvent(r, t).payload \in Pids
    BY <1>1, <1>6 DEF TaskEvent, Read
  <2>3. TaskEvent(r, t) \in TaskEvents
    BY <2>1, <2>2 DEF TaskEvents
  <2>4. /\ TaskEvent(r, t) \in Events
        /\ Append(taskEventsBuffer, TaskEvent(r, t)) \in Seq(TaskEvents)
    BY <1>2, <2>3 DEF Events
  <2> QED
    BY <1>2, <1>3, <1>6, <2>4 DEF bufferTaskEvent
<1>7. CASE comm(r)
  BY <1>6, <1>7 DEF comm, TaskTypes
<1>8. CASE lost(r)
  BY <1>6, <1>8 DEF lost, TaskTypes
<1>9. CASE fork(r)
  BY <1>6, <1>9 DEF fork, TaskTypes
<1>10. CASE exit(r)
  BY <1>6, <1>10 DEF exit, TaskTypes
<1>11. CASE contextSwitch(r)
  BY <1>6, <1>11 DEF contextSwitch, TaskTypes
<1> QED
  BY <1>4, <1>5, <1>7, <1>8, <1>9, <1>10, <1>11 DEF ReadRecord

\* An attribute keeps the types (addAttributes).
LEMMA AddAttributesType ==
  ASSUME TypeOK, NEW attr \in Attributes, addAttributes(attr)
  PROVE  /\ attributes' \in Seq(Attributes)
         /\ DOMAIN attributeIds' \subseteq Payloads
         /\ \A id \in DOMAIN attributeIds' :
              attributeIds'[id] \in 0 .. Len(attributes') - 1
         /\ limits' \in Limits
<1> DEFINE filteredIds == (attr.ids \cup {DefaultId}) \ DOMAIN attributeIds
<1>1. filteredIds \subseteq Payloads
  BY BufferAssumption
<1>2. limits' \in Limits
  <2>1. RevertTarget(limits) \in Limits
    BY LimitsLemma, LimitsAssumption DEF TypeOK
  <2> QED
    BY <2>1 DEF addAttributes, TypeOK
<1>3. CASE filteredIds = {}
  BY <1>2, <1>3 DEF addAttributes, attrs, TypeOK
<1>4. CASE filteredIds # {}
  <2>1. attributes' = Append(attributes, attr)
    BY <1>4 DEF addAttributes
  <2>2. attributeIds' = [id \in DOMAIN attributeIds \cup filteredIds |->
                           IF id \in filteredIds THEN Len(attributes)
                                                 ELSE attributeIds[id]]
    BY <1>4 DEF addAttributes
  <2>3. /\ attributes' \in Seq(Attributes)
        /\ Len(attributes') = Len(attributes) + 1
        /\ Len(attributes) \in Nat
    BY <2>1 DEF TypeOK
  <2>4. DOMAIN attributeIds' \subseteq Payloads
    BY <1>1, <2>2 DEF TypeOK
  <2>5. \A id \in DOMAIN attributeIds' :
          attributeIds'[id] \in 0 .. Len(attributes') - 1
    <3> SUFFICES ASSUME NEW id \in DOMAIN attributeIds'
                 PROVE  attributeIds'[id] \in 0 .. Len(attributes)
      BY <2>3
    <3>1. CASE id \in filteredIds
      BY <2>2, <2>3, <3>1
    <3>2. CASE id \notin filteredIds
      <4>1. id \in DOMAIN attributeIds
        BY <2>2, <3>2
      <4>2. attributeIds[id] \in 0 .. Len(attributes) - 1
        BY <4>1 DEF TypeOK
      <4>3. attributeIds'[id] = attributeIds[id]
        BY <2>2, <3>2, <4>1
      <4> QED
        BY <2>3, <4>2, <4>3
    <3> QED
      BY <3>1, <3>2
  <2> QED
    BY <1>2, <2>3, <2>4, <2>5
<1> QED
  BY <1>3, <1>4

\* The attributes of the header and of a pipe keep the types.
LEMMA AttributeStepType ==
  ASSUME TypeOK,
         \/ FeaturesEventDesc \/ FeaturesVersion \/ HeaderAttribute
         \/ \E attr \in PipeAttributes : PipeAttribute(attr)
  PROVE  TypeOK'
<1>1. ASSUME FeaturesEventDesc \/ HeaderAttribute
      PROVE  TypeOK'
  <2>1. /\ pending \in Seq(Attributes) /\ pending # <<>>
        /\ addAttributes(Head(pending)) /\ pending' = Tail(pending)
        /\ UNCHANGED <<setup, stage, unread, rounds, buffers, eventBufferSize,
                       order, flush, outputs, arrived, errors>>
    BY <1>1 DEF FeaturesEventDesc, HeaderAttribute, TypeOK
  <2>2. Head(pending) \in Attributes /\ Tail(pending) \in Seq(Attributes)
    BY <2>1
  <2>3. /\ attributes' \in Seq(Attributes)
        /\ DOMAIN attributeIds' \subseteq Payloads
        /\ \A id \in DOMAIN attributeIds' :
             attributeIds'[id] \in 0 .. Len(attributes') - 1
        /\ limits' \in Limits
    BY <2>1, <2>2, AddAttributesType
  <2> QED
    BY <2>1, <2>2, <2>3 DEF TypeOK, buffers, order, outputs
<1>2. ASSUME FeaturesVersion
      PROVE  TypeOK'
  <2>1. SetTarget(limits, 0) \in Limits
    <3>1. limits \in Limits /\ 0 \in 0 .. UIntMax
      BY LimitsAssumption DEF TypeOK
    <3> QED
      BY <3>1, LimitsLemma
  <2>2. limits' \in Limits
    BY <1>2, <2>1 DEF FeaturesVersion, TypeOK
  <2> QED
    BY <1>2, <2>2, BufferAssumption
       DEF FeaturesVersion, TypeOK, attrs, buffers, order, outputs
<1>3. ASSUME NEW attr \in PipeAttributes, PipeAttribute(attr)
      PROVE  TypeOK'
  <2>1. attr \in Attributes /\ addAttributes(attr)
    BY <1>3, BufferAssumption DEF PipeAttribute
  <2>2. /\ attributes' \in Seq(Attributes)
        /\ DOMAIN attributeIds' \subseteq Payloads
        /\ \A id \in DOMAIN attributeIds' :
             attributeIds'[id] \in 0 .. Len(attributes') - 1
        /\ limits' \in Limits
    BY <2>1, AddAttributesType
  <2> QED
    BY <1>3, <2>2 DEF PipeAttribute, TypeOK, inputs, buffers, order, outputs
<1> QED
  BY <1>1, <1>2, <1>3

-----------------------------------------------------------------------------
\* The ends of rounds and of the input keep the types.
LEMMA RoundType ==
  ASSUME TypeOK, finishedRound \/ Finalize \/ FinalFlush
  PROVE  TypeOK'
<1>1. /\ sampleBuffer \in Seq(Samples)
      /\ mmapBuffer \in Seq(Mmaps)
      /\ taskEventsBuffer \in Seq(TaskEvents)
      /\ eventBufferSize \in 0 .. UIntMax
      /\ limits \in Limits
      /\ 0 \in 0 .. UIntMax
  BY LimitsAssumption DEF TypeOK
<1>2. ASSUME RoundFinished
      PROVE  /\ sampleBuffer' \in Seq(Samples)
             /\ mmapBuffer' \in Seq(Mmaps)
             /\ taskEventsBuffer' \in Seq(TaskEvents)
             /\ flush' \in [phase : Phases, desired : 0 .. UIntMax,
                            violates : BOOLEAN, sizeAtStart : 0 .. UIntMax]
             /\ errors' \in Seq(Mmaps)
             /\ limits' \in Limits
  <2>1. CASE limits.target = 0
    <3>1. BeginFlush(sampleBuffer, mmapBuffer, taskEventsBuffer,
                     eventBufferSize, eventBufferSize \div 2)
      BY <1>2, <2>1 DEF RoundFinished
    <3>2. eventBufferSize \div 2 \in 0 .. UIntMax
      BY <1>1, HalfType
    <3> QED
      BY <1>1, <1>2, <2>1, <3>1, <3>2, BeginFlushType DEF RoundFinished
  <2>2. CASE limits.target # 0
    <3>1. SetTarget(limits, 0) \in Limits
      BY <1>1, LimitsLemma
    <3> QED
      BY <1>1, <1>2, <2>2, <3>1 DEF RoundFinished, TypeOK, buffers
  <2> QED
    BY <2>1, <2>2
<1>3. CASE finishedRound
  <2>1. rounds' \in 0 .. MaxRounds
    BY <1>3, BufferAssumption DEF finishedRound, TypeOK
  <2> QED
    BY <1>2, <1>3, <2>1 DEF finishedRound, TypeOK, attrs, order, outputs
<1>4. CASE Finalize
  BY <1>2, <1>4 DEF Finalize, TypeOK, attrs, order, outputs
<1>5. CASE FinalFlush
  <2>1. /\ sampleBuffer' \in Seq(Samples)
        /\ mmapBuffer' \in Seq(Mmaps)
        /\ taskEventsBuffer' \in Seq(TaskEvents)
        /\ flush' \in [phase : Phases, desired : 0 .. UIntMax,
                       violates : BOOLEAN, sizeAtStart : 0 .. UIntMax]
        /\ errors' \in Seq(Mmaps)
    BY <1>1, <1>5, BeginFlushType DEF FinalFlush
  <2> QED
    BY <1>5, <2>1 DEF FinalFlush, TypeOK, attrs, order, outputs
<1> QED
  BY <1>3, <1>4, <1>5

\* Forwarding an mmap keeps the types (forwardMmapBuffer).
LEMMA ForwardMmapType ==
  ASSUME TypeOK, NEW t, ForwardMmap(t)
  PROVE  TypeOK'
<1> DEFINE mmap == Head(mmapBuffer)
<1>1. mmapBuffer \in Seq(Mmaps) /\ mmapBuffer # <<>>
  BY DEF ForwardMmap, MmapDue, TypeOK
<1>2. mmap \in Mmaps /\ mmapBuffer' \in Seq(Mmaps)
  BY <1>1 DEF ForwardMmap
<1>3. registered' \in Seq(Mmaps)
  BY <1>2 DEF ForwardMmap, TypeOK
<1>4. symbolTables' \in [Pids -> Seq(Mmaps)]
  <2>1. mmap.pid \in Pids
    BY <1>2 DEF Mmaps, Event
  <2>2. Append(symbolTables[mmap.pid], mmap) \in Seq(Mmaps)
    BY <1>2, <2>1, Typed
  <2> QED
    BY <2>2, Typed DEF ForwardMmap
<1>5. eventBufferSize' \in 0 .. UIntMax
  <2>1. eventBufferSize \in Int /\ mmap.size \in Int
    BY <1>2, EventsTimed, Typed DEF Events
  <2>2. eventBufferSize - mmap.size \in Int
    BY <2>1
  <2>3. eventBufferSize' = UInt(eventBufferSize - mmap.size)
    BY DEF ForwardMmap
  <2> QED
    BY <2>2, <2>3, UIntType
<1> QED
  BY <1>2, <1>3, <1>4, <1>5 DEF ForwardMmap, TypeOK, inputs, attrs, order

\* Sending a task event keeps the types (sendTaskEvent).
LEMMA SendTaskEventType ==
  ASSUME TypeOK, NEW trailing \in BOOLEAN, taskEventsBuffer # <<>>,
         sendTaskEvent(Head(taskEventsBuffer), trailing)
  PROVE  /\ Head(taskEventsBuffer) \in TaskEvents
         /\ taskEventsBuffer' \in Seq(TaskEvents)
         /\ sent' \in Seq(Sent)
         /\ eventBufferSize' \in 0 .. UIntMax
<1> DEFINE e == Head(taskEventsBuffer)
<1>1. e \in TaskEvents /\ taskEventsBuffer' \in Seq(TaskEvents)
  BY Typed DEF sendTaskEvent
<1>2. sent' \in Seq(Sent)
  <2>1. [event |-> e, trailing |-> trailing] \in Sent
    BY <1>1 DEF Sent
  <2> QED
    BY <2>1, Typed DEF sendTaskEvent
<1>3. eventBufferSize' \in 0 .. UIntMax
  <2>1. eventBufferSize \in Int /\ e.size \in Int
    BY <1>1, EventsTimed, Typed DEF Events
  <2>2. eventBufferSize - e.size \in Int
    BY <2>1
  <2>3. eventBufferSize' = UInt(eventBufferSize - e.size)
    BY DEF sendTaskEvent
  <2> QED
    BY <2>2, <2>3, UIntType
<1> QED
  BY <1>1, <1>2, <1>3

\* Inside the loop over the samples there is a sample at hand.
SampleAtHand == flush.phase = "tasks" => sampleBuffer # <<>>

\* The steps of flushEventBuffer keep the types.
LEMMA FlushStepType ==
  ASSUME TypeOK, SampleAtHand, FlushStep
  PROVE  TypeOK'
<1>1. ASSUME NEW phase \in Phases, StepOverSamples(phase)
      PROVE  TypeOK'
  BY <1>1 DEF StepOverSamples, TypeOK, inputs, attrs, buffers, order, outputs
<1>2. CASE SampleTooLate
  BY <1>2 DEF SampleTooLate, TypeOK, Phases, inputs, attrs, buffers, order,
              outputs
<1>3. CASE SamplesCanWait
  BY <1>1, <1>3 DEF SamplesCanWait, Phases
<1>4. CASE SampleInTime
  <2>1. Head(sampleBuffer) \in Samples
    BY <1>4, Typed DEF SampleInTime, MoreSamples
  <2>2. lastFlushMaxTime' \in Nat
    BY <1>4, <2>1 DEF SampleInTime, NextSampleTime, Samples, Event
  <2> QED
    BY <1>4, <2>2 DEF SampleInTime, TypeOK, Phases, inputs, attrs, buffers,
                      outputs
<1>5. CASE NoMoreSamples
  BY <1>1, <1>5 DEF NoMoreSamples, Phases
<1>6. CASE ForwardLateMmap
  BY <1>6, ForwardMmapType DEF ForwardLateMmap
<1>7. CASE LeaveSamples
  BY <1>1, <1>7 DEF LeaveSamples, Phases
<1>8. CASE ForwardMmapBeforeFork
  BY <1>8, ForwardMmapType DEF ForwardMmapBeforeFork
<1>9. CASE FlushTaskEvent
  <2> DEFINE e == Head(taskEventsBuffer)
  <2>1. /\ e \in TaskEvents
        /\ taskEventsBuffer' \in Seq(TaskEvents)
        /\ sent' \in Seq(Sent)
        /\ eventBufferSize' \in 0 .. UIntMax
    BY <1>9, SendTaskEventType DEF FlushTaskEvent, TaskDue
  <2>2. StartsProcess(e) => e.payload \in Pids
    BY <2>1 DEF StartsProcess, TaskEvents
  <2>3. symbolTables' \in [Pids -> Seq(Mmaps)]
    <3>1. symbolTables \in [Pids -> Seq(Mmaps)] /\ <<>> \in Seq(Mmaps)
      BY DEF TypeOK
    <3> QED
      BY <1>9, <2>2, <3>1 DEF FlushTaskEvent
  <2> QED
    BY <1>9, <2>1, <2>3 DEF FlushTaskEvent, TypeOK, inputs, attrs, order
<1>10. CASE ForwardMmapBeforeSample
  BY <1>10, ForwardMmapType DEF ForwardMmapBeforeSample
<1>13. CASE AnalyzeSample
  <2> DEFINE s == Head(sampleBuffer)
             id == IF s.payload \in DOMAIN attributeIds
                   THEN attributeIds[s.payload] ELSE -1
             a == [event |-> s, attribute |-> id, user |-> symbolTables[s.pid],
                   kernel |-> symbolTables[KernelPid], known |-> Len(arrived)]
  <2>1. sampleBuffer \in Seq(Samples) /\ sampleBuffer # <<>>
    BY <1>13 DEF AnalyzeSample, SampleAtHand, TypeOK
  <2>2. s \in Samples /\ sampleBuffer' \in Seq(Samples)
    BY <1>13, <2>1 DEF AnalyzeSample
  <2>3. s.pid \in Pids /\ KernelPid \in Pids
    BY <2>2, BufferAssumption DEF Samples, Event
  <2>4. id \in Int
    <3>1. Len(attributes) \in Nat
      BY DEF TypeOK
    <3>2. s.payload \in DOMAIN attributeIds =>
            attributeIds[s.payload] \in 0 .. Len(attributes) - 1
      BY DEF TypeOK
    <3> QED
      BY <3>1, <3>2
  <2>5. a \in Analyzed
    <3>1. /\ symbolTables[s.pid] \in Seq(Mmaps)
          /\ symbolTables[KernelPid] \in Seq(Mmaps)
          /\ Len(arrived) \in Nat
      BY <2>3, Typed
    <3> QED
      BY <2>2, <2>4, <3>1 DEF Analyzed
  <2>6. analyzed' \in Seq(Analyzed)
    <3>1. analyzed' = Append(analyzed, a)
      BY <1>13 DEF AnalyzeSample
    <3> QED
      BY <2>5, <3>1 DEF TypeOK
  <2>7. eventBufferSize' \in 0 .. UIntMax
    <3>1. eventBufferSize \in Int /\ s.size \in Int
      BY <2>2, EventsTimed, Typed DEF Events
    <3>2. eventBufferSize - s.size \in Int
      BY <3>1
    <3>3. eventBufferSize' = UInt(eventBufferSize - s.size)
      BY <1>13 DEF AnalyzeSample
    <3> QED
      BY <3>2, <3>3, UIntType
  <2> QED
    BY <1>13, <2>2, <2>6, <2>7
       DEF AnalyzeSample, TypeOK, Phases, inputs, attrs, order
<1>11. CASE TrailingTaskEvent
  <2>1. /\ taskEventsBuffer' \in Seq(TaskEvents)
        /\ sent' \in Seq(Sent)
        /\ eventBufferSize' \in 0 .. UIntMax
    BY <1>11, SendTaskEventType DEF TrailingTaskEvent, MoreTaskEvents
  <2> QED
    BY <1>11, <2>1 DEF TrailingTaskEvent, TypeOK, inputs, attrs, order
<1>12. CASE EndFlush
  <2>1. limits \in Limits /\ flush.sizeAtStart \in 0 .. UIntMax
    BY DEF TypeOK
  <2>2. SetTarget(limits, EnlargedTarget(limits, flush.sizeAtStart)) \in Limits
    BY <2>1, LimitsLemma
  <2>3. limits' \in Limits /\ timeOrderViolations' \in Nat
    BY <1>12, <2>2, Typed DEF EndFlush
  <2> QED
    BY <1>12, <2>3 DEF EndFlush, TypeOK, Phases, inputs, attrs, buffers, outputs
<1> QED
  BY <1>2, <1>3, <1>4, <1>5, <1>6, <1>7, <1>8, <1>9, <1>10, <1>11, <1>12,
     <1>13 DEF FlushStep

-----------------------------------------------------------------------------
\* The program starts with values of the right types.
LEMMA InitType ==
  ASSUME Init
  PROVE  TypeOK /\ SampleAtHand
<1>1. PICK t \in TargetOptions, m \in MaxOptions, input \in Inputs,
           descs \in EventDescs :
        /\ limits = Configured(t, m)
        /\ setup = [input |-> input, targetOption |-> Bytes(t),
                    maxOption |-> Bytes(m)]
        /\ stage = IF input.pipe THEN "data" ELSE "features"
        /\ pending = IF input.pipe THEN <<>> ELSE descs
  BY DEF Init
<1>2. t \in Nat /\ m \in Nat /\ descs \in Seq(Attributes)
  BY BufferAssumption
<1>3. limits \in Limits
  BY <1>1, <1>2, ConfiguredLemma
<1>4. setup \in [input : Inputs, targetOption : 0 .. UIntMax,
                 maxOption : 0 .. UIntMax]
  <2>1. t * KiloByte \in Int /\ m * KiloByte \in Int
    BY <1>2, LimitsAssumption
  <2>2. Bytes(t) \in 0 .. UIntMax /\ Bytes(m) \in 0 .. UIntMax
    BY <2>1, UIntType DEF Bytes
  <2> QED
    BY <1>1, <2>2
<1>5. stage \in {"features", "data", "finalizing", "finalFlush"}
  BY <1>1
<1>6. pending \in Seq(Attributes)
  BY <1>1, <1>2
<1>7. unread \subseteq Records
  BY DEF Init, Records
<1>8. 0 \in 0 .. UIntMax /\ 0 \in 0 .. MaxRounds
  BY LimitsAssumption, BufferAssumption
<1>9. /\ flush \in [phase : Phases, desired : 0 .. UIntMax,
                    violates : BOOLEAN, sizeAtStart : 0 .. UIntMax]
      /\ flush.phase = "idle"
  BY <1>8 DEF Init, Phases
<1>10. /\ DOMAIN attributeIds = {} /\ attributes = <<>> /\ rounds = 0
       /\ sampleBuffer = <<>> /\ mmapBuffer = <<>> /\ taskEventsBuffer = <<>>
       /\ eventBufferSize = 0 /\ timeOrderViolations = 0
       /\ lastFlushMaxTime = 0 /\ symbolTables = [pid \in Pids |-> <<>>]
       /\ arrived = <<>> /\ registered = <<>> /\ sent = <<>>
       /\ analyzed = <<>> /\ errors = <<>>
  BY DEF Init
<1> QED
  BY <1>3, <1>4, <1>5, <1>6, <1>7, <1>8, <1>9, <1>10 DEF TypeOK, SampleAtHand

\* Every step of the program keeps the types.
LEMMA NextType ==
  ASSUME TypeOK, SampleAtHand, Next
  PROVE  TypeOK'
<1>1. CASE \E r \in Records : ReadRecord(r)
  BY <1>1, ReadRecordType
<1>2. CASE \/ \E attr \in PipeAttributes : PipeAttribute(attr)
           \/ FeaturesEventDesc \/ FeaturesVersion \/ HeaderAttribute
  BY <1>2, AttributeStepType
<1>3. CASE finishedRound \/ Finalize \/ FinalFlush
  BY <1>3, RoundType
<1>4. CASE FlushStep
  BY <1>4, FlushStepType
<1>5. CASE Terminated
  BY <1>5 DEF Terminated, vars, inputs, attrs, buffers, order, outputs, TypeOK
<1> QED
  BY <1>1, <1>2, <1>3, <1>4, <1>5 DEF Next, Internal

\* Only the steps into the loop over the samples set the phase "tasks", and
\* both find a sample.
LEMMA NextSampleAtHand ==
  ASSUME TypeOK, SampleAtHand, Next
  PROVE  SampleAtHand'
<1>1. ASSUME NEW samples, NEW mmaps, NEW tasks, NEW size, NEW desired,
             BeginFlush(samples, mmaps, tasks, size, desired)
      PROVE  SampleAtHand'
  BY <1>1 DEF BeginFlush, SampleAtHand
<1>2. ASSUME NEW r \in Records, ReadRecord(r)
      PROVE  SampleAtHand'
  <2>1. flush.phase = "idle"
    BY <1>2 DEF ReadRecord, sample, registerElf, comm, lost, fork, exit,
                contextSwitch, Read, Ready, Idle
  <2>2. ASSUME NEW event, NEW samples, NEW mmaps, NEW tasks,
               bufferEvent(event, samples, mmaps, tasks)
        PROVE  SampleAtHand'
    BY <1>1, <2>1, <2>2 DEF bufferEvent, SampleAtHand
  <2> QED
    BY <1>2, <2>2 DEF ReadRecord, sample, registerElf, comm, lost, fork, exit,
                      contextSwitch, bufferTaskEvent
<1>3. CASE \/ \E attr \in PipeAttributes : PipeAttribute(attr)
           \/ FeaturesEventDesc \/ FeaturesVersion \/ HeaderAttribute
           \/ Terminated
  BY <1>3 DEF PipeAttribute, FeaturesEventDesc, FeaturesVersion,
              HeaderAttribute, Terminated, vars, buffers, SampleAtHand
<1>4. CASE finishedRound \/ Finalize \/ FinalFlush
  BY <1>1, <1>4 DEF finishedRound, Finalize, FinalFlush, RoundFinished, buffers,
                    SampleAtHand
<1>5. CASE FlushStep
  <2>1. CASE SampleTooLate
    BY <2>1 DEF SampleTooLate, MoreSamples, SampleAtHand, buffers
  <2>2. CASE SamplesCanWait \/ NoMoreSamples \/ LeaveSamples
    BY <2>2 DEF SamplesCanWait, NoMoreSamples, LeaveSamples, StepOverSamples,
                SampleAtHand, TypeOK
  <2>3. CASE SampleInTime
    BY <2>3 DEF SampleInTime, MoreSamples, SampleAtHand, buffers
  <2>4. CASE ForwardLateMmap \/ ForwardMmapBeforeFork \/ ForwardMmapBeforeSample
    BY <2>4 DEF ForwardLateMmap, ForwardMmapBeforeFork, ForwardMmapBeforeSample,
                ForwardMmap, SampleAtHand
  <2>5. CASE FlushTaskEvent \/ TrailingTaskEvent
    BY <2>5 DEF FlushTaskEvent, TrailingTaskEvent, SampleAtHand
  <2>6. CASE AnalyzeSample
    BY <2>6 DEF AnalyzeSample, SampleAtHand, TypeOK
  <2>7. CASE EndFlush
    BY <2>7 DEF EndFlush, SampleAtHand, TypeOK
  <2> QED
    BY <1>5, <2>1, <2>2, <2>3, <2>4, <2>5, <2>6, <2>7 DEF FlushStep
<1> QED
  BY <1>2, <1>3, <1>4, <1>5 DEF Next, Internal

\* Every variable keeps its type: the buffers, sizes and counters of PerfUnwind,
\* with m_eventBufferSize in the range of a uint.
THEOREM TypeCorrect == Spec => []TypeOK
<1>1. Init => TypeOK /\ SampleAtHand
  BY InitType
<1>2. TypeOK /\ SampleAtHand /\ [Next]_vars => (TypeOK /\ SampleAtHand)'
  <2>1. ASSUME TypeOK, SampleAtHand, UNCHANGED vars
        PROVE  (TypeOK /\ SampleAtHand)'
    BY <2>1 DEF vars, inputs, attrs, buffers, order, outputs, TypeOK,
                SampleAtHand
  <2> QED
    BY <2>1, NextType, NextSampleAtHand
<1> QED
  BY <1>1, <1>2, PTL DEF Spec

-----------------------------------------------------------------------------
\* The three buffers are sorted while they are flushed.
Sorted(s) == \A k, l \in DOMAIN s : k <= l => s[k].time <= s[l].time

SortedWhileFlushing ==
  flush.phase # "idle" =>
    Sorted(sampleBuffer) /\ Sorted(mmapBuffer) /\ Sorted(taskEventsBuffer)

\* m_lastFlushMaxTime is the time of the sample at hand when it is in time.
LastTimeIsCurrent ==
  flush.phase = "tasks" /\ ~flush.violates =>
    lastFlushMaxTime = NextSampleTime

\* A flush that found a violation is counted when it ends.
ViolationsCounted ==
  flush.phase = "idle" /\ flush.violates => timeOrderViolations > 0

\* Until then m_lastFlushMaxTime bounds the times of all analyzed samples.
AnalyzedBounded ==
  timeOrderViolations = 0 /\ ~flush.violates =>
    \A i \in DOMAIN analyzed : analyzed[i].event.time <= lastFlushMaxTime

OrderInv ==
  /\ TypeOK
  /\ SampleAtHand
  /\ SortedWhileFlushing
  /\ LastTimeIsCurrent
  /\ ViolationsCounted
  /\ AnalyzedBounded
  /\ SamplesInOrder

\* What is left behind the head of a sorted buffer is sorted, and no earlier.
LEMMA TailSorted ==
  ASSUME NEW S, Timed(S), NEW s \in Seq(S), s # <<>>, Sorted(s)
  PROVE  /\ Sorted(Tail(s))
         /\ \A k \in DOMAIN s : Head(s).time <= s[k].time
         /\ \A k \in DOMAIN Tail(s) : k + 1 \in DOMAIN s /\ Tail(s)[k] = s[k + 1]
<1>1. /\ Len(s) \in Nat \ {0} /\ DOMAIN s = 1 .. Len(s) /\ Head(s) = s[1]
      /\ DOMAIN Tail(s) = 1 .. Len(s) - 1
  OBVIOUS
<1>2. \A k \in DOMAIN Tail(s) : k + 1 \in DOMAIN s /\ Tail(s)[k] = s[k + 1]
  BY <1>1
<1>3. \A k \in DOMAIN s : Head(s).time <= s[k].time
  BY <1>1 DEF Sorted
<1>4. ASSUME NEW k \in DOMAIN Tail(s), NEW l \in DOMAIN Tail(s), k <= l
      PROVE  Tail(s)[k].time <= Tail(s)[l].time
  <2>1. k + 1 \in DOMAIN s /\ l + 1 \in DOMAIN s /\ k + 1 <= l + 1
    BY <1>1, <1>2, <1>4
  <2>2. s[k + 1].time <= s[l + 1].time
    BY <2>1 DEF Sorted
  <2> QED
    BY <1>2, <2>2
<1> QED
  BY <1>2, <1>3, <1>4 DEF Sorted

\* stable_sort leaves a sorted buffer.
LEMMA SortedAfterSort ==
  ASSUME NEW S, Timed(S), NEW s \in Seq(S)
  PROVE  Sorted(SortByTime(s))
<1>1. DOMAIN SortByTime(s) = 1 .. Len(s)
  BY DEF SortByTime
<1> QED
  BY <1>1, SortIsSorted DEF Sorted

\* A flush begins with sorted buffers, and outside the loop over the samples.
LEMMA BeginFlushOrder ==
  ASSUME OrderInv,
         NEW samples \in Seq(Samples), NEW mmaps \in Seq(Mmaps),
         NEW tasks \in Seq(TaskEvents), NEW size, NEW desired,
         flush.phase = "idle",
         BeginFlush(samples, mmaps, tasks, size, desired),
         UNCHANGED <<analyzed, order>>
  PROVE  /\ SortedWhileFlushing' /\ LastTimeIsCurrent' /\ ViolationsCounted'
         /\ AnalyzedBounded' /\ SamplesInOrder'
<1>1. /\ sampleBuffer' = SortByTime(samples)
      /\ mmapBuffer' = SortByTime(mmaps)
      /\ taskEventsBuffer' = SortByTime(tasks)
      /\ flush'.phase = "samples"
  BY DEF BeginFlush
<1>2. Sorted(sampleBuffer') /\ Sorted(mmapBuffer') /\ Sorted(taskEventsBuffer')
  BY <1>1, EventsTimed, SortedAfterSort
<1>3. timeOrderViolations' = 0 => timeOrderViolations = 0 /\ ~flush.violates
  BY DEF OrderInv, ViolationsCounted, order, TypeOK
<1>4. SortedWhileFlushing'
  BY <1>2 DEF SortedWhileFlushing, Sorted
<1>5. LastTimeIsCurrent' /\ ViolationsCounted'
  BY <1>1 DEF LastTimeIsCurrent, ViolationsCounted
<1>6. AnalyzedBounded'
  BY <1>3 DEF OrderInv, AnalyzedBounded, order
<1>7. SamplesInOrder'
  BY <1>3 DEF OrderInv, SamplesInOrder, order
<1> QED
  BY <1>4, <1>5, <1>6, <1>7

\* The step of an analyzed sample: it is in time, or a violation is known.
LEMMA AnalyzeSampleOrder ==
  ASSUME OrderInv, AnalyzeSample
  PROVE  /\ SortedWhileFlushing' /\ LastTimeIsCurrent' /\ ViolationsCounted'
         /\ AnalyzedBounded' /\ SamplesInOrder'
<1> DEFINE s == Head(sampleBuffer)
<1>1. /\ sampleBuffer \in Seq(Samples) /\ sampleBuffer # <<>>
      /\ flush.phase = "tasks"
  BY DEF AnalyzeSample, OrderInv, SampleAtHand, TypeOK
<1>2. s \in Samples /\ s.time \in Nat
  BY <1>1, EventsTimed DEF Timed
<1>3. /\ Sorted(sampleBuffer) /\ Sorted(mmapBuffer) /\ Sorted(taskEventsBuffer)
  BY <1>1 DEF OrderInv, SortedWhileFlushing
<1>4. Sorted(Tail(sampleBuffer))
  BY <1>1, <1>3, EventsTimed, TailSorted
<1>5. /\ flush'.phase = "samples" /\ flush'.violates = flush.violates
      /\ sampleBuffer' = Tail(sampleBuffer)
      /\ UNCHANGED <<mmapBuffer, taskEventsBuffer, order>>
  BY DEF AnalyzeSample, OrderInv, TypeOK
<1>6. SortedWhileFlushing'
  BY <1>3, <1>4, <1>5 DEF SortedWhileFlushing, Sorted
<1>7. LastTimeIsCurrent' /\ ViolationsCounted'
  BY <1>5 DEF LastTimeIsCurrent, ViolationsCounted
<1>8. PICK a : analyzed' = Append(analyzed, a) /\ a.event = s
  BY DEF AnalyzeSample
<1>9. /\ analyzed \in Seq(Analyzed) /\ Len(analyzed) \in Nat
      /\ DOMAIN analyzed' = 1 .. Len(analyzed) + 1
      /\ analyzed'[Len(analyzed) + 1].event = s
      /\ \A i \in 1 .. Len(analyzed) : analyzed'[i] = analyzed[i]
      /\ DOMAIN analyzed = 1 .. Len(analyzed)
  <2>1. analyzed \in Seq(Analyzed)
    BY Typed DEF OrderInv
  <2> QED
    BY <1>8, <2>1
<1>10. ASSUME timeOrderViolations' = 0, ~flush'.violates
       PROVE  /\ \A i \in 1 .. Len(analyzed) : analyzed[i].event.time <= s.time
              /\ lastFlushMaxTime' = s.time
  <2>1. lastFlushMaxTime = s.time
    BY <1>1, <1>5, <1>10 DEF OrderInv, LastTimeIsCurrent, NextSampleTime
  <2>2. \A i \in DOMAIN analyzed : analyzed[i].event.time <= lastFlushMaxTime
    BY <1>5, <1>10 DEF OrderInv, AnalyzedBounded, order
  <2> QED
    BY <1>5, <1>9, <2>1, <2>2 DEF order
<1>11. AnalyzedBounded'
  BY <1>2, <1>9, <1>10 DEF AnalyzedBounded
<1>12. SamplesInOrder'
  <2> SUFFICES ASSUME timeOrderViolations' = 0, ~flush'.violates,
                      NEW i \in DOMAIN analyzed', NEW j \in DOMAIN analyzed',
                      i < j
               PROVE  analyzed'[i].event.time <= analyzed'[j].event.time
    BY DEF SamplesInOrder
  <2>1. i \in 1 .. Len(analyzed)
    BY <1>9
  <2>2. CASE j = Len(analyzed) + 1
    BY <1>9, <1>10, <2>1, <2>2
  <2>3. CASE j # Len(analyzed) + 1
    <3>1. j \in 1 .. Len(analyzed)
      BY <1>9, <2>3
    <3>2. timeOrderViolations = 0 /\ ~flush.violates
      BY <1>5 DEF order
    <3>3. analyzed[i].event.time <= analyzed[j].event.time
      BY <1>9, <2>1, <3>1, <3>2 DEF OrderInv, SamplesInOrder
    <3> QED
      BY <1>9, <2>1, <3>1, <3>3
  <2> QED
    BY <2>2, <2>3
<1> QED
  BY <1>6, <1>7, <1>11, <1>12

\* The steps of flushEventBuffer that forward mmaps and task events, or only move
\* from one loop to the next, keep the order.
LEMMA FlushStepOrder ==
  ASSUME OrderInv, FlushStep, ~AnalyzeSample
  PROVE  /\ SortedWhileFlushing' /\ LastTimeIsCurrent' /\ ViolationsCounted'
         /\ AnalyzedBounded' /\ SamplesInOrder'
<1> USE DEF OrderInv
<1>1. flush.phase # "idle" /\ TypeOK
  BY DEF FlushStep, SampleTooLate, SamplesCanWait, SampleInTime, NoMoreSamples,
         ForwardLateMmap, LeaveSamples, ForwardMmapBeforeFork, FlushTaskEvent,
         ForwardMmapBeforeSample, AnalyzeSample, TrailingTaskEvent, EndFlush
<1>2. /\ Sorted(sampleBuffer) /\ Sorted(mmapBuffer) /\ Sorted(taskEventsBuffer)
  BY <1>1 DEF SortedWhileFlushing
<1>3. ASSUME NEW phase \in {"break", "tail"}, StepOverSamples(phase)
      PROVE  /\ SortedWhileFlushing' /\ LastTimeIsCurrent' /\ ViolationsCounted'
             /\ AnalyzedBounded' /\ SamplesInOrder'
  <2>1. /\ UNCHANGED <<sampleBuffer, mmapBuffer, taskEventsBuffer, analyzed,
                       timeOrderViolations, lastFlushMaxTime>>
        /\ flush'.phase = phase /\ flush'.violates = flush.violates
    BY <1>1, <1>3 DEF StepOverSamples, TypeOK, buffers, order, outputs
  <2> QED
    BY <1>2, <2>1 DEF SortedWhileFlushing, LastTimeIsCurrent, ViolationsCounted,
                      AnalyzedBounded, SamplesInOrder, Sorted
<1>4. ASSUME NEW t, ForwardMmap(t)
      PROVE  /\ SortedWhileFlushing' /\ LastTimeIsCurrent' /\ ViolationsCounted'
             /\ AnalyzedBounded' /\ SamplesInOrder'
  <2>1. mmapBuffer \in Seq(Mmaps) /\ mmapBuffer # <<>>
    BY <1>1, <1>4 DEF ForwardMmap, MmapDue, TypeOK
  <2>2. Sorted(Tail(mmapBuffer))
    BY <1>2, <2>1, EventsTimed, TailSorted
  <2>3. /\ UNCHANGED <<sampleBuffer, taskEventsBuffer, analyzed, flush,
                       timeOrderViolations, lastFlushMaxTime>>
        /\ mmapBuffer' = Tail(mmapBuffer)
    BY <1>4 DEF ForwardMmap, order
  <2> QED
    BY <1>2, <2>2, <2>3
       DEF SortedWhileFlushing, LastTimeIsCurrent, ViolationsCounted,
           AnalyzedBounded, SamplesInOrder, Sorted, NextSampleTime
<1>5. CASE SampleTooLate
  <2>1. /\ UNCHANGED <<sampleBuffer, mmapBuffer, taskEventsBuffer, analyzed>>
        /\ flush'.phase = "tasks" /\ flush'.violates
    BY <1>1, <1>5 DEF SampleTooLate, TypeOK, buffers, outputs
  <2> QED
    BY <1>2, <2>1 DEF SortedWhileFlushing, LastTimeIsCurrent, ViolationsCounted,
                      AnalyzedBounded, SamplesInOrder, Sorted
<1>6. CASE SampleInTime
  <2>1. /\ UNCHANGED <<sampleBuffer, mmapBuffer, taskEventsBuffer, analyzed,
                       timeOrderViolations>>
        /\ flush'.phase = "tasks" /\ flush'.violates = flush.violates
        /\ lastFlushMaxTime' = NextSampleTime
        /\ lastFlushMaxTime <= NextSampleTime
        /\ sampleBuffer # <<>>
    BY <1>1, <1>6 DEF SampleInTime, MoreSamples, TypeOK, buffers, outputs
  <2>2. NextSampleTime \in Nat /\ lastFlushMaxTime \in Nat
    <3>1. Head(sampleBuffer) \in Samples
      <4>1. sampleBuffer \in Seq(Samples)
        BY <1>1, Zenon DEF TypeOK
      <4> QED
        BY ONLY <2>1, <4>1
    <3>2. Head(sampleBuffer).time \in Nat
      BY ONLY <3>1, EventsTimed DEF Timed
    <3>3. lastFlushMaxTime \in Nat
      BY <1>1, Zenon DEF TypeOK
    <3> QED
      BY ONLY <2>1, <3>2, <3>3 DEF NextSampleTime
  <2>3. \A i \in DOMAIN analyzed : analyzed[i].event.time \in Nat
    <3>0. analyzed \in Seq(Analyzed)
      BY <1>1, Zenon DEF TypeOK
    <3>1. \A i \in DOMAIN analyzed : analyzed[i] \in Analyzed
      BY ONLY <3>0
    <3>2. \A a \in Analyzed : a.event \in Samples
      BY DEF Analyzed
    <3> QED
      BY <3>1, <3>2, EventsTimed DEF Timed
  <2>4. AnalyzedBounded'
    BY <2>1, <2>2, <2>3 DEF AnalyzedBounded
  <2> QED
    BY <1>2, <2>1, <2>4
       DEF SortedWhileFlushing, LastTimeIsCurrent, ViolationsCounted,
           SamplesInOrder, Sorted, NextSampleTime
<1>7. CASE SamplesCanWait \/ NoMoreSamples \/ LeaveSamples
  BY <1>3, <1>7 DEF SamplesCanWait, NoMoreSamples, LeaveSamples
<1>8. CASE ForwardLateMmap \/ ForwardMmapBeforeFork \/ ForwardMmapBeforeSample
  BY <1>4, <1>8 DEF ForwardLateMmap, ForwardMmapBeforeFork,
                    ForwardMmapBeforeSample
<1>9. CASE FlushTaskEvent \/ TrailingTaskEvent
  <2>1. /\ taskEventsBuffer # <<>>
        /\ taskEventsBuffer' = Tail(taskEventsBuffer)
        /\ UNCHANGED <<sampleBuffer, mmapBuffer, analyzed, flush,
                       timeOrderViolations, lastFlushMaxTime>>
    BY <1>9 DEF FlushTaskEvent, TrailingTaskEvent, TaskDue, MoreTaskEvents,
                sendTaskEvent, order
  <2>2. Sorted(Tail(taskEventsBuffer))
    BY <1>1, <1>2, <2>1, EventsTimed, TailSorted DEF TypeOK
  <2> QED
    BY <1>2, <2>1, <2>2
       DEF SortedWhileFlushing, LastTimeIsCurrent, ViolationsCounted,
           AnalyzedBounded, SamplesInOrder, Sorted, NextSampleTime
<1>10. CASE EndFlush
  <2>1. /\ flush'.phase = "idle" /\ flush'.violates = flush.violates
        /\ UNCHANGED <<analyzed, lastFlushMaxTime>>
        /\ IF flush.violates THEN timeOrderViolations' = timeOrderViolations + 1
                             ELSE timeOrderViolations' = timeOrderViolations
    BY <1>1, <1>10 DEF EndFlush, TypeOK, outputs
  <2>2. timeOrderViolations \in Nat
    BY <1>1 DEF TypeOK
  <2> QED
    BY <2>1, <2>2 DEF SortedWhileFlushing, LastTimeIsCurrent, ViolationsCounted,
                      AnalyzedBounded, SamplesInOrder
<1> QED
  BY <1>5, <1>6, <1>7, <1>8, <1>9, <1>10 DEF FlushStep

\* The order is kept by whatever happens between two flushes.
LEMMA IdleStepOrder ==
  ASSUME OrderInv, flush.phase = "idle",
         UNCHANGED <<flush, analyzed, timeOrderViolations, lastFlushMaxTime>>
  PROVE  /\ SortedWhileFlushing' /\ LastTimeIsCurrent' /\ ViolationsCounted'
         /\ AnalyzedBounded' /\ SamplesInOrder'
BY DEF OrderInv, SortedWhileFlushing, LastTimeIsCurrent, ViolationsCounted,
       AnalyzedBounded, SamplesInOrder

\* A record that is buffered, with the flush it may begin, keeps the order.
LEMMA BufferEventOrder ==
  ASSUME OrderInv, NEW r \in Records, ReadRecord(r)
  PROVE  /\ SortedWhileFlushing' /\ LastTimeIsCurrent' /\ ViolationsCounted'
         /\ AnalyzedBounded' /\ SamplesInOrder'
<1>1. /\ sampleBuffer \in Seq(Samples) /\ mmapBuffer \in Seq(Mmaps)
      /\ taskEventsBuffer \in Seq(TaskEvents)
      /\ r \in Event(RecordTypes) /\ (r.type = "fork" => r.payload \in Pids)
  BY BufferAssumption DEF OrderInv, TypeOK
<1>2. /\ flush.phase = "idle"
      /\ UNCHANGED <<analyzed, order>>
  BY DEF ReadRecord, sample, registerElf, comm, lost, fork, exit, contextSwitch,
         Read, Ready, Idle, outputs
<1>3. ASSUME NEW event, NEW samples \in Seq(Samples), NEW mmaps \in Seq(Mmaps),
             NEW tasks \in Seq(TaskEvents),
             bufferEvent(event, samples, mmaps, tasks)
      PROVE  /\ SortedWhileFlushing' /\ LastTimeIsCurrent' /\ ViolationsCounted'
             /\ AnalyzedBounded' /\ SamplesInOrder'
  <2> DEFINE size == UInt(eventBufferSize + event.size)
  <2>1. CASE limits.target # 0 /\ size > limits.target
    BY <1>2, <1>3, <2>1, BeginFlushOrder DEF bufferEvent
  <2>2. CASE ~(limits.target # 0 /\ size > limits.target)
    BY <1>2, <1>3, <2>2, IdleStepOrder DEF bufferEvent, order
  <2> QED
    BY <2>1, <2>2
<1>4. CASE sample(r)
  <2>1. Append(sampleBuffer, r) \in Seq(Samples)
    BY <1>1, <1>4 DEF sample, Read, Samples, Event
  <2> QED
    BY <1>1, <1>3, <1>4, <2>1 DEF sample
<1>5. CASE registerElf(r)
  <2>1. Append(mmapBuffer, r) \in Seq(Mmaps)
    BY <1>1, <1>5 DEF registerElf, Read, Mmaps, Event
  <2> QED
    BY <1>1, <1>3, <1>5, <2>1 DEF registerElf
<1>6. ASSUME NEW type, NEW t \in TaskTypes, Read(type, r),
             type = "fork" \/ t # "ThreadStart",
             bufferTaskEvent(TaskEvent(r, t))
      PROVE  /\ SortedWhileFlushing' /\ LastTimeIsCurrent' /\ ViolationsCounted'
             /\ AnalyzedBounded' /\ SamplesInOrder'
  <2>1. TaskEvent(r, t) \in Event(TaskTypes)
    BY <1>1, BufferAssumption DEF TaskEvent, Event
  <2>2. TaskEvent(r, t) \in TaskEvents
    BY <1>1, <1>6, <2>1 DEF TaskEvents, TaskEvent, Read
  <2>3. Append(taskEventsBuffer, TaskEvent(r, t)) \in Seq(TaskEvents)
    BY <1>1, <2>2
  <2> QED
    BY <1>1, <1>3, <1>6, <2>3 DEF bufferTaskEvent
<1> QED
  BY <1>4, <1>5, <1>6 DEF ReadRecord, comm, lost, fork, exit, contextSwitch,
                          TaskTypes

\* Every step keeps the invariant.
LEMMA NextOrder ==
  ASSUME OrderInv, [Next]_vars
  PROVE  OrderInv'
<1>1. CASE UNCHANGED vars
  BY <1>1 DEF vars, inputs, attrs, buffers, order, outputs, OrderInv, TypeOK,
              SampleAtHand, SortedWhileFlushing, LastTimeIsCurrent,
              ViolationsCounted, AnalyzedBounded, SamplesInOrder, Sorted,
              NextSampleTime
<1>2. CASE Next
  <2>1. TypeOK' /\ SampleAtHand'
    BY <1>2, NextType, NextSampleAtHand DEF OrderInv
  <2>2. /\ SortedWhileFlushing' /\ LastTimeIsCurrent' /\ ViolationsCounted'
        /\ AnalyzedBounded' /\ SamplesInOrder'
    <3>1. CASE \E r \in Records : ReadRecord(r)
      BY <3>1, BufferEventOrder
    <3>2. CASE \/ \E attr \in PipeAttributes : PipeAttribute(attr)
               \/ FeaturesEventDesc \/ FeaturesVersion \/ HeaderAttribute
      <4>1. UNCHANGED <<buffers, flush, analyzed, order>>
        BY <3>2 DEF PipeAttribute, FeaturesEventDesc, FeaturesVersion,
                    HeaderAttribute, outputs
      <4> QED
        BY <4>1 DEF buffers, order, OrderInv, SortedWhileFlushing,
                    LastTimeIsCurrent, ViolationsCounted, AnalyzedBounded,
                    SamplesInOrder, Sorted, NextSampleTime
    <3>3. CASE finishedRound \/ Finalize \/ FinalFlush
      <4>1. /\ sampleBuffer \in Seq(Samples) /\ mmapBuffer \in Seq(Mmaps)
            /\ taskEventsBuffer \in Seq(TaskEvents)
        BY DEF OrderInv, TypeOK
      <4>2. flush.phase = "idle" /\ UNCHANGED <<analyzed, order>>
        BY <3>3 DEF finishedRound, Finalize, FinalFlush, Ready, Idle, outputs
      <4>3. \/ \E desired : BeginFlush(sampleBuffer, mmapBuffer,
                                taskEventsBuffer, eventBufferSize, desired)
            \/ UNCHANGED flush
        BY <3>3 DEF finishedRound, Finalize, FinalFlush, RoundFinished
      <4> QED
        BY <4>1, <4>2, <4>3, BeginFlushOrder, IdleStepOrder DEF order
    <3>4. CASE FlushStep
      BY <3>4, FlushStepOrder, AnalyzeSampleOrder
    <3>5. CASE Terminated
      BY <3>5 DEF Terminated, vars, inputs, attrs, buffers, order, outputs,
                  OrderInv, SortedWhileFlushing, LastTimeIsCurrent,
                  ViolationsCounted, AnalyzedBounded, SamplesInOrder, Sorted,
                  NextSampleTime
    <3> QED
      BY <1>2, <3>1, <3>2, <3>3, <3>4, <3>5 DEF Next, Internal
  <2> QED
    BY <2>1, <2>2 DEF OrderInv
<1> QED
  BY <1>1, <1>2

\* Nothing has been flushed at the start.
LEMMA InitOrder ==
  ASSUME Init
  PROVE  OrderInv
<1>1. /\ flush.phase = "idle" /\ ~flush.violates /\ analyzed = <<>>
  BY DEF Init
<1> QED
  BY <1>1, InitType DEF OrderInv, SortedWhileFlushing, LastTimeIsCurrent,
                        ViolationsCounted, AnalyzedBounded, SamplesInOrder

\* Samples are analyzed in the order of their times as long as no flush has
\* found the order violated (flushEventBuffer, m_lastFlushMaxTime).
THEOREM SamplesAlwaysInOrder == Spec => []SamplesInOrder
<1>1. OrderInv => SamplesInOrder
  BY DEF OrderInv
<1> QED
  BY <1>1, InitOrder, NextOrder, PTL DEF Spec

-----------------------------------------------------------------------------
\* Only analyze() adds to what is analyzed.
LEMMA OnlyAnalyzeAnalyzes ==
  ASSUME [Next]_vars, ~AnalyzeSample
  PROVE  analyzed' = analyzed
<1>1. CASE UNCHANGED vars
  BY <1>1 DEF vars, outputs
<1>2. CASE \E r \in Records : ReadRecord(r)
  BY <1>2 DEF ReadRecord, sample, registerElf, comm, lost, fork, exit,
              contextSwitch, Read, outputs
<1>3. CASE \/ \E attr \in PipeAttributes : PipeAttribute(attr)
           \/ FeaturesEventDesc \/ FeaturesVersion \/ HeaderAttribute
           \/ finishedRound \/ Finalize \/ FinalFlush \/ Terminated
  BY <1>3 DEF PipeAttribute, FeaturesEventDesc, FeaturesVersion,
              HeaderAttribute, finishedRound, Finalize, FinalFlush, Terminated,
              vars, outputs
<1>4. CASE FlushStep
  BY <1>4 DEF FlushStep, SampleTooLate, SamplesCanWait, SampleInTime,
              NoMoreSamples, ForwardLateMmap, LeaveSamples, StepOverSamples,
              ForwardMmapBeforeFork, FlushTaskEvent, ForwardMmapBeforeSample,
              TrailingTaskEvent, EndFlush, ForwardMmap, outputs
<1> QED
  BY <1>1, <1>2, <1>3, <1>4 DEF Next, Internal

\* A sorted buffer whose head is not due has nothing that is due.
LEMMA NothingDue ==
  ASSUME NEW S, Timed(S), NEW s \in Seq(S), Sorted(s), NEW t \in Nat,
         ~(s # <<>> /\ Head(s).time <= t)
  PROVE  \A i \in DOMAIN s : s[i].time > t
<1>1. CASE s = <<>>
  BY <1>1
<1>2. CASE s # <<>>
  <2>1. \A i \in DOMAIN s : Head(s).time <= s[i].time /\ s[i].time \in Nat
    BY <1>2, TailSorted DEF Timed
  <2>2. Head(s).time \in Nat
    BY <1>2 DEF Timed
  <2> QED
    BY <1>2, <2>1, <2>2
<1> QED
  BY <1>1, <1>2

\* analyze() runs when neither an mmap nor a task event is due.
LEMMA AnalyzeLeavesNothingEarlier ==
  ASSUME OrderInv, AnalyzeSample
  PROVE  LeavesNothingEarlier
<1> DEFINE s == Head(sampleBuffer)
<1>1. /\ sampleBuffer \in Seq(Samples) /\ sampleBuffer # <<>>
      /\ mmapBuffer \in Seq(Mmaps) /\ taskEventsBuffer \in Seq(TaskEvents)
      /\ flush.phase = "tasks"
  BY DEF AnalyzeSample, OrderInv, SampleAtHand, TypeOK
<1>2. s \in Samples /\ s.time \in Nat
  BY <1>1, EventsTimed DEF Timed
<1>3. Sorted(sampleBuffer) /\ Sorted(mmapBuffer) /\ Sorted(taskEventsBuffer)
  BY <1>1 DEF OrderInv, SortedWhileFlushing
<1>4. \A i \in DOMAIN mmapBuffer : mmapBuffer[i].time > s.time
  BY <1>1, <1>2, <1>3, EventsTimed, NothingDue
     DEF AnalyzeSample, MmapDue, NextSampleTime
<1>5. \A i \in DOMAIN taskEventsBuffer : taskEventsBuffer[i].time > s.time
  BY <1>1, <1>2, <1>3, EventsTimed, NothingDue
     DEF AnalyzeSample, TaskDue, NextSampleTime
<1>6. \A i \in DOMAIN Tail(sampleBuffer) :
        Tail(sampleBuffer)[i].time >= s.time
  <2>1. /\ \A k \in DOMAIN sampleBuffer : s.time <= sampleBuffer[k].time
        /\ \A k \in DOMAIN Tail(sampleBuffer) :
             /\ k + 1 \in DOMAIN sampleBuffer
             /\ Tail(sampleBuffer)[k] = sampleBuffer[k + 1]
    BY <1>1, <1>3, EventsTimed, TailSorted
  <2>2. \A k \in DOMAIN sampleBuffer : sampleBuffer[k].time \in Nat
    BY <1>1, EventsTimed DEF Timed
  <2> QED
    BY <1>2, <2>1, <2>2
<1>7. Newest(analyzed').event = s
  <2>1. PICK a : analyzed' = Append(analyzed, a) /\ a.event = s
    BY DEF AnalyzeSample
  <2>2. analyzed \in Seq(Analyzed)
    BY DEF OrderInv, TypeOK
  <2> QED
    BY <2>1, <2>2 DEF Newest
<1>8. /\ UNCHANGED <<mmapBuffer, taskEventsBuffer>>
      /\ sampleBuffer' = Tail(sampleBuffer)
  BY DEF AnalyzeSample
<1> QED
  BY <1>4, <1>5, <1>6, <1>7, <1>8 DEF LeavesNothingEarlier

\* No sample is analyzed before what happened up to its time, whatever the order
\* of arrival, the sizes and the options (flushEventBuffer).
THEOREM NothingIsLeftBehind == Spec => NothingEarlierLeftBehind
<1>1. OrderInv /\ [Next]_vars => [LeavesNothingEarlier]_vars
  BY AnalyzeLeavesNothingEarlier, OnlyAnalyzeAnalyzes
     DEF LeavesNothingEarlier
<1>2. Spec => [][LeavesNothingEarlier]_vars
  BY <1>1, InitOrder, NextOrder, PTL DEF Spec
<1> QED
  BY <1>2 DEF NothingEarlierLeftBehind

-----------------------------------------------------------------------------
\* The sizes: a flush that the size of the buffer caused had more to flush than
\* the target, and in automatic mode the last target was within the maximum.
FlushedForSize ==
  stage = "data" /\ flush.phase # "idle" /\ limits.target # 0 =>
    flush.sizeAtStart > limits.target

MaxKept ==
  setup.targetOption # 0 /\ setup.maxOption # 0 =>
    /\ limits.max = setup.maxOption
    /\ limits.target = 0 => limits.last <= limits.max

\* The header is dealt with before anything is flushed.
HeaderFirst ==
  flush.phase # "idle" \/ stage \in {"finalizing", "finalFlush"} =>
    stage # "features" /\ pending = <<>>

LimitsInv ==
  /\ TypeOK /\ SampleAtHand
  /\ HeaderFirst
  /\ TargetWithinMax
  /\ FlushedForSize
  /\ MaxKept

\* Enlarging keeps within the maximum, and does not shrink a buffer that was
\* flushed because of its size (the end of flushEventBuffer).
LEMMA EnlargedLemma ==
  ASSUME NEW lim \in Limits, NEW size \in 0 .. UIntMax, lim.target <= lim.max
  PROVE  /\ EnlargedTarget(lim, size) \in 0 .. UIntMax
         /\ EnlargedTarget(lim, size) <= lim.max
         /\ size > lim.target => EnlargedTarget(lim, size) >= lim.target
BY LimitsAssumption DEF Limits, EnlargedTarget, Smaller, Larger

\* What a new target within the maximum does to the sizes.
LEMMA SetTargetWithin ==
  ASSUME NEW lim \in Limits, NEW size \in 0 .. UIntMax, lim.target <= lim.max,
         size <= lim.max
  PROVE  /\ SetTarget(lim, size).max = lim.max
         /\ SetTarget(lim, size).target = size
         /\ SetTarget(lim, size).last <= lim.max
BY LimitsAssumption DEF Limits, SetTarget, Larger

\* An attribute keeps the sizes within their limits (addAttributes).
LEMMA AddAttributesLimits ==
  ASSUME LimitsInv, NEW attr, addAttributes(attr), UNCHANGED setup
  PROVE  TargetWithinMax' /\ MaxKept' /\ limits'.target >= limits.target
<1>1. limits \in Limits /\ limits.last \in 0 .. UIntMax /\ UIntMax \in Nat
  BY LimitsAssumption DEF LimitsInv, TypeOK, Limits
<1>2. CASE attr.tracepoint /\ limits.target = 0
  <2>1. limits' = SetTarget(limits, limits.last)
    BY <1>2 DEF addAttributes, RevertTarget
  <2>2. limits'.target <= limits'.max /\ limits'.target = limits.last
    BY <1>1, <2>1, LimitsLemma DEF SetTarget
  <2>3. limits.last <= limits.max =>
          /\ limits'.max = limits.max /\ limits'.last <= limits.max
    BY <1>1, <2>1, SetTargetWithin DEF LimitsInv, TargetWithinMax
  <2>4. MaxKept'
    BY <1>2, <2>3 DEF LimitsInv, MaxKept
  <2> QED
    BY <1>1, <1>2, <2>2, <2>4 DEF TargetWithinMax
<1>3. CASE ~(attr.tracepoint /\ limits.target = 0)
  BY <1>1, <1>3 DEF addAttributes, LimitsInv, TargetWithinMax, MaxKept, Limits
<1> QED
  BY <1>2, <1>3

\* Going to automatic buffering keeps the sizes within their limits.
LEMMA AutomaticLimits ==
  ASSUME LimitsInv, limits' = SetTarget(limits, 0), UNCHANGED setup
  PROVE  TargetWithinMax' /\ MaxKept'
<1>1. limits \in Limits /\ 0 \in 0 .. UIntMax /\ limits.max \in Nat
  BY LimitsAssumption DEF LimitsInv, TypeOK, Limits
<1>2. /\ limits'.max = limits.max /\ limits'.target = 0
      /\ limits'.last <= limits.max
  BY <1>1, SetTargetWithin DEF LimitsInv, TargetWithinMax
<1> QED
  BY <1>1, <1>2 DEF LimitsInv, TargetWithinMax, MaxKept

\* Every step keeps the header before the data.
LEMMA NextHeaderFirst ==
  ASSUME LimitsInv, Next
  PROVE  HeaderFirst'
<1>1. CASE \E r \in Records : ReadRecord(r)
  BY <1>1 DEF ReadRecord, sample, registerElf, comm, lost, fork, exit,
              contextSwitch, Read, Ready, HeaderFirst
<1>2. CASE \/ \E attr \in PipeAttributes : PipeAttribute(attr)
           \/ FeaturesEventDesc \/ FeaturesVersion \/ HeaderAttribute
  BY <1>2 DEF PipeAttribute, FeaturesEventDesc, FeaturesVersion, HeaderAttribute,
              Ready, Idle, LimitsInv, HeaderFirst, inputs
<1>3. CASE finishedRound \/ Finalize \/ FinalFlush
  BY <1>3 DEF finishedRound, Finalize, FinalFlush, Ready, LimitsInv, HeaderFirst
<1>4. CASE FlushStep
  <2>1. flush.phase # "idle" /\ UNCHANGED <<stage, pending>>
    BY <1>4 DEF FlushStep, SampleTooLate, SamplesCanWait, SampleInTime,
                NoMoreSamples, ForwardLateMmap, LeaveSamples, StepOverSamples,
                ForwardMmapBeforeFork, FlushTaskEvent, ForwardMmapBeforeSample,
                AnalyzeSample, TrailingTaskEvent, EndFlush, ForwardMmap, inputs
  <2> QED
    BY <2>1 DEF LimitsInv, HeaderFirst
<1>5. CASE Terminated
  BY <1>5 DEF Terminated, vars, inputs, LimitsInv, HeaderFirst
<1> QED
  BY <1>1, <1>2, <1>3, <1>4, <1>5 DEF Next, Internal

\* Every step keeps the sizes within their limits, and after a violation none
\* makes the target smaller.
LEMMA NextLimits ==
  ASSUME LimitsInv, Next
  PROVE  TargetWithinMax' /\ MaxKept' /\ FlushedForSize' /\ KeepsTarget
<1>1. /\ limits \in Limits /\ limits.target \in Nat /\ limits.max \in Nat
      /\ timeOrderViolations \in Nat /\ 0 \in 0 .. UIntMax
      /\ flush.sizeAtStart \in 0 .. UIntMax
  BY LimitsAssumption DEF LimitsInv, TypeOK, Limits
<1>2. ASSUME UNCHANGED <<limits, setup>>
      PROVE  TargetWithinMax' /\ MaxKept' /\ KeepsTarget
  BY <1>1, <1>2 DEF LimitsInv, TargetWithinMax, MaxKept, KeepsTarget
<1>3. CASE \E r \in Records : ReadRecord(r)
  <2>1. PICK r \in Records : ReadRecord(r)
    BY <1>3
  <2>2. /\ UNCHANGED <<limits, setup, stage>> /\ flush.phase = "idle"
        /\ \E event, samples, mmaps, tasks :
             bufferEvent(event, samples, mmaps, tasks)
    BY <2>1 DEF ReadRecord, sample, registerElf, comm, lost, fork, exit,
                contextSwitch, Read, Ready, Idle, bufferTaskEvent
  <2>3. FlushedForSize'
    BY <2>2 DEF FlushedForSize, bufferEvent, BeginFlush
  <2> QED
    BY <1>2, <2>2, <2>3
<1>4. ASSUME NEW attr, addAttributes(attr), UNCHANGED <<setup, stage, flush>>,
             flush.phase = "idle"
      PROVE  TargetWithinMax' /\ MaxKept' /\ FlushedForSize' /\ KeepsTarget
  BY <1>4, AddAttributesLimits DEF FlushedForSize, KeepsTarget
<1>5. CASE FeaturesEventDesc \/ HeaderAttribute
  BY <1>4, <1>5 DEF FeaturesEventDesc, HeaderAttribute, LimitsInv, HeaderFirst
<1>6. CASE \E attr \in PipeAttributes : PipeAttribute(attr)
  BY <1>4, <1>6 DEF PipeAttribute, inputs, Ready, Idle
<1>7. CASE FeaturesVersion
  <2>1. /\ limits' = limits \/ limits' = SetTarget(limits, 0)
        /\ stage = "features" /\ UNCHANGED <<setup, flush>>
        /\ flush.phase = "idle"
    BY <1>7 DEF FeaturesVersion, LimitsInv, HeaderFirst
  <2> QED
    BY <1>2, <2>1, AutomaticLimits DEF FlushedForSize, KeepsTarget
<1>8. CASE finishedRound \/ Finalize
  <2>1. RoundFinished /\ UNCHANGED <<setup, timeOrderViolations>>
        /\ flush.phase = "idle"
    BY <1>8 DEF finishedRound, Finalize, order, Ready, Idle
  <2>2. CASE limits.target = 0
    <3>1. UNCHANGED limits
      BY <2>1, <2>2 DEF RoundFinished
    <3> QED
      BY <1>2, <2>1, <2>2, <3>1 DEF FlushedForSize
  <2>3. CASE limits.target # 0
    <3>1. /\ UNCHANGED flush
          /\ \/ limits' = limits
             \/ limits' = SetTarget(limits, 0) /\ timeOrderViolations = 0
      BY <2>1, <2>3 DEF RoundFinished
    <3> QED
      BY <1>2, <2>1, <3>1, AutomaticLimits DEF FlushedForSize, KeepsTarget
  <2> QED
    BY <2>2, <2>3
<1>9. CASE FinalFlush
  BY <1>2, <1>9 DEF FinalFlush, FlushedForSize
<1>10. CASE FlushStep /\ ~EndFlush
  <2>1. /\ UNCHANGED <<limits, setup, stage>>
        /\ flush'.sizeAtStart = flush.sizeAtStart
        /\ flush.phase # "idle"
    BY <1>10 DEF FlushStep, SampleTooLate, SamplesCanWait, SampleInTime,
                NoMoreSamples, ForwardLateMmap, LeaveSamples, StepOverSamples,
                ForwardMmapBeforeFork, FlushTaskEvent, ForwardMmapBeforeSample,
                AnalyzeSample, TrailingTaskEvent, ForwardMmap, inputs,
                LimitsInv, TypeOK
  <2> QED
    BY <1>2, <2>1 DEF LimitsInv, FlushedForSize
<1>11. CASE EndFlush
  <2> DEFINE enlarged == EnlargedTarget(limits, flush.sizeAtStart)
  <2>1. /\ flush.phase = "tail" /\ flush'.phase = "idle"
        /\ UNCHANGED <<setup, stage>>
        /\ limits' = limits \/ limits' = SetTarget(limits, enlarged)
    BY <1>11 DEF EndFlush, inputs, LimitsInv, TypeOK
  <2>2. /\ enlarged \in 0 .. UIntMax /\ enlarged <= limits.max
        /\ flush.sizeAtStart > limits.target => enlarged >= limits.target
    BY <1>1, EnlargedLemma DEF LimitsInv, TargetWithinMax
  <2>3. CASE limits' = SetTarget(limits, enlarged)
    <3>1. /\ limits'.max = limits.max /\ limits'.target = enlarged
          /\ limits'.last <= limits.max
      BY <1>1, <2>2, <2>3, SetTargetWithin DEF LimitsInv, TargetWithinMax
    <3>2. TargetWithinMax' /\ MaxKept' /\ FlushedForSize'
      BY <2>1, <2>2, <3>1
         DEF LimitsInv, TargetWithinMax, MaxKept, FlushedForSize
    <3>3. KeepsTarget
      BY <1>1, <2>1, <2>2, <3>1 DEF LimitsInv, FlushedForSize, KeepsTarget
    <3> QED
      BY <3>2, <3>3
  <2>4. CASE limits' = limits
    BY <1>2, <2>1, <2>4 DEF FlushedForSize
  <2> QED
    BY <2>1, <2>3, <2>4
<1>12. CASE Terminated
  BY <1>2, <1>12 DEF Terminated, vars, inputs, LimitsInv, FlushedForSize
<1> QED
  BY <1>3, <1>5, <1>6, <1>7, <1>8, <1>9, <1>10, <1>11, <1>12 DEF Next, Internal

\* The options leave consistent sizes (main).
LEMMA InitLimits ==
  ASSUME Init
  PROVE  LimitsInv
<1>1. PICK t \in TargetOptions, m \in MaxOptions :
        /\ limits = Configured(t, m)
        /\ setup.targetOption = Bytes(t) /\ setup.maxOption = Bytes(m)
        /\ t \in Nat /\ m \in Nat
  BY BufferAssumption DEF Init
<1>2. TargetWithinMax
  BY <1>1, ConfiguredLemma DEF TargetWithinMax
<1>3. MaxKept
  <2>1. /\ Configured(t, m).max = Bytes(m)
        /\ Configured(t, m).target = 0 => Bytes(t) = 0 \/ Bytes(m) = 0
    BY DEF Configured, SetMax, SetTarget
  <2> QED
    BY <1>1, <2>1 DEF MaxKept
<1>4. flush.phase = "idle" /\ stage \in {"data", "features"}
  BY DEF Init
<1> QED
  BY <1>2, <1>3, <1>4, InitType DEF LimitsInv, FlushedForSize, HeaderFirst

\* The invariant of the sizes is inductive.
LEMMA LimitsInductive ==
  LimitsInv /\ [Next]_vars => LimitsInv' /\ [KeepsTarget]_vars
<1> SUFFICES ASSUME LimitsInv, [Next]_vars
             PROVE  LimitsInv' /\ [KeepsTarget]_vars
  OBVIOUS
<1>1. CASE UNCHANGED vars
  BY <1>1 DEF vars, inputs, attrs, buffers, order, outputs, LimitsInv, TypeOK,
              SampleAtHand, TargetWithinMax, FlushedForSize, MaxKept, HeaderFirst
<1>2. CASE Next
  BY <1>2, NextType, NextSampleAtHand, NextHeaderFirst, NextLimits DEF LimitsInv
<1> QED
  BY <1>1, <1>2

\* The target never exceeds the maximum (setTargetEventBufferSize).
THEOREM TargetAlwaysWithinMax == Spec => []TargetWithinMax
<1>1. LimitsInv => TargetWithinMax
  BY DEF LimitsInv
<1> QED
  BY <1>1, InitLimits, LimitsInductive, PTL DEF Spec

\* The maximum the user gave is never raised, unless an option is 0: no violation
\* and no return from automatic buffering raises it (--max-buffer-size).
THEOREM MaxAlwaysRespected == Spec => []MaxRespected
<1>1. LimitsInv => MaxRespected
  BY LimitsAssumption DEF LimitsInv, MaxKept, MaxRespected, TypeOK, Limits
<1> QED
  BY <1>1, InitLimits, LimitsInductive, PTL DEF Spec

\* After a violation the buffer never gets smaller while data is read
\* (flushEventBuffer, finishedRound, addAttributes).
THEOREM NeverSmallerAfterViolation == Spec => NoSmallerAfterViolation
<1>1. Spec => [][KeepsTarget]_vars
  BY InitLimits, LimitsInductive, PTL DEF Spec
<1> QED
  BY <1>1 DEF NoSmallerAfterViolation

-----------------------------------------------------------------------------
(***************************************************************************)
(* What a step does to the events, whichever action it is: an event        *)
(* arrives, the buffers are sorted, the head of a buffer is forwarded, or  *)
(* nothing.                                                                *)
(***************************************************************************)
Buffers(samples, mmaps, tasks) ==
  /\ sampleBuffer' = samples
  /\ mmapBuffer' = mmaps
  /\ taskEventsBuffer' = tasks

\* The event is behind the others of its kind.
OneMore(event, samples, mmaps, tasks) ==
  \/ /\ event \in Samples /\ samples = Append(sampleBuffer, event)
     /\ mmaps = mmapBuffer /\ tasks = taskEventsBuffer
  \/ /\ event \in Mmaps /\ mmaps = Append(mmapBuffer, event)
     /\ samples = sampleBuffer /\ tasks = taskEventsBuffer
  \/ /\ event \in TaskEvents /\ tasks = Append(taskEventsBuffer, event)
     /\ samples = sampleBuffer /\ mmaps = mmapBuffer

\* What is buffered for a record: itself, or the task event it describes.
TaskTypeOf ==
  [comm |-> "Command", lost |-> "LostDefinition", fork |-> "ThreadStart",
   exit |-> "ThreadEnd", switch |-> "ContextSwitchDefinition"]

EventFor(r) == IF r.type \in {"sample", "mmap"}
               THEN r ELSE TaskEvent(r, TaskTypeOf[r.type])

Arrives(r, event, samples, mmaps, tasks) ==
  /\ event = EventFor(r) /\ r \in unread /\ unread' = unread \ {r}
  /\ OneMore(event, samples, mmaps, tasks)
  /\ \/ Buffers(samples, mmaps, tasks)
     \/ Buffers(SortByTime(samples), SortByTime(mmaps), SortByTime(tasks))
  /\ eventBufferSize' = UInt(eventBufferSize + event.size)
  /\ arrived' = Append(arrived, [event |-> event, bound |-> lastFlushMaxTime])
  /\ UNCHANGED <<registered, sent, analyzed>>

ArrivalStep ==
  \E r \in Records, event \in Events, samples \in Seq(Samples),
     mmaps \in Seq(Mmaps), tasks \in Seq(TaskEvents) :
    Arrives(r, event, samples, mmaps, tasks)

SortStep ==
  /\ Buffers(SortByTime(sampleBuffer), SortByTime(mmapBuffer),
             SortByTime(taskEventsBuffer))
  /\ UNCHANGED <<eventBufferSize, arrived, registered, sent, analyzed, unread>>

MmapStep ==
  /\ mmapBuffer # <<>>
  /\ Buffers(sampleBuffer, Tail(mmapBuffer), taskEventsBuffer)
  /\ registered' = Append(registered, Head(mmapBuffer))
  /\ eventBufferSize' = UInt(eventBufferSize - Head(mmapBuffer).size)
  /\ UNCHANGED <<arrived, sent, analyzed, unread>>

TaskStep ==
  /\ taskEventsBuffer # <<>>
  /\ Buffers(sampleBuffer, mmapBuffer, Tail(taskEventsBuffer))
  /\ \E trailing \in BOOLEAN :
       sent' = Append(sent, [event |-> Head(taskEventsBuffer),
                             trailing |-> trailing])
  /\ eventBufferSize' = UInt(eventBufferSize - Head(taskEventsBuffer).size)
  /\ UNCHANGED <<arrived, registered, analyzed, unread>>

SampleStep ==
  /\ sampleBuffer # <<>>
  /\ Buffers(Tail(sampleBuffer), mmapBuffer, taskEventsBuffer)
  /\ \E a : a.event = Head(sampleBuffer) /\ analyzed' = Append(analyzed, a)
  /\ eventBufferSize' = UInt(eventBufferSize - Head(sampleBuffer).size)
  /\ UNCHANGED <<arrived, registered, sent, unread>>

OtherStep ==
  UNCHANGED <<sampleBuffer, mmapBuffer, taskEventsBuffer, eventBufferSize,
              arrived, registered, sent, analyzed, unread>>

\* A record that is read becomes one event in the buffer of its kind (sample,
\* registerElf, comm, lost, fork, exit, contextSwitch, bufferEvent).
LEMMA RecordArrives ==
  ASSUME TypeOK, NEW r \in Records, ReadRecord(r)
  PROVE  ArrivalStep
<1>1. /\ sampleBuffer \in Seq(Samples)
      /\ mmapBuffer \in Seq(Mmaps)
      /\ taskEventsBuffer \in Seq(TaskEvents)
      /\ r \in Event(RecordTypes) /\ (r.type = "fork" => r.payload \in Pids)
  BY BufferAssumption DEF TypeOK
<1>2. r \in unread /\ unread' = unread \ {r} /\ UNCHANGED outputs
  BY DEF ReadRecord, sample, registerElf, comm, lost, fork, exit, contextSwitch,
         Read
<1>3. ASSUME NEW event \in Events, NEW samples \in Seq(Samples),
             NEW mmaps \in Seq(Mmaps), NEW tasks \in Seq(TaskEvents),
             event = EventFor(r), OneMore(event, samples, mmaps, tasks),
             bufferEvent(event, samples, mmaps, tasks)
      PROVE  ArrivalStep
  <2>1. \/ Buffers(samples, mmaps, tasks)
        \/ Buffers(SortByTime(samples), SortByTime(mmaps), SortByTime(tasks))
    BY <1>3 DEF bufferEvent, BeginFlush, Buffers
  <2>2. /\ eventBufferSize' = UInt(eventBufferSize + event.size)
        /\ arrived' = Append(arrived,
                        [event |-> event, bound |-> lastFlushMaxTime])
    BY <1>3 DEF bufferEvent
  <2>3. Arrives(r, event, samples, mmaps, tasks)
    BY <1>2, <1>3, <2>1, <2>2 DEF Arrives, outputs
  <2> QED
    BY <2>3 DEF ArrivalStep
<1>4. CASE sample(r)
  <2>1. r \in Samples
    BY <1>1, <1>4 DEF sample, Read, Samples, Event
  <2>2. r \in Events /\ Append(sampleBuffer, r) \in Seq(Samples)
    BY <1>1, <2>1 DEF Events
  <2> QED
    BY <1>1, <1>3, <1>4, <2>1, <2>2 DEF sample, Read, OneMore, EventFor
<1>5. CASE registerElf(r)
  <2>1. r \in Mmaps
    BY <1>1, <1>5 DEF registerElf, Read, Mmaps, Event
  <2>2. r \in Events /\ Append(mmapBuffer, r) \in Seq(Mmaps)
    BY <1>1, <2>1 DEF Events
  <2> QED
    BY <1>1, <1>3, <1>5, <2>1, <2>2 DEF registerElf, Read, OneMore, EventFor
<1>6. ASSUME NEW type \in DOMAIN TaskTypeOf, Read(type, r),
             bufferTaskEvent(TaskEvent(r, TaskTypeOf[type]))
      PROVE  ArrivalStep
  <2> DEFINE t == TaskTypeOf[type]
  <2>1. /\ t \in TaskTypes /\ (t = "ThreadStart" => type = "fork")
        /\ type \notin {"sample", "mmap"} /\ r.type = type
    BY <1>6 DEF TaskTypeOf, TaskTypes, Read
  <2>2. TaskEvent(r, t) \in Event(TaskTypes)
    BY <1>1, <2>1, BufferAssumption DEF TaskEvent, Event
  <2>3. TaskEvent(r, t) \in TaskEvents
    BY <1>1, <2>1, <2>2 DEF TaskEvents, TaskEvent
  <2>4. /\ TaskEvent(r, t) \in Events
        /\ Append(taskEventsBuffer, TaskEvent(r, t)) \in Seq(TaskEvents)
    BY <1>1, <2>3 DEF Events
  <2>5. TaskEvent(r, t) = EventFor(r)
    BY <2>1 DEF EventFor
  <2> QED
    BY <1>1, <1>3, <1>6, <2>3, <2>4, <2>5 DEF bufferTaskEvent, OneMore
<1>7. CASE comm(r)
  BY <1>6, <1>7 DEF comm, TaskTypeOf
<1>8. CASE lost(r)
  BY <1>6, <1>8 DEF lost, TaskTypeOf
<1>9. CASE fork(r)
  BY <1>6, <1>9 DEF fork, TaskTypeOf
<1>10. CASE exit(r)
  BY <1>6, <1>10 DEF exit, TaskTypeOf
<1>11. CASE contextSwitch(r)
  BY <1>6, <1>11 DEF contextSwitch, TaskTypeOf
<1> QED
  BY <1>4, <1>5, <1>7, <1>8, <1>9, <1>10, <1>11 DEF ReadRecord

\* A step of flushEventBuffer forwards the head of one of the buffers, or none.
LEMMA FlushStepForwards ==
  ASSUME TypeOK, SampleAtHand, FlushStep
  PROVE  MmapStep \/ TaskStep \/ SampleStep \/ OtherStep
<1>1. ASSUME NEW t, ForwardMmap(t)
      PROVE  MmapStep
  BY <1>1 DEF ForwardMmap, MmapDue, MmapStep, Buffers, inputs
<1>2. ASSUME NEW phase, StepOverSamples(phase)
      PROVE  OtherStep
  BY <1>2 DEF StepOverSamples, OtherStep, inputs, buffers, outputs
<1>3. CASE SampleTooLate \/ SampleInTime \/ EndFlush
  BY <1>3 DEF SampleTooLate, SampleInTime, EndFlush, OtherStep, inputs, buffers,
              outputs
<1>4. CASE SamplesCanWait \/ NoMoreSamples \/ LeaveSamples
  BY <1>2, <1>4 DEF SamplesCanWait, NoMoreSamples, LeaveSamples
<1>5. CASE ForwardLateMmap \/ ForwardMmapBeforeFork \/ ForwardMmapBeforeSample
  BY <1>1, <1>5 DEF ForwardLateMmap, ForwardMmapBeforeFork,
                    ForwardMmapBeforeSample
<1>6. CASE FlushTaskEvent \/ TrailingTaskEvent
  <2>1. /\ taskEventsBuffer # <<>>
        /\ \E trailing \in BOOLEAN :
             sendTaskEvent(Head(taskEventsBuffer), trailing)
        /\ UNCHANGED <<sampleBuffer, mmapBuffer, arrived, registered, analyzed,
                       unread>>
    BY <1>6 DEF FlushTaskEvent, TrailingTaskEvent, TaskDue, MoreTaskEvents,
                inputs
  <2> QED
    BY <2>1 DEF sendTaskEvent, TaskStep, Buffers
<1>7. CASE AnalyzeSample
  <2>1. sampleBuffer # <<>>
    BY <1>7 DEF AnalyzeSample, SampleAtHand
  <2>2. \E a : a.event = Head(sampleBuffer) /\ analyzed' = Append(analyzed, a)
    BY <1>7 DEF AnalyzeSample
  <2> QED
    BY <1>7, <2>1, <2>2 DEF AnalyzeSample, SampleStep, Buffers, inputs
<1> QED
  BY <1>3, <1>4, <1>5, <1>6, <1>7 DEF FlushStep

\* Every step of the program is one of these.
LEMMA StepKinds ==
  ASSUME TypeOK, SampleAtHand, [Next]_vars
  PROVE  ArrivalStep \/ SortStep \/ MmapStep \/ TaskStep \/ SampleStep
           \/ OtherStep
<1>1. CASE UNCHANGED vars
  BY <1>1 DEF vars, inputs, buffers, outputs, OtherStep
<1>2. CASE \E r \in Records : ReadRecord(r)
  BY <1>2, RecordArrives
<1>3. CASE \/ \E attr \in PipeAttributes : PipeAttribute(attr)
           \/ FeaturesEventDesc \/ FeaturesVersion \/ HeaderAttribute
           \/ Terminated
  BY <1>3 DEF PipeAttribute, FeaturesEventDesc, FeaturesVersion,
              HeaderAttribute, Terminated, vars, inputs, buffers, outputs,
              OtherStep
<1>4. CASE finishedRound \/ Finalize \/ FinalFlush
  <2>1. /\ UNCHANGED <<eventBufferSize, arrived, registered, sent, analyzed,
                       unread>>
        /\ \/ \E size, desired : BeginFlush(sampleBuffer, mmapBuffer,
                                            taskEventsBuffer, size, desired)
           \/ UNCHANGED buffers
    BY <1>4 DEF finishedRound, Finalize, FinalFlush, RoundFinished, outputs
  <2> QED
    BY <2>1 DEF BeginFlush, SortStep, Buffers, OtherStep, buffers
<1>5. CASE FlushStep
  BY <1>5, FlushStepForwards
<1> QED
  BY <1>1, <1>2, <1>3, <1>4, <1>5 DEF Next, Internal

-----------------------------------------------------------------------------
\* What appending, forwarding and sorting do to the events of a buffer.
LEMMA ElementsOfAppend ==
  ASSUME NEW S, NEW s \in Seq(S), NEW e
  PROVE  /\ Elements(Append(s, e)) = Elements(s) \cup {e}
         /\ Len(Append(s, e)) = Len(s) + 1
         /\ Len(s) \in Nat
<1>1. /\ DOMAIN Append(s, e) = 1 .. Len(s) + 1 /\ DOMAIN s = 1 .. Len(s)
      /\ Len(s) \in Nat /\ Len(Append(s, e)) = Len(s) + 1
      /\ Append(s, e)[Len(s) + 1] = e
      /\ \A i \in 1 .. Len(s) : Append(s, e)[i] = s[i]
  OBVIOUS
<1>2. ASSUME NEW x \in Elements(Append(s, e))
      PROVE  x \in Elements(s) \cup {e}
  <2>1. PICK i \in 1 .. Len(s) + 1 : x = Append(s, e)[i]
    BY <1>1, <1>2 DEF Elements
  <2> QED
    BY <1>1, <2>1 DEF Elements
<1>3. e \in Elements(Append(s, e))
  BY <1>1 DEF Elements
<1>4. ASSUME NEW x \in Elements(s)
      PROVE  x \in Elements(Append(s, e))
  BY <1>1, <1>4 DEF Elements
<1> QED
  BY <1>1, <1>2, <1>3, <1>4

\* forwardMmapBuffer, sendTaskEvent and analyze take the head off a buffer.
LEMMA ElementsOfTail ==
  ASSUME NEW S, NEW s \in Seq(S), s # <<>>
  PROVE  /\ Elements(s) = {Head(s)} \cup Elements(Tail(s))
         /\ Len(s) = Len(Tail(s)) + 1
         /\ Len(Tail(s)) \in Nat
<1>1. /\ DOMAIN Tail(s) = 1 .. Len(s) - 1 /\ DOMAIN s = 1 .. Len(s)
      /\ Len(s) \in Nat \ {0} /\ Len(Tail(s)) = Len(s) - 1
      /\ Head(s) = s[1]
      /\ \A i \in 1 .. Len(s) - 1 : Tail(s)[i] = s[i + 1]
  OBVIOUS
<1>2. ASSUME NEW x \in Elements(s)
      PROVE  x \in {Head(s)} \cup Elements(Tail(s))
  <2>1. PICK i \in 1 .. Len(s) : x = s[i]
    BY <1>1, <1>2 DEF Elements
  <2>2. CASE i = 1
    BY <1>1, <2>1, <2>2
  <2>3. CASE i # 1
    <3>1. i - 1 \in 1 .. Len(s) - 1 /\ Tail(s)[i - 1] = s[i]
      BY <1>1, <2>3
    <3> QED
      BY <1>1, <2>1, <3>1 DEF Elements
  <2> QED
    BY <2>2, <2>3
<1>3. Head(s) \in Elements(s)
  BY <1>1 DEF Elements
<1>4. ASSUME NEW x \in Elements(Tail(s))
      PROVE  x \in Elements(s)
  BY <1>1, <1>4 DEF Elements
<1> QED
  BY <1>1, <1>2, <1>3, <1>4

\* stable_sort keeps the events of a buffer.
LEMMA ElementsOfSort ==
  ASSUME NEW S, Timed(S), NEW s \in Seq(S)
  PROVE  /\ Elements(SortByTime(s)) = Elements(s)
         /\ Len(SortByTime(s)) = Len(s)
<1>1. /\ DOMAIN s = 1 .. Len(s) /\ DOMAIN SortByTime(s) = 1 .. Len(s)
      /\ Len(SortByTime(s)) = Len(s)
  BY SortIsSequence DEF SortByTime
<1>2. Elements(SortByTime(s)) \subseteq Elements(s)
  BY <1>1, SortIsSequence DEF Elements
<1>3. ASSUME NEW i \in 1 .. Len(s)
      PROVE  s[i] \in Elements(SortByTime(s))
  <2>1. PICK k \in 1 .. Len(s) : SortByTime(s)[k] = s[i]
    BY SortKeepsAll
  <2> QED
    BY <1>1, <2>1 DEF Elements
<1>4. Elements(s) \subseteq Elements(SortByTime(s))
  BY <1>1, <1>3 DEF Elements
<1> QED
  BY <1>1, <1>2, <1>4

-----------------------------------------------------------------------------
EventsOf(s) == {x.event : x \in Elements(s)}

Held ==
  Elements(sampleBuffer) \cup Elements(mmapBuffer)
    \cup Elements(taskEventsBuffer) \cup Elements(registered)
    \cup EventsOf(sent) \cup EventsOf(analyzed)

NumberHeld ==
  Len(sampleBuffer) + Len(mmapBuffer) + Len(taskEventsBuffer)
    + Len(registered) + Len(sent) + Len(analyzed)

\* The events behind what arrived, was sent or analyzed.
LEMMA EventsOfAppend ==
  ASSUME NEW S, NEW s \in Seq(S), NEW x
  PROVE  EventsOf(Append(s, x)) = EventsOf(s) \cup {x.event}
BY ElementsOfAppend DEF EventsOf

\* Each kind of step keeps the events together.
LEMMA StepLosesNothing ==
  ASSUME TypeOK, SampleAtHand, NothingLostOrRepeated, [Next]_vars
  PROVE  NothingLostOrRepeated'
<1>1. /\ sampleBuffer \in Seq(Samples) /\ mmapBuffer \in Seq(Mmaps)
      /\ taskEventsBuffer \in Seq(TaskEvents) /\ registered \in Seq(Mmaps)
      /\ sent \in Seq(Sent) /\ analyzed \in Seq(Analyzed)
      /\ arrived \in Seq([event : Events, bound : Nat])
  BY DEF TypeOK
<1>2. /\ Len(sampleBuffer) \in Nat /\ Len(mmapBuffer) \in Nat
      /\ Len(taskEventsBuffer) \in Nat /\ Len(registered) \in Nat
      /\ Len(sent) \in Nat /\ Len(analyzed) \in Nat /\ Len(arrived) \in Nat
  BY <1>1
<1>3. EventsOf(arrived) = Held /\ Len(arrived) = NumberHeld
  BY DEF NothingLostOrRepeated, EventsOf, Held, NumberHeld
<1>4. SUFFICES EventsOf(arrived)' = Held' /\ Len(arrived)' = NumberHeld'
  BY DEF NothingLostOrRepeated, EventsOf, Held, NumberHeld
<1>13. /\ Elements(sampleBuffer)' = Elements(sampleBuffer')
       /\ Elements(mmapBuffer)' = Elements(mmapBuffer')
       /\ Elements(taskEventsBuffer)' = Elements(taskEventsBuffer')
       /\ Elements(registered)' = Elements(registered')
       /\ EventsOf(sent)' = EventsOf(sent')
       /\ EventsOf(analyzed)' = EventsOf(analyzed')
       /\ EventsOf(arrived)' = EventsOf(arrived')
  BY Zenon DEF EventsOf, Elements
<1>14. Held' = Elements(sampleBuffer') \cup Elements(mmapBuffer')
                \cup Elements(taskEventsBuffer') \cup Elements(registered')
                \cup EventsOf(sent') \cup EventsOf(analyzed')
  BY <1>13, Zenon DEF Held
<1>5. ASSUME NEW samples \in Seq(Samples), NEW mmaps \in Seq(Mmaps),
             NEW tasks \in Seq(TaskEvents),
             \/ Buffers(samples, mmaps, tasks)
             \/ Buffers(SortByTime(samples), SortByTime(mmaps),
                        SortByTime(tasks))
      PROVE  /\ Elements(sampleBuffer)' = Elements(samples)
             /\ Elements(mmapBuffer)' = Elements(mmaps)
             /\ Elements(taskEventsBuffer)' = Elements(tasks)
             /\ Len(sampleBuffer)' = Len(samples)
             /\ Len(mmapBuffer)' = Len(mmaps)
             /\ Len(taskEventsBuffer)' = Len(tasks)
  <2>1. /\ Elements(SortByTime(samples)) = Elements(samples)
        /\ Elements(SortByTime(mmaps)) = Elements(mmaps)
        /\ Elements(SortByTime(tasks)) = Elements(tasks)
        /\ Len(SortByTime(samples)) = Len(samples)
        /\ Len(SortByTime(mmaps)) = Len(mmaps)
        /\ Len(SortByTime(tasks)) = Len(tasks)
    BY EventsTimed, ElementsOfSort
  <2>2. CASE Buffers(samples, mmaps, tasks)
    BY <2>2 DEF Buffers, Elements
  <2>3. CASE Buffers(SortByTime(samples), SortByTime(mmaps), SortByTime(tasks))
    <3>1. /\ sampleBuffer' = SortByTime(samples)
          /\ mmapBuffer' = SortByTime(mmaps)
          /\ taskEventsBuffer' = SortByTime(tasks)
      BY <2>3 DEF Buffers
    <3> QED
      BY <2>1, <3>1 DEF Elements
  <2> QED
    BY <1>5, <2>2, <2>3
<1>6. CASE ArrivalStep
  <2>1. PICK r \in Records, event \in Events, samples \in Seq(Samples),
             mmaps \in Seq(Mmaps), tasks \in Seq(TaskEvents) :
          Arrives(r, event, samples, mmaps, tasks)
    BY <1>6 DEF ArrivalStep
  <2>2. /\ Elements(sampleBuffer)' = Elements(samples)
        /\ Elements(mmapBuffer)' = Elements(mmaps)
        /\ Elements(taskEventsBuffer)' = Elements(tasks)
        /\ Len(sampleBuffer)' = Len(samples)
        /\ Len(mmapBuffer)' = Len(mmaps)
        /\ Len(taskEventsBuffer)' = Len(tasks)
    BY <1>5, <2>1 DEF Arrives
  <2>3. /\ Elements(samples) \cup Elements(mmaps) \cup Elements(tasks)
             = Elements(sampleBuffer) \cup Elements(mmapBuffer)
                 \cup Elements(taskEventsBuffer) \cup {event}
        /\ Len(samples) + Len(mmaps) + Len(tasks)
             = Len(sampleBuffer) + Len(mmapBuffer) + Len(taskEventsBuffer) + 1
        /\ Len(samples) \in Nat /\ Len(mmaps) \in Nat /\ Len(tasks) \in Nat
    <3>1. OneMore(event, samples, mmaps, tasks)
      BY <2>1 DEF Arrives
    <3>2. /\ Elements(Append(sampleBuffer, event))
               = Elements(sampleBuffer) \cup {event}
          /\ Elements(Append(mmapBuffer, event))
               = Elements(mmapBuffer) \cup {event}
          /\ Elements(Append(taskEventsBuffer, event))
               = Elements(taskEventsBuffer) \cup {event}
          /\ Len(Append(sampleBuffer, event)) = Len(sampleBuffer) + 1
          /\ Len(Append(mmapBuffer, event)) = Len(mmapBuffer) + 1
          /\ Len(Append(taskEventsBuffer, event)) = Len(taskEventsBuffer) + 1
      BY <1>1, ElementsOfAppend
    <3>3. CASE samples = Append(sampleBuffer, event) /\ mmaps = mmapBuffer
                 /\ tasks = taskEventsBuffer
      BY <1>2, <3>2, <3>3
    <3>4. CASE mmaps = Append(mmapBuffer, event) /\ samples = sampleBuffer
                 /\ tasks = taskEventsBuffer
      BY <1>2, <3>2, <3>4
    <3>5. CASE tasks = Append(taskEventsBuffer, event)
                 /\ samples = sampleBuffer /\ mmaps = mmapBuffer
      BY <1>2, <3>2, <3>5
    <3> QED
      BY <3>1, <3>3, <3>4, <3>5 DEF OneMore
  <2>4. /\ EventsOf(arrived)' = EventsOf(arrived) \cup {event}
        /\ Len(arrived)' = Len(arrived) + 1
    <3>1. arrived' = Append(arrived,
                       [event |-> event, bound |-> lastFlushMaxTime])
      BY <2>1 DEF Arrives
    <3>2. /\ EventsOf(arrived') = EventsOf(arrived) \cup {event}
          /\ Len(arrived') = Len(arrived) + 1
      BY <1>1, <3>1, EventsOfAppend, ElementsOfAppend
    <3> QED
      BY <3>2 DEF EventsOf, Elements
  <2>5. UNCHANGED <<registered, sent, analyzed>>
    BY <2>1 DEF Arrives
  <2>6. Held' = Held \cup {event}
    BY <1>13, <1>14, <2>2, <2>3, <2>5 DEF Held
  <2>7. NumberHeld' = NumberHeld + 1
    <3>1. PICK x \in Int, y \in Int, z \in Int :
            x = Len(sampleBuffer) /\ y = Len(mmapBuffer) /\ z = Len(taskEventsBuffer)
      BY ONLY <1>2
    <3>2. PICK i \in Int, j \in Int, k \in Int :
            i = Len(samples) /\ j = Len(mmaps) /\ k = Len(tasks)
      BY ONLY <2>3
    <3>3. PICK a \in Int, b \in Int, c \in Int :
            a = Len(registered) /\ b = Len(sent) /\ c = Len(analyzed)
      BY ONLY <1>2
    <3>4. NumberHeld = x + y + z + a + b + c
      BY ONLY <3>1, <3>3, Zenon DEF NumberHeld
    <3>5. NumberHeld' = i + j + k + a + b + c
      BY ONLY <2>2, <2>5, <3>2, <3>3, Zenon DEF NumberHeld
    <3>6. i + j + k = x + y + z + 1
      BY ONLY <2>3, <3>1, <3>2, Zenon
    <3>7. i + j + k + a + b + c = x + y + z + a + b + c + 1
      <4>1. PICK m \in Int : m = a + b + c
        BY ONLY a \in Int, b \in Int, c \in Int
      <4>2. /\ i + j + k + a + b + c = (i + j + k) + m
            /\ x + y + z + a + b + c + 1 = (x + y + z + 1) + m
        BY ONLY <4>1, a \in Int, b \in Int, c \in Int, i \in Int, j \in Int, k \in Int,
                x \in Int, y \in Int, z \in Int
      <4> QED
        BY ONLY <3>6, <4>2, Zenon
    <3> QED
      BY ONLY <3>4, <3>5, <3>7, Zenon
  <2> QED
    BY <1>3, <2>4, <2>6, <2>7
<1>7. CASE SortStep
  <2>1. /\ Elements(sampleBuffer)' = Elements(sampleBuffer)
        /\ Elements(mmapBuffer)' = Elements(mmapBuffer)
        /\ Elements(taskEventsBuffer)' = Elements(taskEventsBuffer)
        /\ Len(sampleBuffer)' = Len(sampleBuffer)
        /\ Len(mmapBuffer)' = Len(mmapBuffer)
        /\ Len(taskEventsBuffer)' = Len(taskEventsBuffer)
    BY <1>1, <1>5, <1>7 DEF SortStep
  <2>2. UNCHANGED <<arrived, registered, sent, analyzed>>
    BY <1>7 DEF SortStep
  <2> QED
    BY <1>3, <1>13, <1>14, <2>1, <2>2 DEF Held, NumberHeld
<1>8. CASE MmapStep
  <2>1. /\ mmapBuffer # <<>> /\ mmapBuffer' = Tail(mmapBuffer)
        /\ registered' = Append(registered, Head(mmapBuffer))
        /\ UNCHANGED <<sampleBuffer, taskEventsBuffer, arrived, sent, analyzed>>
    BY <1>8 DEF MmapStep, Buffers
  <2>2. /\ Elements(mmapBuffer) = {Head(mmapBuffer)} \cup Elements(mmapBuffer')
        /\ Elements(registered') = Elements(registered) \cup {Head(mmapBuffer)}
        /\ Len(mmapBuffer) = Len(mmapBuffer') + 1 /\ Len(mmapBuffer') \in Nat
        /\ Len(registered') = Len(registered) + 1
    BY <1>1, <2>1, ElementsOfTail, ElementsOfAppend
  <2>3. Held' = Held
    BY <1>14, <2>1, <2>2 DEF Held
  <2>4. NumberHeld' = NumberHeld
    BY <1>2, <2>1, <2>2 DEF NumberHeld
  <2> QED
    BY <1>3, <1>13, <2>1, <2>3, <2>4
<1>9. CASE TaskStep
  <2>1. PICK trailing \in BOOLEAN :
          sent' = Append(sent, [event |-> Head(taskEventsBuffer),
                                trailing |-> trailing])
    BY <1>9 DEF TaskStep
  <2>2. /\ taskEventsBuffer # <<>> /\ taskEventsBuffer' = Tail(taskEventsBuffer)
        /\ UNCHANGED <<sampleBuffer, mmapBuffer, arrived, registered, analyzed>>
    BY <1>9 DEF TaskStep, Buffers
  <2>3. /\ Elements(taskEventsBuffer)
             = {Head(taskEventsBuffer)} \cup Elements(taskEventsBuffer')
        /\ EventsOf(sent') = EventsOf(sent) \cup {Head(taskEventsBuffer)}
        /\ Len(taskEventsBuffer) = Len(taskEventsBuffer') + 1
        /\ Len(taskEventsBuffer') \in Nat
        /\ Len(sent') = Len(sent) + 1
    BY <1>1, <2>1, <2>2, ElementsOfTail, ElementsOfAppend, EventsOfAppend
  <2>4. Held' = Held
    BY <1>14, <2>2, <2>3 DEF Held
  <2>5. NumberHeld' = NumberHeld
    BY <1>2, <2>2, <2>3 DEF NumberHeld
  <2> QED
    BY <1>3, <1>13, <2>2, <2>4, <2>5
<1>10. CASE SampleStep
  <2>1. PICK a : a.event = Head(sampleBuffer) /\ analyzed' = Append(analyzed, a)
    BY <1>10 DEF SampleStep
  <2>2. /\ sampleBuffer # <<>> /\ sampleBuffer' = Tail(sampleBuffer)
        /\ UNCHANGED <<taskEventsBuffer, mmapBuffer, arrived, registered, sent>>
    BY <1>10 DEF SampleStep, Buffers
  <2>3. /\ Elements(sampleBuffer)
             = {Head(sampleBuffer)} \cup Elements(sampleBuffer')
        /\ EventsOf(analyzed') = EventsOf(analyzed) \cup {Head(sampleBuffer)}
        /\ Len(sampleBuffer) = Len(sampleBuffer') + 1
        /\ Len(sampleBuffer') \in Nat
        /\ Len(analyzed') = Len(analyzed) + 1
    BY <1>1, <2>1, <2>2, ElementsOfTail, ElementsOfAppend, EventsOfAppend
  <2>4. Held' = Held
    BY <1>14, <2>2, <2>3 DEF Held
  <2>5. NumberHeld' = NumberHeld
    BY <1>2, <2>2, <2>3 DEF NumberHeld
  <2> QED
    BY <1>3, <1>13, <2>2, <2>4, <2>5
<1>11. CASE OtherStep
  BY <1>3, <1>11, <1>13, <1>14 DEF OtherStep, Held, NumberHeld
<1> QED
  BY <1>6, <1>7, <1>8, <1>9, <1>10, <1>11, StepKinds

\* Whatever the order of arrival and the sizes of the flushes, every event that
\* arrived is in its buffer or was forwarded, and no iterator of
\* flushEventBuffer passes one over or comes to it twice.
THEOREM NothingIsLostOrRepeated == Spec => []NothingLostOrRepeated
<1>1. Init => TypeOK /\ SampleAtHand /\ NothingLostOrRepeated
  BY InitType DEF Init, NothingLostOrRepeated, Elements
<1>2. TypeOK /\ SampleAtHand /\ [Next]_vars => SampleAtHand'
  BY NextSampleAtHand DEF vars, buffers, SampleAtHand
<1> QED
  BY <1>1, <1>2, StepLosesNothing, TypeCorrect, PTL DEF Spec

-----------------------------------------------------------------------------
\* Only the steps of flushEventBuffer that send a task event add to what is sent.
LEMMA OnlyTaskEventsAreSent ==
  ASSUME [Next]_vars, ~FlushTaskEvent, ~TrailingTaskEvent
  PROVE  sent' = sent
<1>1. CASE UNCHANGED vars
  BY <1>1 DEF vars, outputs
<1>2. CASE \E r \in Records : ReadRecord(r)
  BY <1>2 DEF ReadRecord, sample, registerElf, comm, lost, fork, exit,
              contextSwitch, Read, outputs
<1>3. CASE \/ \E attr \in PipeAttributes : PipeAttribute(attr)
           \/ FeaturesEventDesc \/ FeaturesVersion \/ HeaderAttribute
           \/ finishedRound \/ Finalize \/ FinalFlush \/ Terminated
  BY <1>3 DEF PipeAttribute, FeaturesEventDesc, FeaturesVersion,
              HeaderAttribute, finishedRound, Finalize, FinalFlush, Terminated,
              vars, outputs
<1>4. CASE FlushStep
  BY <1>4 DEF FlushStep, SampleTooLate, SamplesCanWait, SampleInTime,
              NoMoreSamples, ForwardLateMmap, LeaveSamples, StepOverSamples,
              ForwardMmapBeforeFork, AnalyzeSample, ForwardMmapBeforeSample,
              EndFlush, ForwardMmap, outputs
<1> QED
  BY <1>1, <1>2, <1>3, <1>4 DEF Next, Internal

SentInherits == sent' # sent /\ ~Newest(sent').trailing =>
                  ChildInherits(Newest(sent'))

\* The task event that is sent is the newest one.
LEMMA SentIsNewest ==
  ASSUME TypeOK, NEW e, NEW trailing, sendTaskEvent(e, trailing)
  PROVE  Newest(sent') = [event |-> e, trailing |-> trailing]
BY DEF sendTaskEvent, TypeOK, Newest

\* A process start is sent when no mmap up to its time waits, and the tables are
\* copied with it.
LEMMA FlushedForkInherits ==
  ASSUME OrderInv, FlushTaskEvent
  PROVE  SentInherits
<1> DEFINE e == Head(taskEventsBuffer)
<1>1. /\ taskEventsBuffer \in Seq(TaskEvents) /\ taskEventsBuffer # <<>>
      /\ mmapBuffer \in Seq(Mmaps) /\ TypeOK
      /\ symbolTables \in [Pids -> Seq(Mmaps)]
  BY DEF FlushTaskEvent, TaskDue, OrderInv, TypeOK
<1>2. e \in TaskEvents /\ e.time \in Nat /\ e.pid \in Pids
  BY <1>1, EventsTimed DEF Timed, TaskEvents, Event
<1>3. Newest(sent') = [event |-> e, trailing |-> FALSE]
  BY <1>1, SentIsNewest DEF FlushTaskEvent
<1>4. ASSUME StartsProcess(e)
      PROVE  /\ symbolTables'[e.pid] = symbolTables'[e.payload]
             /\ \A i \in DOMAIN mmapBuffer' : mmapBuffer'[i].time > e.time
  <2>1. e.payload \in Pids /\ e.pid # e.payload
    BY <1>2, <1>4 DEF StartsProcess, TaskEvents
  <2>2. symbolTables' = [symbolTables EXCEPT ![e.pid] = symbolTables[e.payload]]
    BY <1>4 DEF FlushTaskEvent
  <2>3. symbolTables'[e.pid] = symbolTables'[e.payload]
    BY <1>1, <1>2, <2>1, <2>2
  <2>4. ~(mmapBuffer # <<>> /\ Head(mmapBuffer).time <= e.time)
    BY <1>4 DEF FlushTaskEvent, MmapDue
  <2>5. Sorted(mmapBuffer)
    BY DEF OrderInv, SortedWhileFlushing, FlushTaskEvent
  <2>6. \A i \in DOMAIN mmapBuffer : mmapBuffer[i].time > e.time
    BY <1>1, <1>2, <2>4, <2>5, EventsTimed, NothingDue
  <2> QED
    BY <2>3, <2>6 DEF FlushTaskEvent
<1> QED
  BY <1>3, <1>4 DEF SentInherits, ChildInherits

\* A child starts with its parent's mappings, those up to the fork included,
\* unless it is sent behind the last sample of a flush (flushEventBuffer,
\* PerfSymbolTable::initAfterFork).
THEOREM ChildrenInherit == Spec => ForkSnapshot
<1>1. OrderInv /\ [Next]_vars => [SentInherits]_vars
  <2> SUFFICES ASSUME OrderInv, [Next]_vars
               PROVE  SentInherits
    OBVIOUS
  <2>1. CASE FlushTaskEvent
    BY <2>1, FlushedForkInherits
  <2>2. CASE TrailingTaskEvent
    <3>1. TypeOK /\ sendTaskEvent(Head(taskEventsBuffer), TRUE)
      BY <2>2 DEF TrailingTaskEvent, OrderInv
    <3>2. Newest(sent') = [event |-> Head(taskEventsBuffer), trailing |-> TRUE]
      BY <3>1, SentIsNewest
    <3>3. Newest(sent').trailing = TRUE
      BY <3>2
    <3> QED
      BY <3>3, Zenon DEF SentInherits
  <2>3. CASE ~FlushTaskEvent /\ ~TrailingTaskEvent
    BY <2>3, OnlyTaskEventsAreSent DEF SentInherits
  <2> QED
    BY <2>1, <2>2, <2>3
<1>2. Spec => [][SentInherits]_vars
  BY <1>1, InitOrder, NextOrder, PTL DEF Spec
<1> QED
  BY <1>2 DEF ForkSnapshot, SentInherits

-----------------------------------------------------------------------------
(***************************************************************************)
(* With trace points the buffer stays in dynamic mode.  A way back to it   *)
(* is always kept: a target of 0 has a last target that is not 0, and what *)
(* a violation enlarges is not 0 either, before the last flush.            *)
(***************************************************************************)
BothOptions == setup.targetOption # 0 /\ setup.maxOption # 0

WayBackKept ==
  BothOptions /\ stage # "finalFlush" =>
    /\ limits.target # 0 \/ limits.last # 0
    /\ stage = "features" => limits.target # 0
    /\ stage = "finalizing" /\ flush.phase # "idle" => limits.target = 0
    /\ hasTracePointAttributes => limits.target # 0

\* An enlarged target is not 0 if there was something to enlarge.
LEMMA EnlargedNotZero ==
  ASSUME NEW lim \in Limits, NEW size \in 0 .. UIntMax, lim.max # 0,
         size # 0 \/ lim.last # 0
  PROVE  EnlargedTarget(lim, size) # 0
BY LimitsAssumption DEF Limits, EnlargedTarget, Smaller, Larger

\* An attribute keeps the way back (addAttributes).
LEMMA AddAttributesWayBack ==
  ASSUME LimitsInv, WayBackKept, NEW attr \in Attributes, addAttributes(attr),
         flush.phase = "idle", UNCHANGED <<setup, stage, flush>>,
         stage # "finalFlush"
  PROVE  WayBackKept'
<1>1. SUFFICES ASSUME BothOptions
               PROVE  /\ limits'.target # 0 \/ limits'.last # 0
                      /\ stage = "features" => limits'.target # 0
                      /\ hasTracePointAttributes' => limits'.target # 0
  BY DEF WayBackKept, BothOptions
<1>2. /\ limits.target # 0 \/ limits.last # 0
      /\ stage = "features" => limits.target # 0
      /\ hasTracePointAttributes => limits.target # 0
  BY <1>1 DEF WayBackKept
<1>3. CASE attr.tracepoint /\ limits.target = 0
  BY <1>2, <1>3 DEF addAttributes, RevertTarget, SetTarget
<1>4. CASE ~(attr.tracepoint /\ limits.target = 0)
  <2>1. limits' = limits
    BY <1>4 DEF addAttributes
  <2>2. attributes \in Seq(Attributes)
    BY DEF LimitsInv, TypeOK
  <2>3. attributes' = attributes \/ attributes' = Append(attributes, attr)
    BY DEF addAttributes, attrs
  <2>4. hasTracePointAttributes' => hasTracePointAttributes \/ attr.tracepoint
    BY <2>2, <2>3 DEF hasTracePointAttributes
  <2> QED
    BY <1>2, <1>4, <2>1, <2>4
<1> QED
  BY <1>3, <1>4

\* Every step before the last flush keeps the way back.
LEMMA NextWayBack ==
  ASSUME LimitsInv, WayBackKept, Next
  PROVE  WayBackKept'
<1>1. /\ limits \in Limits /\ limits.target \in 0 .. UIntMax
      /\ flush.sizeAtStart \in 0 .. UIntMax
  BY DEF LimitsInv, TypeOK, Limits
<1>2. ASSUME NEW attr \in Attributes, addAttributes(attr), flush.phase = "idle",
             UNCHANGED <<setup, stage, flush>>
      PROVE  WayBackKept'
  BY <1>2, AddAttributesWayBack DEF WayBackKept, BothOptions
<1>3. ASSUME UNCHANGED <<limits, setup, stage, attributes>>,
             stage = "finalizing" /\ flush'.phase # "idle" =>
               flush.phase # "idle" \/ limits.target = 0
      PROVE  WayBackKept'
  BY <1>3 DEF WayBackKept, BothOptions, hasTracePointAttributes
<1>4. CASE \E r \in Records : ReadRecord(r)
  <2>1. UNCHANGED <<limits, setup, stage, attributes>> /\ stage = "data"
    BY <1>4 DEF ReadRecord, sample, registerElf, comm, lost, fork, exit,
                contextSwitch, Read, Ready, attrs
  <2> QED
    BY <1>3, <2>1
<1>5. CASE FeaturesEventDesc \/ HeaderAttribute
  <2>1. /\ pending # <<>> /\ pending \in Seq(Attributes)
        /\ addAttributes(Head(pending)) /\ UNCHANGED <<setup, stage, flush>>
        /\ flush.phase = "idle"
    BY <1>5 DEF FeaturesEventDesc, HeaderAttribute, LimitsInv, HeaderFirst,
                TypeOK
  <2> QED
    BY <1>2, <2>1
<1>6. CASE \E attr \in PipeAttributes : PipeAttribute(attr)
  BY <1>2, <1>6, BufferAssumption DEF PipeAttribute, inputs, Ready, Idle
<1>7. CASE FeaturesVersion
  <2>1. /\ \/ limits' = limits
           \/ limits' = SetTarget(limits, 0) /\ ~hasTracePointAttributes
        /\ stage = "features" /\ stage' = "data"
        /\ UNCHANGED <<setup, attributes>>
    BY <1>7 DEF FeaturesVersion, attrs
  <2> QED
    BY <1>1, <2>1 DEF WayBackKept, BothOptions, SetTarget,
                      hasTracePointAttributes
<1>8. CASE finishedRound
  <2>1. /\ stage = "data" /\ UNCHANGED <<setup, stage, attributes>>
        /\ \/ limits' = limits
           \/ /\ limits' = SetTarget(limits, 0) /\ limits.target # 0
              /\ ~hasTracePointAttributes
    BY <1>8 DEF finishedRound, RoundFinished, attrs, Ready
  <2> QED
    BY <1>1, <2>1 DEF WayBackKept, BothOptions, SetTarget,
                      hasTracePointAttributes
<1>9. CASE Finalize
  <2>1. /\ stage = "data" /\ stage' = "finalizing"
        /\ UNCHANGED <<setup, attributes>>
        /\ \/ limits' = limits /\ limits.target = 0
           \/ /\ limits.target # 0 /\ flush' = flush /\ flush.phase = "idle"
              /\ \/ limits' = limits
                 \/ limits' = SetTarget(limits, 0) /\ ~hasTracePointAttributes
    BY <1>9 DEF Finalize, RoundFinished, attrs, Ready, Idle
  <2> QED
    BY <1>1, <2>1 DEF WayBackKept, BothOptions, SetTarget,
                      hasTracePointAttributes
<1>10. CASE FinalFlush
  BY <1>10 DEF FinalFlush, WayBackKept
<1>11. CASE FlushStep /\ ~EndFlush
  <2>1. UNCHANGED <<limits, setup, stage, attributes>> /\ flush.phase # "idle"
    BY <1>11 DEF FlushStep, SampleTooLate, SamplesCanWait, SampleInTime,
                 NoMoreSamples, ForwardLateMmap, LeaveSamples, StepOverSamples,
                 ForwardMmapBeforeFork, FlushTaskEvent, ForwardMmapBeforeSample,
                 AnalyzeSample, TrailingTaskEvent, ForwardMmap, inputs, attrs
  <2> QED
    BY <1>3, <2>1
<1>12. CASE EndFlush
  <2> DEFINE enlarged == EnlargedTarget(limits, flush.sizeAtStart)
  <2>1. /\ flush.phase # "idle" /\ flush'.phase = "idle"
        /\ UNCHANGED <<setup, stage, attributes>>
        /\ limits' = limits \/ limits' = SetTarget(limits, enlarged)
    BY <1>12 DEF EndFlush, inputs, attrs, LimitsInv, TypeOK
  <2>2. CASE limits' = limits
    BY <2>1, <2>2 DEF WayBackKept, BothOptions, hasTracePointAttributes
  <2>3. CASE limits' = SetTarget(limits, enlarged)
    <3>1. SUFFICES ASSUME BothOptions, stage # "finalFlush"
                   PROVE  enlarged # 0
      BY <2>1, <2>3 DEF WayBackKept, BothOptions, SetTarget
    <3>2. limits.max # 0
      BY <3>1 DEF LimitsInv, MaxKept, BothOptions
    <3>3. stage \in {"data", "finalizing"}
      BY <2>1, <3>1 DEF LimitsInv, TypeOK, HeaderFirst
    <3>4. limits.target = 0 => limits.last # 0
      BY <3>1 DEF WayBackKept
    <3>5. limits.target # 0 => flush.sizeAtStart # 0
      BY <1>1, <2>1, <3>1, <3>3
         DEF LimitsInv, FlushedForSize, WayBackKept
    <3> QED
      BY <1>1, <3>2, <3>4, <3>5, EnlargedNotZero
  <2> QED
    BY <2>1, <2>2, <2>3
<1>13. CASE Terminated
  BY <1>3, <1>13 DEF Terminated, vars, inputs, attrs
<1> QED
  BY <1>4, <1>5, <1>6, <1>7, <1>8, <1>9, <1>10, <1>11, <1>12, <1>13
     DEF Next, Internal

\* The options leave a way back to a buffer that is flushed by its size.
LEMMA InitWayBack ==
  ASSUME Init
  PROVE  WayBackKept
<1>1. PICK t \in TargetOptions, m \in MaxOptions :
        /\ limits = Configured(t, m)
        /\ setup.targetOption = Bytes(t) /\ setup.maxOption = Bytes(m)
  BY DEF Init
<1>2. BothOptions => limits.target # 0
  BY <1>1 DEF BothOptions, Configured, SetMax, SetTarget
<1>3. flush.phase = "idle"
  BY DEF Init
<1> QED
  BY <1>2, <1>3 DEF WayBackKept

\* With trace points and both options given, the buffer is in dynamic mode until
\* the last flush begins: neither a round, the version of perf nor a violation
\* sets the target to 0 (addAttributes, finishedRound, features,
\* flushEventBuffer).
THEOREM TracePointsAlwaysDynamic ==
  Spec => [](stage # "finalFlush" => TracePointsBufferDynamically)
<1>1. WayBackKept => (stage # "finalFlush" => TracePointsBufferDynamically)
  BY DEF WayBackKept, BothOptions, TracePointsBufferDynamically
<1>2. LimitsInv /\ WayBackKept /\ [Next]_vars => WayBackKept'
  <2>1. ASSUME WayBackKept, UNCHANGED vars
        PROVE  WayBackKept'
    BY <2>1 DEF vars, inputs, attrs, WayBackKept, BothOptions,
                hasTracePointAttributes
  <2> QED
    BY <2>1, NextWayBack
<1> QED
  BY <1>1, <1>2, InitLimits, InitWayBack, LimitsInductive, PTL DEF Spec

-----------------------------------------------------------------------------
\* What the sizes of a buffer need: every event has one.
Sized(S) == \A e \in S : e.size \in Nat

BytesAt(s, i) == {i} \X (1 .. s[i].size)

\* An event at some position of a buffer has as many bytes as its size.
LEMMA BytesAtCount ==
  ASSUME NEW s, NEW i, s[i].size \in Nat
  PROVE  IsFiniteSet(BytesAt(s, i)) /\ Cardinality(BytesAt(s, i)) = s[i].size
<1> DEFINE n == s[i].size
           I == 1 .. n
<1> n \in Nat
  OBVIOUS
<1> HIDE DEF n
<1>1. IsFiniteSet(I) /\ Cardinality(I) = n
  <2>1. Cardinality(I) = IF 1 > n THEN 0 ELSE n - 1 + 1
    BY FS_Interval
  <2>2. Cardinality(I) = n
    BY <2>1
  <2> QED
    BY <2>2, FS_Interval
<1>2. IsFiniteSet({i}) /\ Cardinality({i}) = 1
  BY FS_Singleton
<1> HIDE DEF I
<1>3. IsFiniteSet({i} \X I) /\ Cardinality({i} \X I) = 1 * n
  BY <1>1, <1>2, FS_Product
<1> QED
  BY <1>3 DEF BytesAt, I, n

\* A buffer has a finite number of bytes.
LEMMA BytesFinite ==
  ASSUME NEW S, Sized(S), NEW s \in Seq(S)
  PROVE  /\ IsFiniteSet(BytesOf(s))
         /\ SizeOf(s) \in Nat
<1> DEFINE D == DOMAIN s
           F == {BytesAt(s, i) : i \in D}
           f == [i \in D |-> BytesAt(s, i)]
<1>1. D = 1 .. Len(s) /\ Len(s) \in Nat
  OBVIOUS
<1>2. IsFiniteSet(D)
  BY <1>1, FS_Interval
<1>3. f \in [D -> F]
  OBVIOUS
<1>3a. \A T \in F : \E i \in D : f[i] = T
  OBVIOUS
<1>3b. f \in Surjection(D, F)
  BY <1>3, <1>3a DEF Surjection
<1>4. IsFiniteSet(F)
  BY <1>2, <1>3b, FS_Surjection
<1>5. \A T \in F : IsFiniteSet(T)
  BY BytesAtCount DEF Sized
<1>6. IsFiniteSet(UNION F)
  BY <1>4, <1>5, FS_UNION
<1>7. BytesOf(s) = UNION F
  BY DEF BytesOf, BytesAt
<1> QED
  BY <1>6, <1>7, FS_CardinalityType DEF SizeOf

\* Two buffers with as many bytes at corresponding places have the same size.
LEMMA SameBytes ==
  ASSUME NEW A, NEW B, IsFiniteSet(A), NEW f \in [A -> B],
         \A x, y \in A : f[x] = f[y] => x = y,
         \A z \in B : \E x \in A : f[x] = z
  PROVE  Cardinality(B) = Cardinality(A)
<1>1. f \in Injection(A, B)
  BY Zenon DEF Injection, IsInjective
<1>2. f \in Surjection(A, B)
  BY Zenon DEF Surjection
<1> QED
  BY <1>1, <1>2, FS_Surjection

\* Where a byte of a buffer is.
LEMMA InBytes ==
  ASSUME NEW s, NEW b
  PROVE  b \in BytesOf(s) <=>
           \E i \in DOMAIN s, k \in Int :
             k \in 1 .. s[i].size /\ b = <<i, k>>
BY DEF BytesOf

\* An event adds its size.
LEMMA SizeOfAppend ==
  ASSUME NEW S, Sized(S), NEW s \in Seq(S), NEW e \in S
  PROVE  SizeOf(Append(s, e)) = SizeOf(s) + e.size
<1> DEFINE t == Append(s, e)
           n == Len(s) + 1
<1>1. /\ DOMAIN s = 1 .. Len(s) /\ Len(s) \in Nat
      /\ DOMAIN t = 1 .. n /\ t[n] = e
      /\ \A i \in 1 .. Len(s) : t[i] = s[i]
  OBVIOUS
<1> HIDE DEF t
<1>2. BytesOf(t) = BytesOf(s) \cup BytesAt(t, n)
  <2>1. ASSUME NEW b \in BytesOf(t)
        PROVE  b \in BytesOf(s) \cup BytesAt(t, n)
    <3>1. PICK i \in DOMAIN t, k \in Int :
            k \in 1 .. t[i].size /\ b = <<i, k>>
      BY InBytes
    <3>2. CASE i = n
      BY <3>1, <3>2 DEF BytesAt
    <3>3. CASE i # n
      <4>1. i \in DOMAIN s /\ t[i] = s[i]
        BY <1>1, <3>3
      <4> QED
        BY <3>1, <4>1, InBytes
    <3> QED
      BY <3>2, <3>3
  <2>2. ASSUME NEW b \in BytesOf(s)
        PROVE  b \in BytesOf(t)
    <3>1. PICK i \in DOMAIN s, k \in Int :
            k \in 1 .. s[i].size /\ b = <<i, k>>
      BY InBytes
    <3>2. i \in DOMAIN t /\ t[i] = s[i]
      BY <1>1
    <3> QED
      BY <3>1, <3>2, InBytes
  <2>3. ASSUME NEW b \in BytesAt(t, n)
        PROVE  b \in BytesOf(t)
    <3>1. n \in DOMAIN t
      BY <1>1
    <3> QED
      BY <3>1 DEF BytesOf, BytesAt
  <2> QED
    BY <2>1, <2>2, <2>3
<1>3. BytesOf(s) \cap BytesAt(t, n) = {}
  <2> SUFFICES ASSUME NEW b \in BytesOf(s), b \in BytesAt(t, n)
               PROVE  FALSE
    OBVIOUS
  <2>1. PICK i \in DOMAIN s, k \in Int :
            k \in 1 .. s[i].size /\ b = <<i, k>>
    BY InBytes
  <2>2. b[1] = n
    BY DEF BytesAt
  <2> QED
    BY <1>1, <2>1, <2>2
<1>4. e.size \in Nat
  BY DEF Sized
<1>5. IsFiniteSet(BytesAt(t, n)) /\ Cardinality(BytesAt(t, n)) = e.size
  BY <1>1, <1>4, BytesAtCount
<1>6. IsFiniteSet(BytesOf(s)) /\ Cardinality(BytesOf(s)) \in Nat
  BY BytesFinite DEF SizeOf
<1>7. Cardinality(BytesOf(t)) = Cardinality(BytesOf(s)) + e.size - 0
  BY <1>2, <1>3, <1>5, <1>6, FS_Union, FS_EmptySet
<1> QED
  BY <1>4, <1>6, <1>7 DEF SizeOf, t

\* The size of a buffer is that of its head and of what is behind it.
LEMMA SizeOfTail ==
  ASSUME NEW S, Sized(S), NEW s \in Seq(S), s # <<>>
  PROVE  SizeOf(s) = Head(s).size + SizeOf(Tail(s))
<1> DEFINE t == Tail(s)
           R == BytesOf(s) \ BytesAt(s, 1)
           f == [b \in BytesOf(t) |-> <<b[1] + 1, b[2]>>]
<1>1. /\ DOMAIN s = 1 .. Len(s) /\ Len(s) \in Nat \ {0}
      /\ DOMAIN t = 1 .. Len(s) - 1 /\ Head(s) = s[1]
      /\ \A i \in 1 .. Len(s) - 1 : t[i] = s[i + 1]
      /\ t \in Seq(S) /\ s[1] \in S
  OBVIOUS
<1> HIDE DEF t
<1>2. BytesAt(s, 1) \subseteq BytesOf(s)
  BY <1>1 DEF BytesOf, BytesAt
<1>3. IsFiniteSet(BytesOf(s)) /\ IsFiniteSet(BytesOf(t))
  BY <1>1, BytesFinite
<1>4. /\ s[1].size \in Nat /\ Cardinality(BytesAt(s, 1)) = s[1].size
  BY <1>1, BytesAtCount DEF Sized
<1>5. BytesOf(s) \cap BytesAt(s, 1) = BytesAt(s, 1)
  BY <1>2
<1>6. Cardinality(R) = Cardinality(BytesOf(s)) - s[1].size
  <2>1. Cardinality(BytesOf(s) \ BytesAt(s, 1)) =
          Cardinality(BytesOf(s)) - Cardinality(BytesOf(s) \cap BytesAt(s, 1))
    BY <1>3, FS_Difference
  <2> QED
    BY <1>4, <1>5, <2>1
<1>7. ASSUME NEW b \in BytesOf(t)
      PROVE  f[b] \in R
  <2>1. PICK i \in DOMAIN t, k \in Int :
            k \in 1 .. t[i].size /\ b = <<i, k>>
    BY InBytes
  <2>2. f[b] = <<i + 1, k>> /\ i + 1 \in DOMAIN s /\ k \in 1 .. s[i + 1].size
    BY <1>1, <2>1
  <2>3. f[b] \in BytesOf(s)
    BY <2>2, InBytes
  <2>4. i + 1 # 1
    BY <1>1
  <2>5. f[b] \notin BytesAt(s, 1)
    BY <2>2, <2>4 DEF BytesAt
  <2> QED
    BY <2>3, <2>5
<1>8. f \in [BytesOf(t) -> R]
  BY <1>7
<1>9. ASSUME NEW a \in BytesOf(t), NEW b \in BytesOf(t), f[a] = f[b]
      PROVE  a = b
  <2>1. PICK i \in DOMAIN t, k \in Int :
            k \in 1 .. t[i].size /\ a = <<i, k>>
    BY InBytes
  <2>2. PICK j \in DOMAIN t, l \in Int :
            l \in 1 .. t[j].size /\ b = <<j, l>>
    BY InBytes
  <2>3. <<i + 1, k>> = <<j + 1, l>>
    BY <1>9, <2>1, <2>2
  <2>4. i + 1 = j + 1 /\ k = l
    BY <2>3
  <2>5. i \in Int /\ j \in Int
    BY <1>1
  <2> QED
    BY <2>1, <2>2, <2>4, <2>5
<1>10. ASSUME NEW c \in R
       PROVE  \E b \in BytesOf(t) : f[b] = c
  <2>1. PICK i \in DOMAIN s, k \in Int :
            k \in 1 .. s[i].size /\ c = <<i, k>>
    BY InBytes
  <2>2. i # 1
    BY <2>1 DEF BytesAt
  <2>3. i - 1 \in DOMAIN t /\ t[i - 1] = s[i] /\ (i - 1) + 1 = i
    BY <1>1, <2>2
  <2>4. <<i - 1, k>> \in BytesOf(t)
    BY <2>1, <2>3, InBytes
  <2>5. f[<<i - 1, k>>] = c
    BY <2>1, <2>3, <2>4
  <2> QED
    BY <2>4, <2>5
<1>11. Cardinality(R) = Cardinality(BytesOf(t))
  <2> HIDE DEF f, R
  <2> QED
    BY <1>3, <1>8, <1>9, <1>10, SameBytes
<1>12. Cardinality(BytesOf(s)) \in Nat
  BY <1>3, FS_CardinalityType
<1> QED
  BY <1>1, <1>4, <1>6, <1>11, <1>12 DEF SizeOf, t

\* Sorting does not change the size.
LEMMA SizeOfSort ==
  ASSUME NEW S, Sized(S), Timed(S), NEW s \in Seq(S)
  PROVE  SizeOf(SortByTime(s)) = SizeOf(s)
<1> DEFINE t == SortByTime(s)
           f == [b \in BytesOf(t) |-> <<From(s, b[1]), b[2]>>]
<1>1. /\ DOMAIN s = 1 .. Len(s) /\ DOMAIN t = 1 .. Len(s)
      /\ t \in Seq(S)
      /\ \A k \in 1 .. Len(s) : /\ From(s, k) \in 1 .. Len(s)
                                /\ Rank(s, From(s, k)) = k
                                /\ t[k] = s[From(s, k)]
  BY SortIsSequence DEF SortByTime
<1>2. ASSUME NEW i \in 1 .. Len(s)
      PROVE  Rank(s, i) \in 1 .. Len(s) /\ From(s, Rank(s, i)) = i
  <2>1. Rank(s, i) \in 1 .. Len(s)
    BY <1>1, BehindFinite
  <2>2. Rank(s, From(s, Rank(s, i))) = Rank(s, i)
    BY <1>1, <2>1
  <2> QED
    BY <1>1, <2>1, <2>2, RankInjective
<1> HIDE DEF t
<1>3. IsFiniteSet(BytesOf(t))
  BY <1>1, BytesFinite
<1>4. ASSUME NEW b \in BytesOf(t)
      PROVE  f[b] \in BytesOf(s)
  <2>1. PICK i \in DOMAIN t, k \in Int :
            k \in 1 .. t[i].size /\ b = <<i, k>>
    BY InBytes
  <2>2. f[b] = <<From(s, i), k>> /\ k \in 1 .. s[From(s, i)].size
    BY <1>1, <2>1
  <2> QED
    BY <1>1, <2>2, InBytes
<1>5. ASSUME NEW a \in BytesOf(t), NEW b \in BytesOf(t), f[a] = f[b]
      PROVE  a = b
  <2>1. PICK i \in DOMAIN t, k \in Int :
            k \in 1 .. t[i].size /\ a = <<i, k>>
    BY InBytes
  <2>2. PICK j \in DOMAIN t, l \in Int :
            l \in 1 .. t[j].size /\ b = <<j, l>>
    BY InBytes
  <2>3. <<From(s, i), k>> = <<From(s, j), l>>
    BY <1>5, <2>1, <2>2
  <2>4. From(s, i) = From(s, j) /\ k = l
    BY <2>3
  <2>5. i = j
    BY <1>1, <2>4
  <2> QED
    BY <2>1, <2>2, <2>4, <2>5
<1>6. ASSUME NEW c \in BytesOf(s)
      PROVE  \E b \in BytesOf(t) : f[b] = c
  <2>1. PICK i \in DOMAIN s, k \in Int :
            k \in 1 .. s[i].size /\ c = <<i, k>>
    BY InBytes
  <2>2. PICK j \in 1 .. Len(s) : From(s, j) = i
    BY <1>1, <1>2
  <2>3. t[j] = s[i]
    BY <1>1, <2>2
  <2>4. <<j, k>> \in BytesOf(t)
    BY <1>1, <2>1, <2>3, InBytes
  <2>5. f[<<j, k>>] = c
    BY <2>1, <2>2, <2>4
  <2> QED
    BY <2>4, <2>5
<1>7. f \in [BytesOf(t) -> BytesOf(s)]
  BY <1>4
<1>8. Cardinality(BytesOf(s)) = Cardinality(BytesOf(t))
  <2> HIDE DEF f
  <2> QED
    BY <1>3, <1>5, <1>6, <1>7, SameBytes
<1> QED
  BY <1>8 DEF SizeOf, t

-----------------------------------------------------------------------------
LEMMA DivMod ==
  ASSUME NEW x \in Int, NEW m \in Nat \ {0}
  PROVE  /\ x \div m \in Int /\ x % m \in 0 .. m - 1
         /\ x = m * (x \div m) + (x % m)
<1>1. x % m \in 0 .. m - 1
  BY Z3
<1>2. x \div m \in Int
  BY Z3
<1>3. x % m = x - m * (x \div m)
  BY SMT
<1>4. m * (x \div m) \in Int
  BY <1>2
<1> QED
  BY <1>1, <1>2, <1>3, <1>4

\* Division with a remainder is unique: what identifies the value of a uint.
LEMMA ModUnique ==
  ASSUME NEW m \in Nat \ {0}, NEW q \in Int, NEW r \in 0 .. m - 1
  PROVE  (m * q + r) % m = r
<1> DEFINE x == m * q + r
           p == x \div m
           s == x % m
<1>1. m * q \in Int
  OBVIOUS
<1>2. x \in Int
  BY <1>1
<1>3. p \in Int /\ s \in 0 .. m - 1 /\ x = m * p + s
  BY <1>2, DivMod
<1> HIDE DEF p, s
<1>4. CASE p >= q + 1
  <2>1. m * p >= m * q + m
    BY <1>3, <1>4, Z3
  <2> QED
    BY <1>1, <1>3, <2>1
<1>5. CASE q >= p + 1
  <2>1. m * q >= m * p + m
    BY <1>3, <1>5, Z3
  <2> QED
    BY <1>1, <1>3, <2>1
<1>6. CASE p = q
  BY <1>1, <1>3, <1>6
<1> QED
  BY <1>3, <1>4, <1>5, <1>6 DEF s

\* The value of a uint does not depend on where the sum wraps around.
LEMMA ModAdd ==
  ASSUME NEW m \in Nat \ {0}, NEW a \in Int, NEW b \in Int
  PROVE  ((a % m) + b) % m = (a + b) % m
<1> DEFINE c == (a % m) + b
           q == a \div m
           p == c \div m
           r == c % m
<1>1. q \in Int /\ a % m \in 0 .. m - 1 /\ a = m * q + (a % m)
  BY DivMod
<1>2. c \in Int
  BY <1>1
<1>3. p \in Int /\ r \in 0 .. m - 1 /\ c = m * p + r
  BY <1>2, DivMod
<1>4. m * q \in Int /\ m * p \in Int
  BY <1>1, <1>3
<1>5. a + b = m * q + m * p + r
  BY <1>1, <1>3, <1>4
<1>6. m * q + m * p = m * (q + p)
  BY <1>1, <1>3, Z3
<1>7. q + p \in Int
  BY <1>1, <1>3
<1>8. (m * (q + p) + r) % m = r
  BY <1>3, <1>7, ModUnique
<1> QED
  BY <1>5, <1>6, <1>8

\* Adding to a uint wraps like adding once.
LEMMA UIntAdd ==
  ASSUME NEW a \in Int, NEW b \in Int
  PROVE  UInt(UInt(a) + b) = UInt(a + b)
<1>1. UIntMax + 1 \in Nat \ {0}
  BY LimitsAssumption
<1>2. ((a % (UIntMax + 1)) + b) % (UIntMax + 1) = (a + b) % (UIntMax + 1)
  BY <1>1, ModAdd
<1> QED
  BY <1>2 DEF UInt

\* m_eventBufferSize -= size, on a uint.
LEMMA UIntSubtract ==
  ASSUME NEW a \in Int, NEW b \in Int, NEW n \in Nat, b + n = a
  PROVE  UInt(UInt(a) - n) = UInt(b)
<1> DEFINE m == 0 - n
<1>1. m \in Int /\ a + m = b
  OBVIOUS
<1>2. UInt(a) \in Int
  BY UIntType, LimitsAssumption
<1>3. UInt(a) - n = UInt(a) + m
  BY <1>2
<1> HIDE DEF m
<1>4. UInt(UInt(a) + m) = UInt(a + m)
  BY <1>1, UIntAdd
<1> QED
  BY ONLY <1>1, <1>3, <1>4, Zenon

\* Every event has the size of at least a header.
LEMMA EventsSized ==
  /\ Sized(Samples) /\ Sized(Mmaps) /\ Sized(TaskEvents)
  /\ \A e \in Samples \cup Mmaps \cup TaskEvents : e.size > 0
BY DEF Sized, Samples, Mmaps, TaskEvents, Event

\* Whatever is buffered or forwarded, m_eventBufferSize changes by its size.
LEMMA StepKeepsSize ==
  ASSUME TypeOK, SampleAtHand, SizeAccounting, [Next]_vars
  PROVE  SizeAccounting'
<1>1. /\ sampleBuffer \in Seq(Samples) /\ mmapBuffer \in Seq(Mmaps)
      /\ taskEventsBuffer \in Seq(TaskEvents)
  BY DEF TypeOK
<1>2. /\ SizeOf(sampleBuffer) \in Nat /\ SizeOf(mmapBuffer) \in Nat
      /\ SizeOf(taskEventsBuffer) \in Nat
  BY <1>1, EventsSized, BytesFinite
<1>3. BufferedSize \in Int
  BY <1>2 DEF BufferedSize
<1>4. BufferedSize' = SizeOf(sampleBuffer') + SizeOf(mmapBuffer')
                        + SizeOf(taskEventsBuffer')
  BY Zenon DEF BufferedSize, SizeOf, BytesOf
<1>14. BufferedSize = SizeOf(sampleBuffer) + SizeOf(mmapBuffer)
                        + SizeOf(taskEventsBuffer)
  BY DEF BufferedSize
<1>5. SUFFICES eventBufferSize' = UInt(BufferedSize')
  BY DEF SizeAccounting, UInt
<1>6. ASSUME NEW n \in Int, eventBufferSize' = UInt(eventBufferSize + n),
             BufferedSize' = BufferedSize + n
      PROVE  eventBufferSize' = UInt(BufferedSize')
  BY <1>3, <1>6, UIntAdd DEF SizeAccounting
<1>7. ASSUME NEW n \in Nat, eventBufferSize' = UInt(eventBufferSize - n),
             BufferedSize' + n = BufferedSize, BufferedSize' \in Int
      PROVE  eventBufferSize' = UInt(BufferedSize')
  BY <1>3, <1>7, UIntSubtract DEF SizeAccounting
<1>8. CASE ArrivalStep
  <2>1. PICK r \in Records, event \in Events, samples \in Seq(Samples),
             mmaps \in Seq(Mmaps), tasks \in Seq(TaskEvents) :
          Arrives(r, event, samples, mmaps, tasks)
    BY <1>8 DEF ArrivalStep
  <2>2. BufferedSize' = SizeOf(samples) + SizeOf(mmaps) + SizeOf(tasks)
    <3>1. /\ SizeOf(SortByTime(samples)) = SizeOf(samples)
          /\ SizeOf(SortByTime(mmaps)) = SizeOf(mmaps)
          /\ SizeOf(SortByTime(tasks)) = SizeOf(tasks)
      BY EventsTimed, EventsSized, SizeOfSort
    <3>2. CASE Buffers(samples, mmaps, tasks)
      BY <1>4, <3>2 DEF Buffers
    <3>3. CASE Buffers(SortByTime(samples), SortByTime(mmaps),
                       SortByTime(tasks))
      BY <1>4, <3>1, <3>3 DEF Buffers
    <3> QED
      BY <2>1, <3>2, <3>3 DEF Arrives
  <2>3. SizeOf(samples) + SizeOf(mmaps) + SizeOf(tasks)
          = BufferedSize + event.size
    <3>1. OneMore(event, samples, mmaps, tasks)
      BY <2>1 DEF Arrives
    <3>2. /\ event \in Samples =>
               SizeOf(Append(sampleBuffer, event))
                 = SizeOf(sampleBuffer) + event.size
          /\ event \in Mmaps =>
               SizeOf(Append(mmapBuffer, event))
                 = SizeOf(mmapBuffer) + event.size
          /\ event \in TaskEvents =>
               SizeOf(Append(taskEventsBuffer, event))
                 = SizeOf(taskEventsBuffer) + event.size
      BY <1>1, EventsSized, SizeOfAppend
    <3>3. event.size \in Nat
      BY EventsTimed
    <3>4. CASE event \in Samples /\ samples = Append(sampleBuffer, event)
                 /\ mmaps = mmapBuffer /\ tasks = taskEventsBuffer
      BY <1>2, <1>14, <3>2, <3>3, <3>4
    <3>5. CASE event \in Mmaps /\ mmaps = Append(mmapBuffer, event)
                 /\ samples = sampleBuffer /\ tasks = taskEventsBuffer
      BY <1>2, <1>14, <3>2, <3>3, <3>5
    <3>6. CASE event \in TaskEvents
                 /\ tasks = Append(taskEventsBuffer, event)
                 /\ samples = sampleBuffer /\ mmaps = mmapBuffer
      BY <1>2, <1>14, <3>2, <3>3, <3>6
    <3> QED
      BY <3>1, <3>4, <3>5, <3>6 DEF OneMore
  <2>4. /\ eventBufferSize' = UInt(eventBufferSize + event.size)
        /\ event.size \in Int
    BY <2>1, EventsTimed DEF Arrives
  <2> QED
    BY <1>6, <2>2, <2>3, <2>4
<1>9. CASE SortStep
  <2>1. /\ SizeOf(SortByTime(sampleBuffer)) = SizeOf(sampleBuffer)
        /\ SizeOf(SortByTime(mmapBuffer)) = SizeOf(mmapBuffer)
        /\ SizeOf(SortByTime(taskEventsBuffer)) = SizeOf(taskEventsBuffer)
    BY <1>1, EventsTimed, EventsSized, SizeOfSort
  <2>2. BufferedSize' = BufferedSize /\ eventBufferSize' = eventBufferSize
    BY <1>4, <1>9, <2>1 DEF SortStep, Buffers, BufferedSize
  <2> QED
    BY <2>2 DEF SizeAccounting
<1>10. CASE MmapStep
  <2>1. /\ mmapBuffer # <<>> /\ mmapBuffer' = Tail(mmapBuffer)
        /\ UNCHANGED <<sampleBuffer, taskEventsBuffer>>
        /\ eventBufferSize' = UInt(eventBufferSize - Head(mmapBuffer).size)
    BY <1>10 DEF MmapStep, Buffers
  <2>2. /\ SizeOf(mmapBuffer) = Head(mmapBuffer).size + SizeOf(mmapBuffer')
        /\ SizeOf(mmapBuffer') \in Nat /\ Head(mmapBuffer).size \in Nat
    <3>1. Tail(mmapBuffer) \in Seq(Mmaps) /\ Head(mmapBuffer) \in Mmaps
      BY <1>1, <2>1
    <3> QED
      BY <1>1, <2>1, <3>1, EventsSized, SizeOfTail, BytesFinite DEF Sized
  <2>3. /\ BufferedSize' + Head(mmapBuffer).size = BufferedSize
        /\ BufferedSize' \in Int
    <3>1. PICK x \in Int, y \in Int, z \in Int, n \in Int :
            /\ x = SizeOf(sampleBuffer) /\ y = SizeOf(taskEventsBuffer)
            /\ z = SizeOf(mmapBuffer') /\ n = Head(mmapBuffer).size
      BY ONLY <1>2, <2>2
    <3>2. BufferedSize = x + (n + z) + y /\ BufferedSize' = x + z + y
      BY ONLY <1>4, <1>14, <2>1, <2>2, <3>1, Zenon
    <3> QED
      BY ONLY <3>1, <3>2
  <2> QED
    BY <1>7, <2>1, <2>2, <2>3
<1>11. CASE TaskStep
  <2> DEFINE e == Head(taskEventsBuffer)
  <2>1. /\ taskEventsBuffer # <<>> /\ taskEventsBuffer' = Tail(taskEventsBuffer)
        /\ UNCHANGED <<sampleBuffer, mmapBuffer>>
        /\ eventBufferSize' = UInt(eventBufferSize - e.size)
    BY <1>11 DEF TaskStep, Buffers
  <2>2. /\ SizeOf(taskEventsBuffer) = e.size + SizeOf(taskEventsBuffer')
        /\ SizeOf(taskEventsBuffer') \in Nat /\ e.size \in Nat
    <3>1. Tail(taskEventsBuffer) \in Seq(TaskEvents) /\ e \in TaskEvents
      BY <1>1, <2>1
    <3> QED
      BY <1>1, <2>1, <3>1, EventsSized, SizeOfTail, BytesFinite DEF Sized
  <2>3. BufferedSize' + e.size = BufferedSize /\ BufferedSize' \in Int
    <3>1. PICK x \in Int, y \in Int, z \in Int, n \in Int :
            /\ x = SizeOf(sampleBuffer) /\ y = SizeOf(mmapBuffer)
            /\ z = SizeOf(taskEventsBuffer') /\ n = e.size
      BY ONLY <1>2, <2>2
    <3>2. BufferedSize = x + y + (n + z) /\ BufferedSize' = x + y + z
      BY ONLY <1>4, <1>14, <2>1, <2>2, <3>1, Zenon
    <3> QED
      BY ONLY <3>1, <3>2
  <2> QED
    BY <1>7, <2>1, <2>2, <2>3
<1>12. CASE SampleStep
  <2> DEFINE s == Head(sampleBuffer)
  <2>1. /\ sampleBuffer # <<>> /\ sampleBuffer' = Tail(sampleBuffer)
        /\ UNCHANGED <<taskEventsBuffer, mmapBuffer>>
        /\ eventBufferSize' = UInt(eventBufferSize - s.size)
    BY <1>12 DEF SampleStep, Buffers
  <2>2. /\ SizeOf(sampleBuffer) = s.size + SizeOf(sampleBuffer')
        /\ SizeOf(sampleBuffer') \in Nat /\ s.size \in Nat
    <3>1. Tail(sampleBuffer) \in Seq(Samples) /\ s \in Samples
      BY <1>1, <2>1
    <3> QED
      BY <1>1, <2>1, <3>1, EventsSized, SizeOfTail, BytesFinite DEF Sized
  <2>3. BufferedSize' + s.size = BufferedSize /\ BufferedSize' \in Int
    <3>1. PICK x \in Int, y \in Int, z \in Int, n \in Int :
            /\ x = SizeOf(mmapBuffer) /\ y = SizeOf(taskEventsBuffer)
            /\ z = SizeOf(sampleBuffer') /\ n = s.size
      BY ONLY <1>2, <2>2
    <3>2. BufferedSize = (n + z) + x + y /\ BufferedSize' = z + x + y
      BY ONLY <1>4, <1>14, <2>1, <2>2, <3>1, Zenon
    <3> QED
      BY ONLY <3>1, <3>2
  <2> QED
    BY <1>7, <2>1, <2>2, <2>3
<1>13. CASE OtherStep
  <2>1. BufferedSize' = BufferedSize /\ eventBufferSize' = eventBufferSize
    BY <1>4, <1>13 DEF OtherStep, BufferedSize
  <2> QED
    BY <2>1 DEF SizeAccounting
<1> QED
  BY <1>8, <1>9, <1>10, <1>11, <1>12, <1>13, StepKinds

\* Nothing is buffered in the beginning.
LEMMA InitSize ==
  ASSUME Init
  PROVE  SizeAccounting
<1>1. /\ sampleBuffer = <<>> /\ mmapBuffer = <<>> /\ taskEventsBuffer = <<>>
      /\ eventBufferSize = 0
  BY DEF Init
<1>2. BytesOf(<<>>) = {}
  BY DEF BytesOf
<1>3. SizeOf(<<>>) = 0
  BY <1>2, FS_EmptySet DEF SizeOf
<1>4. UInt(0) = 0
  <2>1. UIntMax + 1 \in Nat \ {0}
    BY LimitsAssumption
  <2>2. ((UIntMax + 1) * 0 + 0) % (UIntMax + 1) = 0
    BY <2>1, ModUnique
  <2> QED
    BY <2>1, <2>2 DEF UInt
<1> QED
  BY <1>1, <1>3, <1>4 DEF SizeAccounting, BufferedSize

\* m_eventBufferSize always is the size of what is buffered, modulo the width of
\* a uint: what bufferEvent adds the loops of flushEventBuffer take away, each
\* once.
THEOREM SizeIsAccounted == Spec => []SizeAccounting
<1>1. Init => TypeOK /\ SampleAtHand /\ SizeAccounting
  BY InitType, InitSize
<1>2. TypeOK /\ SampleAtHand /\ [Next]_vars => SampleAtHand'
  BY NextSampleAtHand DEF vars, buffers, SampleAtHand
<1> QED
  BY <1>1, <1>2, StepKeepsSize, TypeCorrect, PTL DEF Spec

-----------------------------------------------------------------------------
(***************************************************************************)
(* The last flush, which goes down to a size of 0: what it leaves behind   *)
(* has no size, or waits behind a violation.                               *)
(***************************************************************************)
LeavesNoSize ==
  stage = "finalFlush" =>
    /\ flush.desired = 0
    /\ flush.phase = "break" => flush.violates
    /\ /\ flush.phase \in {"tail", "idle"} /\ ~flush.violates
       /\ sampleBuffer # <<>>
       => eventBufferSize = 0
    /\ flush.phase = "idle" /\ taskEventsBuffer # <<>> => eventBufferSize = 0

\* The steps of the last flush leave no size behind.
LEMMA FlushStepLeavesNoSize ==
  ASSUME TypeOK, LeavesNoSize, FlushStep, stage = "finalFlush"
  PROVE  LeavesNoSize'
<1>1. /\ flush.desired = 0 /\ eventBufferSize \in Nat
      /\ flush \in [phase : Phases, desired : 0 .. UIntMax,
                    violates : BOOLEAN, sizeAtStart : 0 .. UIntMax]
      /\ flush.phase = "break" => flush.violates
      /\ /\ flush.phase = "tail" /\ ~flush.violates /\ sampleBuffer # <<>>
         => eventBufferSize = 0
  BY LimitsAssumption DEF LeavesNoSize, TypeOK
<1>2. CASE SampleTooLate
  BY <1>1, <1>2 DEF SampleTooLate, LeavesNoSize
<1>3. CASE SamplesCanWait
  BY <1>1, <1>3 DEF SamplesCanWait, StepOverSamples, LeavesNoSize
<1>4. CASE SampleInTime
  BY <1>1, <1>4 DEF SampleInTime, LeavesNoSize
<1>5. CASE NoMoreSamples
  <2>1. /\ flush'.phase = "tail" /\ flush'.desired = 0
        /\ UNCHANGED <<sampleBuffer, eventBufferSize>>
        /\ eventBufferSize = 0 \/ sampleBuffer = <<>>
    BY <1>1, <1>5 DEF NoMoreSamples, MoreSamples, StepOverSamples, buffers
  <2> QED
    BY <2>1 DEF LeavesNoSize
<1>6. CASE ForwardLateMmap \/ ForwardMmapBeforeFork \/ ForwardMmapBeforeSample
  <2>1. flush.phase \in {"break", "tasks"} /\ UNCHANGED flush
    BY <1>6 DEF ForwardLateMmap, ForwardMmapBeforeFork, ForwardMmapBeforeSample,
                ForwardMmap
  <2> QED
    BY <1>1, <2>1 DEF LeavesNoSize
<1>7. CASE LeaveSamples
  <2>1. flush'.phase = "tail" /\ flush'.violates /\ flush'.desired = 0
    BY <1>1, <1>7 DEF LeaveSamples, StepOverSamples
  <2> QED
    BY <2>1 DEF LeavesNoSize
<1>8. CASE FlushTaskEvent
  <2>1. flush.phase = "tasks" /\ UNCHANGED flush
    BY <1>8 DEF FlushTaskEvent
  <2> QED
    BY <1>1, <2>1 DEF LeavesNoSize
<1>9. CASE AnalyzeSample
  BY <1>1, <1>9 DEF AnalyzeSample, LeavesNoSize
<1>10. CASE TrailingTaskEvent
  <2>1. /\ flush.phase = "tail" /\ eventBufferSize > 0
        /\ UNCHANGED <<flush, sampleBuffer>>
    BY <1>1, <1>10 DEF TrailingTaskEvent, MoreTaskEvents
  <2> QED
    BY <1>1, <2>1 DEF LeavesNoSize
<1>11. CASE EndFlush
  <2>1. /\ flush.phase = "tail" /\ flush'.phase = "idle"
        /\ flush'.desired = 0 /\ flush'.violates = flush.violates
        /\ UNCHANGED <<sampleBuffer, taskEventsBuffer, eventBufferSize>>
        /\ eventBufferSize = 0 \/ taskEventsBuffer = <<>>
    BY <1>1, <1>11 DEF EndFlush, MoreTaskEvents, buffers
  <2> QED
    BY <1>1, <2>1 DEF LeavesNoSize
<1> QED
  BY <1>2, <1>3, <1>4, <1>5, <1>6, <1>7, <1>8, <1>9, <1>10, <1>11 DEF FlushStep

\* Only the flush of finalize() is asked to leave nothing, and it is the last.
LEMMA NextLeavesNoSize ==
  ASSUME TypeOK, LeavesNoSize, [Next]_vars
  PROVE  LeavesNoSize'
<1>1. CASE UNCHANGED vars \/ Terminated
  BY <1>1 DEF Terminated, vars, inputs, buffers, LeavesNoSize
<1>2. CASE \/ \E r \in Records : ReadRecord(r)
           \/ \E attr \in PipeAttributes : PipeAttribute(attr)
           \/ FeaturesEventDesc \/ FeaturesVersion \/ HeaderAttribute
           \/ finishedRound \/ Finalize
  <2>1. stage' # "finalFlush"
    BY <1>2 DEF ReadRecord, sample, registerElf, comm, lost, fork, exit,
                contextSwitch, Read, Ready, PipeAttribute, FeaturesEventDesc,
                FeaturesVersion, HeaderAttribute, finishedRound, Finalize,
                inputs
  <2> QED
    BY <2>1 DEF LeavesNoSize
<1>3. CASE FinalFlush
  BY <1>3 DEF FinalFlush, BeginFlush, LeavesNoSize
<1>4. CASE FlushStep
  <2>1. UNCHANGED stage
    BY <1>4 DEF FlushStep, SampleTooLate, SamplesCanWait, SampleInTime,
                NoMoreSamples, ForwardLateMmap, LeaveSamples, StepOverSamples,
                ForwardMmapBeforeFork, FlushTaskEvent, ForwardMmapBeforeSample,
                AnalyzeSample, TrailingTaskEvent, EndFlush, ForwardMmap, inputs
  <2> QED
    BY <1>4, <2>1, FlushStepLeavesNoSize DEF LeavesNoSize
<1> QED
  BY <1>1, <1>2, <1>3, <1>4 DEF Next, Internal

\* A buffer without a size is empty: every record has one.
LEMMA SizeZeroIsEmpty ==
  ASSUME NEW S, Sized(S), \A e \in S : e.size > 0, NEW s \in Seq(S),
         SizeOf(s) = 0
  PROVE  s = <<>>
<1> SUFFICES ASSUME s # <<>> PROVE FALSE
  OBVIOUS
<1>1. Head(s) \in S /\ Tail(s) \in Seq(S)
  OBVIOUS
<1>2. Head(s).size \in Nat /\ Head(s).size > 0 /\ SizeOf(Tail(s)) \in Nat
  BY <1>1, BytesFinite DEF Sized
<1>3. SizeOf(s) = Head(s).size + SizeOf(Tail(s))
  BY SizeOfTail
<1> QED
  BY <1>2, <1>3

\* A size of 0 that did not wrap means that nothing is buffered.
LEMMA NothingBuffered ==
  ASSUME TypeOK, SizeAccounting, BufferedSize <= UIntMax, eventBufferSize = 0
  PROVE  sampleBuffer = <<>> /\ taskEventsBuffer = <<>>
<1>1. /\ sampleBuffer \in Seq(Samples) /\ mmapBuffer \in Seq(Mmaps)
      /\ taskEventsBuffer \in Seq(TaskEvents)
  BY DEF TypeOK
<1>2. /\ SizeOf(sampleBuffer) \in Nat /\ SizeOf(mmapBuffer) \in Nat
      /\ SizeOf(taskEventsBuffer) \in Nat
  BY <1>1, EventsSized, BytesFinite
<1>3. BufferedSize \in Nat
  BY <1>2 DEF BufferedSize
<1>4. UInt(BufferedSize) = BufferedSize
  <2>1. /\ UIntMax + 1 \in Nat \ {0}
        /\ BufferedSize \in 0 .. (UIntMax + 1) - 1
    BY <1>3, LimitsAssumption
  <2>2. ((UIntMax + 1) * 0 + BufferedSize) % (UIntMax + 1) = BufferedSize
    BY <2>1, ModUnique
  <2> QED
    BY <1>3, <2>1, <2>2 DEF UInt
<1>5. BufferedSize = 0
  BY <1>4 DEF SizeAccounting
<1>6. SizeOf(sampleBuffer) = 0 /\ SizeOf(taskEventsBuffer) = 0
  BY <1>2, <1>5 DEF BufferedSize
<1> QED
  BY <1>1, <1>6, EventsSized, SizeZeroIsEmpty

\* The last flush sends every task event, and analyzes every sample unless it
\* finds the order violated, for as long as what is left is less than a uint can
\* count: 4 GiB and more could wrap to a size of 0 (finalize, flushEventBuffer).
THEOREM FinalFlushCompletes ==
  Spec => [](BufferedSize <= UIntMax => FinalFlushIsComplete)
<1>1. TypeOK /\ LeavesNoSize /\ SizeAccounting =>
        (BufferedSize <= UIntMax => FinalFlushIsComplete)
  <2> SUFFICES ASSUME TypeOK, LeavesNoSize, SizeAccounting,
                      BufferedSize <= UIntMax, Finalized
               PROVE  /\ taskEventsBuffer = <<>>
                      /\ ~flush.violates => sampleBuffer = <<>>
    BY DEF FinalFlushIsComplete
  <2>1. /\ taskEventsBuffer # <<>> => eventBufferSize = 0
        /\ ~flush.violates /\ sampleBuffer # <<>> => eventBufferSize = 0
    BY DEF LeavesNoSize, Finalized, Idle
  <2> QED
    BY <2>1, NothingBuffered
<1>2. Init => LeavesNoSize
  BY DEF Init, LeavesNoSize
<1> QED
  BY <1>1, <1>2, NextLeavesNoSize, TypeCorrect, SizeIsAccounted, PTL DEF Spec

-----------------------------------------------------------------------------
(***************************************************************************)
(* Arrival order.  Each kind of events is a chain: what was forwarded, and *)
(* behind it what is buffered.  Events of the same time are in the chain   *)
(* in the order of their arrival, whatever is sorted or forwarded.         *)
(***************************************************************************)
Ordered(nr, s) ==
  \A i, j \in DOMAIN s :
    i < j /\ s[i].time = s[j].time => nr[s[i]] < nr[s[j]]

Chained(nr, s, t) ==
  /\ Ordered(nr, s) /\ Ordered(nr, t)
  /\ \A i \in DOMAIN s, j \in DOMAIN t :
       s[i].time = t[j].time => nr[s[i]] < nr[t[j]]

\* An event that arrives after all others goes to the end.
LEMMA OrderedAppend ==
  ASSUME NEW S, NEW nr, NEW s \in Seq(S), NEW e, Ordered(nr, s),
         \A i \in DOMAIN s : s[i].time = e.time => nr[s[i]] < nr[e]
  PROVE  Ordered(nr, Append(s, e))
<1> DEFINE t == Append(s, e)
           n == Len(s)
<1>1. /\ DOMAIN s = 1 .. n /\ n \in Nat
      /\ DOMAIN t = 1 .. n + 1 /\ t[n + 1] = e
      /\ \A i \in 1 .. n : t[i] = s[i]
  OBVIOUS
<1> HIDE DEF t, n
<1>2. ASSUME NEW i \in DOMAIN t, NEW j \in DOMAIN t, i < j,
             t[i].time = t[j].time
      PROVE  nr[t[i]] < nr[t[j]]
  <2>1. i \in DOMAIN s /\ t[i] = s[i]
    BY <1>1, <1>2
  <2>2. CASE j = n + 1
    BY <1>1, <1>2, <2>1, <2>2
  <2>3. CASE j # n + 1
    <3>1. j \in DOMAIN s /\ t[j] = s[j]
      BY <1>1, <2>3
    <3> QED
      BY <1>2, <2>1, <3>1 DEF Ordered
  <2> QED
    BY <2>2, <2>3
<1> QED
  BY <1>2 DEF Ordered, t

\* So it does at the end of the buffered part of a chain.
LEMMA ChainArrival ==
  ASSUME NEW S, NEW nr, NEW s \in Seq(S), NEW t \in Seq(S), NEW e,
         Chained(nr, s, t),
         \A x \in Elements(s) \cup Elements(t) : nr[x] < nr[e]
  PROVE  Chained(nr, s, Append(t, e))
<1>1. Ordered(nr, Append(t, e))
  BY OrderedAppend DEF Chained, Elements
<1>2. ASSUME NEW i \in DOMAIN s, NEW j \in DOMAIN Append(t, e),
             s[i].time = Append(t, e)[j].time
      PROVE  nr[s[i]] < nr[Append(t, e)[j]]
  <2>1. CASE j \in DOMAIN t
    <3>1. Append(t, e)[j] = t[j]
      BY <2>1
    <3> QED
      BY <1>2, <2>1, <3>1 DEF Chained
  <2>2. CASE j \notin DOMAIN t
    <3>1. Append(t, e)[j] = e
      BY <2>2
    <3>2. s[i] \in Elements(s)
      BY DEF Elements
    <3> QED
      BY <3>1, <3>2
  <2> QED
    BY <2>1, <2>2
<1> QED
  BY <1>1, <1>2 DEF Chained

\* stable_sort keeps the chain, as it only moves events of different times.
LEMMA ChainSort ==
  ASSUME NEW S, Timed(S), NEW nr, NEW s \in Seq(S), NEW t \in Seq(S),
         Chained(nr, s, t)
  PROVE  Chained(nr, s, SortByTime(t))
<1> DEFINE u == SortByTime(t)
<1>1. /\ DOMAIN t = 1 .. Len(t) /\ DOMAIN u = 1 .. Len(t)
      /\ \A k \in 1 .. Len(t) : From(t, k) \in 1 .. Len(t)
                                /\ u[k] = t[From(t, k)]
  BY SortIsSequence DEF SortByTime
<1>2. ASSUME NEW k \in DOMAIN u, NEW l \in DOMAIN u, k < l,
             u[k].time = u[l].time
      PROVE  nr[u[k]] < nr[u[l]]
  <2>1. From(t, k) < From(t, l)
    BY <1>1, <1>2, SortIsStable
  <2> QED
    BY <1>1, <1>2, <2>1 DEF Chained, Ordered
<1>3. ASSUME NEW i \in DOMAIN s, NEW k \in DOMAIN u, s[i].time = u[k].time
      PROVE  nr[s[i]] < nr[u[k]]
  <2>1. PICK j \in DOMAIN t : u[k] = t[j]
    BY <1>1, <1>3
  <2> HIDE DEF u
  <2> QED
    BY <1>3, <2>1, Zenon DEF Chained
<1> HIDE DEF u
<1>4. Chained(nr, s, u)
  BY <1>2, <1>3 DEF Chained, Ordered
<1> QED
  BY <1>4 DEF u

\* Forwarding the head of the buffer keeps the chain.
LEMMA ChainForward ==
  ASSUME NEW S, NEW nr, NEW s \in Seq(S), NEW t \in Seq(S), t # <<>>,
         Chained(nr, s, t)
  PROVE  Chained(nr, Append(s, Head(t)), Tail(t))
<1> DEFINE e == Head(t)
           u == Tail(t)
           v == Append(s, e)
<1>1. /\ DOMAIN t = 1 .. Len(t) /\ Len(t) \in Nat \ {0} /\ e = t[1]
      /\ DOMAIN u = 1 .. Len(t) - 1
      /\ \A i \in 1 .. Len(t) - 1 : u[i] = t[i + 1]
      /\ DOMAIN s = 1 .. Len(s) /\ Len(s) \in Nat
      /\ DOMAIN v = 1 .. Len(s) + 1 /\ v[Len(s) + 1] = e
      /\ \A i \in 1 .. Len(s) : v[i] = s[i]
  OBVIOUS
<1>2. \A i \in DOMAIN s : s[i].time = e.time => nr[s[i]] < nr[e]
  BY <1>1 DEF Chained
<1>3. Ordered(nr, v)
  BY <1>2, OrderedAppend DEF Chained
<1> HIDE DEF e, u, v
<1>4. Ordered(nr, u)
  <2> SUFFICES ASSUME NEW i \in DOMAIN u, NEW j \in DOMAIN u, i < j,
                      u[i].time = u[j].time
               PROVE  nr[u[i]] < nr[u[j]]
    BY DEF Ordered
  <2>1. /\ i + 1 \in DOMAIN t /\ j + 1 \in DOMAIN t /\ i + 1 < j + 1
        /\ u[i] = t[i + 1] /\ u[j] = t[j + 1]
    BY <1>1
  <2> QED
    BY <2>1 DEF Chained, Ordered
<1>5. ASSUME NEW i \in DOMAIN v, NEW j \in DOMAIN u, v[i].time = u[j].time
      PROVE  nr[v[i]] < nr[u[j]]
  <2>1. j + 1 \in DOMAIN t /\ 1 \in DOMAIN t /\ 1 < j + 1 /\ u[j] = t[j + 1]
    BY <1>1
  <2>2. CASE i = Len(s) + 1
    BY <1>1, <1>5, <2>1, <2>2 DEF Chained, Ordered
  <2>3. CASE i # Len(s) + 1
    <3>1. i \in DOMAIN s /\ v[i] = s[i]
      BY <1>1, <2>3
    <3> QED
      BY <1>5, <2>1, <3>1 DEF Chained
  <2> QED
    BY <2>2, <2>3
<1>6. Chained(nr, v, u)
  BY <1>3, <1>4, <1>5 DEF Chained
<1> QED
  BY <1>6 DEF e, u, v

\* Only the numbers of the events in a chain matter.
LEMMA ChainNumbers ==
  ASSUME NEW nr, NEW mr, NEW s, NEW t, Chained(nr, s, t),
         \A x \in Elements(s) \cup Elements(t) : mr[x] = nr[x]
  PROVE  Chained(mr, s, t)
<1>1. /\ \A i \in DOMAIN s : mr[s[i]] = nr[s[i]]
      /\ \A i \in DOMAIN t : mr[t[i]] = nr[t[i]]
  BY DEF Elements
<1> QED
  BY <1>1 DEF Chained, Ordered

-----------------------------------------------------------------------------
\* The number of an event is its place in the order of arrival.
NumberIn(a) ==
  [e \in EventsOf(a) |-> CHOOSE i \in DOMAIN a : a[i].event = e]

EventSeq(s) == [i \in DOMAIN s |-> s[i].event]

Unrepeated(a) ==
  \A i, j \in DOMAIN a : a[i].event = a[j].event => i = j

\* Each record makes an event of its own.
LEMMA EventsDistinct ==
  ASSUME NEW R \in Recordings, NEW r \in R, NEW q \in R,
         EventFor(r) = EventFor(q)
  PROVE  r = q
<1>1. r \in Event(RecordTypes) /\ q \in Event(RecordTypes)
  BY BufferAssumption DEF Records
<1>2. r.type \in RecordTypes /\ q.type \in RecordTypes
  BY <1>1 DEF Event
<1>3. ASSUME NEW x \in Event(RecordTypes), x.type \notin {"sample", "mmap"}
      PROVE  /\ EventFor(x) = [type |-> TaskTypeOf[x.type], pid |-> x.pid,
                               tid |-> x.tid, time |-> x.time,
                               size |-> TaskEventSize, payload |-> x.payload]
             /\ x.type \in DOMAIN TaskTypeOf
  BY <1>3 DEF EventFor, TaskEvent, TaskTypeOf, Event, RecordTypes
<1>4. \A a, b \in DOMAIN TaskTypeOf :
        /\ TaskTypeOf[a] = TaskTypeOf[b] => a = b
        /\ TaskTypeOf[a] \notin {"sample", "mmap"}
  BY DEF TaskTypeOf
<1>5. CASE r.type \in {"sample", "mmap"} /\ q.type \in {"sample", "mmap"}
  BY <1>5 DEF EventFor
<1>6. CASE r.type \in {"sample", "mmap"} /\ q.type \notin {"sample", "mmap"}
  <2>1. EventFor(r).type = r.type
    BY <1>6 DEF EventFor
  <2>2. EventFor(q).type = TaskTypeOf[q.type] /\ q.type \in DOMAIN TaskTypeOf
    BY <1>1, <1>3, <1>6
  <2> QED
    BY <1>4, <1>6, <2>1, <2>2
<1>7. CASE r.type \notin {"sample", "mmap"} /\ q.type \in {"sample", "mmap"}
  <2>1. EventFor(q).type = q.type
    BY <1>7 DEF EventFor
  <2>2. EventFor(r).type = TaskTypeOf[r.type] /\ r.type \in DOMAIN TaskTypeOf
    BY <1>1, <1>3, <1>7
  <2> QED
    BY <1>4, <1>7, <2>1, <2>2
<1>8. CASE r.type \notin {"sample", "mmap"} /\ q.type \notin {"sample", "mmap"}
  <2> DEFINE e == EventFor(r)
             f == EventFor(q)
  <2>1. /\ e.type = TaskTypeOf[r.type] /\ e.pid = r.pid /\ e.tid = r.tid
        /\ e.time = r.time /\ e.payload = r.payload
        /\ r.type \in DOMAIN TaskTypeOf
    BY <1>1, <1>3, <1>8
  <2>2. /\ f.type = TaskTypeOf[q.type] /\ f.pid = q.pid /\ f.tid = q.tid
        /\ f.time = q.time /\ f.payload = q.payload
        /\ q.type \in DOMAIN TaskTypeOf
    BY <1>1, <1>3, <1>8
  <2>3. /\ r.type = q.type /\ r.pid = q.pid /\ r.tid = q.tid
        /\ r.time = q.time /\ r.payload = q.payload
    BY <1>4, <2>1, <2>2
  <2>4. TaskEvent(r, r.type) = TaskEvent(q, q.type)
    BY <2>3 DEF TaskEvent
  <2> QED
    BY <1>8, <2>4, DistinctAssumption
<1> QED
  BY <1>5, <1>6, <1>7, <1>8

\* What arrived was read from one recording.
ArrivedIsRead ==
  \E R \in Recordings :
    /\ unread \subseteq R
    /\ \A e \in EventsOf(arrived) : \E r \in R \ unread : e = EventFor(r)

ChainsInOrder ==
  /\ Chained(NumberIn(arrived), registered, mmapBuffer)
  /\ Chained(NumberIn(arrived), EventSeq(sent), taskEventsBuffer)
  /\ Chained(NumberIn(arrived), EventSeq(analyzed), sampleBuffer)

ArrivalInv ==
  /\ TypeOK /\ SampleAtHand /\ NothingLostOrRepeated
  /\ ArrivedIsRead
  /\ Unrepeated(arrived)
  /\ ChainsInOrder

\* The numbers of the events that arrived do not change when another arrives, and
\* it gets the largest.
LEMMA NumbersGrow ==
  ASSUME NEW S, NEW a \in Seq(S), NEW x, Unrepeated(a),
         x.event \notin EventsOf(a)
  PROVE  /\ Unrepeated(Append(a, x))
         /\ \A e \in EventsOf(a) :
              /\ NumberIn(Append(a, x))[e] = NumberIn(a)[e]
              /\ NumberIn(a)[e] \in 1 .. Len(a)
         /\ NumberIn(Append(a, x))[x.event] = Len(a) + 1
<1> DEFINE b == Append(a, x)
           n == Len(a)
<1>1. /\ DOMAIN a = 1 .. n /\ n \in Nat
      /\ DOMAIN b = 1 .. n + 1 /\ b[n + 1] = x
      /\ \A i \in 1 .. n : b[i] = a[i]
  OBVIOUS
<1>2. EventsOf(b) = EventsOf(a) \cup {x.event}
  BY EventsOfAppend
<1> HIDE DEF b, n
<1>3. \A i \in 1 .. n : a[i].event \in EventsOf(a)
  BY <1>1 DEF EventsOf, Elements
<1>4. Unrepeated(b)
  <2> SUFFICES ASSUME NEW i \in DOMAIN b, NEW j \in DOMAIN b,
                      b[i].event = b[j].event
               PROVE  i = j
    BY DEF Unrepeated
  <2>1. CASE i \in 1 .. n /\ j \in 1 .. n
    BY <1>1, <2>1 DEF Unrepeated
  <2>2. CASE i \notin 1 .. n \/ j \notin 1 .. n
    BY <1>1, <1>3, <2>2
  <2> QED
    BY <2>1, <2>2
<1>5. ASSUME NEW e \in EventsOf(a)
      PROVE  NumberIn(b)[e] = NumberIn(a)[e] /\ NumberIn(a)[e] \in 1 .. n
  <2>1. PICK i \in 1 .. n : a[i].event = e
    BY <1>1 DEF EventsOf, Elements
  <2>2. \A j \in DOMAIN a : a[j].event = e => j = i
    BY <1>1, <2>1 DEF Unrepeated
  <2>3. \A j \in DOMAIN b : b[j].event = e => j = i
    BY <1>1, <1>4, <2>1 DEF Unrepeated
  <2>4. NumberIn(a)[e] = i
    BY <1>1, <2>1, <2>2 DEF NumberIn
  <2>5. NumberIn(b)[e] = i
    BY <1>1, <1>2, <2>1, <2>3 DEF NumberIn
  <2> QED
    BY <2>4, <2>5
<1>6. NumberIn(b)[x.event] = n + 1
  <2>1. n + 1 \in DOMAIN b /\ b[n + 1].event = x.event
    BY <1>1
  <2>2. \A j \in DOMAIN b : b[j].event = x.event => j = n + 1
    BY <1>1, <1>4, <2>1 DEF Unrepeated
  <2> QED
    BY <1>2, <2>1, <2>2 DEF NumberIn
<1> QED
  BY <1>4, <1>5, <1>6 DEF b, n

\* The events of what was sent or analyzed.
LEMMA EventSeqProperties ==
  ASSUME NEW S, NEW s \in Seq(S)
  PROVE  /\ EventSeq(s) \in Seq(EventsOf(s))
         /\ Elements(EventSeq(s)) = EventsOf(s)
         /\ \A x : EventSeq(Append(s, x)) = Append(EventSeq(s), x.event)
<1>1. DOMAIN s = 1 .. Len(s) /\ Len(s) \in Nat
  OBVIOUS
<1>2. EventSeq(s) \in [1 .. Len(s) -> EventsOf(s)]
  BY <1>1 DEF EventSeq, EventsOf, Elements
<1>3. EventSeq(s) \in Seq(EventsOf(s)) /\ Len(EventSeq(s)) = Len(s)
  BY <1>1, <1>2, SeqDef
<1>4. Elements(EventSeq(s)) = EventsOf(s)
  BY DEF EventSeq, EventsOf, Elements
<1>5. ASSUME NEW x
      PROVE  EventSeq(Append(s, x)) = Append(EventSeq(s), x.event)
  <2>1. /\ DOMAIN Append(s, x) = 1 .. Len(s) + 1
        /\ \A i \in 1 .. Len(s) : Append(s, x)[i] = s[i]
        /\ Append(s, x)[Len(s) + 1] = x
    BY <1>1
  <2>2. EventSeq(Append(s, x)) =
          [i \in 1 .. Len(s) + 1 |-> Append(s, x)[i].event]
    BY <2>1 DEF EventSeq
  <2>3. Append(EventSeq(s), x.event) =
          [i \in 1 .. Len(s) + 1 |->
             IF i = Len(s) + 1 THEN x.event ELSE EventSeq(s)[i]]
    BY <1>3
  <2>4. ASSUME NEW i \in 1 .. Len(s) + 1
        PROVE  Append(s, x)[i].event =
                 IF i = Len(s) + 1 THEN x.event ELSE EventSeq(s)[i]
    BY <1>1, <2>1 DEF EventSeq
  <2> QED
    BY <2>2, <2>3, <2>4
<1> QED
  BY <1>3, <1>4, <1>5

-----------------------------------------------------------------------------
\* What was forwarded of a kind of events is a sequence of such events.
LEMMA EventSeqType ==
  ASSUME NEW E, NEW S, \A x \in S : x.event \in E, NEW s \in Seq(S)
  PROVE  EventSeq(s) \in Seq(E)
<1>1. DOMAIN s = 1 .. Len(s) /\ Len(s) \in Nat /\ \A i \in DOMAIN s : s[i] \in S
  OBVIOUS
<1>2. EventSeq(s) \in [1 .. Len(s) -> E]
  BY <1>1 DEF EventSeq
<1> QED
  BY <1>1, <1>2, SeqDef

\* bufferEvent puts the new event behind those of its kind, and the flush it may
\* begin sorts them: both keep the chain, with the numbers after the arrival.
LEMMA ChainGrows ==
  ASSUME NEW S, Timed(S), NEW s \in Seq(S), NEW t \in Seq(S),
         NEW A, NEW a \in Seq(A), NEW x, Unrepeated(a),
         x.event \notin EventsOf(a),
         Elements(s) \cup Elements(t) \subseteq EventsOf(a),
         Chained(NumberIn(a), s, t)
  PROVE  LET nr == NumberIn(Append(a, x))
             u  == Append(t, x.event)
         IN  /\ Chained(nr, s, t) /\ Chained(nr, s, SortByTime(t))
             /\ x.event \in S =>
                  Chained(nr, s, u) /\ Chained(nr, s, SortByTime(u))
<1> DEFINE nr == NumberIn(Append(a, x))
           u  == Append(t, x.event)
<1>1. /\ \A e \in EventsOf(a) : /\ nr[e] = NumberIn(a)[e]
                                /\ NumberIn(a)[e] \in 1 .. Len(a)
      /\ nr[x.event] = Len(a) + 1
      /\ Len(a) \in Nat
  BY NumbersGrow
<1> HIDE DEF nr
<1>2. Chained(nr, s, t)
  BY <1>1, ChainNumbers
<1>3. Chained(nr, s, SortByTime(t))
  BY <1>2, ChainSort
<1>4. ASSUME x.event \in S
      PROVE  u \in Seq(S) /\ Chained(nr, s, u)
  <2>1. \A y \in Elements(s) \cup Elements(t) : nr[y] < nr[x.event]
    BY <1>1
  <2> QED
    BY <1>2, <1>4, <2>1, ChainArrival
<1>5. ASSUME x.event \in S
      PROVE  Chained(nr, s, SortByTime(u))
  <2> HIDE DEF u
  <2> QED
    BY <1>4, <1>5, ChainSort
<1> QED
  BY <1>2, <1>3, <1>4, <1>5 DEF nr

\* The order in which events of the same time arrived survives every step.
LEMMA StepKeepsChains ==
  ASSUME ArrivalInv, [Next]_vars
  PROVE  ArrivedIsRead' /\ Unrepeated(arrived)' /\ ChainsInOrder'
<1>1. /\ sampleBuffer \in Seq(Samples) /\ mmapBuffer \in Seq(Mmaps)
      /\ taskEventsBuffer \in Seq(TaskEvents) /\ registered \in Seq(Mmaps)
      /\ sent \in Seq(Sent) /\ analyzed \in Seq(Analyzed)
      /\ arrived \in Seq([event : Events, bound : Nat])
      /\ TypeOK /\ SampleAtHand /\ ArrivedIsRead /\ Unrepeated(arrived)
  BY DEF ArrivalInv, TypeOK
<1>2. /\ EventSeq(sent) \in Seq(TaskEvents)
      /\ EventSeq(analyzed) \in Seq(Samples)
  <2>1. /\ \A x \in Sent : x.event \in TaskEvents
        /\ \A x \in Analyzed : x.event \in Samples
    BY DEF Sent, Analyzed
  <2> QED
    BY <1>1, <2>1, EventSeqType
<1>3. /\ Chained(NumberIn(arrived), registered, mmapBuffer)
      /\ Chained(NumberIn(arrived), EventSeq(sent), taskEventsBuffer)
      /\ Chained(NumberIn(arrived), EventSeq(analyzed), sampleBuffer)
  BY DEF ArrivalInv, ChainsInOrder
<1>4. /\ Elements(registered) \cup Elements(mmapBuffer) \subseteq EventsOf(arrived)
      /\ Elements(EventSeq(sent)) \cup Elements(taskEventsBuffer)
           \subseteq EventsOf(arrived)
      /\ Elements(EventSeq(analyzed)) \cup Elements(sampleBuffer)
           \subseteq EventsOf(arrived)
  <2>1. /\ Elements(EventSeq(sent)) = EventsOf(sent)
        /\ Elements(EventSeq(analyzed)) = EventsOf(analyzed)
    BY <1>1, EventSeqProperties
  <2>2. EventsOf(arrived) = Held
    BY DEF ArrivalInv, NothingLostOrRepeated, EventsOf, Held
  <2> QED
    BY <2>1, <2>2 DEF Held
<1>5. ChainsInOrder' <=>
        /\ Chained(NumberIn(arrived'), registered', mmapBuffer')
        /\ Chained(NumberIn(arrived'), EventSeq(sent'), taskEventsBuffer')
        /\ Chained(NumberIn(arrived'), EventSeq(analyzed'), sampleBuffer')
  BY DEF ChainsInOrder, Chained, Ordered, NumberIn, EventsOf, Elements, EventSeq
<1>6. Unrepeated(arrived)' <=> Unrepeated(arrived')
  BY DEF Unrepeated
<1>7. EventsOf(arrived)' = EventsOf(arrived')
  BY Zenon DEF EventsOf, Elements
<1>8. ASSUME UNCHANGED <<arrived, unread>>
      PROVE  ArrivedIsRead' /\ Unrepeated(arrived)'
  BY <1>1, <1>6, <1>7, <1>8 DEF ArrivedIsRead
<1>9. CASE ArrivalStep
  <2>1. PICK r \in Records, event \in Events, samples \in Seq(Samples),
             mmaps \in Seq(Mmaps), tasks \in Seq(TaskEvents) :
          Arrives(r, event, samples, mmaps, tasks)
    BY <1>9 DEF ArrivalStep
  <2> DEFINE x == [event |-> event, bound |-> lastFlushMaxTime]
  <2>2. /\ event = EventFor(r) /\ r \in unread /\ unread' = unread \ {r}
        /\ OneMore(event, samples, mmaps, tasks)
        /\ \/ Buffers(samples, mmaps, tasks)
           \/ Buffers(SortByTime(samples), SortByTime(mmaps), SortByTime(tasks))
        /\ arrived' = Append(arrived, x)
        /\ UNCHANGED <<registered, sent, analyzed>>
    BY <2>1 DEF Arrives
  <2>3. x.event = event
    OBVIOUS
  <2> HIDE DEF x
  <2>4. PICK R \in Recordings :
          /\ unread \subseteq R
          /\ \A e \in EventsOf(arrived) : \E q \in R \ unread : e = EventFor(q)
    BY <1>1 DEF ArrivedIsRead
  <2>5. event \notin EventsOf(arrived)
    <3> SUFFICES ASSUME event \in EventsOf(arrived)
                 PROVE  FALSE
      OBVIOUS
    <3>1. PICK q \in R \ unread : event = EventFor(q)
      BY <2>4
    <3>2. q = r
      BY <2>2, <2>4, <3>1, EventsDistinct
    <3> QED
      BY <2>2, <3>1, <3>2
  <2>6. EventsOf(arrived') = EventsOf(arrived) \cup {event}
    BY <1>1, <2>2, <2>3, EventsOfAppend
  <2>7. ArrivedIsRead'
    <3>1. /\ unread' \subseteq R
          /\ \A e \in EventsOf(arrived)' : \E q \in R \ unread' : e = EventFor(q)
      BY <1>7, <2>2, <2>4, <2>6
    <3> QED
      BY <3>1 DEF ArrivedIsRead
  <2>8. Unrepeated(arrived')
    BY <1>1, <2>2, <2>3, <2>5, NumbersGrow
  <2>9. /\ \/ samples = sampleBuffer
           \/ samples = Append(sampleBuffer, event) /\ event \in Samples
        /\ \/ mmaps = mmapBuffer
           \/ mmaps = Append(mmapBuffer, event) /\ event \in Mmaps
        /\ \/ tasks = taskEventsBuffer
           \/ tasks = Append(taskEventsBuffer, event) /\ event \in TaskEvents
    BY <2>2 DEF OneMore
  <2>10. /\ sampleBuffer' = samples \/ sampleBuffer' = SortByTime(samples)
         /\ mmapBuffer' = mmaps \/ mmapBuffer' = SortByTime(mmaps)
         /\ taskEventsBuffer' = tasks \/ taskEventsBuffer' = SortByTime(tasks)
    BY <2>2 DEF Buffers
  <2>11. ASSUME NEW S, Timed(S), NEW s \in Seq(S), NEW t \in Seq(S),
                Elements(s) \cup Elements(t) \subseteq EventsOf(arrived),
                Chained(NumberIn(arrived), s, t)
         PROVE  LET nr == NumberIn(arrived')
                    u  == Append(t, event)
                IN  /\ Chained(nr, s, t) /\ Chained(nr, s, SortByTime(t))
                    /\ event \in S =>
                         Chained(nr, s, u) /\ Chained(nr, s, SortByTime(u))
    <3> DEFINE mr == NumberIn(Append(arrived, x))
               v  == Append(t, x.event)
    <3>1. /\ Chained(mr, s, t) /\ Chained(mr, s, SortByTime(t))
          /\ x.event \in S =>
               Chained(mr, s, v) /\ Chained(mr, s, SortByTime(v))
      BY <1>1, <2>3, <2>5, <2>11, ChainGrows
    <3> QED
      BY <2>2, <2>3, <3>1
  <2>12. Timed(Samples) /\ Timed(Mmaps) /\ Timed(TaskEvents)
    BY EventsTimed
  <2> DEFINE nr == NumberIn(arrived')
  <2>13. Chained(nr, registered, mmapBuffer')
    <3> DEFINE u == Append(mmapBuffer, event)
    <3>1. /\ Chained(nr, registered, mmapBuffer)
          /\ Chained(nr, registered, SortByTime(mmapBuffer))
          /\ event \in Mmaps => /\ Chained(nr, registered, u)
                                /\ Chained(nr, registered, SortByTime(u))
      BY <1>1, <1>3, <1>4, <2>11, <2>12
    <3> QED
      BY <2>9, <2>10, <3>1
  <2>14. Chained(nr, EventSeq(sent), taskEventsBuffer')
    <3> DEFINE s == EventSeq(sent)
               u == Append(taskEventsBuffer, event)
    <3>1. /\ Chained(nr, s, taskEventsBuffer)
          /\ Chained(nr, s, SortByTime(taskEventsBuffer))
          /\ event \in TaskEvents => /\ Chained(nr, s, u)
                                     /\ Chained(nr, s, SortByTime(u))
      BY <1>1, <1>2, <1>3, <1>4, <2>11, <2>12
    <3> QED
      BY <2>9, <2>10, <3>1
  <2>15. Chained(nr, EventSeq(analyzed), sampleBuffer')
    <3> DEFINE s == EventSeq(analyzed)
               u == Append(sampleBuffer, event)
    <3>1. /\ Chained(nr, s, sampleBuffer)
          /\ Chained(nr, s, SortByTime(sampleBuffer))
          /\ event \in Samples => /\ Chained(nr, s, u)
                                  /\ Chained(nr, s, SortByTime(u))
      BY <1>1, <1>2, <1>3, <1>4, <2>11, <2>12
    <3> QED
      BY <2>9, <2>10, <3>1
  <2> QED
    BY <1>5, <1>6, <2>2, <2>7, <2>8, <2>13, <2>14, <2>15
<1>10. CASE SortStep
  <2>1. /\ Buffers(SortByTime(sampleBuffer), SortByTime(mmapBuffer),
                   SortByTime(taskEventsBuffer))
        /\ UNCHANGED <<arrived, registered, sent, analyzed, unread>>
    BY <1>10 DEF SortStep
  <2>2. /\ Chained(NumberIn(arrived), registered, SortByTime(mmapBuffer))
        /\ Chained(NumberIn(arrived), EventSeq(sent),
                   SortByTime(taskEventsBuffer))
        /\ Chained(NumberIn(arrived), EventSeq(analyzed),
                   SortByTime(sampleBuffer))
    BY <1>1, <1>2, <1>3, EventsTimed, ChainSort
  <2>3. ChainsInOrder'
    BY <1>5, <2>1, <2>2 DEF Buffers
  <2> QED
    BY <1>8, <2>1, <2>3
<1>11. CASE MmapStep
  <2>1. /\ mmapBuffer # <<>>
        /\ Buffers(sampleBuffer, Tail(mmapBuffer), taskEventsBuffer)
        /\ registered' = Append(registered, Head(mmapBuffer))
        /\ UNCHANGED <<arrived, sent, analyzed, unread>>
    BY <1>11 DEF MmapStep
  <2>2. Chained(NumberIn(arrived), Append(registered, Head(mmapBuffer)),
                Tail(mmapBuffer))
    BY <1>1, <1>3, <2>1, ChainForward
  <2>3. ChainsInOrder'
    BY <1>3, <1>5, <2>1, <2>2 DEF Buffers
  <2> QED
    BY <1>8, <2>1, <2>3
<1>12. CASE TaskStep
  <2>1. /\ taskEventsBuffer # <<>>
        /\ Buffers(sampleBuffer, mmapBuffer, Tail(taskEventsBuffer))
        /\ UNCHANGED <<arrived, registered, analyzed, unread>>
    BY <1>12 DEF TaskStep
  <2>2. PICK trailing \in BOOLEAN :
          sent' = Append(sent, [event |-> Head(taskEventsBuffer),
                                trailing |-> trailing])
    BY <1>12 DEF TaskStep
  <2>3. EventSeq(sent') = Append(EventSeq(sent), Head(taskEventsBuffer))
    <3> DEFINE x == [event |-> Head(taskEventsBuffer), trailing |-> trailing]
    <3>1. sent' = Append(sent, x) /\ x.event = Head(taskEventsBuffer)
      BY <2>2
    <3> HIDE DEF x
    <3> QED
      BY <1>1, <3>1, EventSeqProperties
  <2>4. Chained(NumberIn(arrived),
                Append(EventSeq(sent), Head(taskEventsBuffer)),
                Tail(taskEventsBuffer))
    BY <1>1, <1>2, <1>3, <2>1, ChainForward
  <2>5. ChainsInOrder'
    BY <1>3, <1>5, <2>1, <2>3, <2>4 DEF Buffers
  <2> QED
    BY <1>8, <2>1, <2>5
<1>13. CASE SampleStep
  <2>1. /\ sampleBuffer # <<>>
        /\ Buffers(Tail(sampleBuffer), mmapBuffer, taskEventsBuffer)
        /\ UNCHANGED <<arrived, registered, sent, unread>>
    BY <1>13 DEF SampleStep
  <2>2. PICK a : a.event = Head(sampleBuffer) /\ analyzed' = Append(analyzed, a)
    BY <1>13 DEF SampleStep
  <2>3. EventSeq(analyzed') = Append(EventSeq(analyzed), Head(sampleBuffer))
    BY <1>1, <2>2, EventSeqProperties
  <2>4. Chained(NumberIn(arrived),
                Append(EventSeq(analyzed), Head(sampleBuffer)),
                Tail(sampleBuffer))
    BY <1>1, <1>2, <1>3, <2>1, ChainForward
  <2>5. ChainsInOrder'
    BY <1>3, <1>5, <2>1, <2>3, <2>4 DEF Buffers
  <2> QED
    BY <1>8, <2>1, <2>5
<1>14. CASE OtherStep
  <2>1. UNCHANGED <<sampleBuffer, mmapBuffer, taskEventsBuffer, arrived,
                    registered, sent, analyzed, unread>>
    BY <1>14 DEF OtherStep
  <2> QED
    BY <1>3, <1>5, <1>8, <2>1
<1> QED
  BY <1>1, <1>9, <1>10, <1>11, <1>12, <1>13, <1>14, StepKinds

\* In the beginning nothing has arrived.
LEMMA InitArrival ==
  ASSUME Init
  PROVE  ArrivalInv
<1>1. /\ arrived = <<>> /\ registered = <<>> /\ sent = <<>> /\ analyzed = <<>>
      /\ sampleBuffer = <<>> /\ mmapBuffer = <<>> /\ taskEventsBuffer = <<>>
      /\ unread \in Recordings
  BY DEF Init
<1>2. NothingLostOrRepeated
  BY <1>1 DEF NothingLostOrRepeated, Elements
<1>3. EventsOf(arrived) = {}
  BY <1>1 DEF EventsOf, Elements
<1>4. ArrivedIsRead
  BY <1>1, <1>3 DEF ArrivedIsRead
<1>5. ChainsInOrder /\ Unrepeated(arrived)
  BY <1>1 DEF ChainsInOrder, Chained, Ordered, EventSeq, Unrepeated
<1> QED
  BY <1>2, <1>4, <1>5, InitType DEF ArrivalInv

\* The order within a chain is the order of arrival.
LEMMA ChainsKeepArrivalOrder ==
  ASSUME ArrivalInv
  PROVE  EqualTimesKeepArrivalOrder
<1>1. /\ sent \in Seq(Sent) /\ analyzed \in Seq(Analyzed)
  BY DEF ArrivalInv, TypeOK
<1>2. /\ Elements(registered) \subseteq EventsOf(arrived)
      /\ Elements(EventSeq(sent)) \subseteq EventsOf(arrived)
      /\ Elements(EventSeq(analyzed)) \subseteq EventsOf(arrived)
  <2>1. /\ Elements(EventSeq(sent)) = EventsOf(sent)
        /\ Elements(EventSeq(analyzed)) = EventsOf(analyzed)
    BY <1>1, EventSeqProperties
  <2>2. EventsOf(arrived) = Held
    BY DEF ArrivalInv, NothingLostOrRepeated, EventsOf, Held
  <2> QED
    BY <2>1, <2>2 DEF Held
<1>3. \A e \in EventsOf(arrived) : NumberIn(arrived)[e] = ArrivalIndex(e)
  BY DEF NumberIn, ArrivalIndex
<1>4. ASSUME NEW s, Ordered(NumberIn(arrived), s),
             Elements(s) \subseteq EventsOf(arrived)
      PROVE  KeepsArrivalOrder(s)
  <2>1. \A i \in DOMAIN s : NumberIn(arrived)[s[i]] = ArrivalIndex(s[i])
    BY <1>3, <1>4 DEF Elements
  <2> QED
    BY <1>4, <2>1 DEF Ordered, KeepsArrivalOrder
<1>5. /\ Ordered(NumberIn(arrived), registered)
      /\ Ordered(NumberIn(arrived), EventSeq(sent))
      /\ Ordered(NumberIn(arrived), EventSeq(analyzed))
  BY DEF ArrivalInv, ChainsInOrder, Chained
<1>6. /\ KeepsArrivalOrder(registered)
      /\ KeepsArrivalOrder(EventSeq(sent))
      /\ KeepsArrivalOrder(EventSeq(analyzed))
  BY <1>2, <1>4, <1>5
<1> QED
  BY <1>6 DEF EqualTimesKeepArrivalOrder, EventSeq

\* Events of the same time are forwarded in the order in which they arrived, for
\* any number of flushes between the arrivals: "esp. when we runtime-attach, we
\* will get lots of mmap events with time 0".
THEOREM ArrivalOrderIsKept == Spec => []EqualTimesKeepArrivalOrder
<1>1. Init => ArrivalInv
  BY InitArrival
<1>2. TypeOK /\ SampleAtHand /\ [Next]_vars => (TypeOK /\ SampleAtHand)'
  <2>1. ASSUME TypeOK, SampleAtHand, UNCHANGED vars
        PROVE  (TypeOK /\ SampleAtHand)'
    BY <2>1 DEF vars, inputs, attrs, buffers, order, outputs, TypeOK,
                SampleAtHand
  <2> QED
    BY <2>1, NextType, NextSampleAtHand
<1>3. ArrivalInv /\ [Next]_vars => ArrivalInv'
  BY <1>2, StepKeepsChains, StepLosesNothing DEF ArrivalInv
<1>4. ArrivalInv => EqualTimesKeepArrivalOrder
  BY ChainsKeepArrivalOrder
<1> QED
  BY <1>1, <1>3, <1>4, PTL DEF Spec

-----------------------------------------------------------------------------
(***************************************************************************)
(* The replay of EventTimeline.  What holds for {}, and for a set when it  *)
(* holds for its subsets, holds for all subsets of a finite set.           *)
(***************************************************************************)
LEMMA SubsetInduction ==
  ASSUME NEW U, IsFiniteSet(U), NEW T,
         \A D \in SUBSET U : (\A x \in D : D \ {x} \in T) => D \in T
  PROVE  \A D \in SUBSET U : D \in T
<1> DEFINE bad == {D \in SUBSET U : D \notin T}
<1> SUFFICES ASSUME bad # {} PROVE FALSE
  OBVIOUS
<1>1. bad \subseteq FiniteSubsetsOf(U)
  BY FS_Subset DEF FiniteSubsetsOf
<1>2. PICK D \in bad : \A E \in bad : ~(<<E, D>> \in StrictSubsetOrdering(U))
  BY <1>1, FS_StrictSubsetOrderingWellFounded, WFMin
<1>3. ASSUME NEW x \in D
      PROVE  D \ {x} \in T
  <2>1. <<D \ {x}, D>> \in StrictSubsetOrdering(U)
    <3>1. /\ D \in SUBSET U /\ D \ {x} \in SUBSET U
          /\ D \ {x} \subseteq D /\ D \ {x} # D
      BY <1>2, <1>3
    <3>2. <<D \ {x}, D>> \in (SUBSET U) \X (SUBSET U)
      BY <3>1
    <3> QED
      BY <3>1, <3>2 DEF StrictSubsetOrdering
  <2> QED
    BY <1>2, <2>1
<1> QED
  BY <1>2, <1>3

\* What the order of the timeline needs: places that are numbers, and times.
Placed(a) == \A i \in DOMAIN a : i \in Nat /\ a[i].event.time \in Nat

\* The order of the timeline is a strict total order of the places.
LEMMA PrecedesOrder ==
  ASSUME NEW a, Placed(a), NEW i \in DOMAIN a, NEW j \in DOMAIN a
  PROVE  /\ ~Precedes(a, i, i)
         /\ Precedes(a, i, j) => ~Precedes(a, j, i)
         /\ i = j \/ Precedes(a, i, j) \/ Precedes(a, j, i)
         /\ \A k \in DOMAIN a :
              Precedes(a, i, j) /\ Precedes(a, j, k) => Precedes(a, i, k)
<1>1. \A k \in DOMAIN a : k \in Nat /\ a[k].event.time \in Nat
  BY DEF Placed
<1> QED
  BY <1>1 DEF Precedes

IsLast(a, D, i) == i \in D /\ \A j \in D \ {i} : Precedes(a, j, i)

LEMMA LastIsLast ==
  ASSUME NEW a, Placed(a), IsFiniteSet(DOMAIN a),
         NEW D \in SUBSET DOMAIN a, D # {}
  PROVE  IsLast(a, D, Last(a, D))
<1> DEFINE T == {E \in SUBSET DOMAIN a : E = {} \/ \E i : IsLast(a, E, i)}
<1>1. ASSUME NEW E \in SUBSET DOMAIN a, \A x \in E : E \ {x} \in T
      PROVE  E \in T
  <2>1. CASE E = {}
    BY <2>1
  <2>2. CASE E # {}
    <3>1. PICK x \in E : TRUE
      BY <2>2
    <3>2. E \ {x} \in T
      BY <1>1
    <3>3. CASE E \ {x} = {}
      <4>1. IsLast(a, E, x)
        BY <3>3 DEF IsLast
      <4> QED
        BY <4>1
    <3>4. CASE \E i : IsLast(a, E \ {x}, i)
      <4>1. PICK i : IsLast(a, E \ {x}, i)
        BY <3>4
      <4>2. i \in E /\ i # x /\ \A j \in E \ {x, i} : Precedes(a, j, i)
        BY <4>1 DEF IsLast
      <4>3. i \in DOMAIN a /\ x \in DOMAIN a
        BY <4>2
      <4>4. CASE Precedes(a, x, i)
        <5>1. IsLast(a, E, i)
          BY <4>2, <4>4 DEF IsLast
        <5> QED
          BY <5>1
      <4>5. CASE Precedes(a, i, x)
        <5>1. \A j \in E \ {x} : Precedes(a, j, x)
          BY <4>2, <4>3, <4>5, PrecedesOrder
        <5>2. IsLast(a, E, x)
          BY <5>1 DEF IsLast
        <5> QED
          BY <5>2
      <4> QED
        BY <4>2, <4>3, <4>4, <4>5, PrecedesOrder
    <3> QED
      BY <3>2, <3>3, <3>4
  <2> QED
    BY <2>1, <2>2
<1> HIDE DEF T
<1>2. D \in T
  BY <1>1, SubsetInduction
<1>3. \E i : IsLast(a, D, i)
  BY <1>2 DEF T
<1>4. \E i \in D : \A j \in D \ {i} : Precedes(a, j, i)
  BY <1>3 DEF IsLast
<1> QED
  BY <1>4 DEF IsLast, Last

LEMMA OneLast ==
  ASSUME NEW a, Placed(a), NEW D \in SUBSET DOMAIN a, NEW i, NEW j,
         IsLast(a, D, i), IsLast(a, D, j)
  PROVE  i = j
<1>1. i \in DOMAIN a /\ j \in DOMAIN a
  BY DEF IsLast
<1>2. i # j => Precedes(a, i, j) /\ Precedes(a, j, i)
  BY DEF IsLast
<1> QED
  BY <1>1, <1>2, PrecedesOrder

\* Last chooses the event that is last.
LEMMA LastIs ==
  ASSUME NEW a, Placed(a), IsFiniteSet(DOMAIN a),
         NEW D \in SUBSET DOMAIN a, NEW i, IsLast(a, D, i)
  PROVE  Last(a, D) = i
<1>1. D # {}
  BY DEF IsLast
<1> QED
  BY <1>1, LastIsLast, OneLast

\* The definition of Replay: on the subsets of U, f is what it evaluates.
NoMappings == [pid \in Pids |-> <<>>]

Replayed(a, f, D) ==
  IF D = {} THEN NoMappings
  ELSE Apply(f[D \ {Last(a, D)}], a[Last(a, D)].event)

Replays(a, f, U) == f = [D \in SUBSET U |-> Replayed(a, f, D)]

\* A replay of all events but the last extends to a replay of all.
LEMMA ReplayExtends ==
  ASSUME NEW a, Placed(a), IsFiniteSet(DOMAIN a), NEW U \in SUBSET DOMAIN a,
         NEW x, IsLast(a, U, x), NEW f, Replays(a, f, U \ {x})
  PROVE  \E g : Replays(a, g, U)
<1> DEFINE g == [D \in SUBSET U |->
                   IF x \in D THEN Apply(f[D \ {x}], a[x].event) ELSE f[D]]
<1>1. ASSUME NEW D \in SUBSET U
      PROVE  g[D] = Replayed(a, g, D)
  <2>1. CASE x \in D
    <3>1. IsLast(a, D, x)
      BY <2>1 DEF IsLast
    <3>2. Last(a, D) = x
      BY <3>1, LastIs
    <3>3. g[D] = Apply(f[D \ {x}], a[x].event)
      BY <2>1
    <3>4. D \ {x} \in SUBSET U /\ x \notin D \ {x}
      OBVIOUS
    <3>5. g[D \ {x}] = f[D \ {x}]
      BY <3>4
    <3>6. D # {}
      BY <2>1
    <3> HIDE DEF g
    <3> QED
      BY <3>2, <3>3, <3>5, <3>6 DEF Replayed
  <2>2. CASE x \notin D
    <3>1. D \in SUBSET (U \ {x}) /\ g[D] = f[D]
      BY <2>2
    <3>2. f[D] = Replayed(a, f, D)
      BY <3>1 DEF Replays
    <3>3. CASE D = {}
      <4> HIDE DEF g
      <4> QED
        BY <3>1, <3>2, <3>3 DEF Replayed
    <3>4. CASE D # {}
      <4>1. /\ D \ {Last(a, D)} \in SUBSET U
            /\ x \notin D \ {Last(a, D)}
        BY <2>2
      <4>2. g[D \ {Last(a, D)}] = f[D \ {Last(a, D)}]
        BY <4>1
      <4> HIDE DEF g
      <4> QED
        BY <3>1, <3>2, <3>4, <4>2 DEF Replayed
    <3> QED
      BY <3>3, <3>4
  <2> QED
    BY <2>1, <2>2
<1>2. g = [D \in SUBSET U |-> g[D]]
  OBVIOUS
<1> HIDE DEF g
<1>3. g = [D \in SUBSET U |-> Replayed(a, g, D)]
  BY ONLY <1>1, <1>2
<1> QED
  BY <1>3 DEF Replays

LEMMA ReplayIs ==
  ASSUME NEW a, Placed(a), IsFiniteSet(DOMAIN a)
  PROVE  \A D \in SUBSET DOMAIN a : Replay(a)[D] = Replayed(a, Replay(a), D)
<1> DEFINE T == {U \in SUBSET DOMAIN a : \E f : Replays(a, f, U)}
           R == CHOOSE f : Replays(a, f, DOMAIN a)
<1>1. ASSUME NEW U \in SUBSET DOMAIN a, \A x \in U : U \ {x} \in T
      PROVE  U \in T
  <2>1. CASE U = {}
    <3> DEFINE g == [D \in SUBSET {} |-> NoMappings]
    <3>1. Replays(a, g, {})
      <4>1. \A D \in SUBSET {} : Replayed(a, g, D) = NoMappings
        BY DEF Replayed
      <4>2. [D \in SUBSET {} |-> Replayed(a, g, D)] = g
        BY <4>1
      <4> HIDE DEF g
      <4> QED
        BY <4>2 DEF Replays
    <3> QED
      BY <2>1, <3>1
  <2>2. CASE U # {}
    <3>1. PICK x : IsLast(a, U, x)
      BY <2>2, LastIsLast
    <3>2. x \in U
      BY <3>1 DEF IsLast
    <3>3. PICK f : Replays(a, f, U \ {x})
      BY <1>1, <3>2
    <3>4. \E g : Replays(a, g, U)
      BY <3>1, <3>3, ReplayExtends
    <3> QED
      BY <3>4
  <2> QED
    BY <2>1, <2>2
<1>2. DOMAIN a \in T
  <2> HIDE DEF T
  <2>1. PICK V : V = DOMAIN a
    OBVIOUS
  <2>2. IsFiniteSet(V)
    BY <2>1
  <2>3. \A U \in SUBSET V : (\A x \in U : U \ {x} \in T) => U \in T
    BY <1>1, <2>1
  <2>4. \A U \in SUBSET V : U \in T
    BY ONLY <2>2, <2>3, SubsetInduction
  <2> QED
    BY ONLY <2>1, <2>4
<1>3. \E f : Replays(a, f, DOMAIN a)
  BY <1>2
<1>4. Replays(a, R, DOMAIN a)
  BY <1>3
<1>5. R = Replay(a)
  BY DEF Replay, Replays, Replayed, NoMappings
<1>6. Replays(a, Replay(a), DOMAIN a)
  BY ONLY <1>4, <1>5
<1>7. PICK r : r = Replay(a)
  OBVIOUS
<1>8. r = [D \in SUBSET DOMAIN a |-> Replayed(a, r, D)]
  BY ONLY <1>6, <1>7 DEF Replays
<1> QED
  BY ONLY <1>7, <1>8

\* The replay only looks at the events whose places it is given.
LEMMA ReplayGrows ==
  ASSUME NEW a, NEW b, Placed(a), Placed(b),
         IsFiniteSet(DOMAIN a), IsFiniteSet(DOMAIN b),
         DOMAIN a \subseteq DOMAIN b, \A i \in DOMAIN a : b[i] = a[i]
  PROVE  \A D \in SUBSET DOMAIN a : Replay(b)[D] = Replay(a)[D]
<1>v. PICK V : V = DOMAIN a
  OBVIOUS
<1>p. PICK p : p = Replay(a)
  OBVIOUS
<1>q. PICK q : q = Replay(b)
  OBVIOUS
<1> DEFINE T == {D \in SUBSET V : q[D] = p[D]}
<1>1. ASSUME NEW D \in SUBSET V, \A x \in D : D \ {x} \in T
      PROVE  D \in T
  <2>0. D \in SUBSET DOMAIN a /\ D \in SUBSET DOMAIN b
    BY <1>v
  <2>1. p[D] = Replayed(a, p, D) /\ q[D] = Replayed(b, q, D)
    BY <1>p, <1>q, <2>0, ReplayIs
  <2>2. CASE D = {}
    BY <2>1, <2>2 DEF Replayed
  <2>3. CASE D # {}
    <3>1. PICK i : i = Last(a, D)
      OBVIOUS
    <3>2. IsLast(a, D, i)
      BY <2>0, <2>3, <3>1, LastIsLast
    <3>3. IsLast(b, D, i)
      BY <2>0, <3>2 DEF IsLast, Precedes
    <3>4. Last(b, D) = i
      BY <2>0, <3>3, LastIs
    <3>5. i \in D /\ b[i] = a[i]
      BY <2>0, <3>2 DEF IsLast
    <3>6. q[D \ {i}] = p[D \ {i}]
      BY <1>1, <3>5
    <3>7. /\ p[D] = Apply(p[D \ {i}], a[i].event)
          /\ q[D] = Apply(q[D \ {i}], b[i].event)
      BY <2>1, <2>3, <3>1, <3>4 DEF Replayed
    <3>8. q[D] = p[D]
      BY ONLY <3>5, <3>6, <3>7
    <3> QED
      BY <3>8
  <2> QED
    BY <2>2, <2>3
<1>2. \A D \in SUBSET V : D \in T
  <2>1. IsFiniteSet(V)
    BY <1>v
  <2> HIDE DEF T
  <2> QED
    BY ONLY <1>1, <2>1, SubsetInduction
<1> QED
  BY <1>v, <1>p, <1>q, <1>2

\* Behind all others, an event is applied to the tables.
LEMMA ReplayLast ==
  ASSUME NEW a, Placed(a), IsFiniteSet(DOMAIN a), NEW D \in SUBSET DOMAIN a,
         NEW i \in DOMAIN a, i \notin D, \A j \in D : Precedes(a, j, i)
  PROVE  Replay(a)[D \cup {i}] = Apply(Replay(a)[D], a[i].event)
<1>1. PICK E : E = D \cup {i}
  OBVIOUS
<1>2. E \in SUBSET DOMAIN a /\ E # {} /\ E \ {i} = D
  BY <1>1
<1>3. IsLast(a, E, i)
  BY <1>1 DEF IsLast
<1>4. Last(a, E) = i
  BY <1>2, <1>3, LastIs
<1>5. PICK r : r = Replay(a)
  OBVIOUS
<1>6. r[E] = Replayed(a, r, E)
  BY <1>2, <1>5, ReplayIs
<1>7. r[E] = Apply(r[E \ {i}], a[i].event)
  BY <1>2, <1>4, <1>6 DEF Replayed
<1>8. r[E] = Apply(r[D], a[i].event)
  BY ONLY <1>2, <1>7
<1> QED
  BY ONLY <1>1, <1>5, <1>8

\* The end of another process does not touch the table of an mmap.
LEMMA ApplySwaps ==
  ASSUME NEW tables, NEW m, NEW e, m.type = "mmap", EndsProcess(e),
         m.pid # e.pid
  PROVE  Apply(Apply(tables, m), e) = Apply(Apply(tables, e), m)
<1>1. ~StartsProcess(m) /\ ~EndsProcess(m) /\ ~StartsProcess(e) /\ e.type # "mmap"
  BY DEF EndsProcess, StartsProcess
<1>2. PICK p : p = m.pid
  OBVIOUS
<1>3. PICK q : q = e.pid
  OBVIOUS
<1>4. \A t : Apply(t, m) = [t EXCEPT ![p] = Append(@, m)]
  BY <1>1, <1>2 DEF Apply
<1>5. \A t : Apply(t, e) = [t EXCEPT ![q] = <<>>]
  BY <1>1, <1>3 DEF Apply
<1>6. p # q
  BY <1>2, <1>3
<1>7. [[tables EXCEPT ![p] = Append(@, m)] EXCEPT ![q] = <<>>]
        = [[tables EXCEPT ![q] = <<>>] EXCEPT ![p] = Append(@, m)]
  BY ONLY <1>6
<1>8. /\ Apply(Apply(tables, m), e) = [Apply(tables, m) EXCEPT ![q] = <<>>]
      /\ Apply(Apply(tables, e), m) = [Apply(tables, e) EXCEPT ![p] = Append(@, m)]
  BY ONLY <1>4, <1>5, Zenon
<1> QED
  BY ONLY <1>4, <1>5, <1>7, <1>8, Zenon

\* So does an mmap behind all others but the ends of other processes.
LEMMA ReplayMmap ==
  ASSUME NEW a, Placed(a), IsFiniteSet(DOMAIN a),
         NEW i \in DOMAIN a, a[i].event.type = "mmap",
         NEW B \in SUBSET DOMAIN a, i \notin B,
         \A j \in B :
           \/ Precedes(a, j, i)
           \/ EndsProcess(a[j].event) /\ a[i].event.pid # a[j].event.pid
  PROVE  Replay(a)[B \cup {i}] = Apply(Replay(a)[B], a[i].event)
<1>r. PICK r : r = Replay(a)
  OBVIOUS
<1>m. PICK m : m = a[i].event
  OBVIOUS
<1> DEFINE T == {D \in SUBSET B : r[D \cup {i}] = Apply(r[D], m)}
<1>1. ASSUME NEW D \in SUBSET B, \A x \in D : D \ {x} \in T
      PROVE  D \in T
  <2>1. D \in SUBSET DOMAIN a /\ i \notin D
    OBVIOUS
  <2>2. CASE \A j \in D : Precedes(a, j, i)
    <3>1. r[D \cup {i}] = Apply(r[D], m)
      BY <1>r, <1>m, <2>1, <2>2, ReplayLast
    <3> QED
      BY <3>1
  <2>3. CASE ~\A j \in D : Precedes(a, j, i)
    <3>1. PICK j \in D : ~Precedes(a, j, i)
      BY <2>3
    <3>2. PICK l : IsLast(a, D, l)
      BY <2>1, <3>1, LastIsLast
    <3>3. l \in D /\ l \in DOMAIN a /\ j \in DOMAIN a /\ l # i
      BY <2>1, <3>2 DEF IsLast
    <3>4. ~Precedes(a, l, i)
      BY <3>1, <3>2, <3>3, PrecedesOrder DEF IsLast
    <3>5. /\ Precedes(a, i, l)
          /\ EndsProcess(a[l].event) /\ m.pid # a[l].event.pid
      BY <1>m, <3>3, <3>4, PrecedesOrder
    <3>6. PICK C : C = D \ {l}
      OBVIOUS
    <3>7. /\ C \in SUBSET DOMAIN a /\ C \cup {i} \in SUBSET DOMAIN a
          /\ l \notin C /\ l \notin C \cup {i}
          /\ C \cup {l} = D /\ (C \cup {i}) \cup {l} = D \cup {i}
      BY <2>1, <3>3, <3>6
    <3>8. /\ \A k \in C : Precedes(a, k, l)
          /\ \A k \in C \cup {i} : Precedes(a, k, l)
      BY <3>2, <3>5, <3>6 DEF IsLast
    <3>9. r[C \cup {l}] = Apply(r[C], a[l].event)
      BY <1>r, <3>3, <3>7, <3>8, ReplayLast
    <3>10. r[(C \cup {i}) \cup {l}] = Apply(r[C \cup {i}], a[l].event)
      <4>1. PICK E : E = C \cup {i}
        OBVIOUS
      <4>2. r[E \cup {l}] = Apply(r[E], a[l].event)
        BY <1>r, <3>3, <3>7, <3>8, <4>1, ReplayLast
      <4> QED
        BY ONLY <4>1, <4>2
    <3>11. r[C \cup {i}] = Apply(r[C], m)
      BY <1>1, <3>3, <3>6
    <3>12. Apply(Apply(r[C], m), a[l].event) = Apply(Apply(r[C], a[l].event), m)
      <4>1. m.type = "mmap"
        BY <1>m
      <4> QED
        BY ONLY <3>5, <4>1, ApplySwaps
    <3>13. r[D \cup {i}] = Apply(r[D], m)
      BY ONLY <3>7, <3>9, <3>10, <3>11, <3>12
    <3> QED
      BY <3>13
  <2> QED
    BY <2>2, <2>3
<1>2. B \in T
  <2>1. IsFiniteSet(B)
    BY FS_Subset
  <2> HIDE DEF T
  <2>2. \A D \in SUBSET B : D \in T
    BY ONLY <1>1, <2>1, SubsetInduction
  <2>3. B \in SUBSET B
    OBVIOUS
  <2> QED
    BY ONLY <2>2, <2>3
<1> QED
  BY <1>r, <1>m, <1>2

-----------------------------------------------------------------------------
(***************************************************************************)
(* Analysis against the timeline.  If no event is late, the tables are at  *)
(* every step of a flush the replay of the events that were applied to     *)
(* them, although mmaps and task events are applied out of their order.    *)
(***************************************************************************)
InTime == NoneLate(Len(arrived)) /\ NoTrailingFork

\* The analysis has come to time t.
Reached(t) ==
  \/ \E k \in DOMAIN analyzed : t <= analyzed[k].event.time
  \/ flush.phase = "tasks" /\ t <= NextSampleTime

LastTimeReached == lastFlushMaxTime > 0 => Reached(lastFlushMaxTime)

\* Only what is older than m_lastFlushMaxTime violates the order.
ViolationsFollowSamples ==
  flush.violates \/ flush.phase = "break" => lastFlushMaxTime > 0

KnownHasArrived == \A k \in DOMAIN analyzed : analyzed[k].known <= Len(arrived)

\* What is buffered comes after the analyzed samples.
BuffersAhead ==
  InTime =>
    \A k \in DOMAIN analyzed :
      /\ \A e \in Elements(mmapBuffer) \cup Elements(taskEventsBuffer) :
           analyzed[k].event.time < e.time
      /\ \A e \in Elements(sampleBuffer) : analyzed[k].event.time <= e.time

\* The events that were applied to the symbol tables.
Applied == Elements(registered) \cup {e \in EventsOf(sent) : ChangesMappings(e)}

AppliedReached == InTime => \A d \in Applied : Reached(d.time)

\* They come before what is buffered, but for the mmaps that a process start has
\* not waited for.
AppliedFirst ==
  InTime =>
    \A d \in Applied :
      /\ \A e \in Elements(taskEventsBuffer) : d.time <= e.time
      /\ \A e \in Elements(mmapBuffer) :
           /\ d.type = "mmap" => d.time <= e.time
           /\ StartsProcess(d) => d.time < e.time

PlacesOf(S) == {i \in DOMAIN arrived : arrived[i].event \in S}

EndsFollowed ==
  \A m \in EventsOf(arrived), d \in Applied :
    m.type = "mmap" /\ EndsProcess(d) /\ m.pid = d.pid /\ m.time <= d.time =>
      \E s \in EventsOf(arrived) :
        s.type = "sample" /\ m.time <= s.time /\ s.time < d.time

TablesReplayed ==
  InTime /\ EndsFollowed => symbolTables = Replay(arrived)[PlacesOf(Applied)]

\* What holds of the order and the arrival of events, as shown above.
Base == OrderInv /\ ArrivalInv

LateInv == LastTimeReached /\ ViolationsFollowSamples /\ KnownHasArrived

TimelineInv ==
  /\ LateInv
  /\ BuffersAhead /\ AppliedReached /\ AppliedFirst /\ TablesReplayed
  /\ AnalysisMatchesTimeline

\* What a step does to the events and to the tables.
EventComes(e) ==
  /\ flush.phase = "idle" /\ flush'.phase \in {"idle", "samples"}
  /\ e \notin EventsOf(arrived)
  /\ \E b : arrived' = Append(arrived, [event |-> e, bound |-> b])
  /\ Elements(sampleBuffer') \subseteq Elements(sampleBuffer) \cup {e}
  /\ Elements(mmapBuffer') \subseteq Elements(mmapBuffer) \cup {e}
  /\ Elements(taskEventsBuffer') \subseteq Elements(taskEventsBuffer) \cup {e}
  /\ UNCHANGED <<registered, sent, analyzed, symbolTables, lastFlushMaxTime>>

FlushGoesOn ==
  /\ Elements(sampleBuffer') = Elements(sampleBuffer)
  /\ Elements(mmapBuffer') = Elements(mmapBuffer)
  /\ Elements(taskEventsBuffer') = Elements(taskEventsBuffer)
  /\ UNCHANGED <<arrived, registered, sent, analyzed, symbolTables>>
  /\ flush.phase = "tasks" => UNCHANGED <<flush, sampleBuffer>>
  /\ \/ lastFlushMaxTime' = lastFlushMaxTime
     \/ flush'.phase = "tasks" /\ lastFlushMaxTime' = NextSampleTime'

MmapForwarded(mmap) ==
  /\ mmapBuffer # <<>> /\ mmap = Head(mmapBuffer)
  /\ mmapBuffer' = Tail(mmapBuffer)
  /\ registered' = Append(registered, mmap)
  /\ symbolTables' = [symbolTables EXCEPT ![mmap.pid] = Append(@, mmap)]
  /\ UNCHANGED <<arrived, sent, analyzed, sampleBuffer, taskEventsBuffer, flush,
                 lastFlushMaxTime>>

\* The times of the events are numbers.
LEMMA TimesAreNat ==
  ASSUME Base
  PROVE  /\ \A e \in EventsOf(arrived) : e.time \in Nat /\ e \in Events
         /\ Elements(sampleBuffer) \subseteq EventsOf(arrived) \cap Samples
         /\ Elements(mmapBuffer) \subseteq EventsOf(arrived) \cap Mmaps
         /\ Elements(taskEventsBuffer) \subseteq EventsOf(arrived) \cap TaskEvents
         /\ Elements(registered) \subseteq EventsOf(arrived) \cap Mmaps
         /\ EventsOf(sent) \subseteq EventsOf(arrived) \cap TaskEvents
         /\ \A k \in DOMAIN analyzed : /\ analyzed[k].event.time \in Nat
                                       /\ analyzed[k].event \in Samples
                                       /\ analyzed[k].event \in EventsOf(arrived)
         /\ lastFlushMaxTime \in Nat
<1>1. /\ sampleBuffer \in Seq(Samples) /\ mmapBuffer \in Seq(Mmaps)
      /\ taskEventsBuffer \in Seq(TaskEvents) /\ registered \in Seq(Mmaps)
      /\ sent \in Seq(Sent) /\ analyzed \in Seq(Analyzed)
      /\ arrived \in Seq([event : Events, bound : Nat])
      /\ lastFlushMaxTime \in Nat
  BY Zenon DEF Base, OrderInv, TypeOK
<1>2. EventsOf(arrived) = Held
  BY DEF Base, ArrivalInv, NothingLostOrRepeated, EventsOf, Held
<1>3. \A e \in EventsOf(arrived) : e \in Events
  <2> DEFINE A == [event : Events, bound : Nat]
  <2>1. arrived \in Seq(A) /\ \A x \in A : x.event \in Events
    BY <1>1
  <2> HIDE DEF A
  <2>2. \A i \in DOMAIN arrived : arrived[i] \in A
    BY ONLY <2>1
  <2> QED
    BY ONLY <2>1, <2>2 DEF EventsOf, Elements
<1>4. /\ Elements(sampleBuffer) \subseteq Samples
      /\ Elements(mmapBuffer) \subseteq Mmaps
      /\ Elements(taskEventsBuffer) \subseteq TaskEvents
      /\ Elements(registered) \subseteq Mmaps
  BY <1>1 DEF Elements
<1>5. EventsOf(sent) \subseteq TaskEvents
  <2>1. \A x \in Sent : x.event \in TaskEvents
    BY DEF Sent
  <2> QED
    BY <1>1, <2>1 DEF EventsOf, Elements
<1>6. \A k \in DOMAIN analyzed : /\ analyzed[k].event \in Samples
                                 /\ analyzed[k].event \in EventsOf(analyzed)
  <2>1. \A x \in Analyzed : x.event \in Samples
    BY DEF Analyzed
  <2> QED
    BY <1>1, <2>1 DEF EventsOf, Elements
<1>7. \A k \in DOMAIN analyzed : analyzed[k].event.time \in Nat
  BY <1>6, EventsTimed DEF Timed
<1>8. \A e \in EventsOf(arrived) : e.time \in Nat
  BY <1>3, EventsTimed
<1>9. /\ Elements(sampleBuffer) \subseteq EventsOf(arrived)
      /\ Elements(mmapBuffer) \subseteq EventsOf(arrived)
      /\ Elements(taskEventsBuffer) \subseteq EventsOf(arrived)
      /\ Elements(registered) \subseteq EventsOf(arrived)
      /\ EventsOf(sent) \subseteq EventsOf(arrived)
      /\ EventsOf(analyzed) \subseteq EventsOf(arrived)
  BY <1>2 DEF Held
<1> QED
  BY <1>1, <1>3, <1>4, <1>5, <1>6, <1>7, <1>8, <1>9

Extends(s, t) ==
  /\ Len(s) \in Nat /\ Len(t) \in Nat /\ Len(s) <= Len(t)
  /\ DOMAIN s = 1 .. Len(s) /\ DOMAIN t = 1 .. Len(t)
  /\ \A i \in DOMAIN s : t[i] = s[i]

\* A history extends itself, and by one more entry.
LEMMA AppendExtends ==
  ASSUME NEW S, NEW s \in Seq(S)
  PROVE  Extends(s, s) /\ \A x : Extends(s, Append(s, x))
BY DEF Extends

\* The histories only grow.
LEMMA HistoriesGrow ==
  ASSUME Base, [Next]_vars
  PROVE  /\ Extends(arrived, arrived') /\ Extends(sent, sent')
         /\ Extends(analyzed, analyzed')
<1>1. /\ sent \in Seq(Sent) /\ analyzed \in Seq(Analyzed)
      /\ arrived \in Seq([event : Events, bound : Nat])
      /\ TypeOK /\ SampleAtHand
  BY Zenon DEF Base, OrderInv, TypeOK
<1>2. ArrivalStep \/ SortStep \/ MmapStep \/ TaskStep \/ SampleStep \/ OtherStep
  BY <1>1, StepKinds
<1>3. arrived' = arrived \/ \E x : arrived' = Append(arrived, x)
  BY <1>2, Zenon DEF ArrivalStep, Arrives, SortStep, MmapStep, TaskStep, SampleStep,
              OtherStep
<1>4. sent' = sent \/ \E x : sent' = Append(sent, x)
  BY <1>2, Zenon DEF ArrivalStep, Arrives, SortStep, MmapStep, TaskStep, SampleStep,
              OtherStep
<1>5. analyzed' = analyzed \/ \E x : analyzed' = Append(analyzed, x)
  BY <1>2, Zenon DEF ArrivalStep, Arrives, SortStep, MmapStep, TaskStep, SampleStep,
              OtherStep
<1>6. Extends(arrived, arrived')
  BY <1>1, <1>3, AppendExtends
<1>7. Extends(sent, sent')
  BY <1>1, <1>4, AppendExtends
<1>8. Extends(analyzed, analyzed')
  BY <1>1, <1>5, AppendExtends
<1> QED
  BY <1>6, <1>7, <1>8

\* A flush that begins has a violation only if something was analyzed before.
LEMMA BeginFlushLate ==
  ASSUME TypeOK, NEW samples \in Seq(Samples), NEW mmaps \in Seq(Mmaps),
         NEW tasks \in Seq(TaskEvents), NEW size, NEW desired,
         BeginFlush(samples, mmaps, tasks, size, desired)
  PROVE  /\ flush'.phase = "samples"
         /\ flush'.violates => lastFlushMaxTime > 0
         /\ Elements(sampleBuffer') = Elements(samples)
         /\ Elements(mmapBuffer') = Elements(mmaps)
         /\ Elements(taskEventsBuffer') = Elements(tasks)
<1> DEFINE sorted == SortByTime(mmaps)
<1>1. /\ sampleBuffer' = SortByTime(samples) /\ mmapBuffer' = SortByTime(mmaps)
      /\ taskEventsBuffer' = SortByTime(tasks)
      /\ flush'.phase = "samples"
      /\ flush'.violates => sorted # <<>> /\ Head(sorted).time < lastFlushMaxTime
  BY DEF BeginFlush
<1>2. /\ Elements(SortByTime(samples)) = Elements(samples)
      /\ Elements(SortByTime(mmaps)) = Elements(mmaps)
      /\ Elements(SortByTime(tasks)) = Elements(tasks)
  BY EventsTimed, ElementsOfSort
<1>3. ASSUME sorted # <<>>
      PROVE  Head(sorted).time \in Nat
  <2>1. sorted \in Seq(Mmaps)
    BY EventsTimed, SortIsSequence
  <2> HIDE DEF sorted
  <2>2. Head(sorted) \in Mmaps
    BY <1>3, <2>1
  <2> QED
    BY <2>2, EventsTimed DEF Timed
<1>4. lastFlushMaxTime \in Nat
  BY Zenon DEF TypeOK
<1> HIDE DEF sorted
<1> QED
  BY <1>1, <1>2, <1>3, <1>4

\* Reading a record.
LEMMA ReadIsArrival ==
  ASSUME Base, Base', NEW r \in Records, ReadRecord(r)
  PROVE  /\ \E e \in Events : EventComes(e)
         /\ ViolationsFollowSamples => ViolationsFollowSamples'
<1>1. TypeOK /\ SampleAtHand /\ lastFlushMaxTime \in Nat
      /\ sampleBuffer \in Seq(Samples) /\ mmapBuffer \in Seq(Mmaps)
      /\ taskEventsBuffer \in Seq(TaskEvents)
      /\ arrived \in Seq([event : Events, bound : Nat])
  BY Zenon DEF Base, OrderInv, TypeOK
<1>2. /\ flush.phase = "idle"
      /\ UNCHANGED <<registered, sent, analyzed, symbolTables, lastFlushMaxTime>>
  BY DEF ReadRecord, sample, registerElf, comm, lost, fork, exit, contextSwitch,
         Read, Ready, Idle, outputs, order
<1>3. PICK q \in Records, e \in Events, samples \in Seq(Samples), mmaps \in Seq(Mmaps),
           tasks \in Seq(TaskEvents) : Arrives(q, e, samples, mmaps, tasks)
  BY <1>1, RecordArrives DEF ArrivalStep
<1>4. arrived' = Append(arrived, [event |-> e, bound |-> lastFlushMaxTime])
  BY <1>3 DEF Arrives
<1>5. e \notin EventsOf(arrived)
  <2>1. Unrepeated(arrived')
    BY DEF Base, ArrivalInv
  <2>2. /\ DOMAIN arrived' = 1 .. Len(arrived) + 1 /\ Len(arrived) \in Nat
        /\ DOMAIN arrived = 1 .. Len(arrived)
        /\ arrived'[Len(arrived) + 1].event = e
        /\ \A i \in 1 .. Len(arrived) : arrived'[i] = arrived[i]
    BY <1>1, <1>4
  <2>3. ASSUME NEW i \in DOMAIN arrived, arrived[i].event = e
        PROVE  FALSE
    <3>1. i = Len(arrived) + 1
      BY <2>1, <2>2, <2>3 DEF Unrepeated
    <3> QED
      BY <2>2, <3>1
  <2> QED
    BY <2>3 DEF EventsOf, Elements
<1>6. /\ Elements(samples) \subseteq Elements(sampleBuffer) \cup {e}
      /\ Elements(mmaps) \subseteq Elements(mmapBuffer) \cup {e}
      /\ Elements(tasks) \subseteq Elements(taskEventsBuffer) \cup {e}
  BY <1>1, <1>3, ElementsOfAppend DEF Arrives, OneMore
<1>7. /\ Elements(sampleBuffer') = Elements(samples)
      /\ Elements(mmapBuffer') = Elements(mmaps)
      /\ Elements(taskEventsBuffer') = Elements(tasks)
  <2>1. /\ Elements(SortByTime(samples)) = Elements(samples)
        /\ Elements(SortByTime(mmaps)) = Elements(mmaps)
        /\ Elements(SortByTime(tasks)) = Elements(tasks)
    BY EventsTimed, ElementsOfSort
  <2> QED
    BY <1>3, <2>1 DEF Arrives, Buffers
<1>8. \/ UNCHANGED flush
      \/ /\ flush'.phase = "samples"
         /\ flush'.violates => lastFlushMaxTime > 0
  <2>1. ASSUME NEW x, NEW s \in Seq(Samples), NEW m \in Seq(Mmaps),
               NEW t \in Seq(TaskEvents), bufferEvent(x, s, m, t)
        PROVE  \/ UNCHANGED flush
               \/ /\ flush'.phase = "samples"
                  /\ flush'.violates => lastFlushMaxTime > 0
    BY <1>1, <2>1, BeginFlushLate DEF bufferEvent
  <2>2. \E x : \E s \in Seq(Samples), m \in Seq(Mmaps), t \in Seq(TaskEvents) :
          bufferEvent(x, s, m, t)
    <3>1. r \in Event(RecordTypes) /\ (r.type = "fork" => r.payload \in Pids)
      BY BufferAssumption
    <3>2. CASE sample(r)
      <4>1. r \in Samples
        BY <3>1, <3>2 DEF sample, Read, Samples, Event
      <4>2. Append(sampleBuffer, r) \in Seq(Samples)
        BY <1>1, <4>1
      <4> QED
        BY <1>1, <3>2, <4>2 DEF sample
    <3>3. CASE registerElf(r)
      <4>1. r \in Mmaps
        BY <3>1, <3>3 DEF registerElf, Read, Mmaps, Event
      <4>2. Append(mmapBuffer, r) \in Seq(Mmaps)
        BY <1>1, <4>1
      <4> QED
        BY <1>1, <3>3, <4>2 DEF registerElf
    <3>4. ASSUME NEW type \in TaskTypes, bufferTaskEvent(TaskEvent(r, type)),
                 type = "ThreadStart" => r.type = "fork"
          PROVE  \E x : \E s \in Seq(Samples), m \in Seq(Mmaps),
                    t \in Seq(TaskEvents) : bufferEvent(x, s, m, t)
      <4>1. TaskEvent(r, type) \in Event(TaskTypes)
        BY <3>1, BufferAssumption DEF TaskEvent, Event
      <4>2. TaskEvent(r, type) \in TaskEvents
        BY <3>1, <3>4, <4>1 DEF TaskEvents, TaskEvent
      <4>3. Append(taskEventsBuffer, TaskEvent(r, type)) \in Seq(TaskEvents)
        BY <1>1, <4>2
      <4> QED
        BY <1>1, <3>4, <4>3 DEF bufferTaskEvent
    <3>5. CASE comm(r) \/ lost(r) \/ fork(r) \/ exit(r) \/ contextSwitch(r)
      BY <3>4, <3>5 DEF comm, lost, fork, exit, contextSwitch, TaskTypes, Read
    <3> QED
      BY <3>2, <3>3, <3>5 DEF ReadRecord
  <2> QED
    BY <2>1, <2>2
<1>9. flush'.phase \in {"idle", "samples"}
  BY <1>2, <1>8
<1>10. EventComes(e)
  BY <1>2, <1>4, <1>5, <1>6, <1>7, <1>9, Zenon DEF EventComes
<1>11. ViolationsFollowSamples => ViolationsFollowSamples'
  BY <1>2, <1>8, <1>9 DEF ViolationsFollowSamples
<1> QED
  BY <1>10, <1>11

\* The steps of a flush and of the header, and what else is read.
LEMMA OtherSteps ==
  ASSUME Base, [Next]_vars, ~\E r \in Records : ReadRecord(r)
  PROVE  /\ \/ FlushGoesOn
            \/ /\ ForwardLateMmap \/ ForwardMmapBeforeFork
                                  \/ ForwardMmapBeforeSample
               /\ MmapForwarded(Head(mmapBuffer))
            \/ FlushTaskEvent \/ TrailingTaskEvent \/ AnalyzeSample
         /\ ViolationsFollowSamples => ViolationsFollowSamples'
<1> DEFINE Goal == 
         /\ \/ FlushGoesOn
            \/ /\ ForwardLateMmap \/ ForwardMmapBeforeFork
                                  \/ ForwardMmapBeforeSample
               /\ MmapForwarded(Head(mmapBuffer))
            \/ FlushTaskEvent \/ TrailingTaskEvent \/ AnalyzeSample
         /\ ViolationsFollowSamples => ViolationsFollowSamples'
<1>1. TypeOK /\ SampleAtHand /\ lastFlushMaxTime \in Nat
      /\ sampleBuffer \in Seq(Samples) /\ mmapBuffer \in Seq(Mmaps)
      /\ taskEventsBuffer \in Seq(TaskEvents)
      /\ flush \in [phase : Phases, desired : 0 .. UIntMax,
                    violates : BOOLEAN, sizeAtStart : 0 .. UIntMax]
  BY Zenon DEF Base, OrderInv, TypeOK
<1>2. ASSUME UNCHANGED <<buffers, outputs, arrived, lastFlushMaxTime, flush>>
      PROVE  Goal
  BY <1>2 DEF buffers, outputs, FlushGoesOn, ViolationsFollowSamples
<1>4. CASE UNCHANGED vars
  BY <1>2, <1>4 DEF vars, order
<1>5. CASE \/ \E attr \in PipeAttributes : PipeAttribute(attr)
           \/ FeaturesEventDesc \/ FeaturesVersion \/ HeaderAttribute
           \/ Terminated
  BY <1>2, <1>5 DEF PipeAttribute, FeaturesEventDesc, FeaturesVersion,
              HeaderAttribute, Terminated, vars, order
<1>6. CASE finishedRound \/ Finalize \/ FinalFlush
  <2>1. flush.phase = "idle" /\ UNCHANGED <<outputs, arrived, lastFlushMaxTime>>
    BY <1>6 DEF finishedRound, Finalize, FinalFlush, Ready, Idle, order
  <2>2. \/ \E size, desired : BeginFlush(sampleBuffer, mmapBuffer,
                                         taskEventsBuffer, size, desired)
        \/ UNCHANGED <<buffers, flush>>
    BY <1>6 DEF finishedRound, Finalize, FinalFlush, RoundFinished
  <2>3. CASE UNCHANGED <<buffers, flush>>
    BY <1>2, <2>1, <2>3
  <2>4. CASE \E size, desired : BeginFlush(sampleBuffer, mmapBuffer,
                                           taskEventsBuffer, size, desired)
    <3>1. /\ flush'.phase = "samples"
          /\ flush'.violates => lastFlushMaxTime > 0
          /\ Elements(sampleBuffer') = Elements(sampleBuffer)
          /\ Elements(mmapBuffer') = Elements(mmapBuffer)
          /\ Elements(taskEventsBuffer') = Elements(taskEventsBuffer)
      BY <1>1, <2>4, BeginFlushLate
    <3> QED
      BY <2>1, <3>1 DEF outputs, FlushGoesOn, ViolationsFollowSamples
  <2> QED
    BY <2>2, <2>3, <2>4
<1>7. ASSUME NEW phase \in Phases, phase # "tasks", StepOverSamples(phase),
             flush.phase # "tasks",
             phase = "break" => flush.violates \/ flush.phase = "break"
      PROVE  Goal
  <2>1. /\ flush'.phase = phase /\ flush'.violates = flush.violates
        /\ UNCHANGED <<buffers, outputs, arrived, lastFlushMaxTime>>
    BY <1>1, <1>7 DEF StepOverSamples, order
  <2> QED
    BY <1>7, <2>1 DEF buffers, outputs, FlushGoesOn, ViolationsFollowSamples
<1>8. CASE SamplesCanWait \/ NoMoreSamples \/ LeaveSamples
  BY <1>7, <1>8 DEF SamplesCanWait, NoMoreSamples, LeaveSamples, Phases
<1>9. NextSampleTime \in Nat \/ sampleBuffer = <<>>
  <2>1. sampleBuffer # <<>> => Head(sampleBuffer) \in Samples
    BY <1>1
  <2> QED
    BY <2>1, EventsTimed DEF Timed, NextSampleTime
<1>10. CASE SampleTooLate
  <2>1. /\ flush.phase = "samples" /\ flush'.phase = "tasks"
        /\ UNCHANGED <<buffers, outputs, arrived, lastFlushMaxTime>>
    BY <1>1, <1>10 DEF SampleTooLate, order
  <2>2. lastFlushMaxTime > 0
    BY <1>1, <1>9, <1>10 DEF SampleTooLate, MoreSamples
  <2> QED
    BY <2>1, <2>2 DEF buffers, outputs, FlushGoesOn, ViolationsFollowSamples
<1>11. CASE SampleInTime
  <2>1. /\ flush.phase = "samples" /\ flush'.phase = "tasks" /\ ~flush.violates
        /\ flush'.violates = flush.violates
        /\ lastFlushMaxTime' = NextSampleTime
        /\ UNCHANGED <<buffers, outputs, arrived>>
    BY <1>1, <1>11 DEF SampleInTime
  <2> QED
    BY <2>1 DEF buffers, outputs, FlushGoesOn, ViolationsFollowSamples,
                NextSampleTime
<1>12. ASSUME NEW t, ForwardMmap(t)
       PROVE  /\ MmapForwarded(Head(mmapBuffer))
              /\ ViolationsFollowSamples => ViolationsFollowSamples'
  BY <1>12 DEF ForwardMmap, MmapDue, MmapForwarded, order, ViolationsFollowSamples
<1>13. CASE ForwardLateMmap \/ ForwardMmapBeforeFork \/ ForwardMmapBeforeSample
  BY <1>12, <1>13 DEF ForwardLateMmap, ForwardMmapBeforeFork,
                      ForwardMmapBeforeSample
<1>14. CASE FlushTaskEvent \/ TrailingTaskEvent
  BY <1>14 DEF FlushTaskEvent, TrailingTaskEvent, order, ViolationsFollowSamples
<1>15. CASE AnalyzeSample
  BY <1>1, <1>15 DEF AnalyzeSample, order, ViolationsFollowSamples
<1>16. CASE EndFlush
  <2>1. /\ flush.phase = "tail" /\ flush'.phase = "idle"
        /\ flush'.violates = flush.violates
        /\ UNCHANGED <<buffers, outputs, arrived, lastFlushMaxTime>>
    BY <1>1, <1>16 DEF EndFlush
  <2> QED
    BY <2>1 DEF buffers, outputs, FlushGoesOn, ViolationsFollowSamples
<1> QED
  BY <1>4, <1>5, <1>6, <1>8, <1>10, <1>11, <1>13, <1>14, <1>15, <1>16
     DEF Next, Internal, FlushStep

\* What sending a task event and forwarding an mmap do.
TaskForwarded(e, trailing) ==
  /\ taskEventsBuffer # <<>> /\ e = Head(taskEventsBuffer)
  /\ taskEventsBuffer' = Tail(taskEventsBuffer)
  /\ sent' = Append(sent, [event |-> e, trailing |-> trailing])
  /\ UNCHANGED <<arrived, registered, analyzed, sampleBuffer, mmapBuffer, flush,
                 lastFlushMaxTime>>

MmapIsForwarded ==
  /\ ForwardLateMmap \/ ForwardMmapBeforeFork \/ ForwardMmapBeforeSample
  /\ MmapForwarded(Head(mmapBuffer))

\* Both loops of flushEventBuffer send the first task event.
LEMMA TasksAreForwarded ==
  /\ FlushTaskEvent => TaskForwarded(Head(taskEventsBuffer), FALSE)
  /\ TrailingTaskEvent => TaskForwarded(Head(taskEventsBuffer), TRUE)
                          /\ UNCHANGED symbolTables
<1>1. ASSUME FlushTaskEvent
      PROVE  TaskForwarded(Head(taskEventsBuffer), FALSE)
  BY <1>1 DEF FlushTaskEvent, TaskForwarded, sendTaskEvent, TaskDue, order
<1>2. ASSUME TrailingTaskEvent
      PROVE  TaskForwarded(Head(taskEventsBuffer), TRUE) /\ UNCHANGED symbolTables
  BY <1>2 DEF TrailingTaskEvent, TaskForwarded, sendTaskEvent, MoreTaskEvents,
              order
<1> QED
  BY <1>1, <1>2

\* All steps, by what they do to the events.
LEMMA TimelineSteps ==
  ASSUME Base, Base', [Next]_vars
  PROVE  /\ \/ \E e \in Events : EventComes(e)
            \/ FlushGoesOn \/ MmapIsForwarded
            \/ FlushTaskEvent \/ TrailingTaskEvent \/ AnalyzeSample
         /\ ViolationsFollowSamples => ViolationsFollowSamples'
BY ReadIsArrival, OtherSteps DEF MmapIsForwarded

\* While a sample is at hand, it is the first of those buffered.
LEMMA NextSampleIsFirst ==
  ASSUME Base, flush.phase = "tasks"
  PROVE  /\ sampleBuffer # <<>> /\ sampleBuffer \in Seq(Samples)
         /\ Head(sampleBuffer) \in Elements(sampleBuffer)
         /\ NextSampleTime = Head(sampleBuffer).time
         /\ NextSampleTime \in Nat
         /\ \A s \in Elements(sampleBuffer) : NextSampleTime <= s.time
<1>1. sampleBuffer # <<>> /\ sampleBuffer \in Seq(Samples)
  BY Zenon DEF Base, OrderInv, SampleAtHand, TypeOK
<1>2. Sorted(sampleBuffer)
  BY Zenon DEF Base, OrderInv, SortedWhileFlushing
<1>3. Head(sampleBuffer) \in Elements(sampleBuffer)
  BY <1>1, ElementsOfTail
<1>4. \A k \in DOMAIN sampleBuffer : Head(sampleBuffer).time <= sampleBuffer[k].time
  BY <1>1, <1>2, EventsTimed, TailSorted
<1>5. Head(sampleBuffer).time \in Nat
  BY <1>1, EventsTimed DEF Timed
<1> QED
  BY <1>1, <1>3, <1>4, <1>5 DEF Elements, NextSampleTime

\* A sorted buffer without its head is later than the head, or as late.
LEMMA HeadIsFirst ==
  ASSUME NEW S, Timed(S), NEW s \in Seq(S), s # <<>>, Sorted(s)
  PROVE  /\ Head(s) \in S /\ Head(s).time \in Nat
         /\ Elements(s) = {Head(s)} \cup Elements(Tail(s))
         /\ \A e \in Elements(s) : Head(s).time <= e.time
<1>1. \A k \in DOMAIN s : Head(s).time <= s[k].time
  BY TailSorted
<1>2. Head(s) \in S
  OBVIOUS
<1>3. Elements(s) = {Head(s)} \cup Elements(Tail(s))
  BY ElementsOfTail
<1> QED
  BY <1>1, <1>2, <1>3 DEF Elements, Timed

\* What AnalyzeSample does to the samples.
LEMMA SampleIsAnalyzed ==
  ASSUME Base, AnalyzeSample
  PROVE  LET s == Head(sampleBuffer)
             n == Len(analyzed)
         IN  /\ s \in Elements(sampleBuffer) /\ s \in Samples
             /\ s.time = NextSampleTime /\ s.time \in Nat
             /\ Elements(sampleBuffer') \subseteq Elements(sampleBuffer)
             /\ \A e \in Elements(sampleBuffer) : s.time <= e.time
             /\ \A e \in Elements(mmapBuffer) \cup Elements(taskEventsBuffer) :
                  s.time < e.time
             /\ n \in Nat /\ DOMAIN analyzed = 1 .. n
             /\ DOMAIN analyzed' = 1 .. n + 1
             /\ \A i \in 1 .. n : analyzed'[i] = analyzed[i]
             /\ analyzed'[n + 1].event = s
             /\ analyzed'[n + 1].known = Len(arrived)
             /\ analyzed'[n + 1].user = symbolTables[s.pid]
             /\ analyzed'[n + 1].kernel = symbolTables[KernelPid]
             /\ flush.phase = "tasks" /\ flush'.phase = "samples"
             /\ UNCHANGED <<arrived, registered, sent, symbolTables, mmapBuffer,
                            taskEventsBuffer, lastFlushMaxTime>>
<1> DEFINE s == Head(sampleBuffer)
           n == Len(analyzed)
<1>1. flush.phase = "tasks"
  BY DEF AnalyzeSample
<1>2. /\ sampleBuffer # <<>> /\ sampleBuffer \in Seq(Samples)
      /\ s \in Elements(sampleBuffer) /\ NextSampleTime = s.time
      /\ NextSampleTime \in Nat
      /\ \A e \in Elements(sampleBuffer) : NextSampleTime <= e.time
  BY <1>1, NextSampleIsFirst
<1>3. /\ mmapBuffer \in Seq(Mmaps) /\ taskEventsBuffer \in Seq(TaskEvents)
      /\ analyzed \in Seq(Analyzed)
      /\ flush \in [phase : Phases, desired : 0 .. UIntMax,
                    violates : BOOLEAN, sizeAtStart : 0 .. UIntMax]
  BY Zenon DEF Base, OrderInv, TypeOK
<1>4. Sorted(mmapBuffer) /\ Sorted(taskEventsBuffer)
  BY <1>1, Zenon DEF Base, OrderInv, SortedWhileFlushing
<1>5. \A i \in DOMAIN mmapBuffer : mmapBuffer[i].time > s.time
  BY <1>2, <1>3, <1>4, EventsTimed, NothingDue DEF AnalyzeSample, MmapDue
<1>6. \A i \in DOMAIN taskEventsBuffer : taskEventsBuffer[i].time > s.time
  BY <1>2, <1>3, <1>4, EventsTimed, NothingDue DEF AnalyzeSample, TaskDue
<1>7. \A e \in Elements(mmapBuffer) \cup Elements(taskEventsBuffer) :
        s.time < e.time
  BY <1>5, <1>6 DEF Elements
<1>8. s \in Samples
  BY <1>2
<1>9. /\ sampleBuffer' = Tail(sampleBuffer) /\ flush'.phase = "samples"
      /\ UNCHANGED <<arrived, registered, sent, symbolTables, mmapBuffer,
                     taskEventsBuffer, lastFlushMaxTime>>
  BY <1>3 DEF AnalyzeSample, order
<1>10. Elements(sampleBuffer') \subseteq Elements(sampleBuffer)
  BY <1>2, <1>9, ElementsOfTail
<1>11. PICK a : /\ analyzed' = Append(analyzed, a)
                /\ a.event = s /\ a.known = Len(arrived)
                /\ a.user = symbolTables[s.pid]
                /\ a.kernel = symbolTables[KernelPid]
  BY DEF AnalyzeSample
<1>12. /\ n \in Nat /\ DOMAIN analyzed = 1 .. n
       /\ DOMAIN analyzed' = 1 .. n + 1
       /\ \A i \in 1 .. n : analyzed'[i] = analyzed[i]
       /\ analyzed'[n + 1] = a
  BY <1>3, <1>11
<1> QED
  BY <1>1, <1>2, <1>7, <1>8, <1>9, <1>10, <1>11, <1>12

\* What was in time stays in time.
LEMMA WasInTime ==
  ASSUME Base, [Next]_vars
  PROVE  /\ \A n \in 0 .. Len(arrived) : NoneLate(n)' => NoneLate(n)
         /\ NoTrailingFork' => NoTrailingFork
         /\ InTime' => InTime
<1>1. /\ Extends(arrived, arrived') /\ Extends(sent, sent')
      /\ Extends(analyzed, analyzed')
  BY HistoriesGrow
<1>2. ASSUME NEW n \in 0 .. Len(arrived), NoneLate(n)'
      PROVE  NoneLate(n)
  BY <1>1, <1>2 DEF NoneLate, Extends
<1>3. ASSUME NoTrailingFork'
      PROVE  NoTrailingFork
  BY <1>1, <1>3 DEF NoTrailingFork, Extends
<1>4. ASSUME NoneLate(Len(arrived))'
      PROVE  NoneLate(Len(arrived))
  <2>1. ASSUME NEW i \in 1 .. Len(arrived), NEW k \in DOMAIN analyzed,
               analyzed[k].known < i
        PROVE  analyzed[k].event.time < arrived[i].event.time
    <3>1. i \in 1 .. Len(arrived') /\ arrived'[i] = arrived[i]
      BY <1>1 DEF Extends
    <3>2. k \in DOMAIN analyzed' /\ analyzed'[k] = analyzed[k]
      BY <1>1 DEF Extends
    <3>3. analyzed'[k].event.time < arrived'[i].event.time
      BY <1>4, <2>1, <3>1, <3>2 DEF NoneLate
    <3> QED
      BY <3>1, <3>2, <3>3
  <2> QED
    BY <2>1 DEF NoneLate
<1> QED
  BY <1>2, <1>3, <1>4 DEF InTime

\* An event that is not late is later than all samples analyzed.
LEMMA ComesLater ==
  ASSUME Base, KnownHasArrived, NEW e, EventComes(e), InTime'
  PROVE  \A k \in DOMAIN analyzed : analyzed[k].event.time < e.time
<1>1. /\ arrived \in Seq([event : Events, bound : Nat])
      /\ analyzed \in Seq(Analyzed)
  BY Zenon DEF Base, OrderInv, TypeOK
<1>2. PICK b : arrived' = Append(arrived, [event |-> e, bound |-> b])
  BY DEF EventComes
<1>3. PICK n \in Nat : n = Len(arrived)
  BY <1>1
<1>4. Len(arrived') = n + 1 /\ arrived'[n + 1].event = e
  BY <1>1, <1>2, <1>3
<1>5. analyzed' = analyzed
  BY DEF EventComes
<1>6. ASSUME NEW k \in DOMAIN analyzed
      PROVE  analyzed[k].known < n + 1
  <2>1. analyzed[k] \in Analyzed
    BY <1>1
  <2>2. analyzed[k].known \in Nat
    BY <2>1 DEF Analyzed
  <2> QED
    BY <1>3, <2>2 DEF KnownHasArrived
<1>7. n + 1 \in 1 .. n + 1
  OBVIOUS
<1> QED
  BY <1>4, <1>5, <1>6, <1>7 DEF InTime, NoneLate

\* What the analysis has come to it does not go back from.
LEMMA ReachedStays ==
  ASSUME Base, Base', [Next]_vars
  PROVE  \A t : Reached(t) => Reached(t)'
<1> SUFFICES ASSUME NEW t, Reached(t)
             PROVE  Reached(t)'
  OBVIOUS
<1>1. CASE \E e \in Events : EventComes(e)
  BY <1>1 DEF EventComes, Reached
<1>2. CASE FlushGoesOn
  BY <1>2 DEF FlushGoesOn, Reached, NextSampleTime
<1>3. CASE MmapIsForwarded
  BY <1>3 DEF MmapIsForwarded, MmapForwarded, Reached, NextSampleTime
<1>4. CASE FlushTaskEvent \/ TrailingTaskEvent
  BY <1>4, TasksAreForwarded DEF TaskForwarded, Reached, NextSampleTime
<1>5. CASE AnalyzeSample
  <2>1. PICK n \in Nat : n = Len(analyzed)
    BY <1>5, SampleIsAnalyzed
  <2>2. /\ DOMAIN analyzed = 1 .. n /\ DOMAIN analyzed' = 1 .. n + 1
        /\ \A i \in 1 .. n : analyzed'[i] = analyzed[i]
        /\ analyzed'[n + 1].event.time = NextSampleTime
    BY <1>5, <2>1, SampleIsAnalyzed
  <2>3. CASE \E k \in DOMAIN analyzed : t <= analyzed[k].event.time
    BY <2>2, <2>3 DEF Reached
  <2>4. CASE t <= NextSampleTime
    <3>1. n + 1 \in DOMAIN analyzed'
      BY <2>2
    <3> QED
      BY <2>2, <2>4, <3>1 DEF Reached
  <2> QED
    BY <2>3, <2>4 DEF Reached
<1> QED
  BY <1>1, <1>2, <1>3, <1>4, <1>5, TimelineSteps

\* The analysis has come to m_lastFlushMaxTime.
LEMMA NextLate ==
  ASSUME Base, Base', LateInv, [Next]_vars
  PROVE  LateInv'
<1>1. ViolationsFollowSamples'
  BY TimelineSteps DEF LateInv
<1>2. LastTimeReached'
  <2>1. CASE lastFlushMaxTime' = lastFlushMaxTime
    BY <2>1, ReachedStays DEF LateInv, LastTimeReached
  <2>2. CASE flush'.phase = "tasks" /\ lastFlushMaxTime' = NextSampleTime'
    <3>1. lastFlushMaxTime' \in Nat
      BY Zenon DEF Base, OrderInv, TypeOK
    <3> QED
      BY <2>2, <3>1 DEF LastTimeReached, Reached
  <2>3. \/ lastFlushMaxTime' = lastFlushMaxTime
        \/ flush'.phase = "tasks" /\ lastFlushMaxTime' = NextSampleTime'
    BY TimelineSteps, TasksAreForwarded, SampleIsAnalyzed
       DEF EventComes, FlushGoesOn, MmapIsForwarded, MmapForwarded, TaskForwarded
  <2> QED
    BY <2>1, <2>2, <2>3
<1>3. KnownHasArrived'
  <2>1. Extends(arrived, arrived')
    BY HistoriesGrow
  <2>2. CASE AnalyzeSample
    <3>1. PICK n \in Nat : n = Len(analyzed)
      BY <2>2, SampleIsAnalyzed
    <3>2. /\ DOMAIN analyzed = 1 .. n /\ DOMAIN analyzed' = 1 .. n + 1
          /\ \A i \in 1 .. n : analyzed'[i] = analyzed[i]
          /\ analyzed'[n + 1].known = Len(arrived)
          /\ arrived' = arrived
      BY <2>2, <3>1, SampleIsAnalyzed
    <3>3. \A k \in 1 .. n : analyzed'[k].known <= Len(arrived')
      BY <3>2 DEF LateInv, KnownHasArrived
    <3>4. analyzed'[n + 1].known <= Len(arrived')
      BY <2>1, <3>2 DEF Extends
    <3> QED
      BY <3>2, <3>3, <3>4 DEF KnownHasArrived
  <2>3. CASE analyzed' = analyzed
    <3>1. \A k \in DOMAIN analyzed : analyzed[k].known \in Nat
      <4>1. analyzed \in Seq(Analyzed)
        BY Zenon DEF Base, OrderInv, TypeOK
      <4>2. \A x \in Analyzed : x.known \in Nat
        BY DEF Analyzed
      <4> QED
        BY ONLY <4>1, <4>2
    <3> QED
      BY <2>1, <2>3, <3>1 DEF LateInv, KnownHasArrived, Extends
  <2> QED
    BY <2>2, <2>3, OnlyAnalyzeAnalyzes
<1> QED
  BY <1>1, <1>2, <1>3 DEF LateInv

\* The mmap at hand is not one that violates the order, unless it is late.
LEMMA NoLateMmap ==
  ASSUME Base, LateInv, BuffersAhead, InTime, MmapIsForwarded
  PROVE  /\ ~ForwardLateMmap /\ flush.phase = "tasks"
         /\ Head(mmapBuffer).time <= NextSampleTime
         /\ \A e \in Elements(taskEventsBuffer) : Head(mmapBuffer).time <= e.time
<1> DEFINE m == Head(mmapBuffer)
<1>1. /\ mmapBuffer \in Seq(Mmaps) /\ taskEventsBuffer \in Seq(TaskEvents)
      /\ lastFlushMaxTime \in Nat /\ mmapBuffer # <<>>
  BY Zenon DEF Base, OrderInv, TypeOK, MmapIsForwarded, MmapForwarded
<1>2. m \in Mmaps /\ m.time \in Nat /\ m \in Elements(mmapBuffer)
  <2>1. m \in Mmaps
    BY <1>1
  <2>2. m \in Elements(mmapBuffer)
    BY <1>1, ElementsOfTail
  <2> QED
    BY <2>1, <2>2, EventsTimed DEF Timed
<1>3. ~ForwardLateMmap
  <2> SUFFICES ASSUME ForwardLateMmap PROVE FALSE
    OBVIOUS
  <2>1. flush.phase = "break" /\ m.time <= lastFlushMaxTime
    BY DEF ForwardLateMmap, ForwardMmap, MmapDue
  <2>2. Reached(lastFlushMaxTime)
    BY <2>1 DEF LateInv, ViolationsFollowSamples, LastTimeReached
  <2>3. PICK k \in DOMAIN analyzed : lastFlushMaxTime <= analyzed[k].event.time
    BY <2>1, <2>2 DEF Reached
  <2>4. analyzed[k].event.time < m.time
    BY <1>2 DEF BuffersAhead
  <2>5. analyzed[k].event.time \in Nat
    BY TimesAreNat
  <2> QED
    BY <1>1, <1>2, <2>1, <2>3, <2>4, <2>5
<1>4. flush.phase = "tasks"
  BY <1>3 DEF MmapIsForwarded, ForwardMmapBeforeFork, ForwardMmapBeforeSample
<1>5. NextSampleTime \in Nat
  BY <1>4, NextSampleIsFirst
<1>6. Sorted(taskEventsBuffer)
  BY <1>4, Zenon DEF Base, OrderInv, SortedWhileFlushing
<1>7. \A e \in Elements(taskEventsBuffer) : e.time \in Nat
  BY TimesAreNat
<1>8. CASE ForwardMmapBeforeFork
  <2>1. /\ taskEventsBuffer # <<>>
        /\ Head(taskEventsBuffer).time <= NextSampleTime
        /\ m.time <= Head(taskEventsBuffer).time
    BY <1>8 DEF ForwardMmapBeforeFork, TaskDue, ForwardMmap, MmapDue
  <2>2. /\ Head(taskEventsBuffer).time \in Nat
        /\ \A e \in Elements(taskEventsBuffer) :
             Head(taskEventsBuffer).time <= e.time
    BY <1>1, <1>6, <2>1, EventsTimed, HeadIsFirst
  <2> QED
    BY <1>2, <1>3, <1>4, <1>5, <1>7, <2>1, <2>2
<1>9. CASE ForwardMmapBeforeSample
  <2>1. m.time <= NextSampleTime /\ ~TaskDue
    BY <1>9 DEF ForwardMmapBeforeSample, ForwardMmap, MmapDue
  <2>2. \A i \in DOMAIN taskEventsBuffer : taskEventsBuffer[i].time > NextSampleTime
    BY <1>1, <1>5, <1>6, <2>1, EventsTimed, NothingDue DEF TaskDue
  <2>3. \A e \in Elements(taskEventsBuffer) : NextSampleTime < e.time
    BY <2>2 DEF Elements
  <2> QED
    BY <1>2, <1>3, <1>4, <1>5, <1>7, <2>1, <2>3
<1> QED
  BY <1>3, <1>8, <1>9 DEF MmapIsForwarded

\* What stays buffered comes after the samples that are analyzed.
LEMMA NextAhead ==
  ASSUME Base, Base', LateInv, BuffersAhead, [Next]_vars
  PROVE  BuffersAhead'
<1> SUFFICES ASSUME InTime'
             PROVE  \A k \in DOMAIN analyzed' :
                      /\ \A e \in Elements(mmapBuffer') \cup Elements(taskEventsBuffer') :
                           analyzed'[k].event.time < e.time
                      /\ \A e \in Elements(sampleBuffer') :
                           analyzed'[k].event.time <= e.time
  BY DEF BuffersAhead
<1>1. InTime
  BY WasInTime
<1>2. \A k \in DOMAIN analyzed :
        /\ \A e \in Elements(mmapBuffer) \cup Elements(taskEventsBuffer) :
             analyzed[k].event.time < e.time
        /\ \A e \in Elements(sampleBuffer) : analyzed[k].event.time <= e.time
  BY <1>1 DEF BuffersAhead
<1>3. ASSUME NEW e \in Events, EventComes(e)
      PROVE  \A k \in DOMAIN analyzed' :
               /\ \A d \in Elements(mmapBuffer') \cup Elements(taskEventsBuffer') :
                    analyzed'[k].event.time < d.time
               /\ \A d \in Elements(sampleBuffer') :
                    analyzed'[k].event.time <= d.time
  <2>1. \A k \in DOMAIN analyzed : analyzed[k].event.time < e.time
    BY <1>3, ComesLater DEF LateInv
  <2>2. \A k \in DOMAIN analyzed : analyzed[k].event.time \in Nat
    BY TimesAreNat
  <2>3. e.time \in Nat
    BY EventsTimed
  <2>4. \A k \in DOMAIN analyzed : analyzed[k].event.time <= e.time
    BY <2>1, <2>2, <2>3
  <2> QED
    BY <1>2, <1>3, <2>1, <2>4 DEF EventComes
<1>4. CASE FlushGoesOn
  BY <1>2, <1>4 DEF FlushGoesOn
<1>5. CASE MmapIsForwarded
  <2>1. mmapBuffer \in Seq(Mmaps)
    BY Zenon DEF Base, OrderInv, TypeOK
  <2>2. Elements(mmapBuffer') \subseteq Elements(mmapBuffer)
    BY <1>5, <2>1, ElementsOfTail DEF MmapIsForwarded, MmapForwarded
  <2> QED
    BY <1>2, <1>5, <2>2 DEF MmapIsForwarded, MmapForwarded
<1>6. CASE FlushTaskEvent \/ TrailingTaskEvent
  <2>1. taskEventsBuffer \in Seq(TaskEvents)
    BY Zenon DEF Base, OrderInv, TypeOK
  <2>2. /\ Elements(taskEventsBuffer') \subseteq Elements(taskEventsBuffer)
        /\ UNCHANGED <<analyzed, mmapBuffer, sampleBuffer>>
    BY <1>6, <2>1, ElementsOfTail, TasksAreForwarded DEF TaskForwarded
  <2> QED
    BY <1>2, <2>2
<1>7. CASE AnalyzeSample
  <2>1. PICK n \in Nat : n = Len(analyzed)
    BY <1>7, SampleIsAnalyzed
  <2>2. PICK s : s = Head(sampleBuffer)
    OBVIOUS
  <2>3. /\ DOMAIN analyzed = 1 .. n /\ DOMAIN analyzed' = 1 .. n + 1
        /\ \A i \in 1 .. n : analyzed'[i] = analyzed[i]
        /\ analyzed'[n + 1].event = s
        /\ Elements(sampleBuffer') \subseteq Elements(sampleBuffer)
        /\ \A e \in Elements(sampleBuffer) : s.time <= e.time
        /\ \A e \in Elements(mmapBuffer) \cup Elements(taskEventsBuffer) :
             s.time < e.time
        /\ UNCHANGED <<mmapBuffer, taskEventsBuffer>>
    BY <1>7, <2>1, <2>2, SampleIsAnalyzed
  <2>4. ASSUME NEW k \in DOMAIN analyzed'
        PROVE  \/ k \in DOMAIN analyzed /\ analyzed'[k] = analyzed[k]
               \/ analyzed'[k].event = s
    BY <2>3
  <2> QED
    BY <1>2, <2>3, <2>4
<1> QED
  BY <1>3, <1>4, <1>5, <1>6, <1>7, TimelineSteps

\* What a step applies to the tables.
LEMMA AppliedGrows ==
  ASSUME Base
  PROVE  /\ (\E e \in Events : EventComes(e)) \/ FlushGoesOn \/ AnalyzeSample =>
              Applied' = Applied
         /\ MmapIsForwarded => Applied' = Applied \cup {Head(mmapBuffer)}
         /\ FlushTaskEvent \/ TrailingTaskEvent =>
              LET e == Head(taskEventsBuffer)
              IN  /\ ChangesMappings(e) => Applied' = Applied \cup {e}
                  /\ ~ChangesMappings(e) => Applied' = Applied
<1>1. registered \in Seq(Mmaps) /\ sent \in Seq(Sent)
  BY Zenon DEF Base, OrderInv, TypeOK
<1>2. ASSUME (\E e \in Events : EventComes(e)) \/ FlushGoesOn \/ AnalyzeSample
      PROVE  Applied' = Applied
  <2>1. UNCHANGED <<registered, sent>>
    BY <1>2, SampleIsAnalyzed DEF EventComes, FlushGoesOn
  <2> QED
    BY <2>1 DEF Applied
<1>3. ASSUME MmapIsForwarded
      PROVE  Applied' = Applied \cup {Head(mmapBuffer)}
  <2>1. sent' = sent /\ registered' = Append(registered, Head(mmapBuffer))
    BY <1>3 DEF MmapIsForwarded, MmapForwarded
  <2>2. Elements(registered') = Elements(registered) \cup {Head(mmapBuffer)}
    BY <1>1, <2>1, ElementsOfAppend
  <2> QED
    BY <2>1, <2>2 DEF Applied
<1>4. ASSUME FlushTaskEvent \/ TrailingTaskEvent
      PROVE  LET e == Head(taskEventsBuffer)
             IN  /\ ChangesMappings(e) => Applied' = Applied \cup {e}
                 /\ ~ChangesMappings(e) => Applied' = Applied
  <2>1. PICK e : e = Head(taskEventsBuffer)
    OBVIOUS
  <2>2. PICK x : sent' = Append(sent, x) /\ x.event = e /\ registered' = registered
    BY <1>4, <2>1, TasksAreForwarded DEF TaskForwarded
  <2>3. EventsOf(sent') = EventsOf(sent) \cup {e}
    BY <1>1, <2>2, EventsOfAppend
  <2>4. Applied' = Elements(registered)
                     \cup {d \in EventsOf(sent) \cup {e} : ChangesMappings(d)}
    BY <2>2, <2>3 DEF Applied
  <2> QED
    BY <2>1, <2>4 DEF Applied
<1> QED
  BY <1>2, <1>3, <1>4

\* A task event sent behind the samples does not change mappings, nor do the
\* others outside of the loop over the samples.
LEMMA TrailingChangesNothing ==
  ASSUME Base, TrailingTaskEvent, NoTrailingFork'
  PROVE  ~ChangesMappings(Head(taskEventsBuffer))
<1>1. /\ sent \in Seq(Sent) /\ taskEventsBuffer \in Seq(TaskEvents)
  BY Zenon DEF Base, OrderInv, TypeOK
<1>2. PICK e : e = Head(taskEventsBuffer)
  OBVIOUS
<1>3. /\ taskEventsBuffer # <<>>
      /\ sent' = Append(sent, [event |-> e, trailing |-> TRUE])
  BY <1>2, TasksAreForwarded DEF TaskForwarded
<1>4. e \in TaskEvents
  BY <1>1, <1>2, <1>3
<1>5. e.type # "mmap"
  BY <1>4 DEF TaskEvents, Event, TaskTypes
<1>6. /\ Len(sent) + 1 \in DOMAIN sent' /\ sent'[Len(sent) + 1].event = e
      /\ sent'[Len(sent) + 1].trailing
  BY <1>1, <1>3
<1>7. ~StartsProcess(e) /\ ~EndsProcess(e)
  BY <1>6 DEF NoTrailingFork
<1> QED
  BY <1>2, <1>5, <1>7 DEF ChangesMappings

\* What is applied is no later than the analysis.
LEMMA NextApplied ==
  ASSUME Base, Base', LateInv, BuffersAhead, AppliedReached, [Next]_vars
  PROVE  AppliedReached'
<1> SUFFICES ASSUME InTime', NEW d \in Applied'
             PROVE  Reached(d.time)'
  BY DEF AppliedReached
<1>1. InTime /\ NoTrailingFork'
  BY WasInTime DEF InTime
<1>2. d \in Applied => Reached(d.time)'
  BY <1>1, ReachedStays DEF AppliedReached
<1>3. CASE (\E e \in Events : EventComes(e)) \/ FlushGoesOn \/ AnalyzeSample
  BY <1>2, <1>3, AppliedGrows
<1>4. CASE MmapIsForwarded
  <2>1. d \in Applied \/ d = Head(mmapBuffer)
    BY <1>4, AppliedGrows
  <2>2. /\ flush.phase = "tasks" /\ Head(mmapBuffer).time <= NextSampleTime
        /\ UNCHANGED <<flush, sampleBuffer>>
    BY <1>1, <1>4, NoLateMmap DEF MmapIsForwarded, MmapForwarded
  <2>3. d = Head(mmapBuffer) => Reached(d.time)'
    BY <2>2 DEF Reached, NextSampleTime
  <2> QED
    BY <1>2, <2>1, <2>3
<1>5. CASE FlushTaskEvent
  <2>1. d \in Applied \/ d = Head(taskEventsBuffer)
    BY <1>5, AppliedGrows
  <2>2. /\ flush.phase = "tasks" /\ Head(taskEventsBuffer).time <= NextSampleTime
        /\ UNCHANGED <<flush, sampleBuffer>>
    BY <1>5 DEF FlushTaskEvent, TaskDue
  <2>3. d = Head(taskEventsBuffer) => Reached(d.time)'
    BY <2>2 DEF Reached, NextSampleTime
  <2> QED
    BY <1>2, <2>1, <2>3
<1>6. CASE TrailingTaskEvent
  BY <1>1, <1>2, <1>6, AppliedGrows, TrailingChangesNothing
<1> QED
  BY <1>3, <1>4, <1>5, <1>6, TimelineSteps

\* What may be buffered when d has been applied.
AppliedBefore(d, tasks, mmaps) ==
  /\ \A e \in Elements(tasks) : d.time <= e.time
  /\ \A e \in Elements(mmaps) :
       /\ d.type = "mmap" => d.time <= e.time
       /\ StartsProcess(d) => d.time < e.time

\* What is applied comes before what stays buffered.
LEMMA NextFirst ==
  ASSUME Base, Base', LateInv, BuffersAhead, AppliedReached, AppliedFirst,
         [Next]_vars
  PROVE  AppliedFirst'
<1> SUFFICES ASSUME InTime', NEW d \in Applied'
             PROVE  AppliedBefore(d, taskEventsBuffer', mmapBuffer')
  BY DEF AppliedFirst, AppliedBefore
<1>1. InTime /\ NoTrailingFork'
  BY WasInTime DEF InTime
<1>2. d \in Applied => AppliedBefore(d, taskEventsBuffer, mmapBuffer)
  BY <1>1 DEF AppliedFirst, AppliedBefore
<1>3. mmapBuffer \in Seq(Mmaps) /\ taskEventsBuffer \in Seq(TaskEvents)
  BY Zenon DEF Base, OrderInv, TypeOK
<1>4. CASE \E e \in Events : EventComes(e)
  <2>1. PICK e \in Events : EventComes(e)
    BY <1>4
  <2>2. d \in Applied
    BY <1>4, AppliedGrows
  <2>3. flush.phase = "idle"
    BY <2>1 DEF EventComes
  <2>4. PICK k \in DOMAIN analyzed : d.time <= analyzed[k].event.time
    BY <1>1, <2>2, <2>3 DEF AppliedReached, Reached
  <2>5. analyzed[k].event.time < e.time
    BY <2>1, ComesLater DEF LateInv
  <2>6. d.time \in Nat /\ analyzed[k].event.time \in Nat /\ e.time \in Nat
    BY <2>2, TimesAreNat, EventsTimed DEF Applied
  <2>7. d.time < e.time /\ d.time <= e.time
    BY <2>4, <2>5, <2>6
  <2> QED
    BY <1>2, <2>1, <2>2, <2>7 DEF EventComes, AppliedBefore
<1>5. CASE FlushGoesOn
  BY <1>2, <1>5, AppliedGrows DEF FlushGoesOn, AppliedBefore
<1>6. CASE AnalyzeSample
  BY <1>2, <1>6, AppliedGrows, SampleIsAnalyzed DEF AppliedBefore
<1>7. CASE MmapIsForwarded
  <2>1. d \in Applied \/ d = Head(mmapBuffer)
    BY <1>7, AppliedGrows
  <2>2. /\ flush.phase = "tasks" /\ mmapBuffer # <<>>
        /\ mmapBuffer' = Tail(mmapBuffer)
        /\ taskEventsBuffer' = taskEventsBuffer
        /\ \A e \in Elements(taskEventsBuffer) : Head(mmapBuffer).time <= e.time
    BY <1>1, <1>7, NoLateMmap DEF MmapIsForwarded, MmapForwarded
  <2>3. Sorted(mmapBuffer)
    BY <2>2, Zenon DEF Base, OrderInv, SortedWhileFlushing
  <2>4. /\ Head(mmapBuffer) \in Mmaps
        /\ Elements(mmapBuffer') \subseteq Elements(mmapBuffer)
        /\ \A e \in Elements(mmapBuffer) : Head(mmapBuffer).time <= e.time
    BY <1>3, <2>2, <2>3, EventsTimed, HeadIsFirst
  <2>5. ~StartsProcess(Head(mmapBuffer))
    BY <2>4 DEF Mmaps, Event, StartsProcess
  <2>6. AppliedBefore(Head(mmapBuffer), taskEventsBuffer', mmapBuffer')
    BY <2>2, <2>4, <2>5 DEF AppliedBefore
  <2>7. d \in Applied => AppliedBefore(d, taskEventsBuffer', mmapBuffer')
    BY <1>2, <2>2, <2>4 DEF AppliedBefore
  <2> QED
    BY <2>1, <2>6, <2>7
<1>8. ASSUME FlushTaskEvent \/ TrailingTaskEvent, d \in Applied
      PROVE  AppliedBefore(d, taskEventsBuffer', mmapBuffer')
  <2>1. /\ Elements(taskEventsBuffer') \subseteq Elements(taskEventsBuffer)
        /\ mmapBuffer' = mmapBuffer
    BY <1>3, <1>8, ElementsOfTail, TasksAreForwarded DEF TaskForwarded
  <2> QED
    BY <1>2, <1>8, <2>1 DEF AppliedBefore
<1>9. CASE FlushTaskEvent
  <2>1. d \in Applied \/ d = Head(taskEventsBuffer)
    BY <1>9, AppliedGrows
  <2>2. /\ flush.phase = "tasks" /\ taskEventsBuffer # <<>>
        /\ taskEventsBuffer' = Tail(taskEventsBuffer)
        /\ mmapBuffer' = mmapBuffer
        /\ StartsProcess(Head(taskEventsBuffer)) =>
             ~MmapDue(Head(taskEventsBuffer).time)
    BY <1>9, TasksAreForwarded DEF FlushTaskEvent, TaskForwarded
  <2>3. Sorted(mmapBuffer) /\ Sorted(taskEventsBuffer)
    BY <2>2, Zenon DEF Base, OrderInv, SortedWhileFlushing
  <2>4. PICK e : e = Head(taskEventsBuffer)
    OBVIOUS
  <2>5. /\ e \in TaskEvents /\ e.time \in Nat
        /\ Elements(taskEventsBuffer') \subseteq Elements(taskEventsBuffer)
        /\ \A t \in Elements(taskEventsBuffer) : e.time <= t.time
    BY <1>3, <2>2, <2>3, <2>4, EventsTimed, HeadIsFirst
  <2>6. e.type # "mmap"
    BY <2>5 DEF TaskEvents, Event, TaskTypes
  <2>7. ASSUME StartsProcess(e)
        PROVE  \A m \in Elements(mmapBuffer) : e.time < m.time
    <3>1. ~(mmapBuffer # <<>> /\ Head(mmapBuffer).time <= e.time)
      BY <2>2, <2>4, <2>7 DEF MmapDue
    <3>2. \A i \in DOMAIN mmapBuffer : mmapBuffer[i].time > e.time
      BY <1>3, <2>3, <2>5, <3>1, EventsTimed, NothingDue
    <3> QED
      BY <3>2 DEF Elements
  <2>8. AppliedBefore(e, taskEventsBuffer', mmapBuffer')
    BY <2>2, <2>5, <2>6, <2>7 DEF AppliedBefore
  <2> QED
    BY <1>8, <1>9, <2>1, <2>4, <2>8
<1>10. CASE TrailingTaskEvent
  BY <1>1, <1>8, <1>10, AppliedGrows, TrailingChangesNothing
<1> QED
  BY <1>4, <1>5, <1>6, <1>7, <1>9, <1>10, TimelineSteps

\* The events that arrive have times and a finite number of places.
LEMMA ArrivalsArePlaced ==
  ASSUME NEW a \in Seq([event : Events, bound : Nat])
  PROVE  Placed(a) /\ IsFiniteSet(DOMAIN a)
<1> DEFINE A == [event : Events, bound : Nat]
<1>1. a \in Seq(A) /\ \A x \in A : x.event \in Events
  OBVIOUS
<1> HIDE DEF A
<1>2. DOMAIN a = 1 .. Len(a) /\ Len(a) \in Nat /\ \A i \in DOMAIN a : a[i] \in A
  BY ONLY <1>1
<1>3. \A i \in DOMAIN a : i \in Nat
  BY ONLY <1>2
<1>4. \A i \in DOMAIN a : a[i].event.time \in Nat
  BY <1>1, <1>2, EventsTimed
<1>5. Placed(a)
  BY <1>3, <1>4 DEF Placed
<1>6. IsFiniteSet(DOMAIN a)
  <2>1. Len(a) \in Int
    BY ONLY <1>2
  <2> QED
    BY <1>2, <2>1, FS_Interval
<1> QED
  BY <1>5, <1>6

\* The place of an event is its number.
LEMMA PlaceIs ==
  ASSUME Base
  PROVE  /\ Placed(arrived) /\ IsFiniteSet(DOMAIN arrived)
         /\ \A i \in DOMAIN arrived :
              /\ NumberIn(arrived)[arrived[i].event] = i
              /\ arrived[i].event \in EventsOf(arrived)
         /\ \A e \in EventsOf(arrived) :
              /\ NumberIn(arrived)[e] \in DOMAIN arrived
              /\ arrived[NumberIn(arrived)[e]].event = e
<1>1. arrived \in Seq([event : Events, bound : Nat]) /\ Unrepeated(arrived)
  BY Zenon DEF Base, OrderInv, TypeOK, ArrivalInv
<1>2. Placed(arrived) /\ IsFiniteSet(DOMAIN arrived)
  BY <1>1, ArrivalsArePlaced
<1>3. \A i \in DOMAIN arrived : arrived[i].event \in EventsOf(arrived)
  BY DEF EventsOf, Elements
<1>4. ASSUME NEW i \in DOMAIN arrived
      PROVE  NumberIn(arrived)[arrived[i].event] = i
  <2>1. \A j \in DOMAIN arrived : arrived[j].event = arrived[i].event => j = i
    BY <1>1 DEF Unrepeated
  <2> QED
    BY <1>3, <2>1 DEF NumberIn
<1>5. ASSUME NEW e \in EventsOf(arrived)
      PROVE  /\ NumberIn(arrived)[e] \in DOMAIN arrived
             /\ arrived[NumberIn(arrived)[e]].event = e
  <2>1. PICK i \in DOMAIN arrived : arrived[i].event = e
    BY DEF EventsOf, Elements
  <2> QED
    BY <1>4, <2>1
<1> QED
  BY <1>2, <1>3, <1>4, <1>5

\* What is applied has its places before those of what is buffered.
LEMMA AppliedPlaces ==
  ASSUME Base
  PROVE  /\ \A d \in Elements(registered), e \in Elements(mmapBuffer) :
              d.time = e.time => NumberIn(arrived)[d] < NumberIn(arrived)[e]
         /\ \A d \in EventsOf(sent), e \in Elements(taskEventsBuffer) :
              d.time = e.time => NumberIn(arrived)[d] < NumberIn(arrived)[e]
<1>1. /\ Chained(NumberIn(arrived), registered, mmapBuffer)
      /\ Chained(NumberIn(arrived), EventSeq(sent), taskEventsBuffer)
  BY DEF Base, ArrivalInv, ChainsInOrder
<1>2. sent \in Seq(Sent)
  BY Zenon DEF Base, OrderInv, TypeOK
<1>3. EventsOf(sent) = Elements(EventSeq(sent))
  BY <1>2, EventSeqProperties
<1>4. ASSUME NEW nr, NEW s, NEW t, Chained(nr, s, t)
      PROVE  \A d \in Elements(s), e \in Elements(t) :
               d.time = e.time => nr[d] < nr[e]
  BY <1>4 DEF Chained, Elements
<1> QED
  BY <1>1, <1>3, <1>4

\* Only what has arrived and left the buffers is applied.
LEMMA BufferedNotApplied ==
  ASSUME Base
  PROVE  /\ Applied \subseteq EventsOf(arrived)
         /\ \A e \in Elements(mmapBuffer) : e \notin Applied
         /\ \A e \in Elements(taskEventsBuffer) : e \notin Applied
<1>1. /\ Elements(mmapBuffer) \subseteq EventsOf(arrived) \cap Mmaps
      /\ Elements(taskEventsBuffer) \subseteq EventsOf(arrived) \cap TaskEvents
      /\ Elements(registered) \subseteq EventsOf(arrived) \cap Mmaps
      /\ EventsOf(sent) \subseteq EventsOf(arrived) \cap TaskEvents
  BY TimesAreNat
<1>2. \A d \in Mmaps : d \notin TaskEvents
  BY DEF Mmaps, TaskEvents, Event, TaskTypes
<1>3. \A e \in EventsOf(arrived) : NumberIn(arrived)[e] \in Nat
  BY PlaceIs DEF Placed
<1>4. ASSUME NEW e \in Elements(mmapBuffer), e \in Applied
      PROVE  FALSE
  <2>1. e \in Elements(registered)
    BY <1>1, <1>2, <1>4 DEF Applied
  <2> QED
    BY <1>1, <1>3, <2>1, AppliedPlaces
<1>5. ASSUME NEW e \in Elements(taskEventsBuffer), e \in Applied
      PROVE  FALSE
  <2>1. e \in EventsOf(sent)
    BY <1>1, <1>2, <1>5 DEF Applied
  <2> QED
    BY <1>1, <1>3, <2>1, AppliedPlaces
<1>6. Applied \subseteq EventsOf(arrived)
  BY <1>1 DEF Applied
<1> QED
  BY <1>4, <1>5, <1>6

\* One more event applied is one more place.
LEMMA OneMorePlace ==
  ASSUME Base, NEW e \in EventsOf(arrived), e \notin Applied
  PROVE  LET p == NumberIn(arrived)[e]
         IN  /\ p \in DOMAIN arrived /\ p \notin PlacesOf(Applied)
             /\ arrived[p].event = e
             /\ PlacesOf(Applied \cup {e}) = PlacesOf(Applied) \cup {p}
<1>1. PICK p : p = NumberIn(arrived)[e]
  OBVIOUS
<1>2. p \in DOMAIN arrived /\ arrived[p].event = e
  BY <1>1, PlaceIs
<1>3. \A i \in DOMAIN arrived : arrived[i].event = e => i = p
  BY <1>1, PlaceIs
<1> QED
  BY <1>1, <1>2, <1>3 DEF PlacesOf

\* Samples that arrive later do not come before the end of a process that is
\* applied: what follows its mmaps was there before.
LEMMA EndsWereFollowed ==
  ASSUME Base, Base', LateInv, AppliedReached, InTime', EndsFollowed', [Next]_vars
  PROVE  EndsFollowed
<1>1. InTime
  BY WasInTime
<1>2. arrived \in Seq([event : Events, bound : Nat])
  BY Zenon DEF Base, OrderInv, TypeOK
<1>3. Applied \subseteq Applied'
  BY TimelineSteps, AppliedGrows
<1>4. ASSUME NEW m \in EventsOf(arrived), NEW d \in Applied, m.type = "mmap",
             EndsProcess(d), m.pid = d.pid, m.time <= d.time
      PROVE  \E s \in EventsOf(arrived) :
               s.type = "sample" /\ m.time <= s.time /\ s.time < d.time
  <2>1. CASE \E e \in Events : EventComes(e)
    <3>1. PICK e \in Events : EventComes(e)
      BY <2>1
    <3>2. EventsOf(arrived') = EventsOf(arrived) \cup {e}
      <4>1. PICK x : arrived' = Append(arrived, x) /\ x.event = e
        BY <3>1 DEF EventComes
      <4> QED
        BY <1>2, <4>1, EventsOfAppend
    <3>3. PICK s \in EventsOf(arrived) \cup {e} :
            s.type = "sample" /\ m.time <= s.time /\ s.time < d.time
      BY <1>3, <1>4, <3>2 DEF EndsFollowed
    <3>4. flush.phase = "idle"
      BY <3>1 DEF EventComes
    <3>5. PICK k \in DOMAIN analyzed : d.time <= analyzed[k].event.time
      BY <1>1, <3>4 DEF AppliedReached, Reached
    <3>6. analyzed[k].event.time < e.time
      BY <3>1, ComesLater DEF LateInv
    <3>7. /\ d.time \in Nat /\ analyzed[k].event.time \in Nat
          /\ e.time \in Nat /\ s.time \in Nat
      BY BufferedNotApplied, TimesAreNat, EventsTimed
    <3>8. s # e
      BY <3>3, <3>5, <3>6, <3>7
    <3> QED
      BY <3>3, <3>8
  <2>2. CASE arrived' = arrived
    BY <1>3, <1>4, <2>2 DEF EndsFollowed
  <2>3. (\E e \in Events : EventComes(e)) \/ arrived' = arrived
    BY TimelineSteps, TasksAreForwarded, SampleIsAnalyzed
       DEF FlushGoesOn, MmapIsForwarded, MmapForwarded, TaskForwarded
  <2> QED
    BY <2>1, <2>2, <2>3
<1> QED
  BY <1>4 DEF EndsFollowed

\* What an mmap and a task event do to the tables.
LEMMA AppliesMmap ==
  ASSUME NEW tables, NEW m, m.type = "mmap"
  PROVE  Apply(tables, m) = [tables EXCEPT ![m.pid] = Append(@, m)]
<1>1. ~StartsProcess(m) /\ ~EndsProcess(m)
  BY DEF StartsProcess, EndsProcess
<1> QED
  BY <1>1 DEF Apply

LEMMA AppliesTask ==
  ASSUME NEW tables, NEW e, e.type # "mmap"
  PROVE  Apply(tables, e) =
           IF StartsProcess(e) THEN [tables EXCEPT ![e.pid] = tables[e.payload]]
           ELSE IF EndsProcess(e) THEN [tables EXCEPT ![e.pid] = <<>>]
                                  ELSE tables
<1>1. ~(StartsProcess(e) /\ EndsProcess(e))
  BY DEF StartsProcess, EndsProcess
<1> QED
  BY <1>1 DEF Apply

\* An mmap that is forwarded behind the end of its process is one that no sample
\* had followed when the process ended.
LEMMA NoEndAhead ==
  ASSUME Base, BuffersAhead, AppliedReached, InTime, EndsFollowed,
         flush.phase = "tasks", NEW m \in Elements(mmapBuffer), NEW d \in Applied,
         EndsProcess(d), m.time <= d.time
  PROVE  m.pid # d.pid
<1> SUFFICES ASSUME m.pid = d.pid PROVE FALSE
  OBVIOUS
<1>1. /\ m \in EventsOf(arrived) /\ m.type = "mmap"
      /\ d \in EventsOf(arrived)
  <2>1. m \in EventsOf(arrived) \cap Mmaps
    BY TimesAreNat
  <2> QED
    BY <2>1, BufferedNotApplied DEF Mmaps, Event
<1>2. PICK s \in EventsOf(arrived) :
        s.type = "sample" /\ m.time <= s.time /\ s.time < d.time
  BY <1>1 DEF EndsFollowed
<1>3. m.time \in Nat /\ d.time \in Nat /\ s.time \in Nat /\ NextSampleTime \in Nat
  BY <1>1, TimesAreNat, NextSampleIsFirst
<1>4. s \in Elements(sampleBuffer) \/ s \in EventsOf(analyzed)
  <2>1. s \notin Mmaps /\ s \notin TaskEvents
    BY <1>2 DEF Mmaps, TaskEvents, Event, TaskTypes
  <2>2. s \in Held
    BY DEF Base, ArrivalInv, NothingLostOrRepeated, EventsOf, Held
  <2> QED
    BY <2>1, <2>2, TimesAreNat DEF Held
<1>5. CASE s \in EventsOf(analyzed)
  <2>1. PICK k \in DOMAIN analyzed : analyzed[k].event = s
    BY <1>5 DEF EventsOf, Elements
  <2>2. s.time < m.time
    BY <2>1 DEF BuffersAhead
  <2> QED
    BY <1>2, <1>3, <2>2
<1>6. CASE s \in Elements(sampleBuffer)
  <2>1. NextSampleTime <= s.time
    BY <1>6, NextSampleIsFirst
  <2>2. ~(d.time <= NextSampleTime)
    BY <1>2, <1>3, <2>1
  <2>3. PICK k \in DOMAIN analyzed : d.time <= analyzed[k].event.time
    BY <2>2 DEF AppliedReached, Reached
  <2>4. analyzed[k].event.time <= s.time /\ analyzed[k].event.time \in Nat
    BY <1>6, TimesAreNat DEF BuffersAhead
  <2> QED
    BY <1>2, <1>3, <2>3, <2>4
<1> QED
  BY <1>4, <1>5, <1>6

\* The place of an event that is applied, among those applied before it.
LEMMA AppliedPrecedes ==
  ASSUME Base, NEW d \in Applied, NEW j \in DOMAIN arrived, arrived[j].event = d,
         NEW e \in EventsOf(arrived), NEW p \in DOMAIN arrived,
         arrived[p].event = e,
         \/ d.time < e.time
         \/ /\ d.time = e.time
            /\ \/ d.type = "mmap" /\ e \in Elements(mmapBuffer)
               \/ e \in Elements(taskEventsBuffer)
  PROVE  Precedes(arrived, j, p)
<1>1. j = NumberIn(arrived)[d] /\ p = NumberIn(arrived)[e]
  BY PlaceIs
<1>2. /\ Elements(mmapBuffer) \subseteq Mmaps
      /\ Elements(taskEventsBuffer) \subseteq TaskEvents
      /\ Elements(registered) \subseteq Mmaps
      /\ EventsOf(sent) \subseteq TaskEvents
  BY TimesAreNat
<1>3. /\ \A x \in Mmaps : x.type = "mmap"
      /\ \A x \in TaskEvents : x.type # "mmap"
  BY DEF Mmaps, TaskEvents, Event, TaskTypes
<1>4. CASE d.time < e.time
  BY <1>4 DEF Precedes
<1>5. CASE d.time = e.time /\ d.type = "mmap" /\ e \in Elements(mmapBuffer)
  <2>1. d \in Elements(registered)
    BY <1>2, <1>3, <1>5 DEF Applied
  <2>2. j < p
    BY <1>1, <1>5, <2>1, AppliedPlaces
  <2> QED
    BY <1>2, <1>3, <1>5, <2>2 DEF Precedes
<1>6. CASE d.time = e.time /\ e \in Elements(taskEventsBuffer)
  <2>1. e.type # "mmap"
    BY <1>2, <1>3, <1>6
  <2>2. CASE d.type = "mmap"
    BY <1>6, <2>1, <2>2 DEF Precedes
  <2>3. CASE d.type # "mmap"
    <3>1. d \in EventsOf(sent)
      BY <1>2, <1>3, <2>3 DEF Applied
    <3>2. j < p
      BY <1>1, <1>6, <3>1, AppliedPlaces
    <3> QED
      BY <1>6, <2>1, <2>3, <3>2 DEF Precedes
  <2> QED
    BY <2>2, <2>3
<1> QED
  BY <1>4, <1>5, <1>6

\* Another event that arrives changes no replay of those before.
LEMMA ReplayStays ==
  ASSUME Base, Base', [Next]_vars
  PROVE  /\ DOMAIN arrived \subseteq DOMAIN arrived'
         /\ \A i \in DOMAIN arrived : arrived'[i] = arrived[i]
         /\ \A D \in SUBSET DOMAIN arrived : Replay(arrived')[D] = Replay(arrived)[D]
<1>1. Extends(arrived, arrived')
  BY HistoriesGrow
<1>2. /\ DOMAIN arrived \subseteq DOMAIN arrived'
      /\ \A i \in DOMAIN arrived : arrived'[i] = arrived[i]
  BY <1>1 DEF Extends
<1>3. /\ arrived \in Seq([event : Events, bound : Nat])
      /\ arrived' \in Seq([event : Events, bound : Nat])
  BY Zenon DEF Base, OrderInv, TypeOK
<1>4. /\ Placed(arrived) /\ IsFiniteSet(DOMAIN arrived)
      /\ Placed(arrived') /\ IsFiniteSet(DOMAIN arrived')
  BY <1>3, ArrivalsArePlaced
<1>5. \A D \in SUBSET DOMAIN arrived : Replay(arrived')[D] = Replay(arrived)[D]
  <2>1. PICK a : a = arrived
    OBVIOUS
  <2>2. PICK b : b = arrived'
    OBVIOUS
  <2>3. \A D \in SUBSET DOMAIN a : Replay(b)[D] = Replay(a)[D]
    BY <1>2, <1>4, <2>1, <2>2, ReplayGrows
  <2> QED
    BY <2>1, <2>2, <2>3
<1> QED
  BY <1>2, <1>5

\* The tables stay the replay of what is applied to them.
LEMMA NextTables ==
  ASSUME Base, Base', LateInv, BuffersAhead, AppliedReached, AppliedFirst,
         TablesReplayed, [Next]_vars
  PROVE  TablesReplayed'
<1> SUFFICES ASSUME InTime', EndsFollowed'
             PROVE  symbolTables' = Replay(arrived')[PlacesOf(Applied)']
  BY DEF TablesReplayed
<1>1. InTime /\ NoTrailingFork' /\ EndsFollowed
  BY WasInTime, EndsWereFollowed DEF InTime
<1>2. symbolTables = Replay(arrived)[PlacesOf(Applied)]
  BY <1>1 DEF TablesReplayed
<1>3. PlacesOf(Applied) \in SUBSET DOMAIN arrived
  BY DEF PlacesOf
<1>4. ASSUME (\E e \in Events : EventComes(e)) \/ FlushGoesOn \/ AnalyzeSample
      PROVE  symbolTables' = Replay(arrived')[PlacesOf(Applied)']
  <2>1. Applied' = Applied
    BY <1>4, AppliedGrows
  <2>2. symbolTables' = symbolTables
    BY <1>4, SampleIsAnalyzed DEF EventComes, FlushGoesOn
  <2>3. PlacesOf(Applied)' = PlacesOf(Applied)
    <3>1. CASE arrived' = arrived
      BY <2>1, <3>1 DEF PlacesOf
    <3>2. CASE \E e \in Events : EventComes(e)
      <4>1. PICK e \in Events : EventComes(e)
        BY <3>2
      <4>2. PICK x :
              /\ e \notin EventsOf(arrived)
              /\ x.event = e /\ arrived' = Append(arrived, x)
        BY <4>1 DEF EventComes
      <4>3. arrived \in Seq([event : Events, bound : Nat])
        BY Zenon DEF Base, OrderInv, TypeOK
      <4>4. PICK n \in Nat :
              /\ DOMAIN arrived = 1 .. n /\ DOMAIN arrived' = 1 .. n + 1
              /\ arrived'[n + 1].event = e
        BY <4>2, <4>3
      <4>5. e \notin Applied
        BY <4>2, BufferedNotApplied
      <4>6. \A i \in DOMAIN arrived : arrived'[i] = arrived[i]
        BY ReplayStays
      <4> QED
        BY <2>1, <4>4, <4>5, <4>6 DEF PlacesOf
    <3> QED
      BY <1>4, <3>1, <3>2, SampleIsAnalyzed DEF FlushGoesOn
  <2> QED
    BY <1>2, <1>3, <2>2, <2>3, ReplayStays
<1>5. ASSUME arrived' = arrived, Applied' = Applied, symbolTables' = symbolTables
      PROVE  symbolTables' = Replay(arrived')[PlacesOf(Applied)']
  BY <1>2, <1>5 DEF PlacesOf
<1>6. CASE MmapIsForwarded
  <2>1. PICK m : m = Head(mmapBuffer)
    OBVIOUS
  <2>2. /\ Applied' = Applied \cup {m} /\ arrived' = arrived
        /\ symbolTables' = [symbolTables EXCEPT ![m.pid] = Append(@, m)]
        /\ m \in Elements(mmapBuffer)
    <3>1. mmapBuffer \in Seq(Mmaps) /\ mmapBuffer # <<>>
      BY <1>6, Zenon DEF Base, OrderInv, TypeOK, MmapIsForwarded, MmapForwarded
    <3> QED
      BY <1>6, <2>1, <3>1, AppliedGrows, ElementsOfTail
         DEF MmapIsForwarded, MmapForwarded
  <2>3. m \in EventsOf(arrived) /\ m.type = "mmap" /\ m \notin Applied
    <3>1. m \in EventsOf(arrived) \cap Mmaps
      BY <2>2, TimesAreNat
    <3> QED
      BY <2>2, <3>1, BufferedNotApplied DEF Mmaps, Event
  <2>4. PICK p \in DOMAIN arrived :
          /\ p \notin PlacesOf(Applied) /\ arrived[p].event = m
          /\ PlacesOf(Applied \cup {m}) = PlacesOf(Applied) \cup {p}
    BY <2>3, OneMorePlace
  <2>5. ASSUME NEW j \in PlacesOf(Applied)
        PROVE  \/ Precedes(arrived, j, p)
               \/ /\ EndsProcess(arrived[j].event)
                  /\ arrived[p].event.pid # arrived[j].event.pid
    <3>1. PICK d \in Applied : j \in DOMAIN arrived /\ arrived[j].event = d
      BY DEF PlacesOf
    <3>2. d.time \in Nat /\ m.time \in Nat
      BY <2>3, BufferedNotApplied, TimesAreNat
    <3>3. ChangesMappings(d)
      <4>1. d \in Elements(registered) \/ ChangesMappings(d)
        BY DEF Applied
      <4>2. Elements(registered) \subseteq Mmaps
        BY TimesAreNat
      <4> QED
        BY <4>1, <4>2 DEF ChangesMappings, Mmaps, Event
    <3>4. CASE d.type = "mmap" \/ StartsProcess(d)
      <4>1. \/ d.time < m.time
            \/ d.time = m.time /\ d.type = "mmap"
        BY <1>1, <2>2, <3>2, <3>4 DEF AppliedFirst
      <4> QED
        BY <2>2, <2>3, <2>4, <3>1, <4>1, AppliedPrecedes
    <3>5. CASE EndsProcess(d) /\ m.time <= d.time
      <4>1. flush.phase = "tasks"
        BY <1>1, <1>6, NoLateMmap
      <4> QED
        BY <1>1, <2>2, <2>4, <3>1, <3>5, <4>1, NoEndAhead
    <3>6. CASE d.time < m.time
      BY <2>3, <2>4, <3>1, <3>6, AppliedPrecedes
    <3> QED
      BY <3>2, <3>3, <3>4, <3>5, <3>6 DEF ChangesMappings
  <2>6. Replay(arrived)[PlacesOf(Applied) \cup {p}] =
          Apply(Replay(arrived)[PlacesOf(Applied)], arrived[p].event)
    <3>1. Placed(arrived) /\ IsFiniteSet(DOMAIN arrived)
      BY PlaceIs
    <3> QED
      BY <1>3, <2>3, <2>4, <2>5, <3>1, ReplayMmap
  <2>7. symbolTables' = Apply(symbolTables, m)
    BY <2>2, <2>3, AppliesMmap
  <2>8. PlacesOf(Applied)' = PlacesOf(Applied) \cup {p}
    BY <2>2, <2>4 DEF PlacesOf
  <2> QED
    BY <1>2, <2>2, <2>4, <2>6, <2>7, <2>8
<1>7. CASE FlushTaskEvent
  <2>1. PICK e : e = Head(taskEventsBuffer)
    OBVIOUS
  <2>2. /\ arrived' = arrived /\ taskEventsBuffer # <<>>
        /\ symbolTables' =
             IF StartsProcess(e)
             THEN [symbolTables EXCEPT ![e.pid] = symbolTables[e.payload]]
             ELSE IF EndsProcess(e) THEN [symbolTables EXCEPT ![e.pid] = <<>>]
                                    ELSE symbolTables
    BY <1>7, <2>1 DEF FlushTaskEvent, TaskDue
  <2>3. e \in Elements(taskEventsBuffer)
    <3>1. taskEventsBuffer \in Seq(TaskEvents)
      BY Zenon DEF Base, OrderInv, TypeOK
    <3> QED
      BY <2>1, <2>2, <3>1, ElementsOfTail
  <2>4. e \in EventsOf(arrived) /\ e.type # "mmap" /\ e \notin Applied
    <3>1. e \in EventsOf(arrived) \cap TaskEvents
      BY <2>3, TimesAreNat
    <3> QED
      BY <2>3, <3>1, BufferedNotApplied DEF TaskEvents, Event, TaskTypes
  <2>5. CASE ~ChangesMappings(e)
    <3>1. Applied' = Applied
      BY <1>7, <2>1, <2>5, AppliedGrows
    <3>2. symbolTables' = symbolTables
      BY <2>2, <2>5 DEF ChangesMappings
    <3> QED
      BY <1>5, <2>2, <3>1, <3>2
  <2>6. CASE ChangesMappings(e)
    <3>1. Applied' = Applied \cup {e}
      BY <1>7, <2>1, <2>6, AppliedGrows
    <3>2. PICK p \in DOMAIN arrived :
            /\ p \notin PlacesOf(Applied) /\ arrived[p].event = e
            /\ PlacesOf(Applied \cup {e}) = PlacesOf(Applied) \cup {p}
      BY <2>4, OneMorePlace
    <3>3. ASSUME NEW j \in PlacesOf(Applied)
          PROVE  Precedes(arrived, j, p)
      <4>1. PICK d \in Applied : j \in DOMAIN arrived /\ arrived[j].event = d
        BY DEF PlacesOf
      <4>2. d.time <= e.time /\ d.time \in Nat /\ e.time \in Nat
        BY <1>1, <2>3, <2>4, BufferedNotApplied, TimesAreNat DEF AppliedFirst
      <4>3. d.time < e.time \/ d.time = e.time
        BY <4>2
      <4> QED
        BY <2>3, <2>4, <3>2, <4>1, <4>3, AppliedPrecedes
    <3>4. Replay(arrived)[PlacesOf(Applied) \cup {p}] =
            Apply(Replay(arrived)[PlacesOf(Applied)], arrived[p].event)
      <4>1. Placed(arrived) /\ IsFiniteSet(DOMAIN arrived)
        BY PlaceIs
      <4> QED
        BY <1>3, <3>2, <3>3, <4>1, ReplayLast
    <3>5. symbolTables' = Apply(symbolTables, e)
      BY <2>2, <2>4, AppliesTask
    <3>6. PlacesOf(Applied)' = PlacesOf(Applied) \cup {p}
      BY <2>2, <3>1, <3>2 DEF PlacesOf
    <3> QED
      BY <1>2, <2>2, <3>2, <3>4, <3>5, <3>6
  <2> QED
    BY <2>5, <2>6
<1>8. CASE TrailingTaskEvent
  <2>1. Applied' = Applied
    BY <1>1, <1>8, AppliedGrows, TrailingChangesNothing
  <2>2. arrived' = arrived /\ symbolTables' = symbolTables
    BY <1>8, TasksAreForwarded DEF TaskForwarded
  <2> QED
    BY <1>5, <2>1, <2>2
<1> QED
  BY <1>4, <1>6, <1>7, <1>8, TimelineSteps

\* What is applied when a sample is analyzed.
LEMMA AppliedByTime ==
  ASSUME Base, BuffersAhead, AppliedReached, InTime, AnalyzeSample,
         NEW s, s = Head(sampleBuffer)
  PROVE  /\ \A d \in Applied : ChangesMappings(d) /\ d.time <= s.time
         /\ \A e \in EventsOf(arrived) :
              ChangesMappings(e) /\ e.time <= s.time => e \in Applied
<1>1. /\ s \in Elements(sampleBuffer)
      /\ s.time = NextSampleTime /\ s.time \in Nat
      /\ \A e \in Elements(mmapBuffer) \cup Elements(taskEventsBuffer) :
           s.time < e.time
  BY SampleIsAnalyzed
<1>2. /\ Elements(sampleBuffer) \subseteq Samples
      /\ Elements(registered) \subseteq Mmaps
      /\ \A e \in EventsOf(analyzed) : e \in Samples
      /\ \A e \in EventsOf(arrived) : e.time \in Nat
      /\ \A k \in DOMAIN analyzed : analyzed[k].event.time \in Nat
  BY TimesAreNat DEF EventsOf, Elements
<1>3. ASSUME NEW d \in Applied
      PROVE  ChangesMappings(d) /\ d.time <= s.time
  <2>1. ChangesMappings(d)
    BY <1>2 DEF Applied, ChangesMappings, Mmaps, Event
  <2>2. d.time \in Nat
    BY <1>2, BufferedNotApplied
  <2>3. CASE d.time <= NextSampleTime
    BY <1>1, <2>1, <2>3
  <2>4. CASE \E k \in DOMAIN analyzed : d.time <= analyzed[k].event.time
    <3>1. PICK k \in DOMAIN analyzed : d.time <= analyzed[k].event.time
      BY <2>4
    <3>2. analyzed[k].event.time <= s.time /\ analyzed[k].event.time \in Nat
      BY <1>1, <1>2 DEF BuffersAhead
    <3> QED
      BY <1>1, <2>1, <2>2, <3>1, <3>2
  <2> QED
    BY <2>3, <2>4 DEF AppliedReached, Reached
<1>4. ASSUME NEW e \in EventsOf(arrived), ChangesMappings(e), e.time <= s.time
      PROVE  e \in Applied
  <2>1. e \in Held
    BY DEF Base, ArrivalInv, NothingLostOrRepeated, EventsOf, Held
  <2>2. e \notin Elements(mmapBuffer) /\ e \notin Elements(taskEventsBuffer)
    BY <1>1, <1>2, <1>4
  <2>3. e \notin Samples
    BY <1>4 DEF ChangesMappings, StartsProcess, EndsProcess, Samples, Event
  <2> QED
    BY <1>2, <1>4, <2>1, <2>2, <2>3 DEF Held, Applied
<1> QED
  BY <1>3, <1>4

\* The timeline of the events that have arrived does not change.
LEMMA TimelineStays ==
  ASSUME Base, Base', [Next]_vars, NEW n \in Nat, n <= Len(arrived), NEW t
  PROVE  /\ Timeline(n, t)' = Timeline(n, t)
         /\ EndsFollowSamples(n, t)' => EndsFollowSamples(n, t)
         /\ NoneLate(n)' => NoneLate(n)
<1>1. Len(arrived) \in Nat /\ DOMAIN arrived = 1 .. Len(arrived)
  <2>1. Extends(arrived, arrived')
    BY HistoriesGrow
  <2> QED
    BY <2>1 DEF Extends
<1>2. \A i \in 1 .. n : i \in DOMAIN arrived /\ arrived'[i] = arrived[i]
  <2>1. \A i \in 1 .. n : i \in DOMAIN arrived
    BY <1>1
  <2> QED
    BY <2>1, ReplayStays
<1>3. Timeline(n, t)' = Timeline(n, t)
  <2> DEFINE D == {i \in 1 .. n : /\ ChangesMappings(arrived[i].event)
                                  /\ arrived[i].event.time <= t}
             E == {i \in 1 .. n : /\ ChangesMappings(arrived'[i].event)
                                  /\ arrived'[i].event.time <= t}
  <2>1. D = E
    BY <1>2
  <2>2. D \in SUBSET DOMAIN arrived
    BY <1>2
  <2> HIDE DEF D, E
  <2>3. Replay(arrived')[E] = Replay(arrived)[D]
    BY <2>1, <2>2, ReplayStays
  <2> QED
    BY <2>3 DEF Timeline, D, E
<1>4. EndsFollowSamples(n, t)' => EndsFollowSamples(n, t)
  BY <1>2 DEF EndsFollowSamples
<1>5. NoneLate(n)' => NoneLate(n)
  BY <1>1, WasInTime
<1> QED
  BY <1>3, <1>4, <1>5

\* The sample at hand is analyzed with the tables of the timeline.
LEMMA AnalyzedMatches ==
  ASSUME Base, Base', LateInv, BuffersAhead, AppliedReached, TablesReplayed,
         [Next]_vars, AnalyzeSample, NEW s, s = Head(sampleBuffer),
         NEW n, n = Len(arrived),
         NoneLate(n)', NoTrailingFork', EndsFollowSamples(n, s.time)'
  PROVE  symbolTables = Timeline(n, s.time)
<1>1. arrived \in Seq([event : Events, bound : Nat])
  BY Zenon DEF Base, OrderInv, TypeOK
<1>2. n \in Nat /\ n <= Len(arrived) /\ DOMAIN arrived = 1 .. n
  BY <1>1
<1>3. NoneLate(n) /\ EndsFollowSamples(n, s.time)
  BY <1>2, TimelineStays
<1>4. InTime
  BY <1>3, WasInTime DEF InTime
<1>5. /\ \A d \in Applied : ChangesMappings(d) /\ d.time <= s.time
      /\ \A e \in EventsOf(arrived) :
           ChangesMappings(e) /\ e.time <= s.time => e \in Applied
  BY <1>4, AppliedByTime
<1>6. EndsFollowed
  <2>1. ASSUME NEW m \in EventsOf(arrived), NEW d \in Applied,
               m.type = "mmap", EndsProcess(d), m.pid = d.pid, m.time <= d.time
        PROVE  \E x \in EventsOf(arrived) :
                 x.type = "sample" /\ m.time <= x.time /\ x.time < d.time
    <3>1. PICK i \in 1 .. n : arrived[i].event = m
      BY <1>2 DEF EventsOf, Elements
    <3>2. PICK j \in 1 .. n : arrived[j].event = d
      BY <1>2, BufferedNotApplied DEF EventsOf, Elements
    <3>3. d.time <= s.time
      BY <1>5
    <3>4. PICK k \in 1 .. n : /\ arrived[k].event.type = "sample"
                              /\ m.time <= arrived[k].event.time
                              /\ arrived[k].event.time < d.time
      BY <1>3, <2>1, <3>1, <3>2, <3>3 DEF EndsFollowSamples
    <3>5. arrived[k].event \in EventsOf(arrived)
      BY <1>2, PlaceIs
    <3> QED
      BY <3>4, <3>5
  <2> QED
    BY <2>1 DEF EndsFollowed
<1>7. PlacesOf(Applied) =
        {i \in 1 .. n : /\ ChangesMappings(arrived[i].event)
                        /\ arrived[i].event.time <= s.time}
  <2>1. \A i \in DOMAIN arrived : arrived[i].event \in EventsOf(arrived)
    BY PlaceIs
  <2> QED
    BY <1>2, <1>5, <2>1 DEF PlacesOf
<1> QED
  BY <1>4, <1>6, <1>7 DEF TablesReplayed, Timeline

\* The samples analyzed before keep their timeline, the one at hand gets its own.
LEMMA NextMatches ==
  ASSUME Base, Base', TimelineInv, [Next]_vars
  PROVE  AnalysisMatchesTimeline'
<1> SUFFICES ASSUME NoTrailingFork', NEW i \in DOMAIN analyzed',
                    NEW a, a = analyzed'[i],
                    NoneLate(a.known)', EndsFollowSamples(a.known, a.event.time)'
             PROVE  /\ a.user = Timeline(a.known, a.event.time)'[a.event.pid]
                    /\ a.kernel = Timeline(a.known, a.event.time)'[KernelPid]
  BY DEF AnalysisMatchesTimeline
<1>1. NoTrailingFork
  BY WasInTime
<1>2. PICK n, t : n = a.known /\ t = a.event.time
  OBVIOUS
<1>3. NoneLate(n)' /\ EndsFollowSamples(n, t)'
  BY <1>2
<1>4. CASE i \in DOMAIN analyzed
  <2>1. a = analyzed[i]
    <3>1. Extends(analyzed, analyzed')
      BY HistoriesGrow
    <3> QED
      BY <1>4, <3>1 DEF Extends
  <2>2. n \in Nat /\ n <= Len(arrived)
    <3>1. analyzed \in Seq(Analyzed)
      BY Zenon DEF Base, OrderInv, TypeOK
    <3>2. analyzed[i].known \in Nat
      <4>1. \A x \in Analyzed : x.known \in Nat
        BY DEF Analyzed
      <4> QED
        BY ONLY <1>4, <3>1, <4>1
    <3> QED
      BY <1>2, <1>4, <2>1, <3>2 DEF TimelineInv, LateInv, KnownHasArrived
  <2>3. /\ Timeline(n, t)' = Timeline(n, t)
        /\ NoneLate(n) /\ EndsFollowSamples(n, t)
    BY <1>3, <2>2, TimelineStays
  <2>4. /\ a.user = Timeline(n, t)[a.event.pid]
        /\ a.kernel = Timeline(n, t)[KernelPid]
    BY <1>1, <1>2, <1>4, <2>1, <2>3 DEF TimelineInv, AnalysisMatchesTimeline
  <2> QED
    BY <1>2, <2>3, <2>4
<1>5. CASE i \notin DOMAIN analyzed
  <2>1. AnalyzeSample
    BY <1>5, OnlyAnalyzeAnalyzes
  <2>2. PICK s : s = Head(sampleBuffer)
    OBVIOUS
  <2>3. PICK q \in Nat : q = Len(analyzed)
    BY <2>1, SampleIsAnalyzed
  <2>4. i = q + 1
    BY <1>5, <2>1, <2>3, SampleIsAnalyzed
  <2>5. /\ a.event = s /\ n = Len(arrived)
        /\ a.user = symbolTables[s.pid] /\ a.kernel = symbolTables[KernelPid]
    BY <1>2, <2>1, <2>2, <2>3, <2>4, SampleIsAnalyzed
  <2>6. symbolTables = Timeline(n, t)
    BY <1>2, <1>3, <2>1, <2>2, <2>5, AnalyzedMatches DEF TimelineInv
  <2>7. Timeline(n, t)' = Timeline(n, t)
    <3>1. n \in Nat /\ n <= Len(arrived)
      <4>1. arrived \in Seq([event : Events, bound : Nat])
        BY Zenon DEF Base, OrderInv, TypeOK
      <4> QED
        BY <2>5, <4>1
    <3> QED
      BY <3>1, TimelineStays
  <2> QED
    BY <1>2, <2>5, <2>6, <2>7
<1> QED
  BY <1>4, <1>5

\* Every step keeps the invariant, and it holds of the empty buffer.
LEMMA NextTimeline ==
  ASSUME Base, Base', TimelineInv, [Next]_vars
  PROVE  TimelineInv'
<1>1. LateInv'
  BY NextLate DEF TimelineInv
<1>2. BuffersAhead'
  BY NextAhead DEF TimelineInv
<1>3. AppliedReached'
  BY NextApplied DEF TimelineInv
<1>4. AppliedFirst'
  BY NextFirst DEF TimelineInv
<1>5. TablesReplayed'
  BY NextTables DEF TimelineInv
<1> QED
  BY <1>1, <1>2, <1>3, <1>4, <1>5, NextMatches DEF TimelineInv

LEMMA InitTimeline ==
  ASSUME Init
  PROVE  TimelineInv
<1>1. /\ sampleBuffer = <<>> /\ mmapBuffer = <<>> /\ taskEventsBuffer = <<>>
      /\ registered = <<>> /\ sent = <<>> /\ analyzed = <<>> /\ arrived = <<>>
      /\ lastFlushMaxTime = 0 /\ flush.phase = "idle" /\ ~flush.violates
      /\ symbolTables = NoMappings
  BY DEF Init, NoMappings
<1>2. Applied = {}
  BY <1>1 DEF Applied, Elements, EventsOf
<1>3. TablesReplayed
  <2>1. PlacesOf(Applied) = {}
    BY <1>2 DEF PlacesOf
  <2>2. Placed(arrived) /\ IsFiniteSet(DOMAIN arrived)
    <3>1. DOMAIN arrived = {}
      BY <1>1
    <3> QED
      BY <3>1, FS_EmptySet DEF Placed
  <2>3. Replay(arrived)[{}] = Replayed(arrived, Replay(arrived), {})
    BY <2>2, ReplayIs
  <2> QED
    BY <1>1, <2>1, <2>3 DEF TablesReplayed, Replayed
<1>4. LateInv
  BY <1>1 DEF LateInv, LastTimeReached, ViolationsFollowSamples, KnownHasArrived
<1>5. BuffersAhead /\ AppliedReached /\ AppliedFirst /\ AnalysisMatchesTimeline
  BY <1>1, <1>2 DEF BuffersAhead, AppliedReached, AppliedFirst,
                    AnalysisMatchesTimeline
<1> QED
  BY <1>3, <1>4, <1>5 DEF TimelineInv

\* Every sample is analyzed with the mappings the timeline gives its process and
\* the kernel, although mmaps and task events are buffered, sorted, and forwarded
\* in another order than that of their times, with the exceptions that
\* AnalysisMatchesTimeline states (flushEventBuffer, forwardMmapBuffer, analyze).
THEOREM AnalysisAlwaysMatchesTimeline == Spec => []AnalysisMatchesTimeline
<1>1. Init => Base /\ TimelineInv
  BY InitOrder, InitArrival, InitTimeline DEF Base
<1>2. Base /\ [Next]_vars => Base'
  <2> SUFFICES ASSUME Base, [Next]_vars
               PROVE  Base'
    OBVIOUS
  <2>1. OrderInv'
    BY NextOrder DEF Base
  <2>2. (TypeOK /\ SampleAtHand)'
    BY <2>1 DEF OrderInv
  <2>3. ArrivalInv'
    BY <2>2, StepKeepsChains, StepLosesNothing DEF Base, ArrivalInv
  <2> QED
    BY <2>1, <2>3 DEF Base
<1>3. Base /\ TimelineInv /\ [Next]_vars => (Base /\ TimelineInv)'
  BY <1>2, NextTimeline
<1>4. TimelineInv => AnalysisMatchesTimeline
  BY DEF TimelineInv
<1> QED
  BY <1>1, <1>3, <1>4, PTL DEF Spec
=============================================================================
