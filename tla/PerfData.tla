------------------------------ MODULE PerfData ------------------------------
(***************************************************************************)
(* PerfData (src/app/perfdata.cpp): reads records from a device and hands  *)
(* them to the unwinder.  A stream arrives in pieces, so the reader stops  *)
(* in the middle of records and goes on there; a compressed record holds a *)
(* slice of a second stream of records, which ends anywhere, too.          *)
(*                                                                         *)
(* Contents are abstracted to their lengths, in units that stand for any   *)
(* number of bytes.  A record knows where in its stream it begins: a       *)
(* header that is read elsewhere is garbage.                               *)
(***************************************************************************)
EXTENDS Naturals, Sequences

CONSTANTS
  Inputs,   \* what may be read, see Program
  HeadLen   \* the length of an event header

VARIABLES
  input,        \* a member of Inputs
  random,       \* whether the device can seek: ~isSequential()
  arrived,      \* how much of the input the device has
  pos,          \* how much of it was read
  compressed,   \* whether m_compressed is set
  eventHeader,  \* m_eventHeader: the record, or NoHeader if its size is 0
  tracingSize,  \* m_tracingData.size()
  buffer,       \* m_decompressBuffer: positions in the compressed stream
  bufferPos,    \* how much of it was read
  inside,       \* whether a compressed record is processed
  reading,      \* who called doRead: "read", "finishReading" or "nobody"
  signal,       \* what was emitted: "none", "finished" or "error"
  delivered     \* history: what the unwinder was given

recordVars == <<eventHeader, tracingSize, buffer, bufferPos, inside>>

-----------------------------------------------------------------------------
(***************************************************************************)
(* Records: [at, size, type], and for some types                           *)
(*   extra   how much data follows tracing data                            *)
(*   unread  how much of the content its operator >> does not read         *)
(*   slice   the positions of the compressed stream that it holds          *)
(***************************************************************************)
NoHeader == [type |-> "none", at |-> 0, size |-> 0, extra |-> 0, unread |-> 0,
             slice |-> <<>>]
Garbage  == [NoHeader EXCEPT !.type = "garbage"]

\* What a header is read as at a position.
HeaderAt(records, p) ==
  IF \E r \in records : r.at = p THEN CHOOSE r \in records : r.at = p ELSE Garbage

NextHeader == IF inside THEN HeaderAt(input.inner, buffer[bufferPos + 1])
                        ELSE HeaderAt(input.records, pos)

\* bytesAvailable() of the device, or of the buffer.
Available == IF inside THEN Len(buffer) - bufferPos
             ELSE IF pos < arrived THEN arrived - pos ELSE 0

Read(n) == IF inside THEN bufferPos' = bufferPos + n /\ UNCHANGED pos
                     ELSE pos' = pos + n /\ UNCHANGED bufferPos

Deliver(r) == delivered' = Append(delivered, [type |-> r.type, at |-> r.at,
                                              inside |-> inside])

-----------------------------------------------------------------------------
(***************************************************************************)
(* doRead                                                                  *)
(***************************************************************************)
Emit(s) == signal' = s /\ reading' = "nobody"

\* The data section of a file is sought; its place may be wrong.
BeginRead(caller, pipe, found) ==
  IF random /\ ~pipe
  THEN IF found THEN pos' = input.dataAt /\ reading' = caller /\ UNCHANGED signal
                ELSE Emit("error") /\ UNCHANGED pos
  ELSE reading' = caller /\ UNCHANGED <<pos, signal>>

\* Faulty: the end of the stream is not an error wherever it is.
RerunEnds ==
  IF random THEN Emit("error")
  ELSE IF reading = "read" THEN reading' = "nobody" /\ UNCHANGED signal
  ELSE Emit("finished")

\* Faulty: nothing is emitted for half an event.
RerunSilently ==
  IF random THEN Emit("error")
  ELSE IF reading = "read" \/ eventHeader' # NoHeader
       THEN reading' = "nobody" /\ UNCHANGED signal
       ELSE Emit("finished")

\* There is nothing, or not enough to go on with.  The device is still open
\* when it is about to close, so a stream gets here at its end, too.
Rerun ==
  IF random THEN Emit("error")
  ELSE IF reading = "read" THEN reading' = "nobody" /\ UNCHANGED signal
  ELSE Emit(IF eventHeader' = NoHeader THEN "finished" ELSE "error")

LoopEnds == pos >= IF random /\ input.dataAt > 0 THEN input.dataEnd ELSE arrived

InLoop == reading # "nobody" /\ (inside \/ eventHeader # NoHeader \/ ~LoopEnds)

EndLoop ==
  /\ reading # "nobody" /\ ~InLoop
  /\ UNCHANGED <<pos, delivered, eventHeader, tracingSize, buffer, bufferPos, inside>>
  /\ IF random THEN Emit("finished") ELSE Rerun

-----------------------------------------------------------------------------
(***************************************************************************)
(* processEvents, in two steps: the header and the content of a record     *)
(***************************************************************************)
\* A header must be at least as long as it says.
ReadEventHeader ==
  /\ InLoop /\ eventHeader = NoHeader /\ Available >= HeadLen
  /\ eventHeader' = NextHeader
  /\ Read(HeadLen)
  /\ IF eventHeader'.type = "bad" THEN Emit("error") ELSE UNCHANGED <<reading, signal>>
  /\ UNCHANGED <<tracingSize, buffer, inside, delivered>>

Incomplete == Available < IF eventHeader = NoHeader THEN HeadLen ELSE eventHeader.size

WaitForMore ==
  /\ InLoop /\ ~inside /\ Incomplete
  /\ UNCHANGED <<pos, recordVars, delivered>>
  /\ Rerun

KeepRestFrom(p) ==
  /\ InLoop /\ inside /\ Incomplete
  /\ inside' = FALSE /\ eventHeader' = NoHeader
  /\ buffer' = SubSeq(buffer, p + 1, Len(buffer)) /\ bufferPos' = 0
  /\ UNCHANGED <<pos, tracingSize, reading, signal, delivered>>

\* Faulty: the header that was read is not kept.
LoseHeader == KeepRestFrom(bufferPos)

\* The next compressed record continues with the record that is incomplete.
KeepRest ==
  KeepRestFrom(IF eventHeader = NoHeader THEN bufferPos ELSE bufferPos - HeadLen)

Processing(type) == InLoop /\ eventHeader.type = type /\ ~Incomplete

Done ==
  /\ eventHeader' = NoHeader
  /\ UNCHANGED <<tracingSize, buffer, inside, reading, signal>>

\* "Event not fully parsed": the rest is skipped where it can be measured.
ProcessEvent ==
  /\ Processing("event") \/ Processing("garbage")
  /\ Deliver(eventHeader)
  /\ Read(eventHeader.size - IF random \/ inside THEN 0 ELSE eventHeader.unread)
  /\ Done

\* [UN]THROTTLE and what is not handled.
SkipEvent ==
  /\ Processing("skipped")
  /\ Read(eventHeader.size)
  /\ Done
  /\ UNCHANGED delivered

\* The content is the size of the data behind it, which may not be there yet;
\* when it is, the size has been read.
ProcessTracingData ==
  /\ Processing("tracing")
  /\ UNCHANGED <<buffer, bufferPos, inside>>
  /\ LET data == IF tracingSize = 0 THEN pos + eventHeader.size ELSE pos
     IN  IF data + eventHeader.extra <= arrived
         THEN /\ Deliver(eventHeader)
              /\ pos' = data + eventHeader.extra /\ tracingSize' = 0
              /\ eventHeader' = NoHeader
              /\ UNCHANGED <<reading, signal>>
         ELSE /\ pos' = data /\ tracingSize' = eventHeader.extra
              /\ UNCHANGED <<eventHeader, delivered>>
              /\ Rerun

\* Decompressed data is appended to what is left from the last record.
ProcessCompressed ==
  /\ Processing("compressed")
  /\ UNCHANGED <<tracingSize, delivered>>
  /\ IF compressed
     THEN /\ buffer' = buffer \o eventHeader.slice
          /\ inside' = TRUE /\ eventHeader' = NoHeader
          /\ Read(eventHeader.size)
          /\ UNCHANGED <<reading, signal>>
     ELSE Emit("error") /\ UNCHANGED <<pos, eventHeader, buffer, bufferPos, inside>>

doRead ==
  \/ EndLoop \/ ReadEventHeader \/ WaitForMore \/ KeepRest
  \/ ProcessEvent \/ SkipEvent \/ ProcessTracingData \/ ProcessCompressed

DataInit ==
  /\ pos = 0 /\ compressed = FALSE
  /\ eventHeader = NoHeader /\ tracingSize = 0
  /\ buffer = <<>> /\ bufferPos = 0 /\ inside = FALSE
  /\ reading = "nobody" /\ signal = "none" /\ delivered = <<>>
=============================================================================
