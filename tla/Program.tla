------------------------------ MODULE Program -------------------------------
(***************************************************************************)
(* main() (src/app/main.cpp) with the header of the recording              *)
(* (src/app/perfheader.cpp) and the reader (PerfData): opening a device,   *)
(* waiting for its data, telling a pipe from a file, buffering a file that *)
(* comes as a stream, and the code the program exits with.                 *)
(*                                                                         *)
(* An event of the event loop sets "slot"; the handlers follow in steps    *)
(* that nothing interleaves with.  exit() stops the loop after the event.  *)
(***************************************************************************)
EXTENDS PerfData, FiniteSets

CONSTANTS
  PipeHeader,   \* pipeHeaderFixedLength()
  FileHeader,   \* fileHeaderFixedLength()
  BufferChunk,  \* how much is read at once when a stream is buffered
  Piece,        \* bound: how much arrives at once
  MaxTries      \* bound of the program: the connection attempts

VARIABLES
  device,       \* "file", "stdin" or "socket"
  phase,        \* what the signals of the device are connected to
  slot,         \* the signal that is handled: "none", "readyRead", "aboutToClose"
  closed,       \* whether a stream was closed
  atEnd,        \* stdinAtEnd()
  tries,        \* of PerfTcpSocket
  headerSize,   \* PerfHeader::m_size
  streamOrder,  \* the byte order of the stream that the header is read with
  exitCode      \* the code of the last call of exit, or "none"

loopVars == <<device, slot, closed, atEnd, tries, exitCode>>
dataVars == <<compressed, recordVars, reading, signal, delivered>>
vars == <<input, random, arrived, pos, dataVars, loopVars, phase, headerSize, streamOrder>>

-----------------------------------------------------------------------------
(***************************************************************************)
(* The input: [magic, headerSize, records, inner, size, dataAt, dataEnd,   *)
(* compressed, readable, arch, devices].  dataAt is 0 for a pipe.  magic   *)
(* is "big", "little" or "bad".  readable tells whether the attributes and *)
(* features of a file can be read, arch whether an architecture is known.  *)
(***************************************************************************)
RecordEnd(r) == r.at + HeadLen + r.size + r.extra

Recorded ==
  [type : {"event", "skipped", "tracing", "compressed", "bad"}, at : Nat, size : Nat,
   extra : Nat, unread : Nat, slice : Seq(Nat)]

\* One record behind the other.
Begins(records, p, to) == p = to \/ \E r \in records : r.at = p

Contiguous(records, from, to) ==
  /\ Begins(records, from, to)
  /\ \A r \in records : /\ from <= r.at /\ RecordEnd(r) <= to
                        /\ Begins(records, RecordEnd(r), to)
  /\ \A r, q \in records : /\ r.at < q.at => RecordEnd(r) <= q.at
                           /\ r.at = q.at => r = q

\* The compressed records hold a stream of a length, one part after the other.
Positions(r) == {r.slice[k] : k \in DOMAIN r.slice}

Sliced(records, length) ==
  /\ UNION {Positions(r) : r \in records} = 0 .. length - 1
  /\ \A r, q \in records : r.at < q.at =>
       \A m \in Positions(r), n \in Positions(q) : m < n
  /\ \A r \in records : /\ \A k \in DOMAIN r.slice : r.slice[k] = r.slice[1] + k - 1
                        /\ r.type # "compressed" => r.slice = <<>>

\* What perf writes, of which a stream may have the beginning only.  The records
\* of a stream are as long as their operators expect, and tracing data is longer
\* than its size, which is the content.
ASSUME ProgramAssumption ==
  /\ HeadLen \in Nat \ {0} /\ PipeHeader \in Nat \ {0}
  /\ FileHeader \in Nat /\ FileHeader > PipeHeader
  /\ BufferChunk \in Nat /\ Piece \in Nat /\ MaxTries \in Nat
  /\ \A in \in Inputs :
       /\ in.headerSize \in Nat /\ in.size \in Nat /\ in.dataAt \in Nat /\ in.dataEnd \in Nat
       /\ in.records \subseteq Recorded /\ IsFiniteSet(in.records)
       /\ in.inner \subseteq Recorded /\ IsFiniteSet(in.inner)
       /\ \A r \in in.records \cup in.inner :
            IF r.type = "tracing" THEN r.extra >= r.size ELSE r.extra = 0
       /\ \A r \in in.inner : r.type \in {"event", "skipped"}
       /\ \E length \in {0} \cup {RecordEnd(r) : r \in in.inner} :
            Contiguous(in.inner, 0, length) /\ Sliced(in.records, length)
       /\ in.headerSize = PipeHeader =>
            /\ in.dataAt = 0 /\ \A r \in in.records : r.unread = 0
            /\ \E end \in {in.size} \cup {RecordEnd(r) : r \in in.records} :
                 end >= in.size /\ Contiguous(in.records, PipeHeader, end)
       /\ in.headerSize > PipeHeader =>
            in.dataAt > 0 /\ Contiguous(in.records, in.dataAt, in.dataEnd)

IsPipe == headerSize = PipeHeader

exit(code) == exitCode' = code

\* A handler was left; the loop runs on unless exit was called.
Idle    == slot = "none" /\ reading = "nobody" /\ phase \notin {"fileHeader", "start"}
Running == Idle /\ exitCode = "none"

\* The handlers of the header, and of main.
InHeader == phase = "header" /\ slot = "readyRead"

-----------------------------------------------------------------------------
(***************************************************************************)
(* The device                                                              *)
(***************************************************************************)
EnvUnchanged == UNCHANGED <<input, random, pos, dataVars, headerSize, streamOrder, device>>

Connected ==
  /\ phase = "connecting" /\ Running
  /\ phase' = "header"
  /\ EnvUnchanged /\ UNCHANGED <<arrived, slot, closed, atEnd, tries, exitCode>>

\* Faulty: the attempts are counted anew.
ConnectionFailsAnew ==
  /\ phase = "connecting" /\ Running
  /\ tries' = IF tries > MaxTries THEN 1 ELSE tries + 1
  /\ EnvUnchanged /\ UNCHANGED <<arrived, phase, slot, closed, atEnd, exitCode>>

ConnectionFails ==
  /\ phase = "connecting" /\ Running
  /\ IF tries > MaxTries
     THEN exit("TcpSocketError") /\ UNCHANGED tries
     ELSE tries' = tries + 1 /\ UNCHANGED exitCode
  /\ EnvUnchanged /\ UNCHANGED <<arrived, phase, slot, closed, atEnd>>

\* An error of a connected socket, which is closed for it.
ConnectionBreaks ==
  /\ device = "socket" /\ phase # "connecting" /\ Running /\ ~closed
  /\ exit("TcpSocketError")
  /\ closed' = TRUE /\ slot' = "aboutToClose"
  /\ EnvUnchanged /\ UNCHANGED <<arrived, phase, atEnd, tries>>

\* fread returns less than it was asked for, at least a header, only at the
\* end of standard input.
Arrives(n, last) ==
  /\ ~closed /\ ~atEnd /\ arrived + n <= input.size
  /\ IF device = "stdin" THEN arrived = 0 /\ n < FileHeader => last ELSE ~last
  /\ arrived' = arrived + n /\ atEnd' = last

Receive(n, last) ==
  /\ device # "file" /\ phase # "connecting" /\ Running
  /\ Arrives(n, last)
  /\ slot' = "readyRead"
  /\ EnvUnchanged /\ UNCHANGED <<phase, closed, tries, exitCode>>

\* Standard input is read again when more is wanted than was read of it.
Fill(n, last) ==
  /\ device = "stdin" /\ ~random
  /\ slot = "readyRead" \/ reading = "read"
  /\ arrived - pos < BufferChunk
  /\ Arrives(n, last)
  /\ EnvUnchanged /\ UNCHANGED <<phase, slot, closed, tries, exitCode>>

\* Whoever sends the stream may stop anywhere.
Close ==
  /\ device # "file" /\ phase # "connecting" /\ Running /\ ~closed
  /\ closed' = TRUE /\ slot' = "aboutToClose"
  /\ EnvUnchanged /\ UNCHANGED <<arrived, phase, atEnd, tries, exitCode>>

-----------------------------------------------------------------------------
(***************************************************************************)
(* PerfHeader::read                                                        *)
(***************************************************************************)
HeaderUnchanged == UNCHANGED <<input, random, arrived, dataVars, device, closed, atEnd, tries>>

ReadMagic ==
  /\ InHeader /\ headerSize = 0 /\ Available >= PipeHeader
  /\ input.magic # "bad"
  /\ pos' = PipeHeader /\ headerSize' = input.headerSize
  /\ streamOrder' = input.magic
  /\ HeaderUnchanged /\ UNCHANGED <<phase, slot, exitCode>>

\* Invalid or smaller than announced.
HeaderIsBad ==
  \/ headerSize = 0 /\ random /\ input.size < PipeHeader
  \/ headerSize = 0 /\ Available >= PipeHeader /\ input.magic = "bad"
  \/ headerSize \in 1..(PipeHeader - 1)
  \/ headerSize > PipeHeader /\ random /\ (input.size < FileHeader \/ input.size < input.dataEnd)

HeaderFails ==
  /\ InHeader /\ HeaderIsBad
  /\ exit("HeaderError")
  /\ slot' = "none"
  /\ HeaderUnchanged /\ UNCHANGED <<pos, phase, headerSize, streamOrder>>

\* The next call has a stream of its own, in the default byte order.
WaitForHeader ==
  /\ InHeader /\ ~HeaderIsBad
  /\ \/ headerSize = 0 /\ Available < PipeHeader
     \/ headerSize > PipeHeader /\ Available < FileHeader - PipeHeader
  /\ slot' = "none" /\ streamOrder' = "big"
  /\ HeaderUnchanged /\ UNCHANGED <<pos, phase, headerSize, exitCode>>

PipeHeaderDone ==
  /\ InHeader /\ IsPipe
  /\ phase' = "start" /\ slot' = "none"
  /\ HeaderUnchanged /\ UNCHANGED <<pos, headerSize, streamOrder, exitCode>>

\* A file that comes as a stream is buffered from here on; the header of the
\* buffer file is fake.
FileHeaderDone ==
  /\ InHeader /\ headerSize > PipeHeader /\ ~HeaderIsBad
  /\ Available >= FileHeader - PipeHeader
  /\ pos' = FileHeader
  /\ phase' = IF random THEN "fileHeader" ELSE "buffering"
  /\ slot' = IF ~random /\ arrived > FileHeader THEN "readyRead" ELSE "none"
  /\ HeaderUnchanged /\ UNCHANGED <<headerSize, streamOrder, exitCode>>

\* The stream ends before the header does.
HeaderCloses ==
  /\ phase = "header" /\ slot = "aboutToClose"
  /\ exit("HeaderError")
  /\ slot' = "none"
  /\ HeaderUnchanged /\ UNCHANGED <<pos, phase, headerSize, streamOrder>>

-----------------------------------------------------------------------------
(***************************************************************************)
(* main: bufferSequentialData and what the end of the stream starts        *)
(***************************************************************************)
\* What is read is written to the buffer file, whose length is thus pos.
Buffer ==
  /\ phase = "buffering" /\ slot = "readyRead"
  /\ pos' = IF arrived < pos + BufferChunk THEN arrived ELSE pos + BufferChunk
  /\ slot' = "none"
  /\ HeaderUnchanged /\ UNCHANGED <<phase, headerSize, streamOrder, exitCode>>

\* The buffer file takes the place of the stream.
EndBuffering ==
  /\ phase = "buffering" /\ slot = "aboutToClose"
  /\ random' = TRUE /\ arrived' = pos /\ pos' = 0
  /\ phase' = "fileHeader" /\ slot' = "none"
  /\ UNCHANGED <<input, dataVars, device, closed, atEnd, tries, headerSize, streamOrder,
                 exitCode>>

\* The attributes follow the header, the features the data.  Sections that
\* were read in the wrong order are nowhere.
CanReadFileHeader ==
  /\ input.readable /\ streamOrder = input.magic
  /\ arrived > FileHeader
  /\ input.compressed => arrived = input.size

\* After an error the handler goes on with readData.
readFileHeader ==
  /\ phase = "fileHeader"
  /\ phase' = "start"
  /\ IF CanReadFileHeader THEN UNCHANGED exitCode ELSE exit("DataError")
  /\ compressed' = (CanReadFileHeader /\ input.compressed)
  /\ UNCHANGED <<input, random, arrived, pos, recordVars, reading, signal, delivered,
                 device, slot, closed, atEnd, tries, headerSize, streamOrder>>

ReaderUnchanged ==
  UNCHANGED <<input, random, arrived, compressed, recordVars, delivered,
              device, closed, atEnd, tries, headerSize, streamOrder>>

\* finished and error of the reader end the program.
ExitOnSignal ==
  IF signal' = signal THEN UNCHANGED exitCode
  ELSE exit(IF signal' = "finished" THEN "NoError" ELSE "DataError")

BeginReadData(caller) == BeginRead(caller, IsPipe, streamOrder = input.magic \/ IsPipe)

\* Faulty: the reader waits for more, whatever there is already.
readDataLater ==
  /\ phase = "start" /\ phase' = "data"
  /\ IF input.arch THEN UNCHANGED exitCode ELSE exit("MissingData")
  /\ ReaderUnchanged /\ UNCHANGED <<pos, reading, signal, slot>>

readData ==
  /\ phase = "start" /\ phase' = "data"
  /\ IF ~input.arch THEN exit("MissingData") /\ UNCHANGED <<pos, reading, signal>>
     ELSE IF Available > 0 THEN BeginReadData("read") /\ ExitOnSignal
     ELSE UNCHANGED <<pos, reading, signal, exitCode>>
  /\ ReaderUnchanged /\ UNCHANGED slot

\* PerfData::read and PerfData::finishReading.
ReadSlot ==
  /\ phase = "data" /\ slot # "none"
  /\ BeginReadData(IF slot = "readyRead" THEN "read" ELSE "finishReading")
  /\ ExitOnSignal
  /\ slot' = "none"
  /\ ReaderUnchanged /\ UNCHANGED phase

ReadStep ==
  /\ doRead
  /\ ExitOnSignal
  /\ UNCHANGED <<input, random, arrived, compressed, device, slot, closed, atEnd, tries,
                 phase, headerSize, streamOrder>>

-----------------------------------------------------------------------------
Init ==
  /\ DataInit
  /\ input \in Inputs
  /\ device \in input.devices
  /\ random = (device = "file")
  /\ arrived = IF random THEN input.size ELSE 0
  /\ phase = IF device = "socket" THEN "connecting" ELSE "header"
  /\ slot = IF random THEN "readyRead" ELSE "none"
  /\ closed = FALSE /\ atEnd = FALSE
  /\ tries = IF device = "socket" THEN 1 ELSE 0
  /\ headerSize = 0 /\ streamOrder = "big"
  /\ exitCode = "none"

Handlers ==
  \/ ReadMagic \/ HeaderFails \/ WaitForHeader \/ PipeHeaderDone \/ FileHeaderDone
  \/ HeaderCloses \/ Buffer \/ EndBuffering \/ readFileHeader \/ readData \/ ReadSlot
  \/ ReadStep

Attempt == Connected \/ ConnectionFails

Next ==
  \/ Handlers \/ Attempt \/ ConnectionBreaks \/ Close
  \/ \E n \in 1..Piece, last \in BOOLEAN : Receive(n, last) \/ Fill(n, last)

\* The loop runs what is to be run, and an attempt to connect ends some day.
\* Nobody has to send anything, or to close the stream.
Spec == Init /\ [][Next]_vars /\ WF_vars(Handlers) /\ WF_vars(Attempt)

-----------------------------------------------------------------------------
(***************************************************************************)
(* What is to be delivered                                                 *)
(***************************************************************************)
\* The compressed record that holds the end of a record.
Carrier(r) ==
  CHOOSE c \in input.records : \E k \in DOMAIN c.slice : c.slice[k] = RecordEnd(r) - 1

DueAt(d) == RecordEnd(IF d.inside THEN Carrier(d.record) ELSE d.record)

Due ==
  { [record |-> r, inside |-> FALSE] :
      r \in {q \in input.records : q.type \in {"event", "tracing"}} }
  \cup { [record |-> r, inside |-> TRUE] : r \in {q \in input.inner : q.type = "event"} }

IsDelivery(e, d) == /\ e.type = d.record.type /\ e.at = d.record.at
                    /\ e.inside = d.inside

Precedes(c, d) == \/ DueAt(c) < DueAt(d)
                  \/ DueAt(c) = DueAt(d) /\ c.record.at < d.record.at

Delivered(d) == \E i \in DOMAIN delivered : IsDelivery(delivered[i], d)

-----------------------------------------------------------------------------
(***************************************************************************)
(* Properties                                                              *)
(***************************************************************************)
\* However the stream is cut, and whatever compressed records it is cut into,
\* the unwinder gets the records of the recording in their order, each one
\* once, and nothing else (processEvents, perfdata.cpp:109-366).
RecordsInOrder ==
  \A i \in DOMAIN delivered :
    \E d \in Due :
      /\ IsDelivery(delivered[i], d)
      /\ Cardinality({c \in Due : Precedes(c, d)}) = i - 1

\* A reader that waits for more has delivered every record that is complete,
\* the ones in compressed records, too (doRead, perfdata.cpp:375-389).
NothingHeldBack ==
  phase = "data" /\ Running /\ ~random =>
    \A d \in Due : DueAt(d) <= arrived => Delivered(d)

\* The program succeeds only if all records of a file were delivered, or all
\* of a stream and it does not end in the content of one (finishReading, perfdata.cpp:448-467).
FinishedIsComplete ==
  exitCode = "NoError" =>
    IF IsPipe
    THEN /\ \A d \in Due : DueAt(d) <= arrived => Delivered(d)
         /\ \A r \in input.records : r.at + HeadLen <= arrived => RecordEnd(r) <= arrived
    ELSE \A d \in Due : Delivered(d)

\* A file, and a stream that has ended, end the program.  The exception is a
\* recorded stream that is read as a file and has nothing but a header: its
\* device never tells anything (main.cpp:382-383).
ProgramEnds ==
  /\ closed ~> (exitCode # "none")
  /\ (device = "file" /\ (input.headerSize = PipeHeader => input.size > PipeHeader))
       ~> (exitCode # "none")

\* A socket is connected some day, or the program gives up (main.cpp:80-109).
ConnectsOrGivesUp ==
  (phase = "connecting") ~> (phase # "connecting" \/ exitCode # "none")
=============================================================================
