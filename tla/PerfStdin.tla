------------------------------ MODULE PerfStdin ------------------------------
(***************************************************************************)
(* The device for standard input (src/app/perfstdin.cpp).  A timer fills   *)
(* its buffer and announces data; whoever reads takes data from the buffer *)
(* and may have it filled, too.  Reading from standard input (fread)       *)
(* blocks until everything it was asked for is there or the input ends.    *)
(***************************************************************************)
EXTENDS Integers, Sequences

CONSTANTS
  MinBufferSize, MaxBufferSize,  \* s_minBufferSize and s_maxBufferSize
  Sizes,                         \* how long the input may be
  Lengths                        \* how much may be read at once

ASSUME StdinAssumption ==
  /\ MinBufferSize \in Nat \ {0} /\ MaxBufferSize \in Nat
  /\ MinBufferSize <= MaxBufferSize
  /\ Sizes \subseteq Nat /\ Lengths \subseteq Nat \ {0}

VARIABLES
  size,       \* of the input; its bytes are numbered from 0
  taken,      \* how many of them fread has returned
  stdinAtEnd, \* feof or ferror
  buffer,     \* [bytes, length, pos, used]
  device,     \* "open", "closing" or "closed"
  slot,       \* the slot that runs: "none", "readyRead" or "aboutToClose"
  call,       \* of readData: [pc, maxlen, read]
  delivered   \* what was read from the device

stream == <<size, taken, stdinAtEnd>>
vars   == <<stream, buffer, device, slot, call, delivered>>

-----------------------------------------------------------------------------
Uninitialized == -1
NoCall == [pc |-> "none", maxlen |-> 0, read |-> 0]

Smaller(a, b) == IF a <= b THEN a ELSE b

bufferedAvailable(b) == b.used - b.pos

\* Faulty: copies from the beginning of the old buffer.
resizeBufferFromStart(b, newSize) ==
  [bytes |-> [k \in 0 .. newSize - 1 |->
                IF k < bufferedAvailable(b) THEN b.bytes[k] ELSE Uninitialized],
   length |-> newSize, pos |-> 0, used |-> bufferedAvailable(b)]

resizeBuffer(b, newSize) ==
  [bytes |-> [k \in 0 .. newSize - 1 |->
                IF k < bufferedAvailable(b) THEN b.bytes[b.pos + k] ELSE Uninitialized],
   length |-> newSize, pos |-> 0, used |-> bufferedAvailable(b)]

Emptied(b) == IF b.used = b.pos THEN [b EXCEPT !.pos = 0, !.used = 0] ELSE b

Enlarged(b, target) ==
  IF Smaller(target, MaxBufferSize) > b.length
  THEN resizeBuffer(b, Smaller(target, MaxBufferSize)) ELSE b

\* Faulty: always doubles.
MakeRoomUnlimited(b) ==
  CASE b.used # b.length -> b
    [] b.used = b.length /\ b.pos > 0 -> resizeBuffer(b, b.used)
    [] OTHER -> resizeBuffer(b, b.used * 2)

\* Faulty: never moves what is left to the beginning.
MakeRoomAtEnd(b) ==
  CASE b.used # b.length \/ b.pos > 0 -> b
    [] OTHER -> resizeBuffer(b, Smaller(b.used * 2, MaxBufferSize))

\* A full buffer is compacted, or enlarged.
MakeRoom(b) ==
  CASE b.used # b.length -> b
    [] b.used = b.length /\ b.pos > 0 -> resizeBuffer(b, b.used)
    [] OTHER -> resizeBuffer(b, IF b.used <= MaxBufferSize \div 2 THEN b.used * 2
                                ELSE MaxBufferSize)

Prepared(target) == MakeRoom(Enlarged(Emptied(buffer), target))

\* fread into the rest of buffer b.
Room(b) == b.length - b.used
Read(b) == Smaller(Room(b), size - taken)

fread(b) ==
  /\ buffer' = [b EXCEPT
       !.bytes = [k \in 0 .. b.length - 1 |->
                    IF k \in b.used .. b.used + Read(b) - 1 THEN taken + (k - b.used) ELSE @[k]],
       !.used = @ + Read(b)]
  /\ taken' = taken + Read(b)
  /\ stdinAtEnd' = (stdinAtEnd \/ Read(b) < Room(b))
  /\ UNCHANGED size

fillBuffer(target) == fread(Prepared(target))

-----------------------------------------------------------------------------
Init ==
  /\ size \in Sizes /\ taken = 0 /\ stdinAtEnd = FALSE
  /\ buffer = [bytes |-> [k \in 0 .. MinBufferSize - 1 |-> Uninitialized],
               length |-> MinBufferSize, pos |-> 0, used |-> 0]
  /\ device = "open" /\ slot = "none" /\ call = NoCall /\ delivered = <<>>

\* The timer: receiveData, and close up to its signal.
receiveData ==
  /\ device = "open" /\ slot = "none"
  /\ fillBuffer(-1)
  /\ slot' = CASE taken' > taken -> "readyRead"
               [] taken' = taken /\ stdinAtEnd' -> "aboutToClose"
               [] OTHER -> "none"
  /\ device' = IF slot' = "aboutToClose" THEN "closing" ELSE "open"
  /\ UNCHANGED <<call, delivered>>

\* A slot reads; it does not go on when there was nothing.
BeginRead(maxlen) ==
  /\ slot # "none"
  /\ call.pc = "none" \/ (call.pc = "done" /\ call.read > 0)
  /\ call' = [pc |-> "copy", maxlen |-> maxlen, read |-> 0]
  /\ UNCHANGED <<stream, buffer, device, slot, delivered>>

\* The loop of readData: memcpy, and fillBuffer if that was not enough.
Copy ==
  /\ call.pc = "copy"
  /\ LET buffered == Smaller(bufferedAvailable(buffer), call.maxlen - call.read)
     IN  /\ delivered' = delivered \o [k \in 1 .. buffered |-> buffer.bytes[buffer.pos + k - 1]]
         /\ buffer' = [buffer EXCEPT !.pos = @ + buffered]
         /\ call' = [call EXCEPT !.read = @ + buffered,
                                 !.pc = IF call.read + buffered < call.maxlen THEN "fill" ELSE "done"]
  /\ UNCHANGED <<stream, device, slot>>

\* Faulty: takes what fread was asked for as the measure.
FillAll ==
  /\ call.pc = "fill"
  /\ fillBuffer(call.maxlen)
  /\ call' = [call EXCEPT !.pc = IF taken' - taken >= call.maxlen THEN "copy" ELSE "done"]
  /\ UNCHANGED <<device, slot, delivered>>

Fill ==
  /\ call.pc = "fill"
  /\ fillBuffer(call.maxlen)
  /\ call' = [call EXCEPT !.pc = IF taken' > taken THEN "copy" ELSE "done"]
  /\ UNCHANGED <<device, slot, delivered>>

\* What readData returns: -1 at the end.
Result == IF call.read = 0 /\ stdinAtEnd THEN -1 ELSE call.read

\* The slot for aboutToClose reads all that is left, as in tst_perfstdin.cpp.
SlotReturns ==
  /\ slot # "none" /\ call.pc \in {"none", "done"}
  /\ slot = "aboutToClose" => bufferedAvailable(buffer) = 0
  /\ slot' = "none" /\ call' = NoCall
  /\ device' = IF slot = "aboutToClose" THEN "closed" ELSE device
  /\ UNCHANGED <<stream, buffer, delivered>>

Next ==
  \/ receiveData \/ Copy \/ Fill \/ SlotReturns
  \/ \E maxlen \in Lengths : BeginRead(maxlen)

ReadRest ==
  /\ slot = "aboutToClose" /\ bufferedAvailable(buffer) > 0
  /\ \E maxlen \in Lengths : BeginRead(maxlen)

\* The timer runs as long as the device is open, and slots return.
Spec ==
  /\ Init /\ [][Next]_vars
  /\ WF_vars(receiveData) /\ WF_vars(Copy \/ Fill \/ SlotReturns) /\ WF_vars(ReadRest)

-----------------------------------------------------------------------------
\* The asserted relations of position, use and length, which is limited.
StdinTypeOK ==
  /\ size \in Nat /\ taken \in 0 .. size /\ stdinAtEnd \in BOOLEAN
  /\ device \in {"open", "closing", "closed"}
  /\ slot \in {"none", "readyRead", "aboutToClose"}
  /\ call \in [pc : {"none", "copy", "fill", "done"}, maxlen : Nat, read : Nat]
  /\ call.read <= call.maxlen
  /\ buffer \in [bytes : [0 .. buffer.length - 1 -> Int], length : Int, pos : Int, used : Int]
  /\ buffer.length \in MinBufferSize .. MaxBufferSize
  /\ buffer.used \in 0 .. buffer.length /\ buffer.pos \in 0 .. buffer.used
  /\ delivered \in Seq(Int)

\* Less than what was asked for is read only behind the last byte (readData), so that
\* neither reader takes a gap in the stream for its end; -1 says that there is nothing.
ShortOnlyAtEnd ==
  call.pc = "done" =>
    /\ call.read < call.maxlen => stdinAtEnd /\ delivered = [k \in 1 .. size |-> k - 1]
    /\ Result = -1 => Len(delivered) = size

\* Whatever the buffer goes through, bytes are delivered once, in order and before the
\* end (PerfStdin is a sequential QIODevice).
Stream == INSTANCE ByteStream WITH closed <- device = "closed"

ImplementsByteStream == Stream!Spec

\* The device closes in the end, unless nobody reads what fills the largest buffer:
\* then receiveData has no room, announces nothing, and finds no end (fillBuffer).
ClosesOrIsFull ==
  <>(device = "closed") \/ <>[](bufferedAvailable(buffer) = MaxBufferSize)
=============================================================================
