---------------------------- MODULE ProgramProofs ----------------------------
(***************************************************************************)
(* Proofs about Program: what is delivered is the recording, in its order, *)
(* nothing that is complete is held back, and a program that succeeds has  *)
(* delivered all of it.                                                    *)
(*                                                                         *)
(* The reader is at two places, one in the recording and one in the stream *)
(* that its compressed records hold; what was delivered is what is due     *)
(* before them (Passed).  Each step of doRead moves one of the two over a  *)
(* record, and that record is the next one in the order of what is due:    *)
(* whatever ends in an earlier compressed record was done when that one    *)
(* was (NotComplete).                                                      *)
(***************************************************************************)
EXTENDS Program, FiniteSetTheorems, TLAPS

-----------------------------------------------------------------------------
(***************************************************************************)
(* Where the reader is: "at" is the end of the last outer record that is   *)
(* done, "inner" that of the last one in the compressed stream, of which   *)
(* "unpacked" have been decompressed.                                      *)
(***************************************************************************)
\* The positions of the compressed stream in the records before a place.
UnpackedUpTo(p) == UNION {Positions(r) : r \in {q \in input.records : q.at < p}}

\* The data of the recording, up to "end", and its compressed stream.
Recording(end, length) ==
  /\ end \in Nat /\ length \in Nat
  /\ Contiguous(input.inner, 0, length) /\ Sliced(input.records, length)
  /\ headerSize = PipeHeader \/ headerSize > PipeHeader
  /\ headerSize = input.headerSize
  /\ IF IsPipe
     THEN end >= input.size /\ Contiguous(input.records, PipeHeader, end)
     ELSE end = input.dataEnd /\ Contiguous(input.records, input.dataAt, end)

\* What is due of the records before the two places.
Passed(at, inner) ==
  {d \in Due : IF d.inside THEN d.record.at < inner ELSE d.record.at < at}

\* Behind the place, a header may have been read, and the size of tracing data.
OuterAt(end, at) ==
  /\ Begins(input.records, at, end)
  /\ inside \/ eventHeader = NoHeader => pos = at
  /\ ~inside /\ eventHeader # NoHeader =>
       /\ eventHeader \in input.records /\ eventHeader.at = at
       /\ pos = at + HeadLen + (IF tracingSize # 0 THEN eventHeader.size ELSE 0)
  /\ tracingSize # 0 =>
       /\ ~inside /\ eventHeader.type = "tracing"
       /\ tracingSize = eventHeader.extra

\* The buffer has what is not done yet, from some position on.
InnerAt(length, inner, unpacked) ==
  /\ inside \in BOOLEAN
  /\ Begins(input.inner, inner, length)
  /\ unpacked <= length
  /\ Len(buffer) \in 0 .. unpacked
  /\ buffer = [k \in 1 .. Len(buffer) |-> unpacked - Len(buffer) + k - 1]
  /\ bufferPos \in 0 .. IF inside THEN Len(buffer) ELSE 0
  /\ inside /\ eventHeader # NoHeader =>
       eventHeader \in input.inner /\ eventHeader.at = inner
  /\ unpacked - Len(buffer) <= inner
  /\ unpacked - Len(buffer) + bufferPos =
       IF inside /\ eventHeader # NoHeader THEN inner + HeadLen ELSE inner

\* What is not done was not complete before the current compressed record.
NotComplete(inner, unpacked) ==
  \A r \in input.inner : r.at >= inner => RecordEnd(r) > unpacked

Current(at, inner, before) ==
  /\ UnpackedUpTo(at) = 0 .. before - 1
  /\ NotComplete(inner, before)

\* While a compressed record is processed, it is the one that ends at the place.
Unpacking(at, inner, unpacked) ==
  /\ UnpackedUpTo(at) = 0 .. unpacked - 1
  /\ ~inside => NotComplete(inner, unpacked)
  /\ inside => \E r \in input.records, before \in Nat :
                 /\ r.type = "compressed" /\ RecordEnd(r) = at
                 /\ Current(r.at, inner, before)

\* Exactly what is in the set has been delivered, and in order.
Deliveries(due) ==
  /\ delivered \in Seq([type : {"event", "tracing"}, at : Nat, inside : BOOLEAN])
  /\ Len(delivered) = Cardinality(due)
  /\ \A d \in due : Delivered(d)
  /\ RecordsInOrder

\* The state of the reader at its places.
ReaderAt(end, length, at, inner, unpacked) ==
  /\ Recording(end, length)
  /\ OuterAt(end, at)
  /\ InnerAt(length, inner, unpacked)
  /\ Unpacking(at, inner, unpacked)
  /\ Deliveries(Passed(at, inner))

Reader ==
  \E end, length, at, inner, unpacked \in Nat :
    ReaderAt(end, length, at, inner, unpacked)

\* Nothing has been read yet.
Fresh ==
  /\ eventHeader = NoHeader /\ tracingSize = 0 /\ delivered = <<>>
  /\ buffer = <<>> /\ bufferPos = 0 /\ inside = FALSE
  /\ reading = "nobody" /\ exitCode # "NoError"

\* The reader has what it needs, and the rest is not there.
Waiting ==
  /\ ~inside
  /\ arrived < IF eventHeader = NoHeader THEN pos + HeadLen
                                         ELSE RecordEnd(eventHeader)

Ended ==
  /\ ~inside /\ eventHeader = NoHeader
  /\ IF IsPipe THEN arrived < pos + HeadLen ELSE pos >= input.dataEnd

\* The header has been read.
HeaderKnown == headerSize = input.headerSize /\ headerSize >= PipeHeader

\* Where main is, and what it knows there of the header and the device.
Places ==
  /\ input \in Inputs
  /\ random \in BOOLEAN /\ (slot = "aboutToClose" => closed)
  /\ headerSize \in Nat /\ pos \in Nat /\ arrived \in 0 .. input.size
  /\ phase \in {"connecting", "header", "buffering", "fileHeader", "start", "data"}
  /\ reading # "nobody" => phase = "data" /\ slot = "none"
  /\ phase \in {"connecting", "header"} =>
       (headerSize # 0 => headerSize = input.headerSize /\ pos = PipeHeader)
  /\ phase \in {"buffering", "fileHeader", "start", "data"} => HeaderKnown
  /\ phase = "buffering" => ~IsPipe /\ ~random
  /\ phase \in {"fileHeader", "start"} => slot = "none"
  /\ phase = "fileHeader" => ~IsPipe /\ random
  /\ phase \in {"start", "data"} => IsPipe \/ random
  /\ phase = "start" /\ IsPipe => pos = PipeHeader
  /\ (phase \in {"connecting", "header", "buffering"} \/ IsPipe) => pos <= arrived
  /\ random => device = "file" \/ closed
  /\ random /\ phase = "data" => slot = "none"
  /\ device = "file" => ~closed /\ random

\* The inductive invariant.
ReaderInv ==
  /\ Places
  /\ signal # "none" => exitCode # "none"
  /\ phase # "data" => Fresh
  /\ phase = "data" => Reader \/ (Fresh /\ random)
  /\ phase = "data" /\ Running /\ ~random => Waiting
  /\ reading # "nobody" => Reader
  /\ exitCode = "NoError" =>
       phase = "data" /\ Reader /\ Ended /\ reading = "nobody" /\ slot = "none"

-----------------------------------------------------------------------------
(***************************************************************************)
(* Recordings                                                              *)
(***************************************************************************)
\* What is assumed of a recording.
LEMMA RecordTyped ==
  ASSUME input \in Inputs, NEW r \in input.records \cup input.inner
  PROVE  /\ r.at \in Nat /\ r.size \in Nat /\ r.extra \in Nat /\ r.unread \in Nat
         /\ r.slice \in Seq(Nat)
         /\ r.type \in {"event", "skipped", "tracing", "compressed", "bad"}
         /\ RecordEnd(r) \in Nat /\ RecordEnd(r) >= r.at + HeadLen + r.size
         /\ RecordEnd(r) > r.at
         /\ r # NoHeader
         /\ r.type # "tracing" => RecordEnd(r) = r.at + HeadLen + r.size
<1>1. r \in Recorded
  BY ProgramAssumption
<1>2. HeadLen \in Nat \ {0}
  BY ProgramAssumption
<1>3. /\ r.at \in Nat /\ r.size \in Nat /\ r.extra \in Nat /\ r.unread \in Nat
      /\ r.slice \in Seq(Nat)
      /\ r.type \in {"event", "skipped", "tracing", "compressed", "bad"}
  BY <1>1 DEF Recorded
<1>4. r.type # "tracing" => r.extra = 0
  BY ProgramAssumption
<1>5. r # NoHeader
  BY <1>3 DEF NoHeader
<1>6. /\ RecordEnd(r) \in Nat /\ RecordEnd(r) >= r.at + HeadLen + r.size
      /\ RecordEnd(r) > r.at
  <2>1. PICK a \in Nat, h \in Nat \ {0}, s \in Nat, x \in Nat :
          a = r.at /\ h = HeadLen /\ s = r.size /\ x = r.extra
    BY ONLY <1>2, <1>3
  <2>2. RecordEnd(r) = a + h + s + x
    BY ONLY <2>1 DEF RecordEnd
  <2> QED
    BY ONLY <2>1, <2>2
<1>7. r.type # "tracing" => RecordEnd(r) = r.at + HeadLen + r.size
  BY <1>2, <1>3, <1>4 DEF RecordEnd
<1> QED
  BY <1>3, <1>5, <1>6, <1>7

\* The reader of a recording finds the record that begins at its place.
LEMMA HeaderFound ==
  ASSUME NEW R, NEW from, NEW to, Contiguous(R, from, to), NEW r \in R
  PROVE  HeaderAt(R, r.at) = r
BY DEF HeaderAt, Contiguous

\* Records before the end of a record are this one and those before it.
LEMMA BeforeEnd ==
  ASSUME input \in Inputs,
         NEW R \in {input.records, input.inner}, NEW from, NEW to,
         Contiguous(R, from, to), NEW r \in R, NEW q \in R
  PROVE  /\ q.at < RecordEnd(r) <=> q.at < r.at \/ q = r
         /\ q.at < r.at => RecordEnd(q) <= r.at
         /\ q.at >= r.at => RecordEnd(q) >= RecordEnd(r)
         /\ q # r => RecordEnd(q) # RecordEnd(r)
<1>1. /\ r.at \in Nat /\ q.at \in Nat
      /\ RecordEnd(r) \in Nat /\ RecordEnd(q) \in Nat
      /\ RecordEnd(r) > r.at /\ RecordEnd(q) > q.at
  BY RecordTyped
<1>2. /\ r.at < q.at => RecordEnd(r) <= q.at
      /\ q.at < r.at => RecordEnd(q) <= r.at
      /\ r.at = q.at => r = q
  BY DEF Contiguous
<1> QED
  BY <1>1, <1>2

\* Records before a boundary end there or before.
LEMMA BeforeBoundary ==
  ASSUME input \in Inputs,
         NEW R \in {input.records, input.inner}, NEW from, NEW to \in Nat,
         Contiguous(R, from, to), NEW p, Begins(R, p, to), NEW r \in R
  PROVE  p \in Nat /\ (r.at < p <=> RecordEnd(r) <= p)
<1>1. RecordEnd(r) \in Nat /\ r.at \in Nat /\ r.at < RecordEnd(r)
  BY RecordTyped
<1>2. CASE p = to
  BY <1>1, <1>2 DEF Contiguous
<1>3. CASE \E q \in R : q.at = p
  <2>1. PICK q \in R : q.at = p
    BY <1>3
  <2>2. q.at \in Nat
    BY RecordTyped
  <2> QED
    BY <1>1, <2>1, <2>2 DEF Contiguous
<1> QED
  BY <1>2, <1>3 DEF Begins

-----------------------------------------------------------------------------
(***************************************************************************)
(* The compressed stream                                                   *)
(***************************************************************************)
\* A record adds its part to what has been decompressed.
LEMMA UnpackedAtEnd ==
  ASSUME input \in Inputs, NEW end \in Nat, NEW length \in Nat,
         Recording(end, length), NEW r \in input.records
  PROVE  UnpackedUpTo(RecordEnd(r)) = UnpackedUpTo(r.at) \cup Positions(r)
<1>1. PICK from : Contiguous(input.records, from, end)
  BY DEF Recording
<1>2. \A q \in input.records : q.at < RecordEnd(r) <=> q.at < r.at \/ q = r
  BY <1>1, BeforeEnd
<1>3. ASSUME NEW m \in UnpackedUpTo(RecordEnd(r))
      PROVE  m \in UnpackedUpTo(r.at) \cup Positions(r)
  BY <1>2, <1>3 DEF UnpackedUpTo
<1>4. ASSUME NEW m \in UnpackedUpTo(r.at) \cup Positions(r)
      PROVE  m \in UnpackedUpTo(RecordEnd(r))
  BY <1>2, <1>4 DEF UnpackedUpTo
<1> QED
  BY <1>3, <1>4

\* A compressed record continues where the ones before it end.
Unpacks(r, e, length) ==
  LET n == Len(r.slice)
  IN  /\ n \in Nat
      /\ r.slice = [k \in 1 .. n |-> e + k - 1]
      /\ UnpackedUpTo(RecordEnd(r)) = 0 .. e + n - 1
      /\ e + n <= length \/ n = 0

LEMMA NextSlice ==
  ASSUME input \in Inputs, NEW end \in Nat, NEW length \in Nat,
         Recording(end, length), NEW r \in input.records, NEW e \in Nat,
         UnpackedUpTo(r.at) = 0 .. e - 1
  PROVE  Unpacks(r, e, length)
<1> DEFINE n == Len(r.slice)
<1>0. SUFFICES /\ n \in Nat
               /\ r.slice = [k \in 1 .. n |-> e + k - 1]
               /\ UnpackedUpTo(RecordEnd(r)) = 0 .. e + n - 1
               /\ e + n <= length \/ n = 0
  BY DEF Unpacks
<1>1. r.slice \in Seq(Nat) /\ r.at \in Nat
  BY RecordTyped
<1>2. n \in Nat /\ DOMAIN r.slice = 1 .. n /\ \A k \in 1 .. n : r.slice[k] \in Nat
  BY <1>1
<1>3. Sliced(input.records, length)
  BY DEF Recording
<1>4. \A k \in 1 .. n : r.slice[k] = r.slice[1] + k - 1
  BY <1>2, <1>3 DEF Sliced
<1>5. \A m \in Positions(r) : m \in 0 .. length - 1 /\ m \notin 0 .. e - 1
  <2>1. \A m \in Positions(r) : m \in 0 .. length - 1
    BY <1>3 DEF Sliced
  <2>2. ASSUME NEW m \in Positions(r), m \in UnpackedUpTo(r.at)
        PROVE  FALSE
    <3>1. PICK q \in input.records : q.at < r.at /\ m \in Positions(q)
      BY <2>2 DEF UnpackedUpTo
    <3>2. m < m
      BY <1>3, <2>2, <3>1 DEF Sliced
    <3> QED
      BY <2>1, <2>2, <3>2
  <2> QED
    BY <2>1, <2>2
<1>6. CASE n = 0
  <2>1. Positions(r) = {}
    BY <1>2, <1>6 DEF Positions
  <2>2. UnpackedUpTo(RecordEnd(r)) = 0 .. e - 1
    BY <2>1, UnpackedAtEnd
  <2>3. r.slice = [k \in 1 .. n |-> e + k - 1]
    BY <1>1, <1>2, <1>6
  <2> QED
    BY <1>2, <1>6, <2>2, <2>3
<1>7. CASE n # 0
  <2>1. r.slice[1] \in Positions(r) /\ r.slice[n] \in Positions(r)
    BY <1>2, <1>7 DEF Positions
  <2>2. r.slice[1] >= e /\ e \in 0 .. length - 1
    BY <1>2, <1>5, <1>7, <2>1
  <2>3. PICK q \in input.records : e \in Positions(q)
    BY <1>3, <2>2 DEF Sliced
  <2>4. r.slice[1] = e
    <3>1. ~(q.at < r.at)
      <4>1. q.at < r.at => e \in UnpackedUpTo(r.at)
        BY <2>3 DEF UnpackedUpTo
      <4> QED
        BY <4>1
    <3>2. ~(r.at < q.at)
      <4>1. r.at < q.at => r.slice[1] < e
        BY <1>3, <2>1, <2>3 DEF Sliced
      <4> QED
        BY <1>2, <1>7, <2>2, <4>1
    <3>3. q = r
      <4>1. q.at \in Nat
        BY RecordTyped
      <4>2. q.at = r.at
        BY <1>1, <3>1, <3>2, <4>1
      <4> QED
        BY <4>2 DEF Recording, Contiguous
    <3>4. PICK k \in 1 .. n : r.slice[k] = e
      BY <1>2, <2>3, <3>3 DEF Positions
    <3>5. k = 1 \/ r.slice[1] < r.slice[k]
      BY ONLY <1>2, <1>4, <1>7, k \in 1 .. n
    <3>6. r.slice[1] \in Nat /\ e \in Nat
      BY <1>2, <1>7
    <3> QED
      BY ONLY <2>2, <3>4, <3>5, <3>6
  <2>5. \A k \in 1 .. n : r.slice[k] = e + k - 1
    BY ONLY <1>4, <2>4
  <2>6. r.slice = [k \in 1 .. n |-> e + k - 1]
    <3>1. r.slice = [k \in 1 .. n |-> r.slice[k]]
      BY <1>1
    <3> HIDE DEF n
    <3> QED
      BY <2>5, <3>1, Zenon
  <2>7. Positions(r) = e .. e + n - 1
    <3>1. ASSUME NEW m \in e .. e + n - 1
          PROVE  m \in Positions(r)
      <4>1. m - e + 1 \in 1 .. n /\ e + (m - e + 1) - 1 = m
        BY ONLY <1>2, e \in Nat, m \in e .. e + n - 1
      <4>2. r.slice[m - e + 1] = m
        BY ONLY <2>5, <4>1
      <4> QED
        BY <1>2, <4>1, <4>2 DEF Positions
    <3>2. ASSUME NEW m \in Positions(r)
          PROVE  m \in e .. e + n - 1
      <4>1. PICK k \in 1 .. n : m = r.slice[k]
        BY <1>2 DEF Positions
      <4> QED
        BY <1>2, <2>5, <4>1
    <3> QED
      BY <3>1, <3>2
  <2>8. UnpackedUpTo(RecordEnd(r)) = 0 .. e + n - 1
    <3>1. UnpackedUpTo(RecordEnd(r)) = (0 .. e - 1) \cup (e .. e + n - 1)
      BY <2>7, UnpackedAtEnd
    <3> HIDE DEF n
    <3>2. (0 .. e - 1) \cup (e .. e + n - 1) = 0 .. e + n - 1
      BY <1>2
    <3> QED
      BY <3>1, <3>2
  <2>9. e + n <= length
    <3>1. n \in 1 .. n
      BY <1>2, <1>7
    <3> HIDE DEF n
    <3>2. r.slice[n] = e + n - 1
      BY <2>5, <3>1
    <3> QED
      BY <1>2, <1>5, <2>1, <2>2, <3>2
  <2> QED
    BY <1>2, <2>6, <2>8, <2>9
<1> QED
  BY <1>6, <1>7

\* The record that holds the end of an inner record is before a place if the end
\* has been unpacked there.
LEMMA CarrierBefore ==
  ASSUME input \in Inputs, NEW end \in Nat, NEW length \in Nat,
         Recording(end, length), NEW r \in input.inner
  PROVE  /\ Carrier(r) \in input.records /\ Carrier(r).type = "compressed"
         /\ \A p : Carrier(r).at < p <=> RecordEnd(r) - 1 \in UnpackedUpTo(p)
         /\ \A q \in input.records :
              RecordEnd(r) - 1 \in Positions(q) => q = Carrier(r)
<1> DEFINE m == RecordEnd(r) - 1
<1>1. m \in 0 .. length - 1
  <2>1. RecordEnd(r) \in Nat /\ RecordEnd(r) > r.at /\ r.at \in Nat
    BY RecordTyped
  <2>2. RecordEnd(r) <= length
    BY DEF Recording, Contiguous
  <2> QED
    BY <2>1, <2>2
<1>2. Sliced(input.records, length)
  BY DEF Recording
<1>3. \E c \in input.records : m \in Positions(c)
  BY <1>1, <1>2 DEF Sliced
<1>4. \A c \in input.records :
        m \in Positions(c) <=> \E k \in DOMAIN c.slice : c.slice[k] = m
  BY DEF Positions
<1>5. Carrier(r) \in input.records /\ m \in Positions(Carrier(r))
  BY <1>3, <1>4 DEF Carrier
<1>6. ASSUME NEW q \in input.records, m \in Positions(q)
      PROVE  q = Carrier(r)
  <2>1. q.at \in Nat /\ Carrier(r).at \in Nat
    BY <1>5, RecordTyped
  <2>2. ~(q.at < Carrier(r).at) /\ ~(Carrier(r).at < q.at)
    <3>1. q.at < Carrier(r).at \/ Carrier(r).at < q.at => m < m
      BY <1>2, <1>5, <1>6 DEF Sliced
    <3> QED
      BY <1>1, <3>1
  <2>3. q.at = Carrier(r).at
    BY <2>1, <2>2
  <2> QED
    BY <1>5, <2>3 DEF Recording, Contiguous
<1>7. Carrier(r).type = "compressed"
  <2>1. Carrier(r).type # "compressed" => Carrier(r).slice = <<>>
    BY <1>2, <1>5 DEF Sliced
  <2> QED
    BY <1>5, <2>1 DEF Positions
<1>8. ASSUME NEW p
      PROVE  Carrier(r).at < p <=> m \in UnpackedUpTo(p)
  BY <1>5, <1>6 DEF UnpackedUpTo
<1> QED
  BY <1>5, <1>6, <1>7, <1>8

-----------------------------------------------------------------------------
(***************************************************************************)
(* What is due                                                             *)
(***************************************************************************)
\* What is due is of one of the two streams.
LEMMA DueKinds ==
  ASSUME NEW d \in Due
  PROVE  \/ /\ ~d.inside /\ d.record \in input.records
            /\ d.record.type \in {"event", "tracing"}
            /\ DueAt(d) = RecordEnd(d.record)
         \/ /\ d.inside /\ d.record \in input.inner /\ d.record.type = "event"
            /\ DueAt(d) = RecordEnd(Carrier(d.record))
<1>1. CASE \E r \in {q \in input.records : q.type \in {"event", "tracing"}} :
             d = [record |-> r, inside |-> FALSE]
  <2>1. PICK r \in {q \in input.records : q.type \in {"event", "tracing"}} :
               d = [record |-> r, inside |-> FALSE]
    BY <1>1
  <2>2. ~d.inside /\ d.record = r
    BY <2>1
  <2> QED
    BY <2>1, <2>2 DEF DueAt
<1>2. CASE \E r \in {q \in input.inner : q.type = "event"} :
             d = [record |-> r, inside |-> TRUE]
  <2>1. PICK r \in {q \in input.inner : q.type = "event"} :
               d = [record |-> r, inside |-> TRUE]
    BY <1>2
  <2>2. d.inside /\ d.record = r
    BY <2>1
  <2> QED
    BY <2>1, <2>2 DEF DueAt
<1> QED
  BY <1>1, <1>2 DEF Due

\* A due record is told by its record and its stream.
LEMMA DueEqual ==
  ASSUME NEW c \in Due, NEW d \in Due, c.record = d.record, c.inside <=> d.inside
  PROVE  c = d
<1>1. ASSUME NEW e \in Due
      PROVE  \/ e = [record |-> e.record, inside |-> FALSE] /\ ~e.inside
             \/ e = [record |-> e.record, inside |-> TRUE] /\ e.inside
  <2>1. CASE \E r \in input.records : e = [record |-> r, inside |-> FALSE]
    <3>1. PICK r \in input.records : e = [record |-> r, inside |-> FALSE]
      BY <2>1
    <3>2. e.record = r
      BY <3>1
    <3>3. ~e.inside
      BY <3>1
    <3>4. e = [record |-> e.record, inside |-> FALSE]
      BY <3>1, <3>2, Zenon
    <3> QED
      BY <3>3, <3>4
  <2>2. CASE \E r \in input.inner : e = [record |-> r, inside |-> TRUE]
    <3>1. PICK r \in input.inner : e = [record |-> r, inside |-> TRUE]
      BY <2>2
    <3>2. e.record = r
      BY <3>1
    <3>3. e.inside = TRUE
      BY <3>1
    <3>4. e = [record |-> e.record, inside |-> TRUE]
      BY <3>1, <3>2, Zenon
    <3> QED
      BY <3>3, <3>4, Zenon
  <2> QED
    BY <2>1, <2>2 DEF Due
<1>2. CASE c.inside
  <2>1. c = [record |-> c.record, inside |-> TRUE]
    BY <1>1, <1>2, Zenon
  <2>2. d = [record |-> d.record, inside |-> TRUE]
    BY <1>1, <1>2, Zenon
  <2> QED
    BY <2>1, <2>2, Zenon
<1>3. CASE ~c.inside
  <2>1. c = [record |-> c.record, inside |-> FALSE]
    BY <1>1, <1>3, Zenon
  <2>2. d = [record |-> d.record, inside |-> FALSE]
    BY <1>1, <1>3, Zenon
  <2> QED
    BY <2>1, <2>2, Zenon
<1> QED
  BY <1>2, <1>3

\* Something is due finitely often.
LEMMA DueFinite ==
  ASSUME input \in Inputs
  PROVE  IsFiniteSet(Due)
<1> DEFINE Outer == {q \in input.records : q.type \in {"event", "tracing"}}
           Inner == {q \in input.inner : q.type = "event"}
<1>1. IsFiniteSet(Outer) /\ IsFiniteSet(Inner)
  <2>1. IsFiniteSet(input.records) /\ IsFiniteSet(input.inner)
    BY ProgramAssumption
  <2> QED
    BY <2>1, FS_Subset
<1>2. /\ IsFiniteSet({[record |-> r, inside |-> FALSE] : r \in Outer})
      /\ IsFiniteSet({[record |-> r, inside |-> TRUE] : r \in Inner})
  <2> HIDE DEF Outer, Inner
  <2>1. ASSUME NEW S, IsFiniteSet(S), NEW b
        PROVE  IsFiniteSet({[record |-> r, inside |-> b] : r \in S})
    <3> DEFINE T == {[record |-> r, inside |-> b] : r \in S}
               f == [r \in S |-> [record |-> r, inside |-> b]]
    <3>1. f \in Surjection(S, T)
      BY DEF Surjection
    <3> QED
      BY <2>1, <3>1, FS_Surjection
  <2> QED
    BY <1>1, <2>1
<1>3. Due = {[record |-> r, inside |-> FALSE] : r \in Outer}
              \cup {[record |-> r, inside |-> TRUE] : r \in Inner}
  BY DEF Due
<1> QED
  BY <1>2, <1>3, FS_Union

\* Nothing is due before the data.
LEMMA NothingPassed ==
  ASSUME input \in Inputs, NEW from \in Nat, NEW to, NEW length,
         Contiguous(input.records, from, to), Contiguous(input.inner, 0, length)
  PROVE  Passed(from, 0) = {} /\ UnpackedUpTo(from) = {}
<1>1. \A r \in input.records : r.at \in Nat /\ r.at >= from
  BY RecordTyped DEF Contiguous
<1>2. \A r \in input.inner : r.at \in Nat
  BY RecordTyped
<1>3. Passed(from, 0) = {}
  BY <1>1, <1>2, DueKinds DEF Passed
<1>4. UnpackedUpTo(from) = {}
  BY <1>1 DEF UnpackedUpTo
<1> QED
  BY <1>3, <1>4

\* A record is passed with its end.
LEMMA PassedOuter ==
  ASSUME input \in Inputs, NEW end \in Nat, NEW length \in Nat, Recording(end, length),
         NEW inner, NEW r \in input.records
  PROVE  Passed(RecordEnd(r), inner) =
           Passed(r.at, inner) \cup {d \in Due : ~d.inside /\ d.record = r}
<1>1. PICK from : Contiguous(input.records, from, end)
  BY DEF Recording
<1>2. \A q \in input.records : q.at < RecordEnd(r) <=> q.at < r.at \/ q = r
  BY <1>1, BeforeEnd
<1>3. \A d \in Due : ~d.inside =>
        (d.record.at < RecordEnd(r) <=> d.record.at < r.at \/ d.record = r)
  BY <1>2, DueKinds
<1> QED
  BY <1>3 DEF Passed

\* So is a record of the compressed stream.
LEMMA PassedInner ==
  ASSUME input \in Inputs, NEW end \in Nat, NEW length \in Nat, Recording(end, length),
         NEW at, NEW r \in input.inner
  PROVE  Passed(at, RecordEnd(r)) =
           Passed(at, r.at) \cup {d \in Due : d.inside /\ d.record = r}
<1>1. Contiguous(input.inner, 0, length)
  BY DEF Recording
<1>2. \A q \in input.inner : q.at < RecordEnd(r) <=> q.at < r.at \/ q = r
  BY <1>1, BeforeEnd
<1>3. \A d \in Due : d.inside =>
        (d.record.at < RecordEnd(r) <=> d.record.at < r.at \/ d.record = r)
  BY <1>2, DueKinds
<1> QED
  BY <1>3 DEF Passed

\* What precedes a record of the recording is what was passed before it.
LEMMA PrecedesOuter ==
  ASSUME input \in Inputs, NEW end \in Nat, NEW length \in Nat, Recording(end, length),
         NEW d \in Due, ~d.inside, NEW inner \in Nat, NEW e \in Nat,
         Begins(input.inner, inner, length), inner <= e,
         Current(d.record.at, inner, e)
  PROVE  {c \in Due : Precedes(c, d)} = Passed(d.record.at, inner)
<1> DEFINE r == d.record
<1>1. r \in input.records /\ r.type \in {"event", "tracing"} /\ DueAt(d) = RecordEnd(r)
  BY DueKinds
<1>2. PICK from : Contiguous(input.records, from, end)
  BY DEF Recording
<1>3. Contiguous(input.inner, 0, length)
  BY DEF Recording
<1>4. r.at \in Nat /\ RecordEnd(r) \in Nat
  BY <1>1, RecordTyped
<1> HIDE DEF r
<1>5. ASSUME NEW q \in input.records
      PROVE  /\ q.at \in Nat /\ RecordEnd(q) \in Nat
             /\ RecordEnd(q) < RecordEnd(r) <=> q.at < r.at
             /\ RecordEnd(q) = RecordEnd(r) <=> q = r
  <2>1. /\ q.at < r.at => RecordEnd(q) <= r.at
        /\ q.at >= r.at => RecordEnd(q) >= RecordEnd(r)
        /\ q # r => RecordEnd(q) # RecordEnd(r)
    BY <1>1, <1>2, BeforeEnd
  <2>2. q.at \in Nat /\ RecordEnd(q) \in Nat /\ RecordEnd(r) > r.at
    BY <1>1, RecordTyped
  <2> QED
    BY <1>4, <2>1, <2>2
<1>6. ASSUME NEW c \in Due, ~c.inside
      PROVE  Precedes(c, d) <=> c.record.at < r.at
  <2>1. c.record \in input.records /\ DueAt(c) = RecordEnd(c.record)
    BY <1>6, DueKinds
  <2>2. Precedes(c, d) <=> \/ RecordEnd(c.record) < RecordEnd(r)
                           \/ RecordEnd(c.record) = RecordEnd(r) /\ c.record.at < r.at
    BY <1>1, <2>1 DEF Precedes, r
  <2> QED
    BY <1>4, <1>5, <2>1, <2>2
<1>7. ASSUME NEW c \in Due, c.inside
      PROVE  Precedes(c, d) <=> c.record.at < inner
  <2>1. c.record \in input.inner /\ DueAt(c) = RecordEnd(Carrier(c.record))
    BY <1>7, DueKinds
  <2>2. /\ Carrier(c.record) \in input.records /\ Carrier(c.record).type = "compressed"
        /\ Carrier(c.record).at < r.at <=> RecordEnd(c.record) - 1 \in UnpackedUpTo(r.at)
    BY <2>1, CarrierBefore
  <2>3. Precedes(c, d) <=> \/ RecordEnd(Carrier(c.record)) < RecordEnd(r)
                           \/ /\ RecordEnd(Carrier(c.record)) = RecordEnd(r)
                              /\ c.record.at < r.at
    BY <1>1, <2>1 DEF Precedes, r
  <2>4. Precedes(c, d) <=> RecordEnd(c.record) - 1 \in UnpackedUpTo(r.at)
    BY <1>1, <1>5, <2>2, <2>3
  <2>5. RecordEnd(c.record) \in Nat /\ c.record.at \in Nat /\ RecordEnd(c.record) > c.record.at
    BY <2>1, RecordTyped
  <2>6. Precedes(c, d) <=> RecordEnd(c.record) <= e
    BY <2>4, <2>5 DEF Current, r
  <2>7. c.record.at < inner => RecordEnd(c.record) <= inner
    BY <1>3, <2>1, BeforeBoundary
  <2>8. c.record.at >= inner => RecordEnd(c.record) > e
    BY <2>1 DEF Current, NotComplete
  <2> QED
    BY <2>5, <2>6, <2>7, <2>8
<1> QED
  BY <1>6, <1>7 DEF Passed, r

\* What precedes a record of the compressed stream is what was passed before it,
\* if nothing that was left could end in an earlier compressed record.
LEMMA PrecedesInner ==
  ASSUME input \in Inputs, NEW end \in Nat, NEW length \in Nat, Recording(end, length),
         NEW d \in Due, d.inside, NEW q \in input.records, q.type = "compressed",
         NEW unpacked \in Nat, UnpackedUpTo(RecordEnd(q)) = 0 .. unpacked - 1,
         RecordEnd(d.record) <= unpacked,
         NEW before \in Nat, Current(q.at, d.record.at, before)
  PROVE  {c \in Due : Precedes(c, d)} = Passed(RecordEnd(q), d.record.at)
<1> DEFINE x == d.record
<1>1. x \in input.inner /\ DueAt(d) = RecordEnd(Carrier(x))
  BY DueKinds
<1>2. PICK from : Contiguous(input.records, from, end)
  BY DEF Recording
<1>3. Contiguous(input.inner, 0, length)
  BY DEF Recording
<1>4. x.at \in Nat /\ RecordEnd(x) \in Nat /\ RecordEnd(x) > x.at
  BY <1>1, RecordTyped
<1>5. q.at \in Nat /\ RecordEnd(q) \in Nat /\ RecordEnd(q) > q.at
  BY RecordTyped
<1> HIDE DEF x
<1>6. DueAt(d) = RecordEnd(q)
  <2>1. RecordEnd(x) > before
    BY <1>1, <1>4 DEF Current, NotComplete, x
  <2>2. RecordEnd(x) - 1 \in UnpackedUpTo(RecordEnd(q))
    BY <1>4 DEF x
  <2>3. RecordEnd(x) - 1 \notin UnpackedUpTo(q.at)
    BY <1>4, <2>1 DEF Current
  <2>4. RecordEnd(x) - 1 \in Positions(q)
    BY <2>2, <2>3, UnpackedAtEnd
  <2>5. q = Carrier(x)
    BY <1>1, <2>4, CarrierBefore
  <2> QED
    BY <1>1, <2>5
<1>7. ASSUME NEW p \in input.records
      PROVE  /\ p.at \in Nat /\ RecordEnd(p) \in Nat
             /\ RecordEnd(p) < RecordEnd(q) <=> p.at < q.at
             /\ RecordEnd(p) = RecordEnd(q) <=> p = q
             /\ p.at < RecordEnd(q) <=> p.at < q.at \/ p = q
  <2>1. /\ p.at < RecordEnd(q) <=> p.at < q.at \/ p = q
        /\ p.at < q.at => RecordEnd(p) <= q.at
        /\ p.at >= q.at => RecordEnd(p) >= RecordEnd(q)
        /\ p # q => RecordEnd(p) # RecordEnd(q)
    BY <1>2, BeforeEnd
  <2>2. p.at \in Nat /\ RecordEnd(p) \in Nat
    BY RecordTyped
  <2> QED
    BY <1>5, <2>1, <2>2
<1>8. ASSUME NEW c \in Due, ~c.inside
      PROVE  Precedes(c, d) <=> c.record.at < RecordEnd(q)
  <2>1. /\ c.record \in input.records /\ DueAt(c) = RecordEnd(c.record)
        /\ c.record # q
    BY <1>8, DueKinds
  <2>2. Precedes(c, d) <=> \/ RecordEnd(c.record) < RecordEnd(q)
                           \/ RecordEnd(c.record) = RecordEnd(q) /\ c.record.at < x.at
    BY <1>6, <2>1 DEF Precedes, x
  <2> QED
    BY <1>7, <2>1, <2>2
<1>9. ASSUME NEW c \in Due, c.inside
      PROVE  Precedes(c, d) <=> c.record.at < x.at
  <2> DEFINE y == c.record
  <2>1. y \in input.inner /\ DueAt(c) = RecordEnd(Carrier(y))
    BY <1>9, DueKinds
  <2>2. /\ Carrier(y) \in input.records
        /\ Carrier(y).at < q.at <=> RecordEnd(y) - 1 \in UnpackedUpTo(q.at)
        /\ Carrier(y).at < RecordEnd(q) <=> RecordEnd(y) - 1 \in UnpackedUpTo(RecordEnd(q))
    BY <2>1, CarrierBefore
  <2>3. RecordEnd(y) \in Nat /\ y.at \in Nat /\ RecordEnd(y) > y.at
    BY <2>1, RecordTyped
  <2>4. Precedes(c, d) <=> \/ RecordEnd(Carrier(y)) < RecordEnd(q)
                           \/ RecordEnd(Carrier(y)) = RecordEnd(q) /\ y.at < x.at
    BY <1>6, <2>1 DEF Precedes, x
  <2>5. y.at < x.at => RecordEnd(y) <= x.at
    BY <1>1, <1>3, <2>1, BeforeEnd
  <2>6. y.at >= x.at => RecordEnd(y) > before
    BY <2>1 DEF Current, NotComplete, x
  <2> HIDE DEF y
  <2>7. y.at < x.at => Carrier(y).at < RecordEnd(q)
    BY <1>4, <2>2, <2>3, <2>5 DEF x
  <2>8. y.at >= x.at => ~(Carrier(y).at < q.at)
    BY <1>4, <2>2, <2>3, <2>6 DEF Current
  <2>9. y.at < x.at => Precedes(c, d)
    BY <1>7, <2>2, <2>4, <2>7
  <2>10. y.at >= x.at => ~Precedes(c, d)
    BY <1>4, <1>7, <2>2, <2>3, <2>4, <2>8
  <2> QED
    BY <1>4, <2>3, <2>9, <2>10 DEF y
<1> QED
  BY <1>8, <1>9 DEF Passed, x

-----------------------------------------------------------------------------
(***************************************************************************)
(* Deliveries                                                              *)
(***************************************************************************)
\* Nothing is due yet.
LEMMA FirstDeliveries ==
  ASSUME delivered = <<>>
  PROVE  Deliveries({})
BY FS_EmptySet DEF Deliveries, RecordsInOrder

\* The next due record is delivered.
LEMMA DeliverNext ==
  ASSUME input \in Inputs, input' = input,
         NEW due \in SUBSET Due, Deliveries(due), NEW d \in Due, d \notin due,
         {c \in Due : Precedes(c, d)} = due,
         NEW e \in [type : {"event", "tracing"}, at : Nat, inside : BOOLEAN], IsDelivery(e, d),
         delivered' = Append(delivered, e)
  PROVE  Deliveries(due \cup {d})'
<1>1. IsFiniteSet(due)
  BY DueFinite, FS_Subset
<1>2. Cardinality(due) \in Nat /\ Cardinality(due \cup {d}) = Cardinality(due) + 1
  BY <1>1, FS_CardinalityType, FS_AddElement
<1>3. /\ delivered \in Seq([type : {"event", "tracing"}, at : Nat, inside : BOOLEAN])
      /\ Len(delivered) = Cardinality(due)
  BY DEF Deliveries
<1>4. /\ delivered' \in Seq([type : {"event", "tracing"}, at : Nat, inside : BOOLEAN])
      /\ Len(delivered') = Len(delivered) + 1
      /\ DOMAIN delivered' = 1 .. Len(delivered) + 1
      /\ DOMAIN delivered = 1 .. Len(delivered)
      /\ \A i \in DOMAIN delivered : delivered'[i] = delivered[i]
      /\ delivered'[Len(delivered) + 1] = e
  BY <1>3
<1>5. Due' = Due /\ \A b, c : Precedes(b, c)' <=> Precedes(b, c)
  BY DEF Due, Precedes, DueAt, Carrier
<1>6. ASSUME NEW c \in due \cup {d}
      PROVE  Delivered(c)'
  <2>1. CASE c = d
    BY <1>2, <1>3, <1>4, <2>1 DEF Delivered
  <2>2. CASE c \in due
    <3>1. PICK i \in DOMAIN delivered : IsDelivery(delivered[i], c)
      BY <2>2 DEF Deliveries, Delivered
    <3>2. i \in DOMAIN delivered' /\ IsDelivery(delivered'[i], c)
      BY <1>2, <1>3, <1>4, <3>1
    <3> QED
      BY <3>2 DEF Delivered
  <2> QED
    BY <2>1, <2>2
<1>7. RecordsInOrder'
  <2> SUFFICES ASSUME NEW i \in DOMAIN delivered'
               PROVE  \E b \in Due : /\ IsDelivery(delivered'[i], b)
                                     /\ Cardinality({c \in Due : Precedes(c, b)}) = i - 1
    <3>1. \A b : {c \in Due' : Precedes(c, b)'} = {c \in Due : Precedes(c, b)}
      BY <1>5
    <3> QED
      BY <1>5, <3>1 DEF RecordsInOrder
  <2>1. CASE i \in DOMAIN delivered
    BY <1>4, <2>1 DEF Deliveries, RecordsInOrder
  <2>2. CASE i = Len(delivered) + 1
    <3>1. IsDelivery(delivered'[i], d)
      BY <1>4, <2>2
    <3>2. Cardinality(due) = i - 1
      BY <1>2, <1>3, <2>2
    <3>3. Cardinality({c \in Due : Precedes(c, d)}) = i - 1
      BY <3>2, Zenon
    <3> QED
      BY <3>1, <3>3
  <2>3. i \in DOMAIN delivered \/ i = Len(delivered) + 1
    BY <1>2, <1>3, <1>4
  <2> QED
    BY <2>1, <2>2, <2>3
<1> QED
  BY <1>2, <1>3, <1>4, <1>6, <1>7 DEF Deliveries

\* Other steps keep what was delivered.
LEMMA DeliveriesKept ==
  ASSUME input' = input, delivered' = delivered, NEW due, Deliveries(due)
  PROVE  Deliveries(due)'
<1>1. Due' = Due /\ \A b, c : Precedes(b, c)' <=> Precedes(b, c)
  BY DEF Due, Precedes, DueAt, Carrier
<1>2. RecordsInOrder'
  <2>1. \A b : {c \in Due' : Precedes(c, b)'} = {c \in Due : Precedes(c, b)}
    BY <1>1
  <2> QED
    BY <1>1, <2>1 DEF Deliveries, RecordsInOrder
<1> QED
  BY <1>2 DEF Deliveries, Delivered

-----------------------------------------------------------------------------
(***************************************************************************)
(* The steps of the reader                                                 *)
(***************************************************************************)
ReadFrame ==
  UNCHANGED <<input, random, arrived, compressed, device, slot, closed, atEnd, tries,
              phase, headerSize, streamOrder>>

\* When a step of the reader is taken.
Stepping ==
  /\ input \in Inputs /\ arrived \in 0 .. input.size /\ pos \in Nat
  /\ random \in BOOLEAN /\ (IsPipe \/ random)
  /\ IsPipe => pos <= arrived
  /\ reading # "nobody" /\ exitCode # "NoError"
  /\ signal # "none" => exitCode # "none"

\* What a step leaves behind when it is the last one of a call.
Stops ==
  reading = "nobody" => /\ exitCode = "none" /\ ~random => Waiting
                        /\ exitCode = "NoError" => Ended

Stepped ==
  /\ Reader /\ Stops
  /\ pos \in Nat /\ (IsPipe => pos <= arrived)
  /\ signal # "none" => exitCode # "none"
  /\ exitCode = "NoError" => reading = "nobody"

\* The places are those of the recording.
LEMMA RecordingKept ==
  ASSUME UNCHANGED <<input, headerSize>>
  PROVE  /\ \A end, length : Recording(end, length) => Recording(end, length)'
         /\ \A p, i : Passed(p, i)' = Passed(p, i)
         /\ \A p : UnpackedUpTo(p)' = UnpackedUpTo(p)
         /\ \A i, u : NotComplete(i, u)' <=> NotComplete(i, u)
         /\ \A p, i, u : Current(p, i, u)' <=> Current(p, i, u)
<1>1. \A end, length : Recording(end, length) => Recording(end, length)'
  BY DEF Recording, IsPipe
<1>2. \A p, i : Passed(p, i)' = Passed(p, i)
  BY DEF Passed, Due
<1>3. \A p : UnpackedUpTo(p)' = UnpackedUpTo(p)
  BY DEF UnpackedUpTo
<1>4. \A i, u : NotComplete(i, u)' <=> NotComplete(i, u)
  BY DEF NotComplete
<1>5. \A p, i, u : Current(p, i, u)' <=> Current(p, i, u)
  BY <1>3, <1>4 DEF Current
<1> QED
  BY <1>1, <1>2, <1>3, <1>4, <1>5

\* The parts of the next state of the reader.
LEMMA ReaderNext ==
  ASSUME UNCHANGED <<input, headerSize>>,
         NEW end \in Nat, NEW length \in Nat, NEW at \in Nat, NEW inner \in Nat,
         NEW unpacked \in Nat,
         Recording(end, length), OuterAt(end, at)', InnerAt(length, inner, unpacked)',
         UnpackedUpTo(at) = 0 .. unpacked - 1,
         ~inside' => NotComplete(inner, unpacked),
         inside' => \E r \in input.records, before \in Nat :
                      /\ r.type = "compressed" /\ RecordEnd(r) = at
                      /\ Current(r.at, inner, before),
         Deliveries(Passed(at, inner))'
  PROVE  Reader'
<1>1. Recording(end, length)' /\ UnpackedUpTo(at)' = UnpackedUpTo(at)
  BY RecordingKept
<1>2. Unpacking(at, inner, unpacked)'
  BY <1>1, RecordingKept DEF Unpacking
<1> QED
  BY <1>1, <1>2 DEF Reader, ReaderAt

\* A step that leaves the reader alone.
LEMMA ReaderKept ==
  ASSUME UNCHANGED <<input, headerSize, pos, recordVars, delivered>>, Reader
  PROVE  Reader'
<1>1. PICK end, length, at, inner, unpacked \in Nat :
             ReaderAt(end, length, at, inner, unpacked)
  BY DEF Reader
<1>2. Recording(end, length) /\ OuterAt(end, at)'
  BY <1>1 DEF ReaderAt, OuterAt, recordVars
<1>3. InnerAt(length, inner, unpacked)'
  BY <1>1 DEF ReaderAt, InnerAt, recordVars
<1>4. Deliveries(Passed(at, inner))'
  BY <1>1, DeliveriesKept, RecordingKept DEF ReaderAt
<1>5. inside' = inside
  BY DEF recordVars
<1> QED
  BY <1>1, <1>2, <1>3, <1>4, <1>5, ReaderNext DEF ReaderAt, Unpacking

\* The code that the program exits with.
LEMMA Exits ==
  ASSUME Stepping, ExitOnSignal
  PROVE  /\ signal' = "error" => exitCode' \notin {"none", "NoError"}
         /\ signal' = "finished" => exitCode' # "none"
         /\ signal' = signal => exitCode' = exitCode /\ exitCode' # "NoError"
         /\ signal' = signal => (signal' # "none" => exitCode' # "none")
BY DEF Stepping, ExitOnSignal, exit

\* Rerun ends a call of doRead: what is missing is not there.
LEMMA RerunStops ==
  ASSUME Stepping, ReadFrame, ExitOnSignal, Rerun, Waiting',
         eventHeader' = NoHeader /\ ~random => Ended'
  PROVE  /\ Stops'
         /\ (signal # "none" => exitCode # "none")'
         /\ (exitCode = "NoError" => reading = "nobody")'
<1>1. CASE signal' = "error"
  BY <1>1, Exits DEF Stops
<1>2. CASE signal' = "finished" /\ reading' = "nobody" /\ eventHeader' = NoHeader /\ ~random
  BY <1>2, Exits DEF Stops
<1>3. CASE signal' = signal /\ reading' = "nobody"
  BY <1>3, Exits DEF Stops
<1> QED
  BY <1>1, <1>2, <1>3 DEF Rerun, Emit, Stepping

\* A step after which the reader goes on.
LEMMA GoesOn ==
  ASSUME Stepping, ExitOnSignal, UNCHANGED <<reading, signal>>
  PROVE  /\ Stops'
         /\ (signal # "none" => exitCode # "none")'
         /\ (exitCode = "NoError" => reading = "nobody")'
BY Exits DEF Stops, Stepping

\* An error.
LEMMA Fails ==
  ASSUME Stepping, ExitOnSignal, Emit("error")
  PROVE  /\ Stops'
         /\ (signal # "none" => exitCode # "none")'
         /\ (exitCode = "NoError" => reading = "nobody")'
BY Exits DEF Stops, Emit

-----------------------------------------------------------------------------
(***************************************************************************)
(* Each step of doRead                                                     *)
(***************************************************************************)
\* What is assumed of the recording that is read.
LEMMA InputTyped ==
  ASSUME input \in Inputs, NEW end, NEW length, Recording(end, length)
  PROVE  /\ HeadLen \in Nat \ {0} /\ input.size \in Nat
         /\ input.dataAt \in Nat /\ input.dataEnd \in Nat
         /\ IsPipe => /\ input.dataAt = 0 /\ \A r \in input.records : r.unread = 0
                      /\ end >= input.size
         /\ ~IsPipe => input.dataAt > 0 /\ end = input.dataEnd
         /\ \A r \in input.inner : r.type \in {"event", "skipped"}
         /\ \A r \in input.records : r.type = "tracing" => r.extra >= r.size
<1>1. HeadLen \in Nat \ {0} /\ input.size \in Nat /\ input.dataAt \in Nat
      /\ input.dataEnd \in Nat
  BY ProgramAssumption
<1>2. \A r \in input.inner : r.type \in {"event", "skipped"}
  BY ProgramAssumption
<1>3. \A r \in input.records : r.type = "tracing" => r.extra >= r.size
  BY ProgramAssumption
<1>4. IsPipe => /\ input.dataAt = 0 /\ \A r \in input.records : r.unread = 0
                /\ end >= input.size
  BY ProgramAssumption DEF Recording, IsPipe
<1>5. ~IsPipe => input.dataAt > 0 /\ end = input.dataEnd
  BY ProgramAssumption DEF Recording, IsPipe
<1> QED
  BY <1>1, <1>2, <1>3, <1>4, <1>5

\* The end of the loop.
LEMMA EndLoopSteps ==
  ASSUME Stepping, ReadFrame, ExitOnSignal, Reader, EndLoop
  PROVE  Stepped'
<1>1. PICK end, length, at, inner, unpacked \in Nat :
             ReaderAt(end, length, at, inner, unpacked)
  BY DEF Reader
<1>2. Recording(end, length)
  BY <1>1 DEF ReaderAt
<1>3. /\ ~inside /\ eventHeader = NoHeader /\ LoopEnds
      /\ ~inside' /\ eventHeader' = NoHeader /\ pos' = pos
  BY DEF EndLoop, InLoop, Stepping
<1>4. Reader'
  BY ReaderKept DEF EndLoop, ReadFrame, recordVars
<1>5. Ended' /\ (~random => Waiting')
  BY <1>2, <1>3, InputTyped DEF LoopEnds, Ended, Waiting, Stepping, ReadFrame, IsPipe
<1>6. /\ Stops'
      /\ (signal # "none" => exitCode # "none")'
      /\ (exitCode = "NoError" => reading = "nobody")'
  <2>1. CASE random
    <3>1. signal' = "finished" /\ reading' = "nobody" /\ exitCode' # "none"
      BY <2>1, Exits DEF EndLoop, Emit
    <3> QED
      BY <1>5, <3>1 DEF Stops
  <2>2. CASE ~random
    <3>1. Rerun
      BY <2>2 DEF EndLoop
    <3> QED
      BY <1>5, <2>2, <3>1, RerunStops
  <2> QED
    BY <2>1, <2>2
<1> QED
  BY <1>3, <1>4, <1>6 DEF Stepped, Stepping, ReadFrame, IsPipe

\* A header is read where a record begins.
LEMMA ReadEventHeaderSteps ==
  ASSUME Stepping, ReadFrame, ExitOnSignal, Reader, ReadEventHeader
  PROVE  Stepped'
<1>1. PICK end, length, at, inner, unpacked \in Nat :
             ReaderAt(end, length, at, inner, unpacked)
  BY DEF Reader
<1>2. /\ Recording(end, length) /\ OuterAt(end, at) /\ InnerAt(length, inner, unpacked)
      /\ Unpacking(at, inner, unpacked) /\ Deliveries(Passed(at, inner))
  BY <1>1 DEF ReaderAt
<1>3. /\ reading # "nobody" /\ (inside \/ ~LoopEnds) /\ eventHeader = NoHeader
      /\ Available >= HeadLen /\ eventHeader' = NextHeader /\ Read(HeadLen)
      /\ UNCHANGED <<tracingSize, buffer, inside, delivered>>
  BY DEF ReadEventHeader, InLoop
<1>4. /\ HeadLen \in Nat \ {0} /\ input.size \in Nat /\ input.dataEnd \in Nat
      /\ IsPipe => input.dataAt = 0 /\ end >= input.size
      /\ ~IsPipe => input.dataAt > 0 /\ end = input.dataEnd
  BY <1>2, InputTyped DEF Stepping
<1>5. UNCHANGED <<input, headerSize>>
  BY DEF ReadFrame
<1>6. Deliveries(Passed(at, inner))'
  BY <1>2, <1>3, <1>5, DeliveriesKept, RecordingKept
<1>7. /\ OuterAt(end, at)' /\ InnerAt(length, inner, unpacked)'
      /\ pos' \in Nat /\ (IsPipe => pos <= arrived)'
  <2>1. CASE inside
    <3>1. /\ pos' = pos /\ bufferPos' = bufferPos + HeadLen
          /\ Len(buffer) - bufferPos >= HeadLen
          /\ eventHeader' = HeaderAt(input.inner, buffer[bufferPos + 1])
      BY <1>3, <2>1 DEF Read, Available, NextHeader
    <3>2. /\ Len(buffer) \in 0 .. unpacked /\ bufferPos \in 0 .. Len(buffer)
          /\ unpacked <= length
          /\ buffer = [k \in 1 .. Len(buffer) |-> unpacked - Len(buffer) + k - 1]
          /\ unpacked - Len(buffer) + bufferPos = inner
          /\ Begins(input.inner, inner, length)
      BY <1>2, <1>3, <2>1 DEF InnerAt
    <3>3. bufferPos + 1 \in 1 .. Len(buffer) /\ inner < length
      BY <1>4, <3>1, <3>2
    <3>4. buffer[bufferPos + 1] = inner
      <4> DEFINE n == Len(buffer)
      <4>1. buffer = [k \in 1 .. n |-> unpacked - n + k - 1]
        BY <3>2
      <4>2. n \in 0 .. unpacked /\ bufferPos + 1 \in 1 .. n /\ bufferPos \in Nat
            /\ unpacked - n + bufferPos = inner
        BY <3>2, <3>3
      <4> HIDE DEF n
      <4>3. buffer[bufferPos + 1] = unpacked - n + (bufferPos + 1) - 1
        BY <4>1, <4>2
      <4> QED
        BY <4>2, <4>3
    <3>5. PICK r \in input.inner : r.at = inner
      BY <3>2, <3>3 DEF Begins
    <3>6. eventHeader' = r
      BY <1>2, <3>1, <3>4, <3>5, HeaderFound DEF Recording
    <3>7. r # NoHeader
      BY <3>5, RecordTyped DEF Stepping
    <3>8. InnerAt(length, inner, unpacked)'
      <4>1. bufferPos' \in 0 .. Len(buffer)
        <5>1. PICK n \in Int, p \in Nat, h \in Nat :
                /\ n = Len(buffer) /\ p = bufferPos /\ h = HeadLen
                /\ bufferPos' = p + h /\ n - p >= h
          BY ONLY <1>4, <3>1, <3>2
        <5> QED
          BY ONLY <5>1
      <4>2. unpacked - Len(buffer) + bufferPos' = inner + HeadLen
        <5> DEFINE n == Len(buffer)
        <5>1. n \in Int /\ bufferPos \in Int /\ unpacked - n + bufferPos = inner
          BY <3>2
        <5> HIDE DEF n
        <5>2. unpacked - n + (bufferPos + HeadLen) = inner + HeadLen
          BY <1>4, <5>1
        <5> QED
          BY <3>1, <5>2 DEF n
      <4> QED
        BY <1>3, <1>5, <2>1, <3>2, <3>5, <3>6, <3>7, <4>1, <4>2 DEF InnerAt
    <3>9. OuterAt(end, at)'
      BY <1>2, <1>3, <1>5, <2>1, <3>1 DEF OuterAt
    <3> QED
      BY <3>1, <3>8, <3>9 DEF Stepping, ReadFrame, IsPipe
  <2>2. CASE ~inside
    <3>1. /\ pos' = pos + HeadLen /\ bufferPos' = bufferPos /\ pos + HeadLen <= arrived
          /\ eventHeader' = HeaderAt(input.records, pos)
      BY <1>3, <1>4, <2>2 DEF Read, Available, NextHeader, Stepping
    <3>2. pos = at /\ Begins(input.records, at, end) /\ tracingSize = 0
      <4>1. tracingSize # 0 => NoHeader.type = "tracing"
        BY <1>2, <1>3 DEF OuterAt
      <4> QED
        BY <1>2, <1>3, <2>2, <4>1 DEF OuterAt, NoHeader
    <3>3. pos < end
      BY <1>3, <1>4, <2>2 DEF LoopEnds, Stepping
    <3>4. PICK r \in input.records : r.at = at
      BY <3>2, <3>3 DEF Begins
    <3>5. eventHeader' = r
      BY <1>2, <3>1, <3>2, <3>4, HeaderFound DEF Recording
    <3>6. r # NoHeader
      BY <3>4, RecordTyped DEF Stepping
    <3>7. OuterAt(end, at)'
      BY <1>3, <1>4, <1>5, <2>2, <3>1, <3>2, <3>4, <3>5, <3>6 DEF OuterAt
    <3>8. InnerAt(length, inner, unpacked)'
      BY <1>2, <1>3, <1>5, <2>2, <3>1 DEF InnerAt
    <3> QED
      BY <1>4, <3>1, <3>7, <3>8 DEF Stepping, ReadFrame
  <2> QED
    BY <2>1, <2>2
<1>8. Reader'
  BY <1>2, <1>3, <1>5, <1>6, <1>7, ReaderNext DEF Unpacking
<1>9. /\ Stops'
      /\ (signal # "none" => exitCode # "none")'
      /\ (exitCode = "NoError" => reading = "nobody")'
  BY Fails, GoesOn DEF ReadEventHeader
<1> QED
  BY <1>7, <1>8, <1>9 DEF Stepped

\* There is not enough of a record.
LEMMA WaitForMoreSteps ==
  ASSUME Stepping, ReadFrame, ExitOnSignal, Reader, WaitForMore
  PROVE  Stepped'
<1>1. PICK end, length, at, inner, unpacked \in Nat :
             ReaderAt(end, length, at, inner, unpacked)
  BY DEF Reader
<1>2. Recording(end, length) /\ OuterAt(end, at)
  BY <1>1 DEF ReaderAt
<1>3. /\ ~inside /\ Incomplete /\ Rerun
      /\ UNCHANGED <<pos, eventHeader, tracingSize, buffer, bufferPos, inside, delivered>>
  BY DEF WaitForMore, recordVars
<1>4. HeadLen \in Nat \ {0} /\ input.size \in Nat
  BY <1>2, InputTyped DEF Stepping
<1>5. Reader'
  BY <1>3, ReaderKept DEF ReadFrame, recordVars
<1>6. Waiting
  <2>1. CASE eventHeader = NoHeader
    BY <1>3, <1>4, <2>1 DEF Waiting, Incomplete, Available, Stepping
  <2>2. CASE eventHeader # NoHeader
    <3> DEFINE r == eventHeader
    <3>1. /\ r \in input.records /\ r.at = at
          /\ pos = at + HeadLen + (IF tracingSize # 0 THEN r.size ELSE 0)
      BY <1>2, <1>3, <2>2 DEF OuterAt
    <3>2. r.at \in Nat /\ r.size \in Nat /\ r.extra \in Nat
      BY <3>1, RecordTyped DEF Stepping
    <3>3. tracingSize # 0 => r.extra >= r.size
      BY <1>2, <3>1, InputTyped DEF OuterAt, Stepping
    <3>4. arrived < pos + r.size
      BY <1>3, <1>4, <2>2, <3>2 DEF Incomplete, Available, Stepping
    <3> HIDE DEF r
    <3>5. arrived < RecordEnd(r)
      BY <1>4, <3>1, <3>2, <3>3, <3>4 DEF RecordEnd, Stepping
    <3> QED
      BY <1>3, <2>2, <3>5 DEF Waiting, r
  <2> QED
    BY <2>1, <2>2
<1>7. Waiting'
  BY <1>3, <1>6 DEF Waiting, ReadFrame, RecordEnd
<1>8. eventHeader' = NoHeader /\ ~random => Ended'
  BY <1>3, <1>7 DEF Ended, Waiting, Stepping, ReadFrame, IsPipe
<1>9. /\ Stops'
      /\ (signal # "none" => exitCode # "none")'
      /\ (exitCode = "NoError" => reading = "nobody")'
  BY <1>3, <1>7, <1>8, RerunStops
<1> QED
  BY <1>3, <1>5, <1>9 DEF Stepped, Stepping, ReadFrame, IsPipe

\* A record that is due is the only thing that is due of it.
LEMMA DueOnce ==
  ASSUME NEW r, NEW b \in BOOLEAN, [record |-> r, inside |-> b] \in Due
  PROVE  {d \in Due : (d.inside <=> b) /\ d.record = r} = {[record |-> r, inside |-> b]}
<1> DEFINE D == [record |-> r, inside |-> b]
<1>1. D.record = r /\ (D.inside <=> b)
  OBVIOUS
<1> HIDE DEF D
<1>2. \A d \in Due : (d.inside <=> b) /\ d.record = r => d = D
  BY <1>1, DueEqual DEF D
<1>3. {d \in Due : (d.inside <=> b) /\ d.record = r} = {D}
  BY <1>1, <1>2 DEF D
<1> QED
  BY <1>3 DEF D

\* Which records are due.
LEMMA DueRecords ==
  /\ \A r \in input.records :
       IF r.type \in {"event", "tracing"} THEN [record |-> r, inside |-> FALSE] \in Due
       ELSE {d \in Due : ~d.inside /\ d.record = r} = {}
  /\ \A r \in input.inner :
       IF r.type = "event" THEN [record |-> r, inside |-> TRUE] \in Due
       ELSE {d \in Due : d.inside /\ d.record = r} = {}
<1>1. ASSUME NEW r \in input.records
      PROVE  IF r.type \in {"event", "tracing"} THEN [record |-> r, inside |-> FALSE] \in Due
             ELSE {d \in Due : ~d.inside /\ d.record = r} = {}
  <2>1. r.type \in {"event", "tracing"} => [record |-> r, inside |-> FALSE] \in Due
    BY DEF Due
  <2>2. r.type \notin {"event", "tracing"} => {d \in Due : ~d.inside /\ d.record = r} = {}
    BY DueKinds
  <2> QED
    BY <2>1, <2>2
<1>2. ASSUME NEW r \in input.inner
      PROVE  IF r.type = "event" THEN [record |-> r, inside |-> TRUE] \in Due
             ELSE {d \in Due : d.inside /\ d.record = r} = {}
  <2>1. r.type = "event" => [record |-> r, inside |-> TRUE] \in Due
    BY DEF Due
  <2>2. r.type # "event" => {d \in Due : d.inside /\ d.record = r} = {}
    BY DueKinds
  <2> QED
    BY <2>1, <2>2
<1> QED
  BY <1>1, <1>2

\* What the unwinder is given for a record.
Given(r) ==
  IF r.type \in {"event", "tracing"} THEN Deliver(r) ELSE UNCHANGED delivered

\* A record outside of compressed ones is done.
LEMMA PassOuter ==
  ASSUME input \in Inputs, UNCHANGED <<input, headerSize>>,
         NEW end \in Nat, NEW length \in Nat, NEW at \in Nat, NEW inner \in Nat,
         NEW unpacked \in Nat, ReaderAt(end, length, at, inner, unpacked),
         ~inside, NEW r, eventHeader = r, r # NoHeader, r.type # "compressed",
         eventHeader' = NoHeader, tracingSize' = 0, UNCHANGED <<buffer, bufferPos, inside>>,
         pos' = RecordEnd(r), Given(r)
  PROVE  Reader'
<1> PICK next : next = RecordEnd(r)
  OBVIOUS
<1>1. /\ Recording(end, length) /\ OuterAt(end, at) /\ InnerAt(length, inner, unpacked)
      /\ UnpackedUpTo(at) = 0 .. unpacked - 1 /\ NotComplete(inner, unpacked)
      /\ Deliveries(Passed(at, inner))
  BY DEF ReaderAt, Unpacking
<1>2. r \in input.records /\ r.at = at
  BY <1>1 DEF OuterAt
<1>3. next \in Nat /\ at < next /\ r.type # "compressed"
  BY <1>2, RecordTyped
<1>4. PICK from : Contiguous(input.records, from, end)
  BY <1>1 DEF Recording
<1>5. OuterAt(end, next)'
  BY <1>2, <1>4 DEF OuterAt, Contiguous, Begins
<1>6. InnerAt(length, inner, unpacked)'
  BY <1>1 DEF InnerAt
<1>7. UnpackedUpTo(next) = 0 .. unpacked - 1
  <2>1. r.slice = <<>>
    BY <1>1, <1>2, <1>3 DEF Recording, Sliced
  <2>2. Positions(r) = {}
    BY <2>1 DEF Positions
  <2> QED
    BY <1>1, <1>2, <2>2, UnpackedAtEnd
<1>8. Passed(next, inner) = Passed(at, inner) \cup {d \in Due : ~d.inside /\ d.record = r}
  BY <1>1, <1>2, PassedOuter
<1>9. Deliveries(Passed(next, inner))'
  <2>1. CASE r.type \in {"event", "tracing"}
    <3> DEFINE D == [record |-> r, inside |-> FALSE]
    <3> PICK e : e = [type |-> r.type, at |-> r.at, inside |-> FALSE]
      OBVIOUS
    <3>1. D \in Due
      BY <1>2, <2>1, DueRecords
    <3>2. {d \in Due : (d.inside <=> FALSE) /\ d.record = r} = {D}
      BY <3>1, DueOnce
    <3>3. Passed(next, inner) = Passed(at, inner) \cup {D}
      BY <1>8, <3>2
    <3>4. D.record = r /\ ~D.inside
      OBVIOUS
    <3>5. IsDelivery(e, D)
      BY <3>4 DEF IsDelivery
    <3>6. e \in [type : {"event", "tracing"}, at : Nat, inside : BOOLEAN]
      BY <1>2, <2>1
    <3>7. delivered' = Append(delivered, e)
      <4>1. inside = FALSE
        BY <1>1 DEF InnerAt
      <4> QED
        BY <2>1, <4>1 DEF Given, Deliver
    <3> HIDE DEF D
    <3>8. {c \in Due : Precedes(c, D)} = Passed(at, inner)
      <4>1. Begins(input.inner, inner, length) /\ inner <= unpacked
        <5>1. /\ Begins(input.inner, inner, length)
              /\ bufferPos \in 0 .. 0 /\ Len(buffer) \in 0 .. unpacked
              /\ unpacked - Len(buffer) + bufferPos = inner
          BY <1>1 DEF InnerAt
        <5> QED
          BY <5>1
      <4>2. Current(D.record.at, inner, unpacked)
        BY <1>1, <1>2, <3>4 DEF Current
      <4> QED
        BY <1>1, <1>2, <3>1, <3>4, <4>1, <4>2, PrecedesOuter
    <3>9. Passed(at, inner) \in SUBSET Due /\ D \notin Passed(at, inner)
      BY <1>2, <3>4 DEF Passed
    <3> PICK due : due = Passed(at, inner)
      OBVIOUS
    <3>10. Deliveries(due \cup {D})'
      BY <1>1, <3>1, <3>5, <3>6, <3>7, <3>8, <3>9, DeliverNext
    <3>11. Passed(next, inner)' = due \cup {D}
      BY <3>3, RecordingKept
    <3> QED
      BY <3>10, <3>11 DEF Deliveries
  <2>2. CASE r.type \notin {"event", "tracing"}
    <3>1. Passed(next, inner) = Passed(at, inner)
      BY <1>2, <1>8, <2>2, DueRecords
    <3>2. Deliveries(Passed(at, inner))'
      BY <1>1, <2>2, DeliveriesKept, RecordingKept DEF Given
    <3>3. Passed(next, inner)' = Passed(at, inner)'
      BY <3>1, RecordingKept
    <3> QED
      BY <3>2, <3>3 DEF Deliveries
  <2> QED
    BY <2>1, <2>2
<1> QED
  BY <1>1, <1>3, <1>5, <1>6, <1>7, <1>9, ReaderNext

\* A record of the compressed stream is done.
LEMMA PassInner ==
  ASSUME input \in Inputs, UNCHANGED <<input, headerSize>>,
         NEW end \in Nat, NEW length \in Nat, NEW at \in Nat, NEW inner \in Nat,
         NEW unpacked \in Nat, ReaderAt(end, length, at, inner, unpacked),
         inside, NEW r, eventHeader = r, r # NoHeader,
         eventHeader' = NoHeader, UNCHANGED <<pos, tracingSize, buffer, inside>>,
         bufferPos' = bufferPos + r.size, bufferPos + r.size <= Len(buffer), Given(r)
  PROVE  Reader'
<1> PICK next : next = RecordEnd(r)
  OBVIOUS
<1>1. /\ Recording(end, length) /\ OuterAt(end, at) /\ InnerAt(length, inner, unpacked)
      /\ Deliveries(Passed(at, inner)) /\ UnpackedUpTo(at) = 0 .. unpacked - 1
  BY DEF ReaderAt, Unpacking
<1>2. PICK q \in input.records, before \in Nat :
             /\ q.type = "compressed" /\ RecordEnd(q) = at
             /\ Current(q.at, inner, before)
  BY DEF ReaderAt, Unpacking
<1>3. r \in input.inner /\ r.at = inner
  BY <1>1 DEF InnerAt
<1>4. /\ next \in Nat /\ inner < next /\ r.size \in Nat
      /\ next = inner + HeadLen + r.size /\ HeadLen \in Nat
      /\ r.type \in {"event", "skipped"}
  <2>1. r.type \in {"event", "skipped"} /\ HeadLen \in Nat
    BY <1>1, <1>3, InputTyped
  <2> QED
    BY <1>3, <2>1, RecordTyped
<1>5. /\ unpacked - Len(buffer) + (bufferPos + r.size) = next
      /\ bufferPos + r.size \in 0 .. Len(buffer) /\ next <= unpacked
      /\ unpacked - Len(buffer) <= next
  <2>1. PICK n : n = Len(buffer)
    OBVIOUS
  <2>2. /\ n \in Int /\ bufferPos \in Int /\ 0 <= n /\ n <= unpacked
        /\ 0 <= bufferPos /\ bufferPos <= n
        /\ unpacked - n + bufferPos = inner + HeadLen
        /\ unpacked - n <= inner
    BY <1>1, <2>1 DEF InnerAt
  <2>3. PICK s : s = r.size
    OBVIOUS
  <2>4. s \in Nat /\ next = inner + HeadLen + s /\ bufferPos + s <= n
    BY <1>4, <2>1, <2>3
  <2>5. /\ unpacked - n + (bufferPos + s) = next
        /\ 0 <= bufferPos + s /\ bufferPos + s \in Int
        /\ next <= unpacked /\ unpacked - n <= next
    <3>1. PICK h \in Nat : h = HeadLen
      BY <1>4
    <3> QED
      BY ONLY <2>2, <2>4, <3>1, inner \in Nat, unpacked \in Nat
  <2> QED
    BY <2>1, <2>3, <2>4, <2>5
<1>6. OuterAt(end, at)'
  BY <1>1 DEF OuterAt
<1>7. InnerAt(length, next, unpacked)'
  <2>1. Begins(input.inner, next, length)
    BY <1>1, <1>3 DEF Recording, Contiguous
  <2>2. /\ inside' = inside /\ buffer' = buffer /\ eventHeader' = NoHeader
        /\ bufferPos' \in 0 .. Len(buffer) /\ input' = input
        /\ unpacked - Len(buffer) + bufferPos' = next
        /\ unpacked - Len(buffer) <= next
    BY <1>5
  <2>3. /\ inside \in BOOLEAN /\ unpacked <= length
        /\ Len(buffer) \in 0 .. unpacked
        /\ buffer = [k \in 1 .. Len(buffer) |-> unpacked - Len(buffer) + k - 1]
    BY <1>1 DEF InnerAt
  <2> QED
    BY <2>1, <2>2, <2>3 DEF InnerAt
<1>8. Current(q.at, next, before)
  <2>1. \A p \in input.inner : p.at \in Nat
    BY RecordTyped
  <2> QED
    BY <1>2, <1>4, <2>1 DEF Current, NotComplete
<1>9. Passed(at, next) = Passed(at, inner) \cup {d \in Due : d.inside /\ d.record = r}
  BY <1>1, <1>3, PassedInner
<1>10. Deliveries(Passed(at, next))'
  <2>1. CASE r.type = "event"
    <3> DEFINE D == [record |-> r, inside |-> TRUE]
    <3> PICK e : e = [type |-> r.type, at |-> r.at, inside |-> TRUE]
      OBVIOUS
    <3> PICK due : due = Passed(at, inner)
      OBVIOUS
    <3>1. D \in Due
      BY <1>3, <2>1, DueRecords
    <3>2. {d \in Due : (d.inside <=> TRUE) /\ d.record = r} = {D}
      BY <3>1, DueOnce
    <3>3. Passed(at, next) = due \cup {D}
      BY <1>9, <3>2
    <3>4. D.record = r /\ D.inside
      OBVIOUS
    <3>5. IsDelivery(e, D)
      BY <3>4 DEF IsDelivery
    <3>6. e \in [type : {"event", "tracing"}, at : Nat, inside : BOOLEAN]
      BY <1>3, <2>1
    <3>7. delivered' = Append(delivered, e)
      <4>1. inside = TRUE
        BY <1>1 DEF InnerAt
      <4> QED
        BY <2>1, <4>1 DEF Given, Deliver
    <3> HIDE DEF D
    <3>8. {c \in Due : Precedes(c, D)} = Passed(at, inner)
      <4>1. UnpackedUpTo(RecordEnd(q)) = 0 .. unpacked - 1
        BY <1>1, <1>2
      <4>2. RecordEnd(D.record) <= unpacked /\ Current(q.at, D.record.at, before)
        BY <1>2, <1>3, <1>5, <3>4
      <4>3. {c \in Due : Precedes(c, D)} = Passed(RecordEnd(q), D.record.at)
        BY <1>1, <1>2, <3>1, <3>4, <4>1, <4>2, PrecedesInner
      <4> QED
        BY <1>2, <1>3, <3>4, <4>3
    <3>9. due \in SUBSET Due /\ D \notin due
      BY <1>3, <3>4 DEF Passed
    <3>10. Deliveries(due \cup {D})'
      BY <1>1, <3>1, <3>5, <3>6, <3>7, <3>8, <3>9, DeliverNext
    <3>11. Passed(at, next)' = due \cup {D}
      BY <3>3, RecordingKept
    <3> QED
      BY <3>10, <3>11 DEF Deliveries
  <2>2. CASE r.type # "event"
    <3>1. Passed(at, next) = Passed(at, inner)
      BY <1>3, <1>9, <2>2, DueRecords
    <3>2. Deliveries(Passed(at, inner))'
      BY <1>1, <1>4, <2>2, DeliveriesKept, RecordingKept DEF Given
    <3>3. Passed(at, next)' = Passed(at, inner)'
      BY <3>1, RecordingKept
    <3> QED
      BY <3>2, <3>3 DEF Deliveries
  <2> QED
    BY <2>1, <2>2
<1> QED
  BY <1>1, <1>2, <1>4, <1>6, <1>7, <1>8, <1>10, ReaderNext

\* The rest of a compressed record is kept.
LEMMA KeepRestSteps ==
  ASSUME Stepping, ReadFrame, ExitOnSignal, Reader, KeepRest
  PROVE  Stepped'
<1>1. PICK end, length, at, inner, unpacked \in Nat :
             ReaderAt(end, length, at, inner, unpacked)
  BY DEF Reader
<1>2. /\ Recording(end, length) /\ OuterAt(end, at) /\ InnerAt(length, inner, unpacked)
      /\ UnpackedUpTo(at) = 0 .. unpacked - 1 /\ Deliveries(Passed(at, inner))
  BY <1>1 DEF ReaderAt, Unpacking
<1>20. PICK p : p = IF eventHeader = NoHeader THEN bufferPos ELSE bufferPos - HeadLen
  OBVIOUS
<1>3. /\ inside /\ Incomplete /\ ~inside' /\ inside' = FALSE /\ eventHeader' = NoHeader
      /\ buffer' = SubSeq(buffer, p + 1, Len(buffer)) /\ bufferPos' = 0
      /\ UNCHANGED <<pos, tracingSize, reading, signal, delivered, input, headerSize>>
  BY <1>20 DEF KeepRest, KeepRestFrom, ReadFrame
<1>4. HeadLen \in Nat \ {0}
  BY <1>2, InputTyped DEF Stepping
<1>5. /\ inside \in BOOLEAN /\ Begins(input.inner, inner, length) /\ unpacked <= length
      /\ Len(buffer) \in 0 .. unpacked
      /\ buffer = [k \in 1 .. Len(buffer) |-> unpacked - Len(buffer) + k - 1]
      /\ bufferPos \in 0 .. Len(buffer)
      /\ eventHeader # NoHeader => eventHeader \in input.inner /\ eventHeader.at = inner
      /\ unpacked - Len(buffer) <= inner
      /\ unpacked - Len(buffer) + bufferPos =
           IF eventHeader # NoHeader THEN inner + HeadLen ELSE inner
  BY <1>2, <1>3 DEF InnerAt
<1>21. PICK n : n = Len(buffer)
  OBVIOUS
<1>6. /\ n \in Int /\ p \in Int /\ bufferPos \in Int
      /\ 0 <= n /\ n <= unpacked /\ 0 <= p /\ p <= n /\ unpacked - n + p = inner
  <2>1. /\ n \in Int /\ bufferPos \in Int /\ 0 <= n /\ n <= unpacked
        /\ 0 <= bufferPos /\ bufferPos <= n /\ unpacked - n <= inner
        /\ unpacked - n + bufferPos =
             IF eventHeader # NoHeader THEN inner + HeadLen ELSE inner
    BY <1>5, <1>21
  <2>2. CASE eventHeader = NoHeader
    <3>1. p = bufferPos /\ unpacked - n + bufferPos = inner
      BY <1>20, <2>1, <2>2
    <3> QED
      BY <2>1, <3>1
  <2>3. CASE eventHeader # NoHeader
    <3>1. unpacked - n + bufferPos = inner + HeadLen /\ p = bufferPos - HeadLen
      BY <1>20, <2>1, <2>3
    <3> QED
      BY <1>4, <2>1, <3>1
  <2> QED
    BY <2>2, <2>3
<1>22. PICK m : m = n - p
  OBVIOUS
<1>23. m \in Nat /\ m <= unpacked /\ m + p = n /\ unpacked - m = inner
  BY <1>6, <1>22
<1>7. Len(buffer') = m /\ buffer' = [k \in 1 .. m |-> unpacked - m + k - 1]
  <2>1. buffer = [k \in 1 .. n |-> unpacked - n + k - 1]
    BY <1>5, <1>21
  <2>2. \A k \in 1 .. n : unpacked - n + k - 1 \in Int
    BY <1>6
  <2>3. buffer \in Seq(Int) /\ Len(buffer) = n
    BY <1>6, <2>1, <2>2
  <2>4. /\ buffer' \in Seq(Int) /\ Len(buffer') = m
        /\ \A k \in 1 .. m : buffer'[k] = buffer[p + k]
    BY <1>3, <1>6, <1>21, <1>23, <2>3
  <2>5. ASSUME NEW k \in 1 .. m
        PROVE  buffer'[k] = unpacked - m + k - 1
    <3>1. p + k \in 1 .. n
      BY <1>6, <1>23
    <3>2. buffer[p + k] = unpacked - n + (p + k) - 1
      BY <2>1, <3>1
    <3> QED
      BY <1>6, <1>23, <2>4, <3>2
  <2>6. buffer' = [k \in 1 .. m |-> buffer'[k]]
    BY <2>4
  <2>7. buffer' = [k \in 1 .. m |-> unpacked - m + k - 1]
    BY <2>5, <2>6, Zenon
  <2> QED
    BY <2>4, <2>7
<1>8. InnerAt(length, inner, unpacked)'
  <2>1. m \in 0 .. unpacked /\ unpacked - m <= inner /\ unpacked - m + 0 = inner
    BY <1>6, <1>23
  <2>2. /\ Len(buffer') \in 0 .. unpacked /\ unpacked - Len(buffer') <= inner
        /\ unpacked - Len(buffer') + 0 = inner
    BY <1>7, <2>1
  <2>3. buffer' = [k \in 1 .. Len(buffer') |-> unpacked - Len(buffer') + k - 1]
    BY <1>7, Zenon
  <2>4. /\ bufferPos' \in 0 .. IF inside' THEN Len(buffer') ELSE 0
        /\ unpacked - Len(buffer') + bufferPos' =
             IF inside' /\ eventHeader' # NoHeader THEN inner + HeadLen ELSE inner
    <3>1. bufferPos' \in 0 .. 0
      BY <1>3
    <3>2. unpacked - Len(buffer') + bufferPos' = inner
      BY <1>3, <2>2, Zenon
    <3> QED
      BY <1>3, <3>1, <3>2, Zenon
  <2>5. /\ inside' \in BOOLEAN /\ unpacked <= length
        /\ Begins(input.inner, inner, length)' /\ ~inside'
    BY <1>3, <1>5 DEF Begins
  <2> QED
    BY <2>2, <2>3, <2>4, <2>5 DEF InnerAt
<1>9. OuterAt(end, at)'
  BY <1>2, <1>3 DEF OuterAt
<1>10. NotComplete(inner, unpacked)
  <2> SUFFICES ASSUME NEW r \in input.inner, r.at >= inner
               PROVE  RecordEnd(r) > unpacked
    BY DEF NotComplete
  <2>1. /\ r.at \in Nat /\ RecordEnd(r) \in Nat /\ r.size \in Nat
        /\ RecordEnd(r) >= r.at + HeadLen + r.size
    BY RecordTyped DEF Stepping
  <2>2. CASE eventHeader = NoHeader
    <3>1. n - bufferPos < HeadLen /\ p = bufferPos
      BY <1>3, <1>20, <1>21, <2>2 DEF Incomplete, Available
    <3> QED
      BY <1>4, <1>6, <2>1, <3>1
  <2>3. CASE eventHeader # NoHeader
    <3> PICK x : x = eventHeader
      OBVIOUS
    <3>1. x \in input.inner /\ x.at = inner
      BY <1>5, <2>3
    <3>2. n - bufferPos < x.size /\ p = bufferPos - HeadLen
      BY <1>3, <1>20, <1>21, <2>3 DEF Incomplete, Available
    <3>3. /\ RecordEnd(x) \in Nat /\ x.size \in Nat
          /\ RecordEnd(x) >= inner + HeadLen + x.size
      BY <3>1, RecordTyped DEF Stepping
    <3>4. RecordEnd(r) >= RecordEnd(x)
      BY <1>2, <3>1, BeforeEnd DEF Recording, Stepping
    <3> QED
      BY <1>4, <1>6, <2>1, <3>2, <3>3, <3>4
  <2> QED
    BY <2>2, <2>3
<1>11. Deliveries(Passed(at, inner))'
  BY <1>2, <1>3, DeliveriesKept, RecordingKept
<1>12. Reader'
  BY <1>2, <1>3, <1>8, <1>9, <1>10, <1>11, ReaderNext
<1> QED
  BY <1>3, <1>12, GoesOn DEF Stepped, Stepping, ReadFrame, IsPipe

\* The record whose content is read.
LEMMA ProcessedRecord ==
  ASSUME Stepping, NEW end \in Nat, NEW length \in Nat, NEW at \in Nat, NEW inner \in Nat,
         NEW unpacked \in Nat, ReaderAt(end, length, at, inner, unpacked),
         NEW type \in {"event", "garbage", "skipped", "tracing", "compressed"},
         Processing(type)
  PROVE  /\ eventHeader # NoHeader /\ Available >= eventHeader.size
         /\ eventHeader.type = type /\ eventHeader.size \in Nat
         /\ inside => type \in {"event", "skipped"} /\ eventHeader \in input.inner
         /\ ~inside => /\ type # "garbage" /\ eventHeader \in input.records
                       /\ eventHeader.at = at
                       /\ pos = at + HeadLen + (IF tracingSize # 0 THEN eventHeader.size ELSE 0)
                       /\ RecordEnd(eventHeader) \in Nat
                       /\ tracingSize # 0 => type = "tracing" /\ tracingSize = eventHeader.extra
                       /\ type # "tracing" => /\ tracingSize = 0
                                              /\ RecordEnd(eventHeader) = pos + eventHeader.size
<1>1. /\ Recording(end, length) /\ OuterAt(end, at) /\ InnerAt(length, inner, unpacked)
  BY DEF ReaderAt
<1>2. PICK r : r = eventHeader
  OBVIOUS
<1>3. r # NoHeader /\ r.type = type
  BY <1>2 DEF Processing, NoHeader
<1>4. IF inside THEN r \in input.inner
      ELSE /\ r \in input.records /\ r.at = at
           /\ pos = at + HeadLen + (IF tracingSize # 0 THEN r.size ELSE 0)
           /\ tracingSize # 0 => type = "tracing" /\ tracingSize = r.extra
  BY <1>1, <1>2, <1>3 DEF OuterAt, InnerAt
<1>5. r \in input.records \cup input.inner
  BY <1>4
<1>6. /\ r.size \in Nat /\ RecordEnd(r) \in Nat /\ r.type # "garbage"
      /\ r.type # "tracing" => RecordEnd(r) = r.at + HeadLen + r.size
  BY <1>5, RecordTyped DEF Stepping
<1>7. HeadLen \in Nat
  BY <1>1, InputTyped DEF Stepping
<1>8. Available >= r.size
  <2>1. Available \in Int
    <3>1. Len(buffer) \in Int /\ bufferPos \in Int
      BY <1>1 DEF InnerAt
    <3> QED
      BY <3>1 DEF Available, Stepping
  <2> QED
    BY <1>2, <1>3, <1>6, <2>1 DEF Processing, Incomplete
<1>9. inside => type \in {"event", "skipped"}
  BY <1>1, <1>3, <1>4, InputTyped DEF Stepping
<1> QED
  BY <1>2, <1>3, <1>4, <1>6, <1>7, <1>8, <1>9

\* The content of an event is read.
LEMMA ContentSteps ==
  ASSUME Stepping, ReadFrame, ExitOnSignal, Reader,
         NEW type \in {"event", "garbage", "skipped"}, Processing(type),
         NEW unread,
         unread = IF random \/ inside \/ type = "skipped" THEN 0 ELSE eventHeader.unread,
         Read(eventHeader.size - unread), Done, Given(eventHeader)
  PROVE  Stepped'
<1>1. PICK end, length, at, inner, unpacked \in Nat :
             ReaderAt(end, length, at, inner, unpacked)
  BY DEF Reader
<1>2. PICK r : r = eventHeader
  OBVIOUS
<1>3. /\ r # NoHeader /\ Available >= r.size /\ r.type = type /\ r.size \in Nat
      /\ inside => r \in input.inner
      /\ ~inside => /\ r \in input.records /\ tracingSize = 0
                    /\ RecordEnd(r) = pos + r.size
  BY <1>1, <1>2, ProcessedRecord
<1>4. /\ eventHeader' = NoHeader
      /\ UNCHANGED <<tracingSize, buffer, inside, reading, signal>>
  BY DEF Done
<1>5. Recording(end, length) /\ UNCHANGED <<input, headerSize>>
  BY <1>1 DEF ReaderAt, ReadFrame
<1>6. unread = 0
  BY <1>2, <1>3, <1>5, InputTyped DEF Stepping
<1>7. r.size - unread = r.size
  BY <1>3, <1>6
<1>8. Reader' /\ pos' \in Nat /\ (IsPipe => pos <= arrived)'
  <2>1. CASE inside
    <3>1. bufferPos' = bufferPos + r.size /\ pos' = pos
      BY <1>2, <1>7, <2>1 DEF Read
    <3>2. bufferPos + r.size <= Len(buffer)
      <4>1. PICK n, b \in Int : n = Len(buffer) /\ b = bufferPos
        <5>1. Len(buffer) \in Int /\ bufferPos \in Int
          BY <1>1 DEF ReaderAt, InnerAt
        <5> QED
          BY <5>1
      <4>2. n - b >= r.size
        BY <1>3, <2>1, <4>1 DEF Available
      <4>3. b + r.size <= n
        BY <1>3, <4>2
      <4> QED
        BY <4>1, <4>3
    <3>3. Reader'
      BY <1>1, <1>2, <1>3, <1>4, <1>5, <2>1, <3>1, <3>2, PassInner DEF Stepping
    <3> QED
      BY <3>1, <3>3 DEF Stepping, ReadFrame, IsPipe
  <2>2. CASE ~inside
    <3>1. pos' = pos + r.size /\ bufferPos' = bufferPos
      BY <1>2, <1>7, <2>2 DEF Read
    <3>2. Reader'
      BY <1>1, <1>2, <1>3, <1>4, <1>5, <2>2, <3>1, PassOuter DEF Stepping
    <3>3. IsPipe => pos + r.size <= arrived
      BY <1>3, <2>2 DEF Available, Stepping
    <3> QED
      BY <1>3, <3>1, <3>2, <3>3 DEF Stepping, ReadFrame, IsPipe
  <2> QED
    BY <2>1, <2>2
<1> QED
  BY <1>4, <1>8, GoesOn DEF Stepped

\* An event is delivered; no header is read where no record begins.
LEMMA ProcessEventSteps ==
  ASSUME Stepping, ReadFrame, ExitOnSignal, Reader, ProcessEvent
  PROVE  Stepped'
<1>1. PICK unread : unread = IF random \/ inside THEN 0 ELSE eventHeader.unread
  OBVIOUS
<1>2. Deliver(eventHeader) /\ Read(eventHeader.size - unread) /\ Done
  BY <1>1 DEF ProcessEvent
<1>3. CASE Processing("event")
  <2>1. eventHeader.type = "event"
    BY <1>3 DEF Processing
  <2> QED
    BY <1>1, <1>2, <1>3, <2>1, ContentSteps DEF Given
<1>4. CASE Processing("garbage")
  <2>1. PICK end, length, at, inner, unpacked \in Nat :
               ReaderAt(end, length, at, inner, unpacked)
    BY DEF Reader
  <2>2. FALSE
    BY <1>4, <2>1, ProcessedRecord
  <2> QED
    BY <2>2
<1> QED
  BY <1>3, <1>4 DEF ProcessEvent

\* Others are skipped.
LEMMA SkipEventSteps ==
  ASSUME Stepping, ReadFrame, ExitOnSignal, Reader, SkipEvent
  PROVE  Stepped'
<1>1. Processing("skipped") /\ Read(eventHeader.size) /\ Done /\ UNCHANGED delivered
  BY DEF SkipEvent
<1>2. PICK end, length, at, inner, unpacked \in Nat :
             ReaderAt(end, length, at, inner, unpacked)
  BY DEF Reader
<1>3. eventHeader.type = "skipped" /\ eventHeader.size \in Nat
  BY <1>1, <1>2, ProcessedRecord
<1>4. eventHeader.size - 0 = eventHeader.size
  BY <1>3
<1>5. Read(eventHeader.size - 0)
  BY <1>1, <1>4, Zenon
<1> QED
  BY <1>1, <1>3, <1>5, ContentSteps DEF Given

\* Tracing data is read when all of it is there, or its size only.
LEMMA ProcessTracingDataSteps ==
  ASSUME Stepping, ReadFrame, ExitOnSignal, Reader, ProcessTracingData
  PROVE  Stepped'
<1>1. PICK end, length, at, inner, unpacked \in Nat :
             ReaderAt(end, length, at, inner, unpacked)
  BY DEF Reader
<1>2. PICK r : r = eventHeader
  OBVIOUS
<1>3. Processing("tracing")
  BY DEF ProcessTracingData
<1>4. /\ r # NoHeader /\ Available >= r.size /\ r.type = "tracing" /\ r.size \in Nat
      /\ ~inside /\ r \in input.records /\ r.at = at
      /\ pos = at + HeadLen + (IF tracingSize # 0 THEN r.size ELSE 0)
      /\ tracingSize # 0 => tracingSize = r.extra
  BY <1>1, <1>2, <1>3, ProcessedRecord
<1>5. Recording(end, length) /\ UNCHANGED <<input, headerSize>>
  BY <1>1 DEF ReaderAt, ReadFrame
<1>6. HeadLen \in Nat /\ r.extra \in Nat /\ r.extra >= r.size
  BY <1>4, <1>5, InputTyped, RecordTyped DEF Stepping
<1>7. PICK data : data = IF tracingSize = 0 THEN pos + r.size ELSE pos
  OBVIOUS
<1>8. data = at + HeadLen + r.size /\ data \in Nat /\ data + r.extra = RecordEnd(r)
  BY <1>4, <1>6, <1>7 DEF RecordEnd
<1>9. UNCHANGED <<buffer, bufferPos, inside>>
  BY DEF ProcessTracingData
<1>10. IsPipe => data <= arrived
  BY <1>4, <1>7 DEF Available, Stepping
<1>11. CASE RecordEnd(r) <= arrived
  <2>1. /\ Deliver(r) /\ pos' = RecordEnd(r) /\ tracingSize' = 0 /\ eventHeader' = NoHeader
        /\ UNCHANGED <<reading, signal>>
    BY <1>2, <1>7, <1>8, <1>11 DEF ProcessTracingData
  <2>2. Reader'
    BY <1>1, <1>2, <1>4, <1>5, <1>9, <2>1, PassOuter DEF Stepping, Given
  <2> QED
    BY <1>6, <1>8, <1>11, <2>1, <2>2, GoesOn DEF Stepped, Stepping, ReadFrame
<1>12. CASE ~(RecordEnd(r) <= arrived)
  <2>1. /\ pos' = data /\ tracingSize' = r.extra /\ eventHeader' = r
        /\ UNCHANGED delivered /\ Rerun
    BY <1>2, <1>7, <1>8, <1>12 DEF ProcessTracingData
  <2>2. OuterAt(end, at)'
    <3>1. r.extra = 0 => r.size = 0
      BY <1>4, <1>6
    <3>2. data = at + HeadLen + (IF r.extra # 0 THEN r.size ELSE 0)
      BY <1>4, <1>6, <1>8, <3>1
    <3> QED
      BY <1>1, <1>2, <1>4, <1>5, <1>9, <2>1, <3>2 DEF ReaderAt, OuterAt
  <2>3. InnerAt(length, inner, unpacked)'
    BY <1>1, <1>2, <1>4, <1>5, <1>9, <2>1 DEF ReaderAt, InnerAt
  <2>4. Deliveries(Passed(at, inner))'
    BY <1>1, <1>5, <2>1, DeliveriesKept, RecordingKept DEF ReaderAt
  <2>5. Reader'
    BY <1>1, <1>4, <1>5, <1>9, <2>2, <2>3, <2>4, ReaderNext DEF ReaderAt, Unpacking
  <2>6. arrived < RecordEnd(r)
    BY <1>6, <1>8, <1>12 DEF Stepping
  <2>7. Waiting'
    <3>1. RecordEnd(r)' = RecordEnd(r)
      BY DEF RecordEnd
    <3> QED
      BY <1>4, <1>9, <2>1, <2>6, <3>1 DEF Waiting, ReadFrame, RecordEnd
  <2> QED
    BY <1>4, <1>8, <1>10, <2>1, <2>5, <2>7, RerunStops
    DEF Stepped, Stepping, ReadFrame, IsPipe
<1> QED
  BY <1>11, <1>12

\* A part of the compressed stream is decompressed.
LEMMA ProcessCompressedSteps ==
  ASSUME Stepping, ReadFrame, ExitOnSignal, Reader, ProcessCompressed
  PROVE  Stepped'
<1>1. PICK end, length, at, inner, unpacked \in Nat :
             ReaderAt(end, length, at, inner, unpacked)
  BY DEF Reader
<1>2. PICK r : r = eventHeader
  OBVIOUS
<1>3. Processing("compressed")
  BY DEF ProcessCompressed
<1>4. /\ r # NoHeader /\ Available >= r.size /\ r.type = "compressed" /\ r.size \in Nat
      /\ ~inside /\ r \in input.records /\ r.at = at /\ tracingSize = 0
      /\ RecordEnd(r) \in Nat /\ RecordEnd(r) = pos + r.size
  BY <1>1, <1>2, <1>3, ProcessedRecord
<1>5. /\ Recording(end, length) /\ UNCHANGED <<input, headerSize>>
      /\ InnerAt(length, inner, unpacked) /\ OuterAt(end, at)
      /\ UnpackedUpTo(at) = 0 .. unpacked - 1 /\ NotComplete(inner, unpacked)
      /\ Deliveries(Passed(at, inner))
  BY <1>1, <1>4 DEF ReaderAt, Unpacking, ReadFrame
<1>6. UNCHANGED <<tracingSize, delivered>>
  BY DEF ProcessCompressed
<1>7. CASE ~compressed
  <2>1. Emit("error") /\ UNCHANGED <<pos, eventHeader, buffer, bufferPos, inside>>
    BY <1>7 DEF ProcessCompressed
  <2>2. Reader'
    BY <1>5, <1>6, <2>1, ReaderKept DEF recordVars
  <2> QED
    BY <2>1, <2>2, Fails DEF Stepped, Stepping, ReadFrame, IsPipe
<1>8. CASE compressed
  <2>1. /\ buffer' = buffer \o r.slice /\ inside' = TRUE /\ eventHeader' = NoHeader
        /\ Read(r.size) /\ UNCHANGED <<reading, signal>>
    BY <1>2, <1>8 DEF ProcessCompressed
  <2>2. pos' = pos + r.size /\ UNCHANGED bufferPos
    BY <1>4, <2>1 DEF Read
  <2>3. PICK next : next = RecordEnd(r)
    OBVIOUS
  <2>4. PICK m : m = Len(r.slice)
    OBVIOUS
  <2>5. /\ m \in Nat /\ r.slice = [k \in 1 .. m |-> unpacked + k - 1]
        /\ UnpackedUpTo(next) = 0 .. unpacked + m - 1
        /\ unpacked + m <= length \/ m = 0
    <3>1. input \in Inputs /\ end \in Nat /\ length \in Nat /\ unpacked \in Nat
      BY DEF Stepping
    <3>2. Unpacks(r, unpacked, length)
      BY ONLY <1>4, <1>5, <3>1, NextSlice, Zenon
    <3> QED
      BY ONLY <2>3, <2>4, <3>2, Zenon DEF Unpacks
  <2>6. PICK n : n = Len(buffer)
    OBVIOUS
  <2>7. /\ n \in Nat /\ n <= unpacked /\ unpacked <= length
        /\ unpacked - n <= inner /\ unpacked - n + 0 = inner /\ bufferPos = 0
        /\ buffer = [k \in 1 .. n |-> unpacked - n + k - 1]
        /\ Begins(input.inner, inner, length)
    <3>1. /\ Len(buffer) \in 0 .. unpacked /\ unpacked <= length
          /\ bufferPos \in 0 .. 0
          /\ unpacked - Len(buffer) <= inner /\ unpacked - Len(buffer) + bufferPos = inner
          /\ buffer = [k \in 1 .. Len(buffer) |-> unpacked - Len(buffer) + k - 1]
          /\ Begins(input.inner, inner, length)
      BY <1>4, <1>5 DEF InnerAt
    <3>2. bufferPos = 0
      BY <3>1
    <3> QED
      BY <2>6, <3>1, <3>2
  <2>8. PICK u, l : u = unpacked + m /\ l = n + m
    OBVIOUS
  <2>9. /\ u \in Nat /\ l \in Nat /\ l <= u /\ u <= length /\ u - l <= inner /\ u - l + 0 = inner
        /\ u - 1 = unpacked + m - 1 /\ u - l = unpacked - n
    BY <2>5, <2>7, <2>8
  <2>10. Len(buffer') = l /\ buffer' = [k \in 1 .. l |-> u - l + k - 1]
    <3>1. \A k \in 1 .. n : unpacked - n + k - 1 \in Int
      BY <2>7
    <3>2. buffer \in Seq(Int) /\ Len(buffer) = n
      BY <2>6, <2>7, <3>1
    <3>3. \A k \in 1 .. m : unpacked + k - 1 \in Int
      BY <2>5
    <3>4. r.slice \in Seq(Int) /\ Len(r.slice) = m
      BY <2>4, <2>5, <3>3
    <3>5. /\ buffer' \in Seq(Int) /\ Len(buffer') = l
          /\ \A k \in 1 .. l : buffer'[k] = IF k <= n THEN buffer[k] ELSE r.slice[k - n]
      BY <2>1, <2>5, <2>7, <2>8, <3>2, <3>4
    <3>6. ASSUME NEW k \in 1 .. l
          PROVE  buffer'[k] = u - l + k - 1
      <4>1. CASE k <= n
        <5>1. k \in 1 .. n
          BY <2>7, <4>1
        <5>2. buffer[k] = unpacked - n + k - 1
          BY <2>7, <5>1
        <5>3. unpacked - n + k - 1 = u - l + k - 1
          BY <2>7, <2>9
        <5> QED
          BY <3>5, <4>1, <5>2, <5>3
      <4>2. CASE ~(k <= n)
        <5>1. k - n \in 1 .. m
          BY <2>5, <2>7, <2>8, <4>2
        <5>2. r.slice[k - n] = unpacked + (k - n) - 1
          BY <2>5, <5>1
        <5>3. unpacked + (k - n) - 1 = u - l + k - 1
          BY <2>7, <2>9
        <5> QED
          BY <3>5, <4>2, <5>2, <5>3
      <4> QED
        BY <4>1, <4>2
    <3>7. buffer' = [k \in 1 .. l |-> buffer'[k]]
      BY <3>5
    <3>8. buffer' = [k \in 1 .. l |-> u - l + k - 1]
      BY <3>6, <3>7, Zenon
    <3> QED
      BY <3>5, <3>8
  <2>11. InnerAt(length, inner, u)'
    <3>1. /\ Len(buffer') \in 0 .. u /\ u - Len(buffer') <= inner
          /\ u - Len(buffer') + 0 = inner
      BY <2>9, <2>10
    <3>2. buffer' = [k \in 1 .. Len(buffer') |-> u - Len(buffer') + k - 1]
      BY <2>10, Zenon
    <3>3. bufferPos' = 0
      BY <2>2, <2>7
    <3>4. bufferPos' \in 0 .. Len(buffer')
      BY <2>9, <2>10, <3>3
    <3>5. u - Len(buffer') + bufferPos' = inner
      BY <3>1, <3>3, Zenon
    <3>6. inside' = TRUE /\ eventHeader' = NoHeader /\ u <= length
          /\ Begins(input.inner, inner, length)'
      BY <1>5, <2>1, <2>7, <2>9 DEF Begins
    <3> QED
      BY <3>1, <3>2, <3>4, <3>5, <3>6 DEF InnerAt
  <2>12. OuterAt(end, next)'
    <3>1. Begins(input.records, next, end)
      BY <1>4, <1>5, <2>3 DEF Recording, Contiguous
    <3>2. pos' = next /\ tracingSize' = 0
      BY <1>4, <1>6, <2>2, <2>3
    <3> QED
      BY <1>5, <2>1, <3>1, <3>2 DEF OuterAt
  <2>13. Current(r.at, inner, unpacked)
    BY <1>4, <1>5 DEF Current
  <2>14. Passed(next, inner) = Passed(at, inner)
    <3>1. Passed(next, inner) = Passed(at, inner) \cup {d \in Due : ~d.inside /\ d.record = r}
      BY <1>4, <1>5, <2>3, PassedOuter DEF Stepping
    <3> QED
      BY <1>4, <3>1, DueRecords
  <2>15. Deliveries(Passed(next, inner))'
    <3>1. Deliveries(Passed(at, inner))'
      BY <1>5, <1>6, DeliveriesKept, RecordingKept
    <3>2. Passed(next, inner)' = Passed(at, inner)'
      BY <1>5, <2>14, RecordingKept
    <3> QED
      BY <3>1, <3>2 DEF Deliveries
  <2>16. Reader'
    <3>1. UnpackedUpTo(next) = 0 .. u - 1
      BY <2>5, <2>8
    <3>2. next \in Nat
      BY <1>4, <2>3
    <3>3. \E q \in input.records, before \in Nat :
            /\ q.type = "compressed" /\ RecordEnd(q) = next
            /\ Current(q.at, inner, before)
      BY <1>4, <2>3, <2>13
    <3> QED
      BY <1>5, <2>1, <2>9, <2>11, <2>12, <2>15, <3>1, <3>2, <3>3, ReaderNext
  <2>17. pos' \in Nat /\ (IsPipe => pos <= arrived)'
    BY <1>4, <2>2 DEF Available, Stepping, ReadFrame, IsPipe
  <2> QED
    BY <2>1, <2>16, <2>17, GoesOn DEF Stepped
<1> QED
  BY <1>7, <1>8

\* Any step of doRead.
LEMMA ReaderSteps ==
  ASSUME Stepping, Reader, ReadStep
  PROVE  Stepped'
<1>1. ReadFrame /\ ExitOnSignal /\ doRead
  BY DEF ReadStep, ReadFrame
<1> QED
  BY <1>1, EndLoopSteps, ReadEventHeaderSteps, WaitForMoreSteps, KeepRestSteps,
     ProcessEventSteps, SkipEventSteps, ProcessTracingDataSteps, ProcessCompressedSteps
  DEF doRead

-----------------------------------------------------------------------------
(***************************************************************************)
(* The beginning                                                           *)
(***************************************************************************)
\* What is assumed of numbers.
LEMMA ProgramTyped ==
  /\ HeadLen \in Nat \ {0} /\ PipeHeader \in Nat \ {0}
  /\ FileHeader \in Nat /\ FileHeader > PipeHeader /\ BufferChunk \in Nat /\ Piece \in Nat
  /\ \A in \in Inputs : /\ in.headerSize \in Nat /\ in.size \in Nat
                        /\ in.dataAt \in Nat /\ in.dataEnd \in Nat
BY ProgramAssumption

\* A recording has an end, and so has what it has compressed.
LEMMA RecordingExists ==
  ASSUME input \in Inputs, HeaderKnown
  PROVE  \E end, length \in Nat : Recording(end, length)
<1>1. PICK length \in {0} \cup {RecordEnd(r) : r \in input.inner} :
             Contiguous(input.inner, 0, length) /\ Sliced(input.records, length)
  BY ProgramAssumption
<1>2. length \in Nat
  BY <1>1, RecordTyped
<1>3. CASE IsPipe
  <2>1. PICK end \in {input.size} \cup {RecordEnd(r) : r \in input.records} :
               end >= input.size /\ Contiguous(input.records, PipeHeader, end)
    BY <1>3, ProgramAssumption DEF HeaderKnown, IsPipe
  <2>2. end \in Nat
    BY <2>1, RecordTyped, ProgramTyped
  <2>3. Recording(end, length)
    BY <1>1, <1>2, <1>3, <2>1, <2>2 DEF Recording, HeaderKnown, IsPipe
  <2> QED
    BY <1>2, <2>2, <2>3
<1>4. CASE ~IsPipe
  <2>1. headerSize > PipeHeader
    BY <1>4, ProgramTyped DEF HeaderKnown, IsPipe
  <2>2. Contiguous(input.records, input.dataAt, input.dataEnd) /\ input.dataEnd \in Nat
    BY <2>1, ProgramAssumption DEF HeaderKnown
  <2>3. Recording(input.dataEnd, length)
    BY <1>1, <1>2, <1>4, <2>1, <2>2 DEF Recording, HeaderKnown
  <2> QED
    BY <1>2, <2>2, <2>3
<1> QED
  BY <1>3, <1>4

\* The reader begins where the records do.
LEMMA ReaderBegins ==
  ASSUME input \in Inputs, HeaderKnown, Fresh,
         UNCHANGED <<input, headerSize, recordVars, delivered>>,
         pos' = IF IsPipe THEN PipeHeader ELSE input.dataAt
  PROVE  Reader'
<1>1. PICK end, length \in Nat : Recording(end, length)
  BY RecordingExists
<1>2. PICK at : at = IF IsPipe THEN PipeHeader ELSE input.dataAt
  OBVIOUS
<1>3. at \in Nat /\ pos' = at
  BY <1>2, ProgramTyped
<1>4. Contiguous(input.records, at, end) /\ Contiguous(input.inner, 0, length)
  BY <1>1, <1>2 DEF Recording
<1>5. Passed(at, 0) = {} /\ UnpackedUpTo(at) = {}
  BY <1>3, <1>4, NothingPassed
<1>6. 0 .. 0 - 1 = {}
  OBVIOUS
<1>7. NotComplete(0, 0)
  BY RecordTyped, ProgramTyped DEF NotComplete
<1>8. OuterAt(end, at)'
  BY <1>3, <1>4 DEF OuterAt, Fresh, recordVars, Contiguous, Begins
<1>9. InnerAt(length, 0, 0)'
  <2>1. Begins(input.inner, 0, length)'
    BY <1>4 DEF Contiguous, Begins
  <2>2. /\ inside' = FALSE /\ eventHeader' = NoHeader /\ buffer' = <<>> /\ bufferPos' = 0
    BY DEF Fresh, recordVars
  <2>3. Len(buffer') = 0 /\ buffer' = [k \in 1 .. 0 |-> 0 - 0 + k - 1]
    BY <2>2
  <2>4. /\ Len(buffer') \in 0 .. 0 /\ 0 <= length
        /\ buffer' = [k \in 1 .. Len(buffer') |-> 0 - Len(buffer') + k - 1]
        /\ 0 - Len(buffer') <= 0 /\ 0 - Len(buffer') + bufferPos' = 0
        /\ bufferPos' \in 0 .. 0
    <3>1. buffer' = [k \in 1 .. Len(buffer') |-> 0 - Len(buffer') + k - 1]
      BY <2>3, Zenon
    <3>2. 0 \in 0 .. 0 /\ 0 - 0 <= 0 /\ 0 - 0 + 0 = 0
      OBVIOUS
    <3>3. 0 <= length
      BY <1>1
    <3> QED
      BY <2>2, <2>3, <3>1, <3>2, <3>3, Zenon
  <2> QED
    BY <2>1, <2>2, <2>4 DEF InnerAt
<1>10. Deliveries(Passed(at, 0))'
  <2>1. Deliveries({})
    BY FirstDeliveries DEF Fresh
  <2>2. Deliveries({})'
    BY <2>1, DeliveriesKept
  <2>3. Passed(at, 0)' = {}
    BY <1>5, RecordingKept
  <2> QED
    BY <2>2, <2>3 DEF Deliveries
<1> QED
  BY <1>1, <1>3, <1>5, <1>6, <1>7, <1>8, <1>9, <1>10, ReaderNext DEF Fresh, recordVars

-----------------------------------------------------------------------------
(***************************************************************************)
(* The invariant                                                           *)
(***************************************************************************)
\* It holds in the beginning.
LEMMA ReaderInvInit ==
  ASSUME Init
  PROVE  ReaderInv
<1>1. Fresh
  BY DEF Init, DataInit, Fresh
<1>2. Places
  <2>1. random \in BOOLEAN /\ (random <=> device = "file")
    BY DEF Init
  <2>2. input.size \in Nat /\ arrived \in 0 .. input.size
    <3>1. input.size \in Nat
      BY ProgramTyped DEF Init
    <3>2. arrived = 0 \/ arrived = input.size
      BY DEF Init
    <3> QED
      BY <3>1, <3>2
  <2>3. /\ input \in Inputs /\ headerSize = 0 /\ pos = 0 /\ closed = FALSE
        /\ phase \in {"connecting", "header"} /\ reading = "nobody"
        /\ slot # "aboutToClose"
    BY DEF Init, DataInit
  <2> QED
    BY <2>1, <2>2, <2>3 DEF Places
<1> QED
  BY <1>1, <1>2 DEF Init, DataInit, ReaderInv

\* Steps of the device and of the header do not touch the reader.
LEMMA ReaderStays ==
  ASSUME UNCHANGED <<input, headerSize, pos, dataVars>>
  PROVE  /\ Reader => Reader'
         /\ Fresh /\ exitCode' # "NoError" => Fresh'
<1>1. Reader => Reader'
  BY ReaderKept DEF dataVars
<1>2. Fresh /\ exitCode' # "NoError" => Fresh'
  BY DEF Fresh, dataVars, recordVars
<1> QED
  BY <1>1, <1>2

Device ==
  \/ Attempt \/ ConnectionBreaks \/ Close
  \/ \E n \in 1..Piece, last \in BOOLEAN : Receive(n, last) \/ Fill(n, last)

\* What the device does never completes a record while the reader waits unnoticed:
\* there is a signal to be handled then.
LEMMA DeviceSteps ==
  ASSUME ReaderInv, Device
  PROVE  ReaderInv'
<1>1. EnvUnchanged
  BY DEF Device, Attempt, Connected, ConnectionFails, ConnectionBreaks, Close, Receive, Fill
<1>2. Places'
  <2>1. CASE Attempt
    BY <2>1, ProgramTyped
    DEF ReaderInv, Attempt, Connected, ConnectionFails, EnvUnchanged, dataVars, Places,
        HeaderKnown, IsPipe, Running, Idle
  <2>2. CASE ConnectionBreaks \/ Close
    BY <2>2, ProgramTyped
    DEF ReaderInv, ConnectionBreaks, Close, EnvUnchanged, dataVars, Places,
        HeaderKnown, IsPipe, Running, Idle
  <2>3. ASSUME NEW n \in 1..Piece, NEW last \in BOOLEAN, Receive(n, last) \/ Fill(n, last)
        PROVE  Places'
    BY <2>3, ProgramTyped
    DEF ReaderInv, Receive, Fill, Arrives, EnvUnchanged, dataVars, Places,
        HeaderKnown, IsPipe, Running, Idle
  <2> QED
    BY <2>1, <2>2, <2>3 DEF Device
<1>3. /\ exitCode' # "NoError" /\ (exitCode # "none" => exitCode' # "none")
      /\ phase' = "data" <=> phase = "data"
      /\ phase' = "data" /\ Running' => FALSE
  BY DEF ReaderInv, Places, Device, Attempt, Connected, ConnectionFails, ConnectionBreaks, Close,
         Receive, Fill, EnvUnchanged, dataVars, Running, Idle, exit
<1>4. /\ Reader => Reader'
      /\ Fresh => Fresh'
      /\ UNCHANGED <<random, reading, signal>>
  BY <1>1, <1>3, ReaderStays DEF EnvUnchanged, dataVars
<1> QED
  BY <1>2, <1>3, <1>4 DEF ReaderInv

Header ==
  \/ ReadMagic \/ HeaderFails \/ WaitForHeader \/ PipeHeaderDone \/ FileHeaderDone
  \/ HeaderCloses \/ Buffer \/ EndBuffering \/ readFileHeader

\* The reader is not touched before the header is read.
LEMMA HeaderSteps ==
  ASSUME ReaderInv, Header
  PROVE  ReaderInv'
<1>1. /\ phase # "data" /\ phase' # "data" /\ Fresh
      /\ exitCode' # "NoError" /\ (exitCode # "none" => exitCode' # "none")
      /\ UNCHANGED <<recordVars, reading, signal, delivered>>
  BY DEF ReaderInv, Header, ReadMagic, HeaderFails, WaitForHeader, PipeHeaderDone, FileHeaderDone,
         HeaderCloses, Buffer, EndBuffering, readFileHeader, HeaderUnchanged, dataVars,
         InHeader, exit
<1>2. Fresh'
  BY <1>1 DEF Fresh, recordVars
<1>3. Places'
  <2>1. CASE ReadMagic
    BY <1>1, <2>1, ProgramTyped
    DEF ReaderInv, Places, ReadMagic, Available, InHeader, HeaderUnchanged, dataVars, Fresh,
        HeaderKnown, IsPipe
  <2>2. CASE HeaderFails \/ WaitForHeader \/ HeaderCloses
    BY <1>1, <2>2, ProgramTyped
    DEF ReaderInv, Places, HeaderFails, WaitForHeader, HeaderCloses, InHeader, HeaderUnchanged,
        dataVars, Fresh, HeaderKnown, IsPipe
  <2>3. CASE PipeHeaderDone
    BY <1>1, <2>3, ProgramTyped
    DEF ReaderInv, Places, PipeHeaderDone, InHeader, HeaderUnchanged, dataVars, Fresh,
        HeaderKnown, IsPipe
  <2>4. CASE FileHeaderDone
    BY <1>1, <2>4, ProgramTyped
    DEF ReaderInv, Places, FileHeaderDone, Available, InHeader, HeaderUnchanged, dataVars, Fresh,
        HeaderKnown, IsPipe
  <2>5. CASE Buffer
    BY <1>1, <2>5, ProgramTyped
    DEF ReaderInv, Places, Buffer, HeaderUnchanged, dataVars, Fresh, HeaderKnown, IsPipe
  <2>6. CASE EndBuffering
    BY <1>1, <2>6, ProgramTyped
    DEF ReaderInv, Places, EndBuffering, dataVars, Fresh, HeaderKnown, IsPipe
  <2>7. CASE readFileHeader
    BY <1>1, <2>7, ProgramTyped
    DEF ReaderInv, Places, readFileHeader, Fresh, HeaderKnown, IsPipe
  <2> QED
    BY <2>1, <2>2, <2>3, <2>4, <2>5, <2>6, <2>7 DEF Header
<1> QED
  BY <1>1, <1>2, <1>3 DEF ReaderInv, Fresh

\* The reader begins where the header says.
LEMMA readDataSteps ==
  ASSUME ReaderInv, readData
  PROVE  ReaderInv'
<1>1. /\ phase = "start" /\ phase' = "data" /\ Fresh /\ Places /\ HeaderKnown
      /\ input \in Inputs /\ (IsPipe \/ random) /\ (IsPipe => pos = PipeHeader)
      /\ slot = "none" /\ reading = "nobody" /\ exitCode # "NoError"
      /\ UNCHANGED <<input, random, arrived, compressed, recordVars, delivered, device,
                     closed, atEnd, headerSize, slot>>
  BY DEF ReaderInv, Places, readData, ReaderUnchanged, Fresh
<1>2. \/ /\ ~input.arch /\ exitCode' = "MissingData" /\ UNCHANGED <<pos, reading, signal>>
      \/ /\ Available > 0 /\ BeginReadData("read") /\ ExitOnSignal
      \/ /\ ~(Available > 0) /\ UNCHANGED <<pos, reading, signal, exitCode>>
  BY DEF readData, exit
<1>3. /\ pos' \in Nat /\ (IsPipe => pos' = PipeHeader) /\ (IsPipe => pos = PipeHeader)
  BY <1>1, <1>2, ProgramTyped DEF BeginReadData, BeginRead, Emit, Places
<1>4. IsPipe => Reader'
  BY <1>1, <1>3, ReaderBegins
<1>5. reading' # "nobody" => Reader' /\ exitCode' # "NoError"
  <2>1. ASSUME reading' # "nobody"
        PROVE  /\ pos' = IF IsPipe THEN PipeHeader ELSE input.dataAt
               /\ exitCode' # "NoError"
    BY <1>1, <1>2, <2>1 DEF BeginReadData, BeginRead, Emit, ExitOnSignal
  <2> QED
    BY <1>1, <2>1, ReaderBegins
<1>6. exitCode' # "NoError"
  BY <1>1, <1>2 DEF BeginReadData, BeginRead, Emit, ExitOnSignal, exit
<1>7. (signal # "none" => exitCode # "none")'
  BY <1>1, <1>2 DEF ReaderInv, BeginReadData, BeginRead, Emit, ExitOnSignal, exit
<1>8. reading' = "nobody" /\ random => Fresh'
  BY <1>1, <1>6 DEF Fresh, recordVars
<1>9. Running' /\ ~random' => Waiting'
  <2> SUFFICES ASSUME Running', ~random'
               PROVE  Waiting'
    OBVIOUS
  <2>1. reading' = "nobody" /\ exitCode' = "none"
    BY DEF Running, Idle
  <2>2. ~(Available > 0) /\ UNCHANGED pos
    BY <1>1, <1>2, <2>1 DEF BeginReadData, BeginRead
  <2>3. ~inside /\ eventHeader = NoHeader /\ arrived <= pos
    BY <1>1, <2>2 DEF Available, Places, Fresh
  <2> QED
    BY <1>1, <1>3, <2>2, <2>3, ProgramTyped DEF Waiting, recordVars, Places
<1>10. Places'
  BY <1>1, <1>3, ProgramTyped DEF Places, HeaderKnown, IsPipe
<1> QED
  BY <1>1, <1>4, <1>5, <1>6, <1>7, <1>8, <1>9, <1>10 DEF ReaderInv

\* It goes on where it was.
LEMMA ReadSlotSteps ==
  ASSUME ReaderInv, ReadSlot
  PROVE  ReaderInv'
<1>1. /\ phase = "data" /\ phase' = "data" /\ ~random /\ slot' = "none" /\ Reader
      /\ reading = "nobody" /\ exitCode # "NoError"
      /\ UNCHANGED <<input, random, arrived, recordVars, delivered, device, closed, atEnd,
                     headerSize>>
  BY DEF ReaderInv, Places, ReadSlot, ReaderUnchanged
<1>2. reading' # "nobody" /\ UNCHANGED <<pos, signal, exitCode>>
  BY <1>1 DEF ReadSlot, BeginReadData, BeginRead, ExitOnSignal
<1>3. Reader'
  BY <1>1, <1>2, ReaderKept
<1>4. Places'
  BY <1>1, <1>2 DEF ReaderInv, Places, HeaderKnown, IsPipe
<1> QED
  BY <1>1, <1>2, <1>3, <1>4 DEF ReaderInv, Running, Idle

\* It moves over the recording.
LEMMA ReadStepSteps ==
  ASSUME ReaderInv, ReadStep
  PROVE  ReaderInv'
<1>1. reading # "nobody"
  BY DEF ReadStep, doRead, EndLoop, ReadEventHeader, WaitForMore, KeepRest, KeepRestFrom,
         ProcessEvent, SkipEvent, ProcessTracingData, ProcessCompressed, Processing, InLoop
<1>2. phase = "data" /\ slot = "none" /\ Reader /\ Stepping
  BY <1>1 DEF ReaderInv, Places, Stepping
<1>3. Stepped'
  BY <1>2, ReaderSteps
<1>4. UNCHANGED <<input, random, arrived, device, slot, closed, atEnd, phase, headerSize>>
  BY DEF ReadStep
<1>5. Places'
  BY <1>2, <1>3, <1>4 DEF ReaderInv, Places, Stepped, HeaderKnown, IsPipe
<1> QED
  BY <1>2, <1>3, <1>4, <1>5 DEF ReaderInv, Stepped, Stops, Running, Idle

\* It always holds.
LEMMA ReaderInvInvariant ==
  Spec => []ReaderInv
<1>1. Init => ReaderInv
  BY ReaderInvInit
<1>2. ASSUME ReaderInv, [Next]_vars
      PROVE  ReaderInv'
  <2>1. CASE Next
    <3>1. Device \/ Header \/ readData \/ ReadSlot \/ ReadStep
      BY <2>1 DEF Next, Handlers, Device, Header
    <3> QED
      BY <1>2, <3>1, DeviceSteps, HeaderSteps, readDataSteps, ReadSlotSteps, ReadStepSteps
  <2>2. CASE UNCHANGED vars
    <3>1. /\ UNCHANGED <<input, random, arrived, pos, phase, device, slot, closed, atEnd,
                         exitCode, headerSize, reading, signal, recordVars, delivered>>
      BY <2>2 DEF vars, dataVars, loopVars
    <3>2. (Reader => Reader') /\ (Fresh => Fresh')
      BY <3>1, ReaderKept DEF Fresh, recordVars
    <3>3. (Waiting => Waiting') /\ (Ended => Ended')
      BY <3>1 DEF Waiting, Ended, IsPipe, recordVars, RecordEnd
    <3>4. Places'
      BY <1>2, <3>1 DEF ReaderInv, Places, HeaderKnown, IsPipe
    <3>5. Running' <=> Running
      BY <3>1 DEF Running, Idle
    <3>6. /\ phase' = phase /\ random' = random /\ signal' = signal /\ exitCode' = exitCode
          /\ reading' = reading /\ slot' = slot
      BY <3>1
    <3>7. phase' = "data" => Reader' \/ (Fresh' /\ random')
      BY <1>2, <3>2, <3>6 DEF ReaderInv
    <3>8. phase' = "data" /\ Running' /\ ~random' => Waiting'
      BY <1>2, <3>3, <3>5, <3>6 DEF ReaderInv
    <3>9. /\ signal' # "none" => exitCode' # "none"
          /\ phase' # "data" => Fresh'
          /\ reading' # "nobody" => Reader'
          /\ exitCode' = "NoError" =>
               phase' = "data" /\ Reader' /\ Ended' /\ reading' = "nobody" /\ slot' = "none"
      BY <1>2, <3>2, <3>3, <3>6 DEF ReaderInv
    <3> QED
      BY <3>4, <3>7, <3>8, <3>9 DEF ReaderInv
  <2> QED
    BY <1>2, <2>1, <2>2
<1> QED
  BY <1>1, <1>2, PTL DEF Spec

-----------------------------------------------------------------------------
(***************************************************************************)
(* The theorems                                                            *)
(***************************************************************************)
\* What is complete before a place has been passed, if what is not passed is not
\* complete before it.
LEMMA CompleteIsDelivered ==
  ASSUME input \in Inputs,
         NEW end \in Nat, NEW length \in Nat, NEW at \in Nat, NEW inner \in Nat,
         NEW unpacked \in Nat, ReaderAt(end, length, at, inner, unpacked), ~inside,
         NEW limit \in Nat,
         \A r \in input.records : r.at >= at => RecordEnd(r) > limit,
         NEW d \in Due, DueAt(d) <= limit
  PROVE  Delivered(d)
<1>1. /\ Recording(end, length) /\ UnpackedUpTo(at) = 0 .. unpacked - 1
      /\ NotComplete(inner, unpacked) /\ \A c \in Passed(at, inner) : Delivered(c)
  BY DEF ReaderAt, Unpacking, Deliveries
<1>2. CASE ~d.inside
  <2>1. d.record \in input.records /\ DueAt(d) = RecordEnd(d.record)
    BY <1>2, DueKinds
  <2>2. d.record.at \in Nat /\ RecordEnd(d.record) \in Nat
    BY <2>1, RecordTyped
  <2>3. d.record.at < at
    BY <2>1, <2>2
  <2> QED
    BY <1>1, <1>2, <2>3 DEF Passed
<1>3. CASE d.inside
  <2>1. d.record \in input.inner /\ DueAt(d) = RecordEnd(Carrier(d.record))
    BY <1>3, DueKinds
  <2>2. /\ Carrier(d.record) \in input.records
        /\ Carrier(d.record).at < at => RecordEnd(d.record) - 1 \in UnpackedUpTo(at)
    BY <1>1, <2>1, CarrierBefore
  <2>3. Carrier(d.record).at \in Nat /\ RecordEnd(Carrier(d.record)) \in Nat
    BY <2>2, RecordTyped
  <2>4. d.record.at \in Nat /\ RecordEnd(d.record) \in Nat
    BY <2>1, RecordTyped
  <2>5. RecordEnd(d.record) <= unpacked
    BY <1>1, <2>1, <2>2, <2>3, <2>4
  <2>6. d.record.at < inner
    BY <1>1, <2>1, <2>4, <2>5 DEF NotComplete
  <2> QED
    BY <1>1, <1>3, <2>6 DEF Passed
<1> QED
  BY <1>2, <1>3

\* A reader that waits has delivered everything complete.
LEMMA WaitingIsComplete ==
  ASSUME input \in Inputs, arrived \in Nat, Reader, Waiting, NEW d \in Due, DueAt(d) <= arrived
  PROVE  Delivered(d)
<1>1. PICK end, length, at, inner, unpacked \in Nat :
             ReaderAt(end, length, at, inner, unpacked)
  BY DEF Reader
<1>2. Recording(end, length) /\ OuterAt(end, at) /\ ~inside
  BY <1>1 DEF ReaderAt, Waiting
<1>3. HeadLen \in Nat
  BY ProgramTyped
<1>4. ASSUME NEW r \in input.records, r.at >= at
      PROVE  RecordEnd(r) > arrived
  <2>1. r.at \in Nat /\ RecordEnd(r) \in Nat /\ r.size \in Nat
        /\ RecordEnd(r) >= r.at + HeadLen + r.size
    BY RecordTyped
  <2>2. CASE eventHeader = NoHeader
    BY <1>2, <1>3, <1>4, <2>1, <2>2 DEF OuterAt, Waiting
  <2>3. CASE eventHeader # NoHeader
    <3>1. PICK x : x = eventHeader
      OBVIOUS
    <3>2. x \in input.records /\ x.at = at /\ arrived < RecordEnd(x)
      BY <1>2, <2>3, <3>1 DEF OuterAt, Waiting
    <3>3. RecordEnd(r) >= RecordEnd(x) /\ RecordEnd(x) \in Nat
      BY <1>2, <1>4, <3>2, BeforeEnd, RecordTyped DEF Recording
    <3> QED
      BY <2>1, <3>2, <3>3
  <2> QED
    BY <2>2, <2>3
<1> QED
  BY <1>1, <1>2, <1>4, CompleteIsDelivered

\* It implies RecordsInOrder.
LEMMA ReaderInvInOrder ==
  ReaderInv => RecordsInOrder
<1>1. Fresh => RecordsInOrder
  BY DEF Fresh, RecordsInOrder
<1>2. Reader => RecordsInOrder
  BY DEF Reader, ReaderAt, Deliveries
<1> QED
  BY <1>1, <1>2 DEF ReaderInv

\* It implies NothingHeldBack.
LEMMA ReaderInvHoldsNothing ==
  ReaderInv => NothingHeldBack
<1> SUFFICES ASSUME ReaderInv, phase = "data", Running, ~random, NEW d \in Due, DueAt(d) <= arrived
             PROVE  Delivered(d)
  BY DEF NothingHeldBack
<1>1. Reader /\ Waiting /\ input \in Inputs /\ arrived \in 0 .. input.size
  BY DEF ReaderInv, Places
<1>2. arrived \in Nat
  BY <1>1, ProgramTyped
<1> QED
  BY <1>1, <1>2, WaitingIsComplete

\* It implies FinishedIsComplete.
LEMMA ReaderInvFinished ==
  ReaderInv => FinishedIsComplete
<1> SUFFICES ASSUME ReaderInv, exitCode = "NoError"
             PROVE  IF IsPipe
                    THEN /\ \A d \in Due : DueAt(d) <= arrived => Delivered(d)
                         /\ \A r \in input.records :
                              r.at + HeadLen <= arrived => RecordEnd(r) <= arrived
                    ELSE \A d \in Due : Delivered(d)
  BY DEF FinishedIsComplete
<1>1. /\ Reader /\ Ended /\ ~inside /\ eventHeader = NoHeader
      /\ input \in Inputs /\ arrived \in 0 .. input.size
      /\ IsPipe => pos <= arrived
  BY DEF ReaderInv, Places, Ended
<1>2. arrived \in Nat /\ HeadLen \in Nat
  BY <1>1, ProgramTyped
<1>3. PICK end, length, at, inner, unpacked \in Nat :
             ReaderAt(end, length, at, inner, unpacked)
  BY <1>1 DEF Reader
<1>4. Recording(end, length) /\ pos = at /\ Begins(input.records, at, end)
  BY <1>1, <1>3 DEF ReaderAt, OuterAt
<1>5. PICK from : Contiguous(input.records, from, end)
  BY <1>4 DEF Recording
<1>6. CASE IsPipe
  <2>1. arrived < at + HeadLen /\ at <= arrived
    BY <1>1, <1>4, <1>6 DEF Ended
  <2>2. \A d \in Due : DueAt(d) <= arrived => Delivered(d)
    <3>1. Waiting
      BY <1>1, <1>6 DEF Waiting, Ended
    <3> QED
      BY <1>1, <1>2, <3>1, WaitingIsComplete
  <2>3. ASSUME NEW r \in input.records, r.at + HeadLen <= arrived
        PROVE  RecordEnd(r) <= arrived
    <3>1. r.at \in Nat /\ RecordEnd(r) \in Nat
      BY <1>1, RecordTyped
    <3>2. r.at < at
      BY <1>2, <2>1, <2>3, <3>1
    <3>3. RecordEnd(r) <= at
      BY <1>1, <1>4, <1>5, <3>2, BeforeBoundary
    <3> QED
      BY <1>2, <2>1, <3>1, <3>3
  <2> QED
    BY <1>6, <2>2, <2>3
<1>7. CASE ~IsPipe
  <2>1. end = input.dataEnd /\ at >= end
    BY <1>1, <1>4, <1>7 DEF Ended, Recording
  <2>2. \A r \in input.records : RecordEnd(r) \in Nat /\ r.at \in Nat /\ r.at < RecordEnd(r)
    BY <1>1, RecordTyped
  <2>3. \A r \in input.records : RecordEnd(r) <= end
    BY <1>5 DEF Contiguous
  <2>4. \A r \in input.records : ~(r.at >= at)
    BY <2>1, <2>2, <2>3
  <2>5. ASSUME NEW d \in Due
        PROVE  DueAt(d) <= end
    <3>1. CASE ~d.inside
      BY <2>3, <3>1, DueKinds
    <3>2. CASE d.inside
      <4>1. d.record \in input.inner /\ DueAt(d) = RecordEnd(Carrier(d.record))
        BY <3>2, DueKinds
      <4>2. Carrier(d.record) \in input.records
        BY <1>1, <1>4, <4>1, CarrierBefore
      <4> QED
        BY <2>3, <4>1, <4>2
    <3> QED
      BY <3>1, <3>2
  <2>6. \A d \in Due : Delivered(d)
    BY <1>1, <1>3, <2>4, <2>5, CompleteIsDelivered
  <2> QED
    BY <1>7, <2>6
<1> QED
  BY <1>6, <1>7

\* RecordsInOrder: what is delivered is the recording from its beginning, each
\* record once (processEvents, perfdata.cpp:109-366).
THEOREM DeliversInOrder == Spec => []RecordsInOrder
BY ReaderInvInvariant, ReaderInvInOrder, PTL

\* NothingHeldBack: a reader that waits has delivered whatever is complete
\* (doRead, perfdata.cpp:375-389).
THEOREM HoldsNothingBack == Spec => []NothingHeldBack
BY ReaderInvInvariant, ReaderInvHoldsNothing, PTL

\* FinishedIsComplete: the program succeeds with everything delivered
\* (finishReading, perfdata.cpp:448-467).
THEOREM FinishesCompletely == Spec => []FinishedIsComplete
BY ReaderInvInvariant, ReaderInvFinished, PTL
=============================================================================
