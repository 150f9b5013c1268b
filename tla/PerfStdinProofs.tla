--------------------------- MODULE PerfStdinProofs ---------------------------
(***************************************************************************)
(* Proofs about PerfStdin, for buffers, inputs and reads of every size.    *)
(***************************************************************************)
EXTENDS PerfStdin, TLAPS

\* A buffer whose bytes end with number t - 1 of the stream.
IsBuffer(b) ==
  /\ b \in [bytes : [0 .. b.length - 1 -> Int], length : Int, pos : Int, used : Int]
  /\ b.length \in MinBufferSize .. MaxBufferSize
  /\ b.used \in 0 .. b.length /\ b.pos \in 0 .. b.used

EndsAt(b, t) == \A k \in b.pos .. b.used - 1 : b.bytes[k] = t - b.used + k

LEMMA BufferInts ==
  ASSUME NEW b, IsBuffer(b)
  PROVE  /\ b.length \in Int /\ b.used \in Int /\ b.pos \in Int
         /\ 0 <= b.pos /\ b.pos <= b.used /\ b.used <= b.length
         /\ MinBufferSize <= b.length /\ b.length <= MaxBufferSize
         /\ \A k \in b.pos .. b.used - 1 : b.bytes[k] \in Int
BY StdinAssumption DEF IsBuffer

-----------------------------------------------------------------------------
\* Resizing keeps what is buffered, if there is room for it.
LEMMA ResizeKeeps ==
  ASSUME NEW b, NEW t \in Int, NEW newSize \in MinBufferSize .. MaxBufferSize,
         IsBuffer(b), EndsAt(b, t), bufferedAvailable(b) <= newSize
  PROVE  LET r == resizeBuffer(b, newSize)
         IN  /\ IsBuffer(r) /\ EndsAt(r, t) /\ bufferedAvailable(r) = bufferedAvailable(b)
             /\ r.pos = 0 /\ r.length = newSize
<1> DEFINE r == resizeBuffer(b, newSize)
<1> USE StdinAssumption
<1>1. /\ r.pos = 0 /\ r.length = newSize /\ r.used = b.used - b.pos
      /\ r.used \in 0 .. newSize
  BY DEF resizeBuffer, bufferedAvailable, IsBuffer
<1>2. \A k \in 0 .. newSize - 1 :
         r.bytes[k] = IF k < b.used - b.pos THEN b.bytes[b.pos + k] ELSE Uninitialized
  BY DEF resizeBuffer, bufferedAvailable
<1>3. \A k \in 0 .. newSize - 1 : k < b.used - b.pos => b.bytes[b.pos + k] \in Int
  <2> TAKE k \in 0 .. newSize - 1
  <2> HAVE k < b.used - b.pos
  <2>1. b.pos + k \in b.pos .. b.used - 1
    BY BufferInts
  <2> QED
    BY <2>1, BufferInts DEF EndsAt
<1>4. r \in [bytes : [0 .. r.length - 1 -> Int], length : Int, pos : Int, used : Int]
  BY <1>1, <1>3 DEF resizeBuffer, bufferedAvailable, Uninitialized, IsBuffer
<1>5. EndsAt(r, t)
  <2> SUFFICES ASSUME NEW k \in 0 .. r.used - 1 PROVE r.bytes[k] = t - r.used + k
    BY <1>1 DEF EndsAt
  <2>1. k \in 0 .. newSize - 1 /\ b.pos + k \in b.pos .. b.used - 1
    BY <1>1 DEF IsBuffer
  <2>2. b.bytes[b.pos + k] = t - b.used + (b.pos + k)
    BY <2>1 DEF EndsAt
  <2>3. k < b.used - b.pos
    BY <1>1
  <2>4. r.bytes[k] = b.bytes[b.pos + k]
    BY <1>2, <2>1, <2>3
  <2> HIDE DEF r
  <2>5. PICK u \in Int, p \in Int : u = b.used /\ p = b.pos /\ r.used = u - p
    BY <1>1, BufferInts
  <2>6. r.bytes[k] = t - u + (p + k)
    BY ONLY <2>2, <2>4, <2>5
  <2>7. k \in Int
    OBVIOUS
  <2> QED
    BY ONLY <2>5, <2>6, <2>7, t \in Int
<1> QED
  BY <1>1, <1>4, <1>5 DEF IsBuffer, bufferedAvailable

\* So does the preparation of fillBuffer, behind which an empty buffer has room.
LEMMA PreparedKeeps ==
  ASSUME NEW t \in Int, NEW target \in Int, IsBuffer(buffer), EndsAt(buffer, t)
  PROVE  LET b == Prepared(target)
         IN  /\ IsBuffer(b) /\ EndsAt(b, t)
             /\ bufferedAvailable(b) = bufferedAvailable(buffer)
             /\ bufferedAvailable(buffer) = 0 => b.used = 0
<1> USE StdinAssumption
<1> DEFINE e == Emptied(buffer)
           l == Enlarged(e, target)
           m == MakeRoom(l)
<1>1. /\ IsBuffer(e) /\ EndsAt(e, t) /\ bufferedAvailable(e) = bufferedAvailable(buffer)
      /\ bufferedAvailable(buffer) = 0 => e.used = 0 /\ e.pos = 0
  <2>1. CASE buffer.used = buffer.pos
    <3>1. e = [buffer EXCEPT !.pos = 0, !.used = 0]
      BY <2>1 DEF Emptied
    <3> HIDE DEF e
    <3>2. e.pos = 0 /\ e.used = 0 /\ e.bytes = buffer.bytes /\ e.length = buffer.length
      BY <3>1 DEF IsBuffer
    <3>4. e = [bytes |-> e.bytes, length |-> e.length, pos |-> e.pos, used |-> e.used]
      BY <3>1 DEF IsBuffer
    <3>5. e \in [bytes : [0 .. e.length - 1 -> Int], length : Int, pos : Int, used : Int]
      BY <3>2, <3>4 DEF IsBuffer
    <3>3. IsBuffer(e)
      BY <3>2, <3>5 DEF IsBuffer
    <3> QED
      BY <2>1, <3>2, <3>3 DEF EndsAt, bufferedAvailable, IsBuffer
  <2>2. CASE buffer.used # buffer.pos
    <3>1. bufferedAvailable(buffer) # 0
      BY <2>2 DEF bufferedAvailable, IsBuffer
    <3> QED
      BY <2>2, <3>1 DEF Emptied
  <2> QED
    BY <2>1, <2>2
<1>2. /\ IsBuffer(l) /\ EndsAt(l, t) /\ bufferedAvailable(l) = bufferedAvailable(e)
      /\ bufferedAvailable(buffer) = 0 => l.used = 0 /\ l.pos = 0
  <2> DEFINE s == Smaller(target, MaxBufferSize)
  <2>1. CASE s > e.length
    <3>1. s \in MinBufferSize .. MaxBufferSize /\ bufferedAvailable(e) <= s
      BY <1>1, <2>1 DEF IsBuffer, Smaller, bufferedAvailable
    <3>2. l = resizeBuffer(e, s)
      BY <2>1 DEF Enlarged
    <3> HIDE DEF s, e, l
    <3>3. /\ IsBuffer(l) /\ EndsAt(l, t) /\ bufferedAvailable(l) = bufferedAvailable(e)
          /\ l.pos = 0
      BY <1>1, <3>1, <3>2, ResizeKeeps
    <3> QED
      <4>1. /\ e.used \in Int /\ e.pos \in Int /\ l.used \in Int /\ l.pos \in Int
        BY ONLY <1>1, <3>3, BufferInts
      <4>2. l.used - l.pos = e.used - e.pos
        BY ONLY <3>3 DEF bufferedAvailable
      <4> QED
        BY <1>1, <3>3, <4>1, <4>2
  <2>2. CASE ~(s > e.length)
    BY <1>1, <2>2 DEF Enlarged
  <2> QED
    BY <2>1, <2>2
<1>3. /\ IsBuffer(m) /\ EndsAt(m, t) /\ bufferedAvailable(m) = bufferedAvailable(l)
      /\ bufferedAvailable(buffer) = 0 => m.used = 0
  <2> HIDE DEF l
  <2>1. CASE l.used # l.length
    BY <1>2, <2>1 DEF MakeRoom
  <2>2. CASE l.used = l.length /\ l.pos > 0
    <3>1. m = resizeBuffer(l, l.used)
      BY <2>2 DEF MakeRoom
    <3>2. l.used \in MinBufferSize .. MaxBufferSize /\ bufferedAvailable(l) <= l.used
      BY <1>2, <2>2 DEF IsBuffer, bufferedAvailable
    <3>3. IsBuffer(m) /\ EndsAt(m, t) /\ bufferedAvailable(m) = bufferedAvailable(l)
      BY <1>2, <3>1, <3>2, ResizeKeeps
    <3>4. bufferedAvailable(buffer) # 0
      BY <1>2, <2>2
    <3> QED
      BY <3>3, <3>4
  <2>3. CASE l.used = l.length /\ ~(l.pos > 0)
    <3> DEFINE n == IF l.used <= MaxBufferSize \div 2 THEN l.used * 2 ELSE MaxBufferSize
    <3>1. m = resizeBuffer(l, n)
      BY <2>3 DEF MakeRoom
    <3>2. n \in MinBufferSize .. MaxBufferSize /\ bufferedAvailable(l) <= n
      <4>1. PICK u \in Int, p \in Int : /\ u = l.used /\ p = l.pos /\ 0 <= p /\ p <= u
                                       /\ u \in MinBufferSize .. MaxBufferSize
        BY <1>2, <2>3, BufferInts
      <4>2. bufferedAvailable(l) <= u
        BY ONLY <4>1 DEF bufferedAvailable
      <4>3. n \in MinBufferSize .. MaxBufferSize /\ u <= n
        BY <4>1, StdinAssumption
      <4>4. bufferedAvailable(l) \in Int
        BY ONLY <4>1 DEF bufferedAvailable
      <4> HIDE DEF n
      <4> QED
        BY <4>1, <4>2, <4>3, <4>4
    <3> HIDE DEF n
    <3>3. IsBuffer(m) /\ EndsAt(m, t) /\ bufferedAvailable(m) = bufferedAvailable(l)
      BY <1>2, <3>1, <3>2, ResizeKeeps
    <3>4. bufferedAvailable(buffer) # 0
      BY <1>2, <2>3 DEF IsBuffer
    <3> QED
      BY <3>3, <3>4
  <2> QED
    BY <2>1, <2>2, <2>3
<1>4. Prepared(target) = m
  BY DEF Prepared
<1> HIDE DEF m, l, e
<1> QED
  BY <1>1, <1>2, <1>3, <1>4

-----------------------------------------------------------------------------
\* What fread appends continues the stream, and falls short only at its end.
LEMMA FreadKeeps ==
  ASSUME NEW b, IsBuffer(b), EndsAt(b, taken), size \in Nat, taken \in 0 .. size,
         stdinAtEnd \in BOOLEAN, stdinAtEnd => taken = size, fread(b)
  PROVE  /\ IsBuffer(buffer') /\ EndsAt(buffer', taken')
         /\ taken' \in taken .. size /\ size' = size
         /\ bufferedAvailable(buffer') = bufferedAvailable(b) + (taken' - taken)
         /\ stdinAtEnd' \in BOOLEAN /\ (stdinAtEnd' => taken' = size)
         /\ b.used = 0 /\ taken' = taken => stdinAtEnd'
<1> USE StdinAssumption
<1> DEFINE n == Read(b)
           f == [k \in 0 .. b.length - 1 |->
                   IF k \in b.used .. b.used + n - 1 THEN taken + (k - b.used) ELSE b.bytes[k]]
<1>1. /\ n \in 0 .. b.length - b.used /\ n <= size - taken
      /\ n < b.length - b.used => n = size - taken
  BY DEF Read, Room, Smaller, IsBuffer
<1>2. buffer' = [b EXCEPT !.bytes = f, !.used = b.used + n]
  BY DEF fread
<1>3. taken' = taken + n /\ size' = size
  BY DEF fread
<1>12. stdinAtEnd' = (stdinAtEnd \/ n < b.length - b.used)
  BY DEF fread, Room
<1> HIDE DEF n
<1>4. f \in [0 .. b.length - 1 -> Int]
  BY <1>1 DEF IsBuffer
<1>5. \A k \in b.pos .. b.used + n - 1 : f[k] = taken + n - (b.used + n) + k
  <2> SUFFICES ASSUME NEW k \in b.pos .. b.used + n - 1
               PROVE  f[k] = taken + n - (b.used + n) + k
    OBVIOUS
  <2>1. k \in 0 .. b.length - 1 /\ b.used \in Int
    BY <1>1 DEF IsBuffer
  <2>2. CASE k \in b.used .. b.used + n - 1
    <3>1. f[k] = taken + (k - b.used)
      BY <2>1, <2>2
    <3> HIDE DEF f
    <3> QED
      BY <1>1, <2>1, <3>1
  <2>3. CASE k \notin b.used .. b.used + n - 1
    <3>1. f[k] = b.bytes[k] /\ k \in b.pos .. b.used - 1
      BY <2>1, <2>3
    <3> HIDE DEF f
    <3>2. f[k] = taken - b.used + k
      BY <3>1 DEF EndsAt
    <3> QED
      BY <1>1, <2>1, <3>2
  <2> QED
    BY <2>2, <2>3
<1> HIDE DEF f
<1>6. /\ buffer'.bytes = f /\ buffer'.used = b.used + n
      /\ buffer'.pos = b.pos /\ buffer'.length = b.length
      /\ buffer' = [bytes |-> f, length |-> b.length, pos |-> b.pos, used |-> b.used + n]
  BY <1>2 DEF IsBuffer
<1>13. b.pos \in Int /\ b.used \in Int /\ b.length \in Int
  BY DEF IsBuffer
<1>7. IsBuffer(buffer')
  <2>1. b.used + n \in 0 .. b.length /\ b.pos \in 0 .. b.used + n /\ b.length \in Int
    BY <1>1 DEF IsBuffer
  <2>2. buffer' \in [bytes : [0 .. b.length - 1 -> Int], length : Int, pos : Int, used : Int]
    BY <1>4, <1>6, <2>1
  <2> QED
    BY <1>6, <2>1, <2>2 DEF IsBuffer
<1>8. EndsAt(buffer', taken')
  <2>1. \A k \in b.pos .. b.used + n - 1 : buffer'.bytes[k] = taken' - (b.used + n) + k
    BY <1>1, <1>3, <1>5, <1>6, <1>13
  <2>2. buffer'.pos = b.pos /\ buffer'.used = b.used + n
    BY <1>6
  <2>3. taken' \in Int
    BY <1>1, <1>3
  <2> QED
    BY <1>1, <1>13, <2>1, <2>2, <2>3 DEF EndsAt
<1>9. bufferedAvailable(buffer') = bufferedAvailable(b) + (taken' - taken)
  BY <1>1, <1>3, <1>6 DEF bufferedAvailable, IsBuffer
<1>10. stdinAtEnd' \in BOOLEAN /\ (stdinAtEnd' => taken' = size)
  BY <1>1, <1>3, <1>12
<1>11. b.used = 0 /\ taken' = taken => stdinAtEnd'
  <2>1. b.length > 0
    BY DEF IsBuffer
  <2>2. b.used = 0 /\ taken' = taken => n = 0
    BY <1>1, <1>3 DEF IsBuffer
  <2> QED
    <3>1. b.used = 0 /\ taken' = taken => n < b.length - b.used
      BY <1>13, <2>1, <2>2
    <3> QED
      BY <1>12, <3>1
<1> QED
  BY <1>1, <1>3, <1>7, <1>8, <1>9, <1>10, <1>11

\* And so does fillBuffer, which always reads when nothing is buffered.
LEMMA FillKeeps ==
  ASSUME NEW target \in Int, IsBuffer(buffer), EndsAt(buffer, taken), size \in Nat,
         taken \in 0 .. size, stdinAtEnd \in BOOLEAN, stdinAtEnd => taken = size,
         fillBuffer(target)
  PROVE  /\ IsBuffer(buffer') /\ EndsAt(buffer', taken')
         /\ taken' \in taken .. size /\ size' = size
         /\ bufferedAvailable(buffer') = bufferedAvailable(buffer) + (taken' - taken)
         /\ stdinAtEnd' \in BOOLEAN /\ (stdinAtEnd' => taken' = size)
         /\ bufferedAvailable(buffer) = 0 /\ taken' = taken => stdinAtEnd'
<1> DEFINE b == Prepared(target)
<1>1. /\ IsBuffer(b) /\ EndsAt(b, taken) /\ bufferedAvailable(b) = bufferedAvailable(buffer)
      /\ bufferedAvailable(buffer) = 0 => b.used = 0
  BY PreparedKeeps
<1>2. fread(b)
  BY DEF fillBuffer
<1> HIDE DEF b
<1> QED
  BY <1>1, <1>2, FreadKeeps

-----------------------------------------------------------------------------
(***************************************************************************)
(* The invariant: what was delivered and what is buffered are, one after   *)
(* the other, what was taken from the input; and the loop of readData ends *)
(* early only when nothing is left.                                        *)
(***************************************************************************)
InOrder ==
  /\ EndsAt(buffer, taken)
  /\ Len(delivered) = taken - bufferedAvailable(buffer)
  /\ \A k \in 1 .. Len(delivered) : delivered[k] = k - 1

EndIsKnown ==
  /\ stdinAtEnd => taken = size
  /\ slot = "aboutToClose" => stdinAtEnd

CallOK ==
  /\ slot = "none" => call.pc = "none"
  /\ call.pc # "none" => call.maxlen > 0
  /\ call.pc = "fill" => bufferedAvailable(buffer) = 0 /\ call.read < call.maxlen
  /\ call.pc = "done" /\ call.read < call.maxlen =>
       stdinAtEnd /\ bufferedAvailable(buffer) = 0

IInv == StdinTypeOK /\ InOrder /\ EndIsKnown /\ CallOK

LEMMA InitIInv == Init => IInv
<1> SUFFICES ASSUME Init PROVE IInv
  OBVIOUS
<1> USE StdinAssumption DEF Init, NoCall
<1>1. StdinTypeOK
  <2>1. /\ buffer.length = MinBufferSize /\ buffer.pos = 0 /\ buffer.used = 0
        /\ buffer.bytes \in [0 .. MinBufferSize - 1 -> Int]
    BY DEF Uninitialized
  <2>2. buffer \in [bytes : [0 .. MinBufferSize - 1 -> Int], length : Int, pos : Int, used : Int]
    BY DEF Uninitialized
  <2>3. /\ size \in Nat /\ taken \in 0 .. size /\ stdinAtEnd \in BOOLEAN
        /\ device \in {"open", "closing", "closed"}
        /\ slot \in {"none", "readyRead", "aboutToClose"} /\ delivered \in Seq(Int)
        /\ call \in [pc : {"none", "copy", "fill", "done"}, maxlen : Nat, read : Nat]
        /\ call.read <= call.maxlen
    OBVIOUS
  <2> QED
    BY <2>1, <2>2, <2>3 DEF StdinTypeOK
<1>2. InOrder
  BY DEF InOrder, EndsAt, bufferedAvailable
<1>3. EndIsKnown /\ CallOK
  BY DEF EndIsKnown, CallOK
<1> QED
  BY <1>1, <1>2, <1>3 DEF IInv

LEMMA NextIInv == IInv /\ [Next]_vars => IInv'
<1> SUFFICES ASSUME IInv, [Next]_vars PROVE IInv'
  OBVIOUS
<1> USE StdinAssumption
<1>0. /\ IsBuffer(buffer) /\ EndsAt(buffer, taken)
      /\ bufferedAvailable(buffer) \in Nat /\ Len(delivered) \in Nat /\ taken \in Nat
      /\ Len(delivered) = taken - bufferedAvailable(buffer)
  BY DEF IInv, StdinTypeOK, IsBuffer, InOrder, bufferedAvailable
<1>1. CASE receiveData
  <2>1. fillBuffer(-1) /\ call' = call /\ delivered' = delivered /\ slot = "none"
    BY <1>1 DEF receiveData
  <2>2. /\ IsBuffer(buffer') /\ EndsAt(buffer', taken')
        /\ taken' \in taken .. size /\ size' = size
        /\ bufferedAvailable(buffer') = bufferedAvailable(buffer) + (taken' - taken)
        /\ stdinAtEnd' \in BOOLEAN /\ (stdinAtEnd' => taken' = size)
    BY <1>0, <2>1, FillKeeps DEF IInv, StdinTypeOK, EndIsKnown
  <2>3. /\ slot' \in {"none", "readyRead", "aboutToClose"}
        /\ slot' = "aboutToClose" => stdinAtEnd'
        /\ device' \in {"open", "closing", "closed"}
    BY <1>1 DEF receiveData
  <2>4. StdinTypeOK'
    BY <2>1, <2>2, <2>3 DEF IInv, StdinTypeOK, IsBuffer
  <2>5. InOrder'
    BY <1>0, <2>1, <2>2 DEF IInv, InOrder
  <2>6. EndIsKnown'
    BY <2>2, <2>3 DEF EndIsKnown
  <2>7. CallOK'
    BY <2>1 DEF IInv, CallOK
  <2> QED
    BY <2>4, <2>5, <2>6, <2>7 DEF IInv
<1>2. ASSUME NEW maxlen \in Lengths, BeginRead(maxlen) PROVE IInv'
  <2>1. /\ call' = [pc |-> "copy", maxlen |-> maxlen, read |-> 0] /\ slot # "none"
        /\ UNCHANGED <<stream, buffer, device, slot, delivered>>
    BY <1>2 DEF BeginRead
  <2>2. maxlen \in Nat /\ maxlen > 0
    OBVIOUS
  <2>3. StdinTypeOK'
    BY <2>1, <2>2 DEF IInv, StdinTypeOK, stream
  <2>4. InOrder' /\ EndIsKnown'
    BY <2>1 DEF IInv, InOrder, EndIsKnown, EndsAt, bufferedAvailable, stream
  <2>5. CallOK'
    BY <2>1, <2>2 DEF CallOK
  <2> QED
    BY <2>3, <2>4, <2>5 DEF IInv
<1>3. CASE Copy
  <2> DEFINE n == Smaller(bufferedAvailable(buffer), call.maxlen - call.read)
             copied == [k \in 1 .. n |-> buffer.bytes[buffer.pos + k - 1]]
  <2>1. /\ delivered' = delivered \o copied
        /\ buffer' = [buffer EXCEPT !.pos = buffer.pos + n]
        /\ call' = [call EXCEPT !.read = call.read + n,
                               !.pc = IF call.read + n < call.maxlen THEN "fill" ELSE "done"]
        /\ call.pc = "copy" /\ UNCHANGED <<stream, device, slot>>
    BY <1>3 DEF Copy
  <2>2. /\ n \in 0 .. buffer.used - buffer.pos /\ call.read + n \in 0 .. call.maxlen
        /\ call.read + n < call.maxlen => n = buffer.used - buffer.pos
    <3>1. PICK x \in Nat : x = buffer.used - buffer.pos
      BY ONLY <1>0 DEF bufferedAvailable
    <3>2. PICK r \in Nat, m \in Nat : r = call.read /\ m = call.maxlen /\ r <= m
      BY DEF IInv, StdinTypeOK
    <3>3. n = Smaller(x, m - r)
      BY ONLY <3>1, <3>2 DEF bufferedAvailable
    <3> HIDE DEF n
    <3> QED
      BY ONLY <3>1, <3>2, <3>3 DEF Smaller
  <2> HIDE DEF n
  <2>3. /\ buffer'.pos = buffer.pos + n /\ buffer'.used = buffer.used
        /\ buffer'.bytes = buffer.bytes /\ buffer'.length = buffer.length
        /\ buffer' \in [bytes : [0 .. buffer.length - 1 -> Int], length : Int, pos : Int, used : Int]
    <3>1. buffer' = [bytes |-> buffer.bytes, length |-> buffer.length,
                     pos |-> buffer.pos + n, used |-> buffer.used]
      BY <1>0, <2>1 DEF IsBuffer
    <3> QED
      BY <1>0, <2>2, <3>1 DEF IsBuffer
  <2>4. /\ call'.read = call.read + n /\ call'.maxlen = call.maxlen
        /\ call'.pc = IF call.read + n < call.maxlen THEN "fill" ELSE "done"
        /\ call' \in [pc : {"none", "copy", "fill", "done"}, maxlen : Nat, read : Nat]
    <3>1. call' = [pc |-> IF call.read + n < call.maxlen THEN "fill" ELSE "done",
                   maxlen |-> call.maxlen, read |-> call.read + n]
      BY <2>1 DEF IInv, StdinTypeOK
    <3>2. call.maxlen \in Nat /\ call.read + n \in Nat
      BY <2>2 DEF IInv, StdinTypeOK
    <3> QED
      BY <3>1, <3>2
  <2>5. \A k \in 1 .. n : copied[k] = Len(delivered) + k - 1 /\ copied[k] \in Int
    <3> SUFFICES ASSUME NEW k \in 1 .. n
                 PROVE  copied[k] = Len(delivered) + k - 1 /\ copied[k] \in Int
      OBVIOUS
    <3>1. copied[k] = buffer.bytes[buffer.pos + k - 1]
      OBVIOUS
    <3>2. buffer.pos + k - 1 \in buffer.pos .. buffer.used - 1
      <4>1. PICK u \in Int, p \in Int : u = buffer.used /\ p = buffer.pos
        BY ONLY <1>0, BufferInts
      <4> QED
        BY ONLY <2>2, <4>1, k \in 1 .. n
    <3>3. copied[k] = taken - buffer.used + (buffer.pos + k - 1)
      BY <1>0, <3>1, <3>2 DEF EndsAt
    <3>4. PICK d \in Int, u \in Int, p \in Int, t \in Int :
            /\ d = Len(delivered) /\ u = buffer.used /\ p = buffer.pos /\ t = taken
            /\ d = t - (u - p)
      BY ONLY <1>0 DEF bufferedAvailable, IsBuffer
    <3>5. copied[k] = t - u + (p + k - 1)
      BY ONLY <3>3, <3>4
    <3>6. k \in Int
      BY ONLY <2>2, <3>4, k \in 1 .. n
    <3> HIDE DEF copied
    <3> QED
      BY ONLY <3>4, <3>5, <3>6
  <2>6. copied \in Seq(Int) /\ Len(copied) = n
    BY <2>2, <2>5 DEF IInv, StdinTypeOK, IsBuffer
  <2> HIDE DEF copied
  <2>7. StdinTypeOK'
    <3>1. delivered' \in Seq(Int)
      BY <2>1, <2>6 DEF IInv, StdinTypeOK
    <3>2. buffer'.used \in 0 .. buffer'.length /\ buffer'.pos \in 0 .. buffer'.used
      <4>1. PICK u \in Int, p \in Int, s \in Int :
              u = buffer.used /\ p = buffer.pos /\ s = buffer.length /\ 0 <= p /\ p <= u /\ u <= s
        BY ONLY <1>0, BufferInts
      <4>2. buffer'.used = u /\ buffer'.pos = p + n /\ buffer'.length = s
        BY ONLY <2>3, <4>1
      <4> QED
        BY ONLY <2>2, <4>1, <4>2
    <3>3. call'.read <= call'.maxlen
      BY <2>2, <2>4 DEF IInv, StdinTypeOK
    <3> QED
      BY <2>1, <2>3, <2>4, <3>1, <3>2, <3>3 DEF IInv, StdinTypeOK, stream
  <2>8. InOrder'
    <3>0. delivered \in Seq(Int) /\ n \in Nat
      BY <2>2 DEF IInv, StdinTypeOK
    <3>1. Len(delivered') = Len(delivered) + n
      <4>1. Len(delivered \o copied) = Len(delivered) + Len(copied)
        BY ONLY <2>6, <3>0
      <4> QED
        BY ONLY <2>1, <2>6, <4>1
    <3>2. \A k \in 1 .. Len(delivered') : delivered'[k] = k - 1
      <4> SUFFICES ASSUME NEW k \in 1 .. Len(delivered') PROVE delivered'[k] = k - 1
        OBVIOUS
      <4>0. \A i \in 1 .. Len(delivered) + n :
              delivered'[i] = IF i <= Len(delivered) THEN delivered[i]
                              ELSE copied[i - Len(delivered)]
        <5>1. PICK d \in Seq(Int), c \in Seq(Int) : d = delivered /\ c = copied /\ Len(c) = n
          BY ONLY <2>6, <3>0
        <5>2. \A i \in 1 .. Len(d) + Len(c) :
                (d \o c)[i] = IF i <= Len(d) THEN d[i] ELSE c[i - Len(d)]
          BY ONLY d \in Seq(Int), c \in Seq(Int)
        <5> QED
          BY ONLY <2>1, <5>1, <5>2, Zenon
      <4>1. CASE k <= Len(delivered)
        BY <2>1, <2>6, <4>1 DEF IInv, StdinTypeOK, InOrder
      <4>2. CASE k > Len(delivered)
        <5>1. k - Len(delivered) \in 1 .. n
          BY <2>2, <3>1, <4>2 DEF IInv, StdinTypeOK
        <5>2. delivered'[k] = copied[k - Len(delivered)]
          <6>1. Len(delivered) \in Nat
            BY ONLY <3>0
          <6>2. k \in 1 .. Len(delivered) + n /\ ~(k <= Len(delivered))
            BY ONLY <3>1, <4>2, <6>1, <3>0, k \in 1 .. Len(delivered')
          <6> QED
            BY ONLY <4>0, <6>2, Zenon
        <5> QED
          BY <2>5, <5>1, <5>2, <4>2 DEF IInv, StdinTypeOK
      <4> QED
        BY <4>1, <4>2 DEF IInv, StdinTypeOK
    <3>3. EndsAt(buffer', taken')
      <4>1. taken' = taken
        BY <2>1 DEF stream
      <4>2. buffer'.pos .. buffer'.used - 1 \subseteq buffer.pos .. buffer.used - 1
        BY ONLY <1>0, <2>2, <2>3 DEF IsBuffer
      <4> QED
        BY ONLY <1>0, <2>3, <4>1, <4>2, Zenon DEF EndsAt
    <3>4. bufferedAvailable(buffer') = bufferedAvailable(buffer) - n /\ taken' = taken
      BY <1>0, <2>1, <2>2, <2>3 DEF bufferedAvailable, stream, IsBuffer
    <3> QED
      BY <1>0, <3>0, <3>1, <3>2, <3>3, <3>4 DEF InOrder
  <2>9. EndIsKnown'
    BY <2>1 DEF IInv, EndIsKnown, stream
  <2>10. CallOK'
    <3>1. slot' # "none" /\ call'.maxlen > 0
      BY <2>1, <2>4 DEF IInv, CallOK
    <3>2. call'.pc = "fill" => bufferedAvailable(buffer') = 0 /\ call'.read < call'.maxlen
      <4>1. PICK u \in Int, p \in Int : u = buffer.used /\ p = buffer.pos
        BY ONLY <1>0, BufferInts
      <4>2. ASSUME call'.pc = "fill" PROVE call.read + n < call.maxlen
        BY ONLY <2>4, <4>2
      <4>3. ASSUME call'.pc = "fill" PROVE n = u - p /\ buffer'.used = u /\ buffer'.pos = p + n
        BY ONLY <2>2, <2>3, <4>1, <4>2, <4>3
      <4>4. ASSUME call'.pc = "fill" PROVE bufferedAvailable(buffer') = 0
        BY ONLY <4>1, <4>3, <4>4 DEF bufferedAvailable
      <4> QED
        BY ONLY <2>4, <4>2, <4>4
    <3>3. call'.pc = "done" => ~(call'.read < call'.maxlen)
      BY <2>4
    <3>4. call'.pc # "none"
      BY <2>4
    <3> QED
      BY <3>1, <3>2, <3>3, <3>4 DEF CallOK
  <2> QED
    BY <2>7, <2>8, <2>9, <2>10 DEF IInv
<1>4. CASE Fill
  <2>1. /\ fillBuffer(call.maxlen) /\ delivered' = delivered /\ call.pc = "fill"
        /\ UNCHANGED <<device, slot>>
        /\ call' = [call EXCEPT !.pc = IF taken' > taken THEN "copy" ELSE "done"]
    BY <1>4 DEF Fill
  <2>0. call.maxlen \in Int
    BY DEF IInv, StdinTypeOK
  <2>2. /\ IsBuffer(buffer') /\ EndsAt(buffer', taken')
        /\ taken' \in taken .. size /\ size' = size
        /\ bufferedAvailable(buffer') = bufferedAvailable(buffer) + (taken' - taken)
        /\ stdinAtEnd' \in BOOLEAN /\ (stdinAtEnd' => taken' = size)
        /\ bufferedAvailable(buffer) = 0 /\ taken' = taken => stdinAtEnd'
    BY <1>0, <2>0, <2>1, FillKeeps DEF IInv, StdinTypeOK, EndIsKnown
  <2>3. /\ call'.read = call.read /\ call'.maxlen = call.maxlen
        /\ call'.pc = IF taken' > taken THEN "copy" ELSE "done"
        /\ call' \in [pc : {"none", "copy", "fill", "done"}, maxlen : Nat, read : Nat]
    BY <2>1 DEF IInv, StdinTypeOK
  <2>4. StdinTypeOK'
    <3>1. size' \in Nat /\ taken' \in 0 .. size' /\ stdinAtEnd' \in BOOLEAN
      BY <2>2 DEF IInv, StdinTypeOK
    <3>2. call'.read <= call'.maxlen /\ delivered' \in Seq(Int)
      BY <2>1, <2>3 DEF IInv, StdinTypeOK
    <3>3. /\ device' \in {"open", "closing", "closed"}
          /\ slot' \in {"none", "readyRead", "aboutToClose"}
      BY <2>1 DEF IInv, StdinTypeOK
    <3> QED
      BY ONLY <2>2, <2>3, <3>1, <3>2, <3>3 DEF StdinTypeOK, IsBuffer
  <2>5. InOrder'
    BY <1>0, <2>1, <2>2 DEF IInv, InOrder
  <2>6. stdinAtEnd => stdinAtEnd'
    BY <2>1 DEF fillBuffer, fread
  <2>7. EndIsKnown'
    BY <2>1, <2>2, <2>6 DEF IInv, EndIsKnown
  <2>8. CallOK'
    BY <2>1, <2>2, <2>3 DEF IInv, CallOK, StdinTypeOK
  <2> QED
    BY <2>4, <2>5, <2>7, <2>8 DEF IInv
<1>5. CASE SlotReturns
  <2>1. /\ slot' = "none" /\ call' = [pc |-> "none", maxlen |-> 0, read |-> 0]
        /\ device' \in {"closed", device} /\ UNCHANGED <<stream, buffer, delivered>>
    BY <1>5 DEF SlotReturns, NoCall
  <2>2. StdinTypeOK'
    BY <2>1 DEF IInv, StdinTypeOK, stream
  <2>3. InOrder' /\ EndIsKnown' /\ CallOK'
    BY <2>1 DEF IInv, InOrder, EndIsKnown, CallOK, EndsAt, bufferedAvailable, stream
  <2> QED
    BY <2>2, <2>3 DEF IInv
<1>6. CASE UNCHANGED vars
  <2>1. StdinTypeOK'
    BY <1>6 DEF IInv, StdinTypeOK, vars, stream
  <2>2. InOrder' /\ EndIsKnown' /\ CallOK'
    BY <1>6 DEF IInv, InOrder, EndIsKnown, CallOK, EndsAt, bufferedAvailable, vars, stream
  <2> QED
    BY <2>1, <2>2 DEF IInv
<1> QED
  BY <1>1, <1>2, <1>3, <1>4, <1>5, <1>6 DEF Next

\* The invariant holds in every state of the device.
LEMMA AlwaysIInv == Spec => []IInv
BY InitIInv, NextIInv, PTL DEF Spec

-----------------------------------------------------------------------------
\* Position, use and length of the buffer keep their asserted relations and limits
\* (resizeBuffer, fillBuffer, readData).
THEOREM StdinTypeCorrect == Spec => []StdinTypeOK
<1>1. IInv => StdinTypeOK
  BY DEF IInv
<1> QED
  BY <1>1, AlwaysIInv, PTL

LEMMA IInvShort == IInv => ShortOnlyAtEnd
<1> SUFFICES ASSUME IInv, call.pc = "done"
             PROVE  /\ call.read < call.maxlen =>
                         stdinAtEnd /\ delivered = [k \in 1 .. size |-> k - 1]
                    /\ Result = -1 => Len(delivered) = size
  BY DEF ShortOnlyAtEnd
<1>1. call.read < call.maxlen => stdinAtEnd /\ Len(delivered) = size
  BY DEF IInv, CallOK, EndIsKnown, InOrder, StdinTypeOK
<1>2. Len(delivered) = size => delivered = [k \in 1 .. size |-> k - 1]
  BY DEF IInv, InOrder, StdinTypeOK
<1>3. Result = -1 => call.read < call.maxlen
  BY DEF Result, IInv, CallOK, StdinTypeOK
<1> QED
  BY <1>1, <1>2, <1>3

\* readData returns less than it was asked for only behind the last byte of the input.
THEOREM ShortReadsAtEnd == Spec => []ShortOnlyAtEnd
BY IInvShort, AlwaysIInv, PTL

-----------------------------------------------------------------------------
LEMMA InitStream == Init => Stream!Init
BY StdinAssumption DEF Init, Stream!Init

LEMMA StepStream == IInv /\ IInv' /\ [Next]_vars => [Stream!Next]_(Stream!vars)
<1> SUFFICES ASSUME IInv, IInv', [Next]_vars PROVE [Stream!Next]_(Stream!vars)
  OBVIOUS
<1>0. /\ buffer.pos \in Int /\ buffer.used \in Int
      /\ Len(delivered) \in Nat /\ taken \in Nat
      /\ Len(delivered) = taken - bufferedAvailable(buffer)
  BY DEF IInv, StdinTypeOK, InOrder
<1>1. CASE receiveData
  <2>1. taken' \in taken .. size
    <3>1. IsBuffer(buffer) /\ EndsAt(buffer, taken) /\ fillBuffer(-1)
      BY <1>1 DEF IInv, StdinTypeOK, IsBuffer, InOrder, receiveData
    <3> QED
      BY <3>1, FillKeeps DEF IInv, StdinTypeOK, EndIsKnown
  <2>2. UNCHANGED <<size, delivered>> /\ device # "closed" /\ device' # "closed"
    BY <1>1 DEF receiveData, fillBuffer, fread
  <2> QED
    BY <2>1, <2>2 DEF Stream!Next, Stream!Take
<1>2. ASSUME NEW maxlen \in Lengths, BeginRead(maxlen) PROVE UNCHANGED Stream!vars
  BY <1>2 DEF BeginRead, Stream!vars, stream
<1>3. CASE Copy
  <2> DEFINE n == Smaller(bufferedAvailable(buffer), call.maxlen - call.read)
             copied == [k \in 1 .. n |-> buffer.bytes[buffer.pos + k - 1]]
             next == [k \in 1 .. n |-> Len(delivered) + k - 1]
  <2>1. delivered' = delivered \o copied /\ UNCHANGED <<size, taken, device>>
    BY <1>3 DEF Copy, stream
  <2>0. /\ buffer.used \in Int /\ buffer.pos \in Int /\ buffer.used >= buffer.pos
        /\ call.maxlen \in Int /\ call.read \in Int /\ call.read <= call.maxlen
    <3>1. call.maxlen \in Int /\ call.read \in Int /\ call.read <= call.maxlen
      BY DEF IInv, StdinTypeOK
    <3>2. buffer.used \in Int /\ buffer.pos \in Int /\ buffer.used >= buffer.pos
      BY DEF IInv, StdinTypeOK
    <3> QED
      BY ONLY <3>1, <3>2
  <2>2. n \in 0 .. buffer.used - buffer.pos
    BY ONLY <2>0 DEF Smaller, bufferedAvailable
  <2> HIDE DEF n
  <2>3. \A k \in 1 .. n : buffer.bytes[buffer.pos + k - 1] = Len(delivered) + k - 1
    <3> SUFFICES ASSUME NEW k \in 1 .. n
                 PROVE  buffer.bytes[buffer.pos + k - 1] = Len(delivered) + k - 1
      OBVIOUS
    <3>1. buffer.pos + k - 1 \in buffer.pos .. buffer.used - 1
      BY ONLY <2>0, <2>2, k \in 1 .. n
    <3>2. buffer.bytes[buffer.pos + k - 1] = taken - buffer.used + (buffer.pos + k - 1)
      BY <3>1 DEF IInv, InOrder, EndsAt
    <3> QED
      BY <1>0, <2>2, <3>2 DEF bufferedAvailable
  <2>4. copied = next
    BY <2>3
  <2>5. n \in 0 .. taken - Len(delivered)
    BY <1>0, <2>2 DEF bufferedAvailable
  <2> HIDE DEF copied
  <2> QED
    BY <2>1, <2>4, <2>5 DEF Stream!Next, Stream!Deliver
<1>4. CASE Fill
  <2>1. taken' \in taken .. size
    <3>1. /\ IsBuffer(buffer) /\ EndsAt(buffer, taken) /\ fillBuffer(call.maxlen)
          /\ call.maxlen \in Int
      BY <1>4 DEF IInv, StdinTypeOK, IsBuffer, InOrder, Fill
    <3> QED
      BY <3>1, FillKeeps DEF IInv, StdinTypeOK, EndIsKnown
  <2>2. UNCHANGED <<size, delivered, device>>
    BY <1>4 DEF Fill, fillBuffer, fread
  <2> QED
    BY <2>1, <2>2 DEF Stream!Next, Stream!Take
<1>5. CASE SlotReturns
  <2>1. UNCHANGED <<size, taken, delivered>>
    BY <1>5 DEF SlotReturns, stream
  <2>2. CASE slot = "aboutToClose"
    <3>1. Len(delivered) = size /\ device' = "closed"
      BY <1>5, <2>2 DEF SlotReturns, IInv, InOrder, EndIsKnown, StdinTypeOK
    <3> QED
      BY <2>1, <3>1 DEF Stream!Next, Stream!Close
  <2>3. CASE slot # "aboutToClose"
    BY <1>5, <2>1, <2>3 DEF SlotReturns, Stream!vars
  <2> QED
    BY <2>2, <2>3
<1>6. CASE UNCHANGED vars
  BY <1>6 DEF vars, stream, Stream!vars
<1> QED
  BY <1>1, <1>2, <1>3, <1>4, <1>5, <1>6 DEF Next

\* PerfStdin delivers a stream of bytes: each one once, in order, and all of them before
\* the device has closed.
THEOREM DeliversByteStream == Spec => ImplementsByteStream
<1>1. Init => Stream!Init
  BY InitStream
<1>2. IInv /\ IInv' /\ [Next]_vars => [Stream!Next]_(Stream!vars)
  BY StepStream
<1> QED
  BY <1>1, <1>2, AlwaysIInv, PTL DEF Spec, ImplementsByteStream, Stream!Spec
=============================================================================
