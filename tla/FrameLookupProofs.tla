-------------------------- MODULE FrameLookupProofs --------------------------
(***************************************************************************)
(* Theorems about lookups of frames for all recordings and files: whatever *)
(* is looked up, and however often caches are cleared, a buffer only names *)
(* what the client knows by then.                                          *)
(***************************************************************************)
EXTENDS FrameLookup, FiniteSetTheorems, WellFoundedInduction, TLAPS

-----------------------------------------------------------------------------
(***************************************************************************)
(* Streams: what has been defined before a buffer.                         *)
(***************************************************************************)
\* How many definitions of a type the buffers before the k-th one are.
SentIn(stream, k, type) == Cardinality({j \in 1 .. k - 1 : stream[j].type = type})

Definition == {"StringDefinition", "LocationDefinition", "AttributesDefinition"}

\* A buffer that may follow s strings, l locations and a attributes.
MayFollow(b, s, l, a) ==
  /\ b.strings \subseteq 0 .. s - 1
  /\ b.locations \subseteq 0 .. l - 1
  /\ b.attributes \subseteq 0 .. a - 1
  /\ b.type = "StringDefinition" => b.id = s
  /\ b.type = "LocationDefinition" => b.id = l
  /\ b.type = "AttributesDefinition" => b.id = a

BufferFollows(stream, k) ==
  MayFollow(stream[k], SentIn(stream, k, "StringDefinition"),
            SentIn(stream, k, "LocationDefinition"), SentIn(stream, k, "AttributesDefinition"))

\* A stream that has defined s strings, l locations and a attributes.
Stream(stream, s, l, a) ==
  /\ \E S : stream \in Seq(S)
  /\ s \in Nat /\ l \in Nat /\ a \in Nat
  /\ SentIn(stream, Len(stream) + 1, "StringDefinition") = s
  /\ SentIn(stream, Len(stream) + 1, "LocationDefinition") = l
  /\ SentIn(stream, Len(stream) + 1, "AttributesDefinition") = a
  /\ \A k \in 1 .. Len(stream) : BufferFollows(stream, k)

\* What a buffer sent after a stream adds to the definitions of a type.
CountsOneMore(st, b, type) ==
  /\ \A k \in 1 .. Len(st) + 1 : SentIn(Append(st, b), k, type) = SentIn(st, k, type)
  /\ SentIn(Append(st, b), Len(st) + 2, type) =
       SentIn(st, Len(st) + 1, type) + (IF b.type = type THEN 1 ELSE 0)

LEMMA CountLemma ==
  ASSUME NEW S, NEW st \in Seq(S), NEW b, NEW type
  PROVE  CountsOneMore(st, b, type)
<1> DEFINE t == Append(st, b)
           n == Len(st)
           before == {j \in 1 .. n : st[j].type = type}
<1>1. n \in Nat /\ t[n + 1] = b /\ \A j \in 1 .. n : t[j] = st[j]
  <2>1. st \in Seq(S \cup {b}) /\ b \in S \cup {b}
    OBVIOUS
  <2> QED
    BY <2>1
<1> HIDE DEF t, n
<1>2. ASSUME NEW k \in 1 .. n + 1
      PROVE  SentIn(t, k, type) = SentIn(st, k, type)
  <2>1. 1 .. k - 1 \subseteq 1 .. n
    BY <1>1
  <2>2. {j \in 1 .. k - 1 : t[j].type = type} = {j \in 1 .. k - 1 : st[j].type = type}
    BY <1>1, <2>1
  <2> QED
    BY <2>2 DEF SentIn
<1>3. (n + 1) - 1 = n /\ (n + 2) - 1 = n + 1 /\ n + 1 \notin 1 .. n
      /\ 1 .. n + 1 = (1 .. n) \cup {n + 1}
  BY <1>1
<1>4. SentIn(st, n + 1, type) = Cardinality(before)
  BY <1>3 DEF SentIn
<1>5. IsFiniteSet(before)
  <2>1. IsFiniteSet(1 .. n) /\ before \subseteq 1 .. n
    BY <1>1, FS_Interval
  <2> QED
    BY <2>1, FS_Subset
<1>6. SentIn(t, n + 2, type) = Cardinality({j \in 1 .. n + 1 : t[j].type = type})
  BY <1>3 DEF SentIn
<1>7. ASSUME b.type = type
      PROVE  SentIn(t, n + 2, type) = SentIn(st, n + 1, type) + (IF b.type = type THEN 1 ELSE 0)
  <2>1. {j \in 1 .. n + 1 : t[j].type = type} = before \cup {n + 1}
    BY <1>1, <1>3, <1>7
  <2>2. n + 1 \notin before
    BY <1>3
  <2>3. Cardinality(before \cup {n + 1}) = Cardinality(before) + 1
    BY <1>5, <2>2, FS_AddElement
  <2> QED
    <3>1. SentIn(t, n + 2, type) = Cardinality(before \cup {n + 1})
      BY ONLY <1>6, <2>1
    <3>2. SentIn(t, n + 2, type) = SentIn(st, n + 1, type) + 1
      BY ONLY <1>4, <2>3, <3>1
    <3> QED
      BY <1>7, <3>2
<1>8. ASSUME b.type # type
      PROVE  SentIn(t, n + 2, type) = SentIn(st, n + 1, type) + (IF b.type = type THEN 1 ELSE 0)
  <2>1. {j \in 1 .. n + 1 : t[j].type = type} = before
    BY <1>1, <1>3, <1>8
  <2>2. Cardinality(before) \in Nat
    BY <1>5, FS_CardinalityType
  <2> QED
    <3>1. SentIn(t, n + 2, type) = Cardinality(before)
      BY ONLY <1>6, <2>1
    <3>2. SentIn(t, n + 2, type) = SentIn(st, n + 1, type) + 0
      BY ONLY <1>4, <2>2, <3>1
    <3> QED
      BY <1>8, <3>2
<1>9. SentIn(t, n + 2, type) = SentIn(st, n + 1, type) + (IF b.type = type THEN 1 ELSE 0)
  BY <1>7, <1>8
<1>10. \A k \in 1 .. n + 1 : SentIn(t, k, type) = SentIn(st, k, type)
  BY <1>2
<1> QED
  BY ONLY <1>9, <1>10 DEF t, n, CountsOneMore

\* A buffer that may follow a stream can be sent.
LEMMA AppendFollows ==
  ASSUME NEW st, NEW s, NEW l, NEW a, Stream(st, s, l, a), NEW b, MayFollow(b, s, l, a),
         NEW s2, s2 = s + (IF b.type = "StringDefinition" THEN 1 ELSE 0),
         NEW l2, l2 = l + (IF b.type = "LocationDefinition" THEN 1 ELSE 0),
         NEW a2, a2 = a + (IF b.type = "AttributesDefinition" THEN 1 ELSE 0)
  PROVE  Stream(Append(st, b), s2, l2, a2)
<1>1. PICK S : st \in Seq(S)
  BY DEF Stream
<1>2. PICK t : t = Append(st, b)
  OBVIOUS
<1>3. PICK n \in Nat : n = Len(st)
  BY <1>1
<1>4. t \in Seq(S \cup {b}) /\ Len(t) = n + 1 /\ t[n + 1] = b /\ \A j \in 1 .. n : t[j] = st[j]
  <2>1. st \in Seq(S \cup {b}) /\ b \in S \cup {b}
    BY <1>1
  <2> QED
    BY <1>2, <1>3, <2>1
<1>5. s \in Nat /\ l \in Nat /\ a \in Nat
  BY DEF Stream
<1>6. s2 \in Nat /\ l2 \in Nat /\ a2 \in Nat
  BY <1>5
<1>7. \A type : /\ \A k \in 1 .. n + 1 : SentIn(t, k, type) = SentIn(st, k, type)
                /\ SentIn(t, n + 2, type) =
                     SentIn(st, n + 1, type) + (IF b.type = type THEN 1 ELSE 0)
  <2> TAKE type
  <2>1. CountsOneMore(st, b, type)
    BY <1>1, CountLemma, Zenon
  <2> QED
    BY ONLY <1>2, <1>3, <2>1, Zenon DEF CountsOneMore
<1>8. /\ SentIn(t, n + 2, "StringDefinition") = s2
      /\ SentIn(t, n + 2, "LocationDefinition") = l2
      /\ SentIn(t, n + 2, "AttributesDefinition") = a2
  BY <1>3, <1>7 DEF Stream
<1>9. ASSUME NEW k \in 1 .. n + 1 PROVE BufferFollows(t, k)
  <2>1. /\ SentIn(t, k, "StringDefinition") = SentIn(st, k, "StringDefinition")
        /\ SentIn(t, k, "LocationDefinition") = SentIn(st, k, "LocationDefinition")
        /\ SentIn(t, k, "AttributesDefinition") = SentIn(st, k, "AttributesDefinition")
    BY <1>7
  <2>2. CASE k \in 1 .. n
    <3>1. BufferFollows(st, k)
      BY <1>3, <2>2 DEF Stream
    <3> QED
      BY <1>4, <2>1, <2>2, <3>1 DEF BufferFollows
  <2>3. CASE k = n + 1
    BY <1>3, <1>4, <2>1, <2>3 DEF BufferFollows, Stream
  <2> QED
    BY <2>2, <2>3
<1>10. Len(t) + 1 = n + 2
  BY <1>4
<1> QED
  BY <1>2, <1>4, <1>6, <1>8, <1>9, <1>10 DEF Stream

LEMMA StreamIsDefined ==
  ASSUME NEW s, NEW l, NEW a, Stream(output.stream, s, l, a)
  PROVE  EveryIdIsDefined
<1> DEFINE stream == output.stream
           Sent(k, type) == Cardinality({j \in 1 .. k - 1 : stream[j].type = type})
<1>1. PICK S : stream \in Seq(S)
  BY DEF Stream
<1>2. DOMAIN stream = 1 .. Len(stream)
  BY <1>1
<1>3. ASSUME NEW k \in DOMAIN stream
      PROVE  /\ stream[k].strings \subseteq 0 .. Sent(k, "StringDefinition") - 1
             /\ stream[k].locations \subseteq 0 .. Sent(k, "LocationDefinition") - 1
             /\ stream[k].attributes \subseteq 0 .. Sent(k, "AttributesDefinition") - 1
             /\ stream[k].type \in Definition => stream[k].id = Sent(k, stream[k].type)
  <2>1. BufferFollows(stream, k)
    BY <1>2, <1>3 DEF Stream
  <2>2. \A type : SentIn(stream, k, type) = Sent(k, type)
    BY DEF SentIn
  <2> HIDE DEF stream, Sent
  <2>3. MayFollow(stream[k], Sent(k, "StringDefinition"), Sent(k, "LocationDefinition"),
                  Sent(k, "AttributesDefinition"))
    BY <2>1, <2>2 DEF BufferFollows
  <2>4. stream[k].type \in Definition => stream[k].id = Sent(k, stream[k].type)
    BY <2>3 DEF MayFollow, Definition
  <2> QED
    BY <2>3, <2>4 DEF MayFollow
<1> QED
  BY <1>3, Zenon DEF EveryIdIsDefined, Definition
-----------------------------------------------------------------------------
(***************************************************************************)
(* Outputs.  Every operator takes a good output to a good one, in which    *)
(* nothing that was defined is lost: ids that were looked up stay valid.   *)
(***************************************************************************)
Fields == {"address", "relAddr", "file", "pid", "line", "parentLocationId"}

\* What an id names has no other id; the empty string has none.
OneIdEach(o) ==
  /\ \A i, j \in DOMAIN o.strings : o.strings[i] = o.strings[j] => i = j
  /\ \A i \in DOMAIN o.strings : o.strings[i] # <<>>
  /\ \A i, j \in DOMAIN o.locations :
       SameLocation(o.locations[i], o.locations[j]) => i = j
  /\ \A i \in DOMAIN o.locations : DOMAIN o.locations[i] = Fields

\* Ids name in p what they name in o, and what has a symbol in o has one in p.
Keeps(o, p) ==
  /\ \A i \in DOMAIN o.strings : i \in DOMAIN p.strings /\ p.strings[i] = o.strings[i]
  /\ \A i \in DOMAIN o.locations :
       i \in DOMAIN p.locations /\ p.locations[i] = o.locations[i]
  /\ DOMAIN o.symbols \subseteq DOMAIN p.symbols

Good(o) ==
  /\ DOMAIN o = {"strings", "locations", "symbols", "attributes", "stream"}
  /\ o = [f \in DOMAIN o |-> o[f]]
  /\ \E S : o.strings \in Seq(S)
  /\ \E S : o.locations \in Seq(S)
  /\ Stream(o.stream, Len(o.strings), Len(o.locations), o.attributes)
  /\ DOMAIN o.symbols \subseteq 0 .. Len(o.locations) - 1
  /\ OneIdEach(o)

\* The ids that may be named next; -1 says that there is none.
StringIds(o)   == -1 .. Len(o.strings) - 1
LocationIds(o) == -1 .. Len(o.locations) - 1
Existing(o)    == 0 .. Len(o.locations) - 1

Leads(o, p) ==
  /\ Good(p)
  /\ Len(o.strings) <= Len(p.strings)
  /\ Len(o.locations) <= Len(p.locations)
  /\ o.attributes <= p.attributes
  /\ Keeps(o, p)

\* Outputs with the same strings and locations.
LEMMA SameIds ==
  ASSUME NEW o, NEW p, o.strings = p.strings, o.locations = p.locations
  PROVE  /\ OneIdEach(o) => OneIdEach(p)
         /\ DOMAIN o.symbols \subseteq DOMAIN p.symbols => Keeps(o, p)
BY DEF OneIdEach, Keeps

LEMMA GoodSizes ==
  ASSUME NEW o, Good(o)
  PROVE  /\ Len(o.strings) \in Nat /\ Len(o.locations) \in Nat /\ o.attributes \in Nat
         /\ DOMAIN o.strings = 1 .. Len(o.strings)
         /\ DOMAIN o.locations = 1 .. Len(o.locations)
<1>1. \A S, s : s \in Seq(S) => Len(s) \in Nat /\ DOMAIN s = 1 .. Len(s)
  OBVIOUS
<1> QED
  BY <1>1 DEF Good, Stream

LEMMA LeadsReflexive == ASSUME NEW o, Good(o) PROVE Leads(o, o)
BY GoodSizes, SameIds DEF Leads

LEMMA LeadsTransitive ==
  ASSUME NEW o, NEW p, NEW q, Good(o), Leads(o, p), Leads(p, q)
  PROVE  Leads(o, q)
<1>1. Good(q)
  BY DEF Leads
<1>2. PICK a1 \in Nat, b1 \in Nat, c1 \in Nat :
        a1 = Len(o.strings) /\ b1 = Len(o.locations) /\ c1 = o.attributes
  BY GoodSizes
<1>3. PICK a2 \in Nat, b2 \in Nat, c2 \in Nat :
        a2 = Len(p.strings) /\ b2 = Len(p.locations) /\ c2 = p.attributes
  BY GoodSizes DEF Leads
<1>4. PICK a3 \in Nat, b3 \in Nat, c3 \in Nat :
        a3 = Len(q.strings) /\ b3 = Len(q.locations) /\ c3 = q.attributes
  BY <1>1, GoodSizes
<1>5. a1 <= a2 /\ b1 <= b2 /\ c1 <= c2
  BY <1>2, <1>3, Zenon DEF Leads
<1>6. a2 <= a3 /\ b2 <= b3 /\ c2 <= c3
  BY <1>3, <1>4, Zenon DEF Leads
<1>7. a1 <= a3 /\ b1 <= b3 /\ c1 <= c3
  BY ONLY <1>5, <1>6, a1 \in Nat, b1 \in Nat, c1 \in Nat, a2 \in Nat, b2 \in Nat, c2 \in Nat,
          a3 \in Nat, b3 \in Nat, c3 \in Nat
<1>8. Keeps(o, q)
  <2>1. Keeps(o, p) /\ Keeps(p, q)
    BY Zenon DEF Leads
  <2> QED
    BY ONLY <2>1 DEF Keeps
<1> QED
  BY <1>1, <1>2, <1>4, <1>7, <1>8, Zenon DEF Leads

LEMMA LeadsIds ==
  ASSUME NEW o, NEW p, Good(o), Leads(o, p)
  PROVE  /\ StringIds(o) \subseteq StringIds(p)
         /\ LocationIds(o) \subseteq LocationIds(p)
         /\ Existing(o) \subseteq Existing(p)
         /\ Existing(p) \subseteq LocationIds(p)
<1>1. PICK a1 \in Nat, b1 \in Nat : a1 = Len(o.strings) /\ b1 = Len(o.locations)
  BY GoodSizes
<1>2. PICK a2 \in Nat, b2 \in Nat : a2 = Len(p.strings) /\ b2 = Len(p.locations)
  BY GoodSizes DEF Leads
<1>3. a1 <= a2 /\ b1 <= b2
  BY <1>1, <1>2, Zenon DEF Leads
<1>4. /\ StringIds(o) = -1 .. a1 - 1 /\ StringIds(p) = -1 .. a2 - 1
      /\ LocationIds(o) = -1 .. b1 - 1 /\ LocationIds(p) = -1 .. b2 - 1
      /\ Existing(o) = 0 .. b1 - 1 /\ Existing(p) = 0 .. b2 - 1
  BY <1>1, <1>2, Zenon DEF StringIds, LocationIds, Existing
<1>5. /\ -1 .. a1 - 1 \subseteq -1 .. a2 - 1
      /\ -1 .. b1 - 1 \subseteq -1 .. b2 - 1
      /\ 0 .. b1 - 1 \subseteq 0 .. b2 - 1
      /\ 0 .. b2 - 1 \subseteq -1 .. b2 - 1
  BY ONLY <1>3, a1 \in Nat, b1 \in Nat, a2 \in Nat, b2 \in Nat
<1> QED
  BY ONLY <1>4, <1>5, Zenon

LEMMA StringIsIn ==
  ASSUME NEW o, Good(o), NEW s
  PROVE  lookupString(o, s) \in StringIds(o)
BY GoodSizes DEF lookupString, IdIn, None, StringIds

LEMMA LocationIsIn ==
  ASSUME NEW o, Good(o), NEW l
  PROVE  lookupLocation(o, l) \in LocationIds(o)
BY GoodSizes DEF lookupLocation, IdIn, None, LocationIds

LEMMA FoundExists ==
  ASSUME NEW o, Good(o), NEW l, lookupLocation(o, l) # None
  PROVE  lookupLocation(o, l) \in Existing(o)
BY GoodSizes DEF lookupLocation, IdIn, None, Existing

\* What a buffer of ids that exist names.
LEMMA BufferLemma ==
  ASSUME NEW type, NEW id, NEW strings, NEW locations, NEW s \in Nat, NEW l \in Nat, NEW a \in Nat,
         strings \subseteq -1 .. s - 1, locations \subseteq -1 .. l - 1,
         type = "StringDefinition" => id = s,
         type = "LocationDefinition" => id = l,
         type = "AttributesDefinition" => id = a
  PROVE  MayFollow(Buffer(type, id, strings, locations), s, l, a)
         /\ Buffer(type, id, strings, locations).type = type
<1>1. strings \ {None} \subseteq 0 .. s - 1 /\ locations \ {None} \subseteq 0 .. l - 1
  BY DEF None
<1> QED
  BY <1>1 DEF MayFollow, Buffer

\* A buffer that defines nothing.
LEMMA sendBufferLemma ==
  ASSUME NEW o, Good(o), NEW b, b.type \notin Definition,
         MayFollow(b, Len(o.strings), Len(o.locations), o.attributes)
  PROVE  /\ Leads(o, sendBuffer(o, b))
         /\ sendBuffer(o, b).strings = o.strings /\ sendBuffer(o, b).locations = o.locations
         /\ sendBuffer(o, b).attributes = o.attributes
<1> DEFINE p == sendBuffer(o, b)
<1>1. /\ DOMAIN p = DOMAIN o /\ p = [f \in DOMAIN p |-> p[f]]
      /\ p.strings = o.strings /\ p.locations = o.locations /\ p.symbols = o.symbols
      /\ p.attributes = o.attributes /\ p.stream = Append(o.stream, b)
  BY DEF sendBuffer, Good
<1> HIDE DEF p
<1>2. PICK s, l, a : s = Len(o.strings) /\ l = Len(o.locations) /\ a = o.attributes
  OBVIOUS
<1>3. Stream(o.stream, s, l, a) /\ s \in Nat /\ l \in Nat /\ a \in Nat
  BY <1>2, GoodSizes DEF Good
<1>4. Stream(Append(o.stream, b), s, l, a)
  <2>1. s = s + (IF b.type = "StringDefinition" THEN 1 ELSE 0)
    BY <1>3 DEF Definition
  <2>2. l = l + (IF b.type = "LocationDefinition" THEN 1 ELSE 0)
    BY <1>3 DEF Definition
  <2>3. a = a + (IF b.type = "AttributesDefinition" THEN 1 ELSE 0)
    BY <1>3 DEF Definition
  <2>4. MayFollow(b, s, l, a)
    BY <1>2
  <2> QED
    BY ONLY <1>3, <2>1, <2>2, <2>3, <2>4, AppendFollows
<1>5. OneIdEach(p) /\ Keeps(o, p)
  BY <1>1, SameIds DEF Good
<1>6. Good(p)
  BY <1>1, <1>2, <1>4, <1>5 DEF Good
<1>7. Leads(o, p)
  BY <1>1, <1>2, <1>3, <1>5, <1>6 DEF Leads
<1> QED
  BY <1>1, <1>7 DEF p

\* What resolveString and resolveLocation evaluate their argument for.
LEMMA resolveStringIs ==
  ASSUME NEW output_, NEW string
  PROVE  resolveString(output_, string) =
           IF string = <<>> \/ lookupString(output_, string) # None THEN output_
           ELSE sendString([output_ EXCEPT !.strings = Append(@, string)], Len(output_.strings))
BY DEF resolveString, With

LEMMA resolveLocationIs ==
  ASSUME NEW output_, NEW location
  PROVE  resolveLocation(output_, location) =
           IF lookupLocation(output_, location) # None THEN output_
           ELSE sendLocation([output_ EXCEPT !.locations = Append(@, location)],
                             Len(output_.locations), location)
BY DEF resolveLocation, With

LEMMA resolveSymbolIs ==
  ASSUME NEW output_, NEW id, NEW symbol
  PROVE  resolveSymbol(output_, id, symbol) =
           sendSymbol([output_ EXCEPT !.symbols = insert(@, id, symbol)], id, symbol)
BY DEF resolveSymbol, With

LEMMA AppendKeeps ==
  ASSUME NEW S, NEW s \in Seq(S), NEW e, NEW n, n = Len(s)
  PROVE  /\ DOMAIN s = 1 .. n /\ DOMAIN Append(s, e) = 1 .. n + 1
         /\ Append(s, e)[n + 1] = e
         /\ \A i \in 1 .. n : Append(s, e)[i] = s[i]
<1>1. s \in Seq(S \cup {e}) /\ e \in S \cup {e}
  OBVIOUS
<1> QED
  BY <1>1

\* What has no id is not in the table.
LEMMA NoneFound ==
  ASSUME NEW o, Good(o)
  PROVE  /\ \A s : lookupString(o, s) = None =>
              \A i \in DOMAIN o.strings : o.strings[i] # s
         /\ \A l : lookupLocation(o, l) = None =>
              \A i \in DOMAIN o.locations : ~SameLocation(o.locations[i], l)
<1>1. \A i \in DOMAIN o.strings : i \in Nat \ {0}
  BY GoodSizes
<1>2. \A i \in DOMAIN o.locations : i \in Nat \ {0}
  BY GoodSizes
<1>3. \A i \in Nat \ {0} : i - 1 # -1
  OBVIOUS
<1>4. ASSUME NEW s, NEW i \in DOMAIN o.strings, o.strings[i] = s
      PROVE  lookupString(o, s) # None
  BY <1>1, <1>3, <1>4 DEF lookupString, IdIn, None
<1>5. ASSUME NEW l, NEW i \in DOMAIN o.locations, SameLocation(o.locations[i], l)
      PROVE  lookupLocation(o, l) # None
  BY <1>2, <1>3, <1>5 DEF lookupLocation, IdIn, None
<1> QED
  BY <1>4, <1>5

LEMMA AppendIsSeq ==
  ASSUME NEW s, NEW S, s \in Seq(S), NEW e
  PROVE  /\ \E T : Append(s, e) \in Seq(T)
         /\ Len(Append(s, e)) = Len(s) + 1
         /\ Append(s, e)[Len(s) + 1] = e
         /\ Len(s) \in Nat
<1>1. s \in Seq(S \cup {e}) /\ e \in S \cup {e}
  OBVIOUS
<1>2. Append(s, e) \in Seq(S \cup {e})
  BY <1>1
<1> QED
  BY <1>2

LEMMA resolveStringLemma ==
  ASSUME NEW o, Good(o), NEW string
  PROVE  /\ Leads(o, resolveString(o, string))
         /\ resolveString(o, string).locations = o.locations
         /\ resolveString(o, string).attributes = o.attributes
<1>1. CASE string = <<>> \/ lookupString(o, string) # None
  BY <1>1, resolveStringIs, LeadsReflexive
<1>2. CASE ~(string = <<>> \/ lookupString(o, string) # None)
  <2> DEFINE n == Len(o.strings)
             q == [o EXCEPT !.strings = Append(@, string)]
             b == Buffer("StringDefinition", n, {}, {})
             p == sendBuffer(q, b)
  <2>1. resolveString(o, string) = p
    BY <1>2, resolveStringIs DEF sendString
  <2>2. PICK S : o.strings \in Seq(S)
    BY DEF Good
  <2>3. (\E T : Append(o.strings, string) \in Seq(T)) /\ Len(Append(o.strings, string)) = n + 1
    BY <2>2, AppendIsSeq
  <2>4. PICK l, a : l = Len(o.locations) /\ a = o.attributes
    OBVIOUS
  <2>5. Stream(o.stream, n, l, a) /\ n \in Nat /\ l \in Nat /\ a \in Nat
    BY <2>4, GoodSizes DEF Good
  <2>6. MayFollow(b, n, l, a) /\ b.type = "StringDefinition"
    BY <2>5, BufferLemma
  <2> HIDE DEF b
  <2>7. /\ DOMAIN p = DOMAIN o /\ p = [f \in DOMAIN p |-> p[f]]
        /\ p.strings = Append(o.strings, string) /\ p.locations = o.locations
        /\ p.symbols = o.symbols /\ p.attributes = o.attributes
        /\ p.stream = Append(o.stream, b)
    BY DEF sendBuffer, Good
  <2> HIDE DEF n, p
  <2>8. Stream(Append(o.stream, b), n + 1, l, a)
    <3>1. n + 1 = n + (IF b.type = "StringDefinition" THEN 1 ELSE 0)
      BY <2>6
    <3>2. l = l + (IF b.type = "LocationDefinition" THEN 1 ELSE 0)
      BY <2>5, <2>6
    <3>3. a = a + (IF b.type = "AttributesDefinition" THEN 1 ELSE 0)
      BY <2>5, <2>6
    <3> QED
      BY ONLY <2>5, <2>6, <3>1, <3>2, <3>3, AppendFollows
  <2>9. n = Len(o.strings)
    BY DEF n
  <2>10. OneIdEach(p) /\ Keeps(o, p)
    <3>1. /\ DOMAIN o.strings = 1 .. n /\ DOMAIN p.strings = 1 .. n + 1
          /\ p.strings[n + 1] = string /\ \A i \in 1 .. n : p.strings[i] = o.strings[i]
      BY <2>2, <2>5, <2>7, <2>9, AppendKeeps
    <3>2. string # <<>> /\ \A i \in DOMAIN o.strings : o.strings[i] # string
      <4>1. lookupString(o, string) = None
        BY <1>2
      <4> QED
        BY <1>2, <4>1, NoneFound
    <3> QED
      BY <2>5, <2>7, <3>1, <3>2 DEF Good, OneIdEach, Keeps
  <2>11. Good(p)
    BY <2>3, <2>4, <2>7, <2>8, <2>10 DEF Good
  <2>12. Leads(o, p)
    BY <2>3, <2>4, <2>5, <2>7, <2>9, <2>10, <2>11 DEF Leads
  <2> QED
    BY <2>1, <2>7, <2>12
<1> QED
  BY <1>1, <1>2

\* Its file and the location that it is inlined into are defined.
MayDefine(o, location) ==
  /\ location.file \in StringIds(o) /\ location.parentLocationId \in LocationIds(o)
  /\ DOMAIN location = Fields

LEMMA resolveLocationLemma ==
  ASSUME NEW o, Good(o), NEW location, MayDefine(o, location)
  PROVE  /\ Leads(o, resolveLocation(o, location))
         /\ resolveLocation(o, location).strings = o.strings
         /\ lookupLocation(resolveLocation(o, location), location)
              \in Existing(resolveLocation(o, location))
<1>1. CASE lookupLocation(o, location) # None
  BY <1>1, resolveLocationIs, LeadsReflexive, FoundExists
<1>2. CASE lookupLocation(o, location) = None
  <2> DEFINE n == Len(o.locations)
             q == [o EXCEPT !.locations = Append(@, location)]
             b == Buffer("LocationDefinition", n, {location.file}, {location.parentLocationId})
             p == sendBuffer(q, b)
  <2>1. resolveLocation(o, location) = p
    BY <1>2, resolveLocationIs DEF sendLocation
  <2>2. PICK S : o.locations \in Seq(S)
    BY DEF Good
  <2>3. (\E T : Append(o.locations, location) \in Seq(T))
        /\ Len(Append(o.locations, location)) = n + 1
        /\ Append(o.locations, location)[n + 1] = location
    BY <2>2, AppendIsSeq
  <2>4. PICK s, a : s = Len(o.strings) /\ a = o.attributes
    OBVIOUS
  <2>5. Stream(o.stream, s, n, a) /\ s \in Nat /\ n \in Nat /\ a \in Nat
    BY <2>4, GoodSizes DEF Good
  <2>6. MayFollow(b, s, n, a) /\ b.type = "LocationDefinition"
    <3>1. {location.file} \subseteq -1 .. s - 1 /\ {location.parentLocationId} \subseteq -1 .. n - 1
      BY <2>4 DEF MayDefine, StringIds, LocationIds
    <3> QED
      BY <2>5, <3>1, BufferLemma
  <2> HIDE DEF b
  <2>7. /\ DOMAIN p = DOMAIN o /\ p = [f \in DOMAIN p |-> p[f]]
        /\ p.locations = Append(o.locations, location) /\ p.strings = o.strings
        /\ p.symbols = o.symbols /\ p.attributes = o.attributes
        /\ p.stream = Append(o.stream, b)
    BY DEF sendBuffer, Good
  <2> HIDE DEF p
  <2>8. Stream(Append(o.stream, b), s, n + 1, a)
    <3> HIDE DEF n
    <3>1. n + 1 = n + (IF b.type = "LocationDefinition" THEN 1 ELSE 0)
      BY <2>6
    <3>2. s = s + (IF b.type = "StringDefinition" THEN 1 ELSE 0)
      BY <2>5, <2>6
    <3>3. a = a + (IF b.type = "AttributesDefinition" THEN 1 ELSE 0)
      BY <2>5, <2>6
    <3> QED
      BY ONLY <2>5, <2>6, <3>1, <3>2, <3>3, AppendFollows
  <2>9. OneIdEach(p) /\ Keeps(o, p)
    <3>1. /\ DOMAIN o.locations = 1 .. n /\ DOMAIN p.locations = 1 .. n + 1
          /\ p.locations[n + 1] = location
          /\ \A i \in 1 .. n : p.locations[i] = o.locations[i]
      BY <2>2, <2>7, AppendKeeps
    <3>2. DOMAIN location = Fields
      BY DEF MayDefine
    <3>3. \A i \in 1 .. n : /\ DOMAIN o.locations[i] = Fields
                           /\ ~SameLocation(o.locations[i], location)
                           /\ ~SameLocation(location, o.locations[i])
      <4>1. \A i \in 1 .. n : DOMAIN o.locations[i] = Fields
        BY <3>1 DEF Good, OneIdEach
      <4>2. \A i \in 1 .. n : ~SameLocation(o.locations[i], location)
        BY <1>2, <3>1, NoneFound
      <4> QED
        BY <3>2, <4>1, <4>2 DEF SameLocation
    <3>4. n \in Nat /\ OneIdEach(o)
      BY <2>5 DEF Good
    <3> HIDE DEF n
    <3>5. \A i, j \in 1 .. n + 1 :
            SameLocation(p.locations[i], p.locations[j]) => i = j
      <4>1. \A i \in 1 .. n + 1 : i \in 1 .. n \/ i = n + 1
        BY <3>4
      <4>2. \A i, j \in 1 .. n : SameLocation(o.locations[i], o.locations[j]) => i = j
        BY <3>1, <3>4 DEF OneIdEach
      <4> QED
        BY ONLY <3>1, <3>3, <4>1, <4>2
    <3>6. \A i \in 1 .. n + 1 : DOMAIN p.locations[i] = Fields
      BY <3>1, <3>2, <3>3, <3>4
    <3>7. OneIdEach(p)
      BY <2>7, <3>1, <3>4, <3>5, <3>6 DEF OneIdEach
    <3>8. Keeps(o, p)
      BY <2>7, <3>1, <3>4 DEF Keeps
    <3> QED
      BY <3>7, <3>8
  <2>10. Good(p)
    <3>1. DOMAIN p.symbols \subseteq 0 .. n
      BY <2>5, <2>7 DEF Good
    <3>2. Len(p.locations) = n + 1 /\ (n + 1) - 1 = n
      BY <2>3, <2>5, <2>7
    <3> HIDE DEF n
    <3> QED
      BY <2>3, <2>4, <2>7, <2>8, <2>9, <3>1, <3>2 DEF Good
  <2>11. Leads(o, p)
    BY <2>3, <2>4, <2>5, <2>7, <2>10, <2>9 DEF Leads
  <2>12. lookupLocation(p, location) # None
    <3>1. DOMAIN p.locations = 1 .. n + 1 /\ p.locations[n + 1] = location /\ n + 1 \in 1 .. n + 1
      BY <2>3, <2>5, <2>7, <2>10, GoodSizes
    <3>2. SameLocation(location, location)
      BY DEF SameLocation
    <3> HIDE DEF n
    <3>3. \E i \in DOMAIN p.locations : SameLocation(p.locations[i], location)
      BY <3>1, <3>2
    <3>4. \A i \in DOMAIN p.locations : i - 1 # -1
      BY <3>1, <2>5
    <3> QED
      BY <3>3, <3>4 DEF lookupLocation, IdIn, None
  <2> QED
    BY <2>1, <2>7, <2>10, <2>11, <2>12, FoundExists
<1> QED
  BY <1>1, <1>2
LEMMA MayNameLemma ==
  ASSUME NEW o, Good(o), NEW strings, strings \subseteq StringIds(o),
         NEW locations, locations \subseteq LocationIds(o), NEW type, type \notin Definition, NEW id
  PROVE  /\ MayFollow(Buffer(type, id, strings, locations), Len(o.strings), Len(o.locations),
                      o.attributes)
         /\ Buffer(type, id, strings, locations).type \notin Definition
BY GoodSizes, BufferLemma DEF StringIds, LocationIds, Definition

\* The ids of a symbol.
MayName(o, symbol) ==
  {symbol.name, symbol.binary, symbol.path, symbol.actualPath} \subseteq StringIds(o)

LEMMA resolveSymbolLemma ==
  ASSUME NEW o, Good(o), NEW id \in Existing(o), NEW symbol, MayName(o, symbol)
  PROVE  /\ Leads(o, resolveSymbol(o, id, symbol))
         /\ resolveSymbol(o, id, symbol).strings = o.strings
         /\ resolveSymbol(o, id, symbol).locations = o.locations
<1> DEFINE q == [o EXCEPT !.symbols = insert(@, id, symbol)]
           b == Buffer("SymbolDefinition", id,
                  {symbol.name, symbol.binary, symbol.path, symbol.actualPath}, {id})
<1>1. resolveSymbol(o, id, symbol) = sendBuffer(q, b)
  BY resolveSymbolIs DEF sendSymbol
<1>2. /\ DOMAIN q = DOMAIN o /\ q = [f \in DOMAIN q |-> q[f]]
      /\ q.strings = o.strings /\ q.locations = o.locations /\ q.attributes = o.attributes
      /\ q.stream = o.stream /\ DOMAIN q.symbols = DOMAIN o.symbols \cup {id}
  BY DEF Good, insert
<1> HIDE DEF q
<1>3. OneIdEach(q) /\ Keeps(o, q)
  BY <1>2, SameIds DEF Good
<1>4. Good(q)
  BY <1>2, <1>3 DEF Good, Existing
<1>5. {id} \subseteq LocationIds(q)
        /\ {symbol.name, symbol.binary, symbol.path, symbol.actualPath} \subseteq StringIds(q)
  BY <1>2, GoodSizes DEF MayName, Existing, LocationIds, StringIds
<1>6. MayFollow(b, Len(q.strings), Len(q.locations), q.attributes) /\ b.type \notin Definition
  <2>1. "SymbolDefinition" \notin Definition
    BY DEF Definition
  <2> QED
    BY <1>4, <1>5, <2>1, MayNameLemma
<1> HIDE DEF b
<1>7. Leads(q, sendBuffer(q, b)) /\ sendBuffer(q, b).strings = q.strings
      /\ sendBuffer(q, b).locations = q.locations
  BY <1>4, <1>6, sendBufferLemma
<1>8. Leads(o, q)
  BY <1>2, <1>4, <1>3, GoodSizes DEF Leads
<1>9. Leads(o, sendBuffer(q, b))
  BY <1>7, <1>8, LeadsTransitive
<1> QED
  BY <1>1, <1>2, <1>7, <1>9

LEMMA sendErrorLemma ==
  ASSUME NEW o, Good(o)
  PROVE  Leads(o, sendError(o))
<1>1. "Error" \notin Definition
  BY DEF Definition
<1> QED
  BY <1>1, MayNameLemma, sendBufferLemma DEF sendError

LEMMA sendTaskEventLemma ==
  ASSUME NEW o, Good(o), NEW name
  PROVE  Leads(o, sendTaskEvent(o, name))
<1>1. "Command" \notin Definition
  BY DEF Definition
<1>2. {lookupString(o, name)} \subseteq StringIds(o)
  BY StringIsIn
<1> QED
  BY <1>1, <1>2, MayNameLemma, sendBufferLemma DEF sendTaskEvent

LEMMA sendAttributesLemma ==
  ASSUME NEW o, Good(o), NEW name
  PROVE  Leads(o, sendAttributes(o, name))
<1> DEFINE named == resolveString(o, name)
           id    == lookupString(named, name)
           b     == Buffer("AttributesDefinition", o.attributes, {id}, {})
           q     == [named EXCEPT !.attributes = @ + 1]
           p     == sendBuffer(q, b)
<1>1. sendAttributes(o, name) = p
  BY DEF sendAttributes, With
<1>2. Leads(o, named) /\ named.attributes = o.attributes /\ Good(named)
  BY resolveStringLemma DEF Leads
<1>3. id \in StringIds(named)
  BY <1>2, StringIsIn
<1> HIDE DEF named, id
<1>4. PICK s, l, a : s = Len(named.strings) /\ l = Len(named.locations) /\ a = named.attributes
  OBVIOUS
<1>5. Stream(named.stream, s, l, a) /\ s \in Nat /\ l \in Nat /\ a \in Nat
  BY <1>2, <1>4, GoodSizes DEF Good
<1>6. MayFollow(b, s, l, a) /\ b.type = "AttributesDefinition"
  <2>1. {id} \subseteq -1 .. s - 1
    BY <1>3, <1>4 DEF StringIds
  <2> QED
    BY <1>2, <1>4, <1>5, <2>1, BufferLemma
<1> HIDE DEF b
<1>7. /\ DOMAIN p = DOMAIN named /\ p = [f \in DOMAIN p |-> p[f]]
      /\ p.strings = named.strings /\ p.locations = named.locations
      /\ p.symbols = named.symbols /\ p.attributes = a + 1
      /\ p.stream = Append(named.stream, b)
  BY <1>2, <1>4 DEF sendBuffer, Good
<1> HIDE DEF p
<1>8. Stream(Append(named.stream, b), s, l, a + 1)
  <2>1. a + 1 = a + (IF b.type = "AttributesDefinition" THEN 1 ELSE 0)
    BY <1>6
  <2>2. l = l + (IF b.type = "LocationDefinition" THEN 1 ELSE 0)
    BY <1>5, <1>6
  <2>3. s = s + (IF b.type = "StringDefinition" THEN 1 ELSE 0)
    BY <1>5, <1>6
  <2> QED
    BY ONLY <1>5, <1>6, <2>1, <2>2, <2>3, AppendFollows
<1>9. OneIdEach(p) /\ Keeps(named, p)
  BY <1>2, <1>7, SameIds DEF Good
<1>10. Good(p)
  BY <1>2, <1>4, <1>7, <1>8, <1>9 DEF Good
<1>11. Leads(named, p)
  BY <1>4, <1>5, <1>7, <1>9, <1>10 DEF Leads
<1> QED
  BY <1>1, <1>2, <1>11, LeadsTransitive

LEMMA sendSampleLemma ==
  ASSUME NEW o, Good(o), NEW frames, frames \subseteq Existing(o),
         NEW attribute \in {None} \cup 0 .. o.attributes - 1, NEW fields
  PROVE  Leads(o, sendSample(o, frames, attribute, fields))
<1> DEFINE strings == {lookupString(o, f) : f \in ToSet(fields)}
           plain   == Buffer("Sample", None, strings, frames)
           b       == [plain EXCEPT !.attributes = {attribute} \ {None}]
<1>1. strings \subseteq StringIds(o) /\ frames \subseteq LocationIds(o)
  BY StringIsIn DEF Existing, LocationIds
<1>2. "Sample" \notin Definition
  BY DEF Definition
<1> HIDE DEF strings
<1>3. MayFollow(plain, Len(o.strings), Len(o.locations), o.attributes)
      /\ plain.type \notin Definition
  BY <1>1, <1>2, MayNameLemma
<1>4. /\ b.strings = plain.strings /\ b.locations = plain.locations /\ b.type = plain.type
      /\ b.id = plain.id /\ b.attributes = {attribute} \ {None}
  BY DEF Buffer
<1>5. {attribute} \ {None} \subseteq 0 .. o.attributes - 1
  OBVIOUS
<1> HIDE DEF plain
<1>6. sendSample(o, frames, attribute, fields) = sendBuffer(o, b)
  BY DEF sendSample, plain, strings
<1> HIDE DEF b
<1>7. MayFollow(b, Len(o.strings), Len(o.locations), o.attributes) /\ b.type \notin Definition
  BY <1>3, <1>4, <1>5 DEF MayFollow
<1> QED
  BY <1>6, <1>7, sendBufferLemma

-----------------------------------------------------------------------------
(***************************************************************************)
(* Loops.  A recursive function over 0 .. n has the value that its         *)
(* definition says, because one for 0 .. k extends to one for 0 .. k + 1.  *)
(***************************************************************************)
LEMMA Induction ==
  ASSUME NEW n \in Nat, NEW T, 0 \in T, \A k \in 1 .. n : k - 1 \in T => k \in T
  PROVE  \A k \in 0 .. n : k \in T
<1> DEFINE bad == {k \in 0 .. n : k \notin T}
<1> SUFFICES ASSUME bad # {} PROVE FALSE
  OBVIOUS
<1>1. bad \subseteq Nat
  OBVIOUS
<1>2. PICK m \in bad : \A k \in bad : ~(k < m)
  <2>1. PICK m \in bad : \A k \in bad : ~(<<k, m>> \in OpToRel(<, Nat))
    BY <1>1, NatLessThanWellFounded, WFMin
  <2>2. \A k \in bad : k < m => <<k, m>> \in OpToRel(<, Nat)
    BY <1>1 DEF OpToRel
  <2> QED
    BY <2>1, <2>2
<1>3. m # 0 /\ m \in 1 .. n
  BY <1>2
<1>4. m - 1 \in 0 .. n /\ m - 1 < m
  BY <1>3
<1>5. m - 1 \in T
  BY <1>2, <1>4
<1> QED
  BY <1>2, <1>3, <1>5

\* Up to m, f is what resolveStrings evaluates.
Resolving(o, strings, f, m) ==
  f = [k \in 0 .. m |-> IF k = 0 THEN o ELSE resolveString(f[k - 1], strings[k])]

LEMMA ResolvingExists ==
  ASSUME NEW o, NEW strings, NEW n \in Nat
  PROVE  \E f : Resolving(o, strings, f, n)
<1> DEFINE T == {m \in 0 .. n : \E f : Resolving(o, strings, f, m)}
<1>1. 0 \in T
  <2> DEFINE f == [k \in 0 .. 0 |-> o]
  <2>1. Resolving(o, strings, f, 0)
    BY DEF Resolving
  <2> QED
    BY <2>1
<1>2. ASSUME NEW m \in 1 .. n, m - 1 \in T
      PROVE  m \in T
  <2>1. PICK f : Resolving(o, strings, f, m - 1)
    BY <1>2
  <2> DEFINE g == [k \in 0 .. m |-> IF k = m THEN resolveString(f[m - 1], strings[m]) ELSE f[k]]
  <2>2. Resolving(o, strings, g, m)
    <3>1. ASSUME NEW k \in 0 .. m
          PROVE  g[k] = IF k = 0 THEN o ELSE resolveString(g[k - 1], strings[k])
      <4>1. CASE k = m
        <5>1. g[k] = resolveString(f[m - 1], strings[m]) /\ g[m - 1] = f[m - 1] /\ k # 0
          BY <4>1
        <5> QED
          BY <4>1, <5>1
      <4>2. CASE k # m
        <5>1. k \in 0 .. m - 1 /\ g[k] = f[k]
          BY <4>2
        <5>2. k # 0 => g[k - 1] = f[k - 1]
          BY <5>1
        <5>3. f[k] = IF k = 0 THEN o ELSE resolveString(f[k - 1], strings[k])
          BY <2>1, <5>1 DEF Resolving
        <5> QED
          BY <5>1, <5>2, <5>3
      <4> QED
        BY <4>1, <4>2
    <3>2. g = [k \in 0 .. m |-> g[k]]
      OBVIOUS
    <3> HIDE DEF g
    <3>3. g = [k \in 0 .. m |-> IF k = 0 THEN o ELSE resolveString(g[k - 1], strings[k])]
      BY <3>1, <3>2
    <3> QED
      BY <3>3 DEF Resolving
  <2> QED
    BY <2>2
<1> HIDE DEF T
<1>3. n \in T
  BY <1>1, <1>2, Induction
<1> QED
  BY <1>3 DEF T

LEMMA resolveStringsLemma ==
  ASSUME NEW o, Good(o), NEW S, NEW strings \in Seq(S)
  PROVE  Leads(o, resolveStrings(o, strings))
<1>1. PICK n \in Nat : n = Len(strings)
  OBVIOUS
<1> DEFINE upTo == CHOOSE f : Resolving(o, strings, f, n)
<1>2. resolveStrings(o, strings) = upTo[n]
  BY <1>1 DEF resolveStrings, Resolving
<1>3. Resolving(o, strings, upTo, n)
  BY ResolvingExists
<1> HIDE DEF upTo
<1> PICK f : f = upTo
  OBVIOUS
<1>4. f[0] = o /\ \A k \in 1 .. n : f[k] = resolveString(f[k - 1], strings[k])
  BY <1>3 DEF Resolving
<1> DEFINE T == {k \in 0 .. n : Leads(o, f[k])}
<1>5. 0 \in T
  BY <1>4, LeadsReflexive
<1>6. ASSUME NEW k \in 1 .. n, k - 1 \in T
      PROVE  k \in T
  <2>1. Leads(o, f[k - 1]) /\ Good(f[k - 1])
    BY <1>6 DEF Leads
  <2>2. Leads(f[k - 1], f[k])
    BY <1>4, <2>1, resolveStringLemma
  <2> QED
    BY <2>1, <2>2, LeadsTransitive
<1> HIDE DEF T
<1>7. \A k \in 0 .. n : k \in T
  BY ONLY <1>5, <1>6, Induction
<1>8. n \in T
  BY <1>7
<1> QED
  BY <1>2, <1>8 DEF T

LEMMA sendEventFormatLemma ==
  ASSUME NEW o, Good(o), NEW format, format.fields \in Seq(ToSet(format.fields))
  PROVE  Leads(o, sendEventFormat(o, format))
<1> DEFINE strings == <<format.system, format.name>> \o format.fields
           named   == resolveStrings(o, strings)
           ids     == {lookupString(named, format.system), lookupString(named, format.name)}
           b       == Buffer("TracePointFormat", format.id, ids, {})
<1>1. sendEventFormat(o, format) = sendBuffer(named, b)
  BY DEF sendEventFormat, With
<1>2. \E S : strings \in Seq(S)
  <2> DEFINE S == ToSet(format.fields) \cup {format.system, format.name}
  <2>1. format.fields \in Seq(S) /\ <<format.system, format.name>> \in Seq(S)
    OBVIOUS
  <2> HIDE DEF S
  <2>2. strings \in Seq(S)
    BY <2>1
  <2> QED
    BY <2>2
<1> HIDE DEF strings
<1>3. Leads(o, named) /\ Good(named)
  BY <1>2, resolveStringsLemma DEF Leads
<1> HIDE DEF named
<1>4. ids \subseteq StringIds(named)
  BY <1>3, StringIsIn
<1>5. "TracePointFormat" \notin Definition
  BY DEF Definition
<1> HIDE DEF ids
<1>6. MayFollow(b, Len(named.strings), Len(named.locations), named.attributes)
      /\ b.type \notin Definition
  BY <1>3, <1>4, <1>5, MayNameLemma
<1> HIDE DEF b
<1>7. Leads(named, sendBuffer(named, b))
  BY <1>3, <1>6, sendBufferLemma
<1> QED
  BY <1>1, <1>3, <1>7, LeadsTransitive
-----------------------------------------------------------------------------
(***************************************************************************)
(* Functions with debug information.                                       *)
(***************************************************************************)
HasIds(o, c) == {c.ids[1], c.ids[2], c.ids[3]} \subseteq StringIds(o)

LEMMA SymbolAsLemma ==
  ASSUME NEW o, NEW c, HasIds(o, c), NEW name \in StringIds(o), NEW isInline
  PROVE  MayName(o, SymbolAs(c, name, isInline))
BY DEF SymbolAs, MayName, HasIds

LEMMA HasIdsLemma ==
  ASSUME NEW o, NEW p, NEW c, Good(o), Leads(o, p), HasIds(o, c)
  PROVE  HasIds(p, c)
BY LeadsIds DEF HasIds

LEMMA LocationLemma ==
  ASSUME NEW o, NEW address, NEW relAddr, NEW file \in StringIds(o), NEW pid, NEW line,
         NEW parent \in LocationIds(o)
  PROVE  MayDefine(o, Location(address, relAddr, file, pid, line, parent))
BY DEF MayDefine, Location, Fields

\* What the loop over inlined functions hands on.
Accumulates(acc) ==
  /\ acc = [output |-> acc.output, names |-> acc.names, parent |-> acc.parent]
  /\ Good(acc.output)
  /\ acc.parent \in LocationIds(acc.output)

\* A function and its location are sent.
Inserted(o, acc) ==
  Accumulates(acc) /\ Leads(o, acc.output) /\ acc.parent \in Existing(acc.output)

LEMMA PlaceLemma ==
  ASSUME NEW o, Good(o), NEW c, NEW d, NEW source, NEW relAddr, NEW parent \in LocationIds(o)
  PROVE  LET place == Place(o, c, d, source, relAddr, parent)
         IN  Good(place.output) /\ Leads(o, place.output) /\ MayDefine(place.output, place.at)
<1> DEFINE p  == resolveString(o, source.file)
           at == Location(EntryPc(c.dies[d]) + c.bias, relAddr, lookupString(p, source.file),
                          c.pid, source.line, parent)
<1>1. Place(o, c, d, source, relAddr, parent) = [output |-> p, at |-> at]
  BY DEF Place, With
<1>2. Leads(o, p) /\ Good(p)
  BY resolveStringLemma DEF Leads
<1>3. lookupString(p, source.file) \in StringIds(p) /\ parent \in LocationIds(p)
  BY <1>2, StringIsIn, LeadsIds
<1>4. MayDefine(p, at)
  BY <1>3, LocationLemma
<1> HIDE DEF p, at
<1> QED
  BY <1>1, <1>2, <1>4

LEMMA insertSubprogramLemma ==
  ASSUME NEW acc, Good(acc.output), NEW c, HasIds(acc.output, c), NEW d,
         NEW call \in LocationIds(acc.output), NEW isInline
  PROVE  Inserted(acc.output, insertSubprogram(acc, c, d, call, isInline))
<1>1. PICK place : place = Place(acc.output, c, d, Decl(c, d), c.relAddr, call)
  OBVIOUS
<1>2. PICK named : named = dieName(c.dies, d, acc.names)
  OBVIOUS
<1> DEFINE there  == resolveLocation(place.output, place.at)
           o      == resolveString(there, named.name)
           id     == lookupLocation(o, place.at)
           symbol == SymbolAs(c, lookupString(o, named.name), isInline)
           final  == resolveSymbol(o, id, symbol)
<1>3. insertSubprogram(acc, c, d, call, isInline) =
        [output |-> final, names |-> named.cache, parent |-> id]
  BY <1>1, <1>2 DEF insertSubprogram, With
<1>4. Leads(acc.output, place.output) /\ Good(place.output) /\ MayDefine(place.output, place.at)
  BY <1>1, PlaceLemma
<1>5. Leads(place.output, there) /\ Good(there)
      /\ lookupLocation(there, place.at) \in Existing(there)
  BY <1>4, resolveLocationLemma DEF Leads
<1> HIDE DEF there
<1>6. Leads(there, o) /\ Good(o) /\ o.locations = there.locations
  BY <1>5, resolveStringLemma DEF Leads
<1>7. id \in Existing(o)
  BY <1>5, <1>6 DEF lookupLocation, IdIn, Existing
<1>8. Leads(acc.output, o)
  BY <1>4, <1>5, <1>6, LeadsTransitive
<1>9. MayName(o, symbol)
  BY <1>6, <1>8, StringIsIn, HasIdsLemma, SymbolAsLemma
<1> HIDE DEF o, id, symbol
<1>10. Leads(o, final) /\ Good(final)
  BY <1>6, <1>7, <1>9, resolveSymbolLemma DEF Leads
<1>11. Leads(acc.output, final) /\ id \in Existing(final) /\ id \in LocationIds(final)
  BY <1>6, <1>7, <1>8, <1>10, LeadsTransitive, LeadsIds
<1> HIDE DEF final
<1> QED
  BY <1>3, <1>10, <1>11 DEF Inserted, Accumulates

LEMMA insertInlinedLemma ==
  ASSUME NEW acc, Accumulates(acc), NEW c, HasIds(acc.output, c), NEW d
  PROVE  Inserted(acc.output, insertInlined(acc, c, d))
<1>0. Good(acc.output) /\ acc.parent \in LocationIds(acc.output)
  BY DEF Accumulates
<1>1. PICK call : call = CalledFrom(acc, c, d)
  OBVIOUS
<1> DEFINE q    == resolveLocation(call.output, call.at)
           next == [acc EXCEPT !.output = q]
<1>2. insertInlined(acc, c, d) = insertSubprogram(next, c, d, lookupLocation(q, call.at), TRUE)
  BY <1>1 DEF insertInlined, With
<1>3. Leads(acc.output, call.output) /\ Good(call.output) /\ MayDefine(call.output, call.at)
  BY <1>0, <1>1, PlaceLemma DEF CalledFrom
<1>4. Leads(call.output, q) /\ Good(q) /\ lookupLocation(q, call.at) \in LocationIds(q)
  BY <1>3, resolveLocationLemma, LocationIsIn DEF Leads
<1>5. Leads(acc.output, q)
  BY <1>0, <1>3, <1>4, LeadsTransitive
<1> HIDE DEF q
<1>6. next.output = q
  BY DEF Accumulates
<1> HIDE DEF next
<1>7. HasIds(q, c)
  BY <1>0, <1>5, HasIdsLemma
<1>8. Inserted(q, insertInlined(acc, c, d))
  BY <1>2, <1>4, <1>6, <1>7, insertSubprogramLemma
<1> QED
  BY <1>0, <1>5, <1>8, LeadsTransitive DEF Inserted

LEMMA parseDieIs ==
  ASSUME NEW parsed, NEW c, NEW d
  PROVE  parseDie(parsed, c, d) =
           IF c.dies[d].tag = "subprogram" THEN insertSubprogram(parsed, c, d, None, FALSE)
                                           ELSE insertInlined(parsed, c, d)
<1>1. CASE c.dies[d].tag = "subprogram"
  BY <1>1 DEF parseDie, With
<1>2. CASE c.dies[d].tag # "subprogram"
  BY <1>2 DEF parseDie, With
<1> QED
  BY <1>1, <1>2

LEMMA parseDieLemma ==
  ASSUME NEW acc, Accumulates(acc), NEW c, HasIds(acc.output, c), NEW d
  PROVE  Inserted(acc.output, parseDie(acc, c, d))
<1>1. Good(acc.output) /\ None \in LocationIds(acc.output)
  BY GoodSizes DEF Accumulates, None, LocationIds
<1> QED
  BY <1>1, parseDieIs, insertSubprogramLemma, insertInlinedLemma DEF Accumulates

\* Up to m, f is what parseDwarf evaluates.
Parsing(acc, c, subprogram, scopes, f, m) ==
  f = [k \in 0 .. m |-> IF k = 0 THEN parseDie(acc, c, subprogram)
                        ELSE parseDie(f[k - 1], c, scopes[k])]

LEMMA ParsingExists ==
  ASSUME NEW acc, NEW c, NEW subprogram, NEW scopes, NEW n \in Nat
  PROVE  \E f : Parsing(acc, c, subprogram, scopes, f, n)
<1> DEFINE T == {m \in 0 .. n : \E f : Parsing(acc, c, subprogram, scopes, f, m)}
           first == parseDie(acc, c, subprogram)
<1>1. 0 \in T
  <2> DEFINE f == [k \in 0 .. 0 |-> first]
  <2>1. Parsing(acc, c, subprogram, scopes, f, 0)
    BY DEF Parsing
  <2> QED
    BY <2>1
<1>2. ASSUME NEW m \in 1 .. n, m - 1 \in T
      PROVE  m \in T
  <2>1. PICK f : Parsing(acc, c, subprogram, scopes, f, m - 1)
    BY <1>2
  <2> DEFINE g == [k \in 0 .. m |-> IF k = m THEN parseDie(f[m - 1], c, scopes[m]) ELSE f[k]]
  <2>2. Parsing(acc, c, subprogram, scopes, g, m)
    <3>1. ASSUME NEW k \in 0 .. m
          PROVE  g[k] = IF k = 0 THEN first ELSE parseDie(g[k - 1], c, scopes[k])
      <4>1. CASE k = m
        <5>1. g[k] = parseDie(f[m - 1], c, scopes[m]) /\ g[m - 1] = f[m - 1] /\ k # 0
          BY <4>1
        <5> QED
          BY <4>1, <5>1
      <4>2. CASE k # m
        <5>1. k \in 0 .. m - 1 /\ g[k] = f[k]
          BY <4>2
        <5>2. k # 0 => g[k - 1] = f[k - 1]
          BY <5>1
        <5>3. f[k] = IF k = 0 THEN first ELSE parseDie(f[k - 1], c, scopes[k])
          BY <2>1, <5>1 DEF Parsing
        <5> QED
          BY <5>1, <5>2, <5>3
      <4> QED
        BY <4>1, <4>2
    <3>2. g = [k \in 0 .. m |-> g[k]]
      OBVIOUS
    <3> HIDE DEF g
    <3>3. g = [k \in 0 .. m |-> IF k = 0 THEN first ELSE parseDie(g[k - 1], c, scopes[k])]
      BY <3>1, <3>2
    <3> QED
      BY <3>3 DEF Parsing
  <2> QED
    BY <2>2
<1> HIDE DEF T
<1>3. n \in T
  BY <1>1, <1>2, Induction
<1> QED
  BY <1>3 DEF T

LEMMA parseDwarfLemma ==
  ASSUME NEW acc, Accumulates(acc), NEW c, HasIds(acc.output, c), NEW subprogram,
         NEW scopes, Len(scopes) \in Nat
  PROVE  Inserted(acc.output, parseDwarf(acc, c, subprogram, scopes))
<1>1. PICK n \in Nat : n = Len(scopes)
  OBVIOUS
<1> DEFINE parsed == CHOOSE f : Parsing(acc, c, subprogram, scopes, f, n)
<1>2. parseDwarf(acc, c, subprogram, scopes) = parsed[n]
  BY <1>1 DEF parseDwarf, Parsing
<1>3. Parsing(acc, c, subprogram, scopes, parsed, n)
  BY ParsingExists
<1> HIDE DEF parsed
<1> PICK f : f = parsed
  OBVIOUS
<1>4. f[0] = parseDie(acc, c, subprogram)
      /\ \A k \in 1 .. n : f[k] = parseDie(f[k - 1], c, scopes[k])
  BY <1>3 DEF Parsing
<1> DEFINE T == {k \in 0 .. n : Inserted(acc.output, f[k])}
<1>5. 0 \in T
  BY <1>4, parseDieLemma
<1>6. ASSUME NEW k \in 1 .. n, k - 1 \in T
      PROVE  k \in T
  <2>1. Inserted(acc.output, f[k - 1]) /\ Accumulates(f[k - 1])
    BY <1>6 DEF Inserted
  <2>2. Good(acc.output) /\ Leads(acc.output, f[k - 1].output)
    BY <2>1 DEF Inserted, Accumulates
  <2>3. Inserted(f[k - 1].output, f[k])
    BY <1>4, <2>1, <2>2, parseDieLemma, HasIdsLemma
  <2> QED
    BY <2>2, <2>3, LeadsTransitive DEF Inserted
<1> HIDE DEF T
<1>7. \A k \in 0 .. n : k \in T
  BY ONLY <1>5, <1>6, Induction
<1>8. n \in T
  BY <1>7
<1> QED
  BY <1>2, <1>8 DEF T
-----------------------------------------------------------------------------
(***************************************************************************)
(* lookupFrame.                                                            *)
(***************************************************************************)
LEMMA NameFunctionLemma ==
  ASSUME NEW o, Good(o), NEW c, HasIds(o, c), NEW parent \in Existing(o), NEW name
  PROVE  Leads(o, NameFunction(o, c, parent, name))
<1>1. CASE hasSymbol(o, parent)
  BY <1>1, LeadsReflexive DEF NameFunction
<1>2. CASE ~hasSymbol(o, parent)
  <2> DEFINE p      == resolveString(o, name)
             symbol == SymbolAs(c, lookupString(p, name), FALSE)
  <2>1. NameFunction(o, c, parent, name) = resolveSymbol(p, parent, symbol)
    BY <1>2 DEF NameFunction, With
  <2>2. Leads(o, p) /\ Good(p)
    BY resolveStringLemma DEF Leads
  <2>3. MayName(p, symbol) /\ parent \in Existing(p)
    BY <2>2, StringIsIn, HasIdsLemma, SymbolAsLemma, LeadsIds
  <2> HIDE DEF p, symbol
  <2> QED
    BY <2>1, <2>2, <2>3, resolveSymbolLemma, LeadsTransitive
<1> QED
  BY <1>1, <1>2

LEMMA ChainOrKnownLemma ==
  ASSUME NEW acc, Accumulates(acc), NEW c, HasIds(acc.output, c), NEW subprogram,
         NEW scopes, Len(scopes) \in Nat
  PROVE  LET chain == ChainOrKnown(acc, c, subprogram, scopes)
         IN  Accumulates(chain) /\ Leads(acc.output, chain.output)
<1>1. Good(acc.output) /\ None \in LocationIds(acc.output)
  BY GoodSizes DEF Accumulates, None, LocationIds
<1> DEFINE alone == [acc EXCEPT !.parent = None]
<1>2. alone.output = acc.output /\ alone.names = acc.names /\ alone.parent = None
      /\ alone = [output |-> alone.output, names |-> alone.names, parent |-> alone.parent]
  BY DEF Accumulates
<1>3. ChainOrKnown(acc, c, subprogram, scopes) \in
        {parseDwarf(alone, c, subprogram, scopes), acc}
  BY DEF ChainOrKnown
<1> HIDE DEF alone
<1>4. Accumulates(alone)
  BY <1>1, <1>2 DEF Accumulates
<1>5. Inserted(acc.output, parseDwarf(alone, c, subprogram, scopes))
  BY <1>2, <1>4, parseDwarfLemma
<1> QED
  BY <1>1, <1>3, <1>5, LeadsReflexive DEF Inserted

\* What is known of the functions at an address: names for the cache, the location of
\* the innermost one if there is any, and one that may be defined.
Debug(o, debug) ==
  /\ Accumulates(debug.acc)
  /\ Leads(o, debug.acc.output)
  /\ MayDefine(debug.acc.output, debug.function)

LEMMA MayDefineLater ==
  ASSUME NEW o, NEW p, Good(o), Leads(o, p), NEW location, MayDefine(o, location)
  PROVE  MayDefine(p, location)
BY LeadsIds DEF MayDefine

LEMMA WithSubprogramLemma ==
  ASSUME NEW acc, Good(acc.output), NEW c, HasIds(acc.output, c), NEW subprogram,
         NEW scopes, Len(scopes) \in Nat
  PROVE  Debug(acc.output, WithSubprogram(acc, c, subprogram, scopes))
<1>1. PICK die : die = IF scopes = <<>> THEN subprogram ELSE Last(scopes)
  OBVIOUS
<1>2. PICK named : named = dieName(c.dies, die, acc.names)
  OBVIOUS
<1>3. PICK better : better = Place(acc.output, c, die, Decl(c, die), 0, None)
  OBVIOUS
<1> DEFINE before == [output |-> better.output, names |-> named.cache,
                      parent |-> lookupLocation(better.output, better.at)]
           chain  == ChainOrKnown(before, c, subprogram, scopes)
<1>4. WithSubprogram(acc, c, subprogram, scopes) =
        [acc |-> chain, function |-> better.at, name |-> named.name]
  BY <1>1, <1>2, <1>3 DEF WithSubprogram, With
<1>5. None \in LocationIds(acc.output)
  BY GoodSizes DEF None, LocationIds
<1>6. Leads(acc.output, better.output) /\ Good(better.output) /\ MayDefine(better.output, better.at)
  BY <1>3, <1>5, PlaceLemma
<1>7. Accumulates(before) /\ before.output = better.output
  BY <1>6, LocationIsIn DEF Accumulates
<1> HIDE DEF before
<1>8. Accumulates(chain) /\ Leads(better.output, chain.output)
  BY <1>6, <1>7, HasIdsLemma, ChainOrKnownLemma
<1> HIDE DEF chain
<1> QED
  BY <1>4, <1>6, <1>8, LeadsTransitive, MayDefineLater DEF Debug

\* The location of a frame, ready to be sent.
Found(o, found) ==
  Good(found.output) /\ Leads(o, found.output) /\ MayDefine(found.output, found.at)

LEMMA NameAndPlaceLemma ==
  ASSUME NEW o, Good(o), NEW c, HasIds(o, c), NEW source, NEW debug, Debug(o, debug)
  PROVE  Found(o, NameAndPlace(c, source, debug))
<1> DEFINE known == debug.acc.parent # None
<1>1. PICK p : p = IF known THEN debug.acc.output
                   ELSE resolveLocation(debug.acc.output, debug.function)
  OBVIOUS
<1>2. PICK parent : parent = IF known THEN debug.acc.parent ELSE lookupLocation(p, debug.function)
  OBVIOUS
<1> DEFINE final == NameFunction(p, c, parent, debug.name)
           at    == Location(c.address, c.relAddr, lookupString(p, source.file), c.pid,
                             source.line, parent)
<1>3. NameAndPlace(c, source, debug) =
        [output |-> final, name |-> debug.name,
         names |-> IF c.cudie = 0 THEN names ELSE insert(names, c.key, debug.acc.names),
         at |-> at]
  BY <1>1, <1>2 DEF NameAndPlace, With
<1>4. /\ Good(debug.acc.output) /\ Leads(o, debug.acc.output)
      /\ debug.acc.parent \in LocationIds(debug.acc.output)
      /\ MayDefine(debug.acc.output, debug.function)
  BY DEF Debug, Accumulates
<1>5. Leads(debug.acc.output, p) /\ Good(p) /\ parent \in Existing(p)
  <2>1. CASE known
    BY <1>1, <1>2, <1>4, <2>1, LeadsReflexive DEF LocationIds, Existing, None
  <2>2. CASE ~known
    BY <1>1, <1>2, <1>4, <2>2, resolveLocationLemma DEF Leads
  <2> QED
    BY <2>1, <2>2
<1>6. Leads(o, p)
  BY <1>4, <1>5, LeadsTransitive
<1>7. Leads(p, final) /\ Good(final)
  BY <1>5, <1>6, HasIdsLemma, NameFunctionLemma DEF Leads
<1>8. MayDefine(p, at)
  BY <1>5, StringIsIn, LocationLemma, LeadsIds, LeadsReflexive
<1> HIDE DEF final, at
<1> QED
  BY <1>3, <1>5, <1>6, <1>7, <1>8, LeadsTransitive, MayDefineLater DEF Found

\* Entries in the order of the walk are a sequence.
LEMMA InOrderLemma ==
  ASSUME NEW S, IsFiniteSet(S)
  PROVE  Len(InOrder(S)) \in Nat
<1>1. PICK n \in Nat : n = Cardinality(S)
  BY FS_CardinalityType
<1> DEFINE Nth(k) == CHOOSE d \in S : Cardinality({e \in S : e < d}) = k - 1
           f      == [k \in 1 .. n |-> Nth(k)]
<1>2. InOrder(S) = f
  BY <1>1 DEF InOrder
<1> HIDE DEF Nth
<1>3. f \in Seq({Nth(k) : k \in 1 .. n})
  OBVIOUS
<1> HIDE DEF f
<1> QED
  BY <1>2, <1>3

LEMMA findInlineScopesLemma ==
  ASSUME NEW S, NEW dies \in Seq(S), NEW subprogram, NEW offset
  PROVE  Len(findInlineScopes(dies, subprogram, offset)) \in Nat
<1> DEFINE Inlined(d)  == dies[d].tag = "inlined_subroutine"
           Covers(d)   == dieContainsAddress(dies[d], offset)
           Recurses(d) == ~Inlined(d) \/ Covers(d)
           found == {d \in Walk(dies, subprogram, Recurses) : Inlined(d) /\ Covers(d)}
<1>1. found \subseteq 1 .. Len(dies)
  BY DEF Walk
<1>2. IsFiniteSet(1 .. Len(dies))
  BY FS_Interval
<1>3. IsFiniteSet(found)
  BY <1>1, <1>2, FS_Subset
<1>4. findInlineScopes(dies, subprogram, offset) = InOrder(found)
  BY DEF findInlineScopes
<1> HIDE DEF found
<1> QED
  BY <1>3, <1>4, InOrderLemma

\* The names of a module and of what is in it.
NameIds(o) == {ids \in [1 .. 3 -> StringIds(o)] : ids = <<ids[1], ids[2], ids[3]>>}

LEMMA LookupInModuleLemma ==
  ASSUME NEW o, Good(o), NEW c, HasIds(o, c), NEW S, c.dies \in Seq(S)
  PROVE  Found(o, LookupInModule(o, c))
<1>1. PICK source : source = IF c.cudie = 0 THEN [file |-> <<>>, line |-> 0]
                                            ELSE SourceOf(c, c.offset)
  OBVIOUS
<1>2. PICK p : p = resolveString(o, source.file)
  OBVIOUS
<1>3. PICK acc : acc = [output |-> p, parent |-> None,
                        names |-> IF c.key \in DOMAIN names THEN names[c.key] ELSE <<>>]
  OBVIOUS
<1>4. PICK subprogram : subprogram = IF c.cudie = 0 THEN 0
                                     ELSE findSubprogramDie(c.dies, c.cudie, c.offset)
  OBVIOUS
<1> DEFINE plain == [acc |-> acc, name |-> c.name,
                     function |-> Location(c.function, 0, None, c.pid, 0, None)]
           deep  == WithSubprogram(acc, c, subprogram,
                                   findInlineScopes(c.dies, subprogram, c.offset))
           debug == IF subprogram = 0 THEN plain ELSE deep
<1>5. LookupInModule(o, c) = NameAndPlace(c, source, debug)
  BY <1>1, <1>2, <1>3, <1>4 DEF LookupInModule, With
<1>6. Leads(o, p) /\ Good(p) /\ acc.output = p
  BY <1>2, <1>3, resolveStringLemma DEF Leads
<1>7. None \in LocationIds(p) /\ None \in StringIds(p)
  BY <1>6, GoodSizes DEF None, LocationIds, StringIds
<1>8. Accumulates(acc)
  BY <1>3, <1>6, <1>7 DEF Accumulates
<1>9. Debug(p, plain)
  BY <1>6, <1>7, <1>8, LocationLemma, LeadsReflexive DEF Debug
<1>10. Debug(p, deep)
  BY <1>6, HasIdsLemma, findInlineScopesLemma, WithSubprogramLemma
<1> HIDE DEF plain, deep
<1>11. Debug(p, debug)
  BY <1>9, <1>10
<1>12. Found(p, NameAndPlace(c, source, debug))
  BY <1>6, <1>11, HasIdsLemma, NameAndPlaceLemma
<1> QED
  BY <1>5, <1>6, <1>12, LeadsTransitive DEF Found

LEMMA LookupElsewhereLemma ==
  ASSUME NEW o, Good(o), NEW f, NEW elf, NEW ids \in NameIds(o), NEW found
  PROVE  Found(o, LookupElsewhere(o, f, elf, ids, found))
<1>1. PICK address : address = symbolAddress(f.ip, world.arm)
  OBVIOUS
<1>2. PICK function : function = Location(IF found.off # 0 THEN address - found.off ELSE elf.base,
                                          0, None, f.pid, 0, None)
  OBVIOUS
<1>3. PICK p : p = resolveString(o, found.module)
  OBVIOUS
<1>4. PICK q : q = resolveLocation(p, function)
  OBVIOUS
<1>5. PICK c : c = [ids |-> IF found.module = <<>> THEN ids
                            ELSE [ids EXCEPT ![1] = lookupString(q, found.module)],
                    kernel |-> f.kernel, start |-> 0, size |-> 0]
  OBVIOUS
<1>6. PICK parent : parent = lookupLocation(q, function)
  OBVIOUS
<1> DEFINE final == NameFunction(q, c, parent, found.name)
           at    == Location(address, 0, None, f.pid, 0, parent)
<1>7. LookupElsewhere(o, f, elf, ids, found) =
        [output |-> final, names |-> names, name |-> found.name, at |-> at]
  <2> DEFINE place == symbolAddress(f.ip, world.arm)
             inner == Location(IF found.off # 0 THEN place - found.off ELSE elf.base,
                               0, None, f.pid, 0, None)
             told  == resolveLocation(resolveString(o, found.module), inner)
             with  == [ids |-> IF found.module = <<>> THEN ids
                               ELSE [ids EXCEPT ![1] = lookupString(told, found.module)],
                       kernel |-> f.kernel, start |-> 0, size |-> 0]
  <2>1. LookupElsewhere(o, f, elf, ids, found) =
          [output |-> NameFunction(told, with, lookupLocation(told, inner), found.name),
           names |-> names, name |-> found.name,
           at |-> Location(place, 0, None, f.pid, 0, lookupLocation(told, inner))]
    <3> DEFINE Rest(ad, fn) ==
                 With(resolveLocation(resolveString(o, found.module), fn), LAMBDA r :
                 With([ids |-> IF found.module = <<>> THEN ids
                               ELSE [ids EXCEPT ![1] = lookupString(r, found.module)],
                       kernel |-> f.kernel, start |-> 0, size |-> 0], LAMBDA n :
                   [output |-> NameFunction(r, n, lookupLocation(r, fn), found.name),
                    names |-> names, name |-> found.name,
                    at |-> Location(ad, 0, None, f.pid, 0, lookupLocation(r, fn))]))
    <3>1. LookupElsewhere(o, f, elf, ids, found) =
            With(place, LAMBDA ad :
            With(Location(IF found.off # 0 THEN ad - found.off ELSE elf.base,
                          0, None, f.pid, 0, None), LAMBDA fn : Rest(ad, fn)))
      BY DEF LookupElsewhere
    <3>2. Rest(place, inner) =
            [output |-> NameFunction(told, with, lookupLocation(told, inner), found.name),
             names |-> names, name |-> found.name,
             at |-> Location(place, 0, None, f.pid, 0, lookupLocation(told, inner))]
      BY DEF With
    <3> HIDE DEF Rest
    <3>3. LookupElsewhere(o, f, elf, ids, found) = Rest(place, inner)
      BY <3>1 DEF With
    <3> QED
      BY ONLY <3>2, <3>3
  <2>2. place = address
    BY ONLY <1>1
  <2> HIDE DEF place
  <2>3. inner = function
    BY ONLY <1>2, <2>2
  <2> HIDE DEF inner
  <2>4. told = q
    BY ONLY <1>3, <1>4, <2>3
  <2> HIDE DEF told
  <2>5. with = c
    BY ONLY <1>5, <2>4
  <2> HIDE DEF with
  <2> QED
    BY ONLY <1>6, <2>1, <2>2, <2>3, <2>4, <2>5
<1>8. Leads(o, p) /\ Good(p)
  BY <1>3, resolveStringLemma DEF Leads
<1>9. None \in LocationIds(p) /\ None \in StringIds(p)
  BY <1>8, GoodSizes DEF None, LocationIds, StringIds
<1>10. Leads(p, q) /\ Good(q) /\ parent \in Existing(q)
  BY <1>2, <1>4, <1>6, <1>8, <1>9, LocationLemma, resolveLocationLemma DEF Leads
<1>11. Leads(o, q)
  BY <1>8, <1>10, LeadsTransitive
<1>12. HasIds(q, c)
  <2>1. StringIds(o) \subseteq StringIds(q) /\ lookupString(q, found.module) \in StringIds(q)
    BY <1>10, <1>11, StringIsIn, LeadsIds
  <2>2. c.ids \in {ids, [ids EXCEPT ![1] = lookupString(q, found.module)]}
    BY <1>5
  <2> QED
    BY <2>1, <2>2 DEF HasIds, NameIds
<1>13. Leads(q, final) /\ Good(final)
  BY <1>10, <1>12, NameFunctionLemma DEF Leads
<1>14. MayDefine(q, at)
  <2>1. None \in StringIds(q)
    BY <1>8, <1>9, <1>10, LeadsIds
  <2>2. parent \in LocationIds(q)
    BY <1>10 DEF Existing, LocationIds
  <2> QED
    BY <2>1, <2>2, LocationLemma
<1> HIDE DEF final, at
<1> QED
  BY <1>7, <1>10, <1>11, <1>13, <1>14, LeadsTransitive, MayDefineLater DEF Found

\* The location of a frame is sent, unless it was, and there is an id for it.
LEMMA ResolvedLemma ==
  ASSUME NEW o, Good(o), NEW found, Found(o, found)
  PROVE  LET q == resolveLocation(found.output, found.at)
         IN  Leads(o, q) /\ lookupLocation(q, found.at) \in Existing(q)
<1>1. Good(found.output) /\ Leads(o, found.output) /\ MayDefine(found.output, found.at)
  BY DEF Found
<1> QED
  BY <1>1, resolveLocationLemma, LeadsTransitive

-----------------------------------------------------------------------------
(***************************************************************************)
(* The invariant.                                                          *)
(***************************************************************************)
CachedIn(cached, o) == \A k \in DOMAIN cached : cached[k].id \in Existing(o)

\* The ids of a sample that is being analyzed exist, and its frames are the recorded ones.
AnalysisOf(a, w, o) ==
  /\ a \in [phase : {"idle", "resolve"}, pid : DOMAIN w.maps \cup {0},
            frames : {<<>>} \cup {s.frames : s \in w.samples}, ids : Seq(Existing(o)),
            attempt : 1 .. 2]
  /\ a.phase = "resolve" => a.pid \in DOMAIN w.maps

\* A map is as long as what was read of it at most, which is a part of what was written.
MapOf(w, pid, map, read, lines) ==
  /\ lines \in Nat /\ read \in 0 .. lines
  /\ \E S : map \in Seq(S)
  /\ Len(map) <= read
  /\ pid \in DOMAIN w.perfMaps => lines <= Len(w.perfMaps[pid])

MapsRead ==
  /\ perfMap = [pid \in DOMAIN world.maps |-> perfMap[pid]]
  /\ written = [pid \in DOMAIN world.maps |-> written[pid]]
  /\ position = [pid \in DOMAIN world.maps |-> position[pid]]
  /\ \A pid \in DOMAIN world.maps : MapOf(world, pid, perfMap[pid], position[pid], written[pid])

IdsExist ==
  /\ Good(output)
  /\ CachedIn(addressCache, output) /\ CachedIn(invalidCache, output)
  /\ AnalysisOf(analysis, world, output)

IInv == world \in Worlds /\ IdsExist /\ MapsRead

\* What a step does to the ids.
IdsKept == Keeps(output, output')

LEMMA OutputUnchanged == output' = output => IdsKept
BY DEF IdsKept, Keeps

LEMMA CachedLater ==
  ASSUME NEW o, NEW p, Good(o), Leads(o, p), NEW cached, CachedIn(cached, o)
  PROVE  CachedIn(cached, p)
BY LeadsIds DEF CachedIn

LEMMA CachedAdd ==
  ASSUME NEW o, NEW cached, CachedIn(cached, o), NEW k, NEW entry, entry.id \in Existing(o)
  PROVE  CachedIn(insert(cached, k, entry), o)
BY DEF CachedIn, insert

LEMMA CachedForget ==
  ASSUME NEW o, NEW cached, CachedIn(cached, o), NEW pid
  PROVE  CachedIn([k \in {k \in DOMAIN cached : k[1] # pid} |-> cached[k]], o)
BY DEF CachedIn

LEMMA SeqLater ==
  ASSUME NEW S, NEW T, S \subseteq T, NEW s \in Seq(S)
  PROVE  s \in Seq(T)
<1>1. s = [i \in 1 .. Len(s) |-> s[i]] /\ Len(s) \in Nat /\ \A i \in 1 .. Len(s) : s[i] \in T
  OBVIOUS
<1> QED
  BY <1>1

LEMMA AnalysisLater ==
  ASSUME NEW o, NEW p, Good(o), Leads(o, p), NEW a, NEW w, AnalysisOf(a, w, o)
  PROVE  AnalysisOf(a, w, p)
<1>1. a.ids \in Seq(Existing(p))
  BY LeadsIds, SeqLater DEF AnalysisOf
<1> QED
  BY <1>1 DEF AnalysisOf

\* One more frame has an id.
LEMMA AnalysisAppend ==
  ASSUME NEW o, NEW a, NEW w, AnalysisOf(a, w, o), NEW id \in Existing(o)
  PROVE  AnalysisOf([a EXCEPT !.ids = Append(@, id)], w, o)
<1>1. Append(a.ids, id) \in Seq(Existing(o))
  BY DEF AnalysisOf
<1> QED
  BY <1>1 DEF AnalysisOf

LEMMA ReadLinesLemma ==
  ASSUME NEW n \in Nat, NEW lines, DOMAIN lines = 1 .. n
  PROVE  /\ \E S : ReadLines(lines) \in Seq(S)
         /\ Len(ReadLines(lines)) \in 0 .. n
<1> DEFINE symbols == {k \in DOMAIN lines : lines[k].start # Invalid /\ lines[k].length # Invalid}
           Nth(i)  == CHOOSE k \in symbols : Cardinality({l \in symbols : l < k}) = i - 1
<1>1. IsFiniteSet(1 .. n) /\ Cardinality(1 .. n) = n
  BY FS_Interval
<1>2. Cardinality(symbols) \in Nat /\ Cardinality(symbols) <= n
  BY <1>1, FS_Subset, FS_CardinalityType
<1>3. PICK m : m = Cardinality(symbols)
  OBVIOUS
<1> DEFINE f == [i \in 1 .. m |-> lines[Nth(i)]]
<1>4. ReadLines(lines) = f
  BY <1>3 DEF ReadLines
<1> HIDE DEF symbols, Nth
<1>5. f \in Seq({lines[Nth(i)] : i \in 1 .. m}) /\ Len(f) = m
  BY <1>2, <1>3
<1> HIDE DEF f
<1> QED
  BY <1>2, <1>3, <1>4, <1>5

LEMMA SortsLemma ==
  ASSUME NEW S, NEW s \in Seq(S), NEW sorted \in Sorts(s, LAMBDA l : l.start)
  PROVE  (\E T : sorted \in Seq(T)) /\ Len(sorted) = Len(s)
<1>1. PICK p : sorted = [k \in DOMAIN s |-> s[p[k]]]
  BY DEF Sorts
<1>2. PICK n \in Nat : n = Len(s) /\ DOMAIN s = 1 .. n
  OBVIOUS
<1>3. sorted = [k \in 1 .. n |-> s[p[k]]]
  BY <1>1, <1>2
<1>4. sorted \in Seq({s[p[k]] : k \in 1 .. n}) /\ Len(sorted) = n
  BY <1>3
<1> QED
  BY <1>2, <1>4

-----------------------------------------------------------------------------
(***************************************************************************)
(* The steps.                                                              *)
(***************************************************************************)
LEMMA InitIInv == Init => IInv
<1> SUFFICES ASSUME Init PROVE IInv
  OBVIOUS
<1>1. Good(output)
  <2>1. Stream(<<>>, 0, 0, 0)
    <3>1. \A type : SentIn(<<>>, 1, type) = 0
      <4>1. \A type : {j \in 1 .. 1 - 1 : <<>>[j].type = type} = {}
        OBVIOUS
      <4> QED
        BY <4>1, FS_EmptySet DEF SentIn
    <3>2. Len(<<>>) = 0 /\ <<>> \in Seq({})
      OBVIOUS
    <3> QED
      BY <3>1, <3>2 DEF Stream
  <2>2. Len(<<>>) = 0 /\ <<>> \in Seq({}) /\ DOMAIN <<>> = {}
    OBVIOUS
  <2>3. NoOutput = [f \in DOMAIN NoOutput |-> NoOutput[f]]
        /\ DOMAIN NoOutput = {"strings", "locations", "symbols", "attributes", "stream"}
    BY DEF NoOutput
  <2>4. NoOutput.strings = <<>> /\ NoOutput.locations = <<>> /\ NoOutput.symbols = <<>>
        /\ NoOutput.attributes = 0 /\ NoOutput.stream = <<>>
    BY DEF NoOutput
  <2>5. OneIdEach(NoOutput)
    BY <2>2, <2>4 DEF OneIdEach
  <2>6. Good(NoOutput)
    BY <2>1, <2>2, <2>3, <2>4, <2>5 DEF Good
  <2> QED
    BY <2>6 DEF Init
<1>2. CachedIn(addressCache, output) /\ CachedIn(invalidCache, output)
  BY DEF Init, CachedIn
<1>3. AnalysisOf(analysis, world, output)
  BY DEF Init, Idle, AnalysisOf
<1>4. MapsRead
  <2>1. <<>> \in Seq({}) /\ Len(<<>>) = 0
    OBVIOUS
  <2>2. \A pid \in DOMAIN world.perfMaps : Len(world.perfMaps[pid]) \in Nat
    BY FrameAssumption DEF Init
  <2> QED
    BY <2>1, <2>2 DEF Init, MapsRead, MapOf
<1> QED
  BY <1>1, <1>2, <1>3, <1>4 DEF IInv, IdsExist, Init

\* The steps that send something, and add no id to what others keep.
LEMMA SendsOnly ==
  ASSUME IInv, NEW o, o = output', Leads(output, o),
         UNCHANGED <<world, addressCache, invalidCache, maps, analysis>>
  PROVE  IInv' /\ IdsKept
<1>1. PICK p : p = output
  OBVIOUS
<1>2. PICK w : w = world
  OBVIOUS
<1>3. PICK known, unknown, a : known = addressCache /\ unknown = invalidCache /\ a = analysis
  OBVIOUS
<1>4. Good(p) /\ Leads(p, o) /\ CachedIn(known, p) /\ CachedIn(unknown, p) /\ AnalysisOf(a, w, p)
  BY <1>1, <1>2, <1>3 DEF IInv, IdsExist
<1>5. Good(o) /\ CachedIn(known, o) /\ CachedIn(unknown, o) /\ AnalysisOf(a, w, o)
  BY <1>4, CachedLater, AnalysisLater DEF Leads
<1>6. IdsExist'
  BY <1>2, <1>3, <1>5 DEF IdsExist
<1>7. (world \in Worlds /\ MapsRead)'
  BY DEF IInv, MapsRead, MapOf, maps
<1>8. IdsKept
  BY DEF IdsKept, Leads
<1> QED
  BY <1>6, <1>7, <1>8 DEF IInv

\* What updatePerfMap reads has been written, and nothing is read twice.
LEMMA UpdateKeepsMaps ==
  ASSUME world \in Worlds, MapsRead, UNCHANGED <<world, written>>,
         NEW pid \in DOMAIN world.maps, NEW known, NEW from \in Nat,
         \E S : known \in Seq(S), Len(known) <= from, from <= written[pid],
         updatePerfMap(pid, known, from)
  PROVE  MapsRead'
<1>1. CASE pid \notin DOMAIN world.perfMaps
  BY <1>1 DEF MapsRead, MapOf, updatePerfMap
<1>2. CASE pid \in DOMAIN world.perfMaps
  <2>1. PICK file : file = world.perfMaps[pid]
    OBVIOUS
  <2>2. PICK n \in Nat : n = written[pid]
    BY DEF MapsRead, MapOf
  <2> DEFINE read == SubSeq(file, from + 1, n)
             new  == ReadLines(read)
  <2>3. PICK sorted \in (IF new = <<>> THEN {known} ELSE Sorts(known \o new, LAMBDA l : l.start)) :
          perfMap' = [perfMap EXCEPT ![pid] = sorted]
    BY <1>2, <2>1, <2>2 DEF updatePerfMap
  <2>4. position' = [position EXCEPT ![pid] = n]
    BY <1>2, <2>2 DEF updatePerfMap
  <2>5. PICK S : file \in Seq(S)
    BY <1>2, <2>1, FrameAssumption
  <2>6. n <= Len(file)
    BY <1>2, <2>1, <2>2 DEF MapsRead, MapOf
  <2>7. n - from \in Nat /\ DOMAIN read = 1 .. n - from
    BY <2>2, <2>5, <2>6
  <2>8. (\E T : new \in Seq(T)) /\ Len(new) \in 0 .. n - from
    BY <2>7, ReadLinesLemma
  <2> HIDE DEF new
  <2>9. (\E T : sorted \in Seq(T)) /\ Len(sorted) <= n
    <3>1. PICK T : known \in Seq(T)
      OBVIOUS
    <3>2. PICK U : new \in Seq(U)
      BY <2>8
    <3>3. known \o new \in Seq(T \cup U) /\ Len(known \o new) = Len(known) + Len(new)
          /\ Len(known) \in Nat
      BY <3>1, <3>2
    <3>4. CASE new = <<>>
      <4>1. sorted = known
        BY <2>3, <3>4
      <4> QED
        BY <2>2, <3>1, <3>3, <4>1
    <3>5. CASE new # <<>>
      <4>1. sorted \in Sorts(known \o new, LAMBDA l : l.start)
        BY <2>3, <3>5
      <4>2. (\E V : sorted \in Seq(V)) /\ Len(sorted) = Len(known \o new)
        BY <3>3, <4>1, SortsLemma
      <4> QED
        BY <2>2, <2>8, <3>3, <4>2
    <3> QED
      BY <3>4, <3>5
  <2>10. MapOf(world, pid, sorted, n, n)
    BY <1>2, <2>1, <2>2, <2>6, <2>9 DEF MapOf
  <2> QED
    BY <2>2, <2>3, <2>4, <2>10 DEF MapsRead
<1> QED
  BY <1>1, <1>2

\* The ids of a frame, when there is a module.
LEMMA NameIdsLemma ==
  ASSUME NEW o, Good(o), NEW a, NEW b, NEW c
  PROVE  <<lookupString(o, a), lookupString(o, b), lookupString(o, c)>> \in NameIds(o)
BY StringIsIn DEF NameIds

LEMMA NameIdsAreIds ==
  ASSUME NEW o, NEW p, Good(o), Leads(o, p), NEW ids \in NameIds(o)
  PROVE  ids \in NameIds(p) /\ \A c : c.ids = ids => HasIds(p, c)
BY LeadsIds DEF NameIds, HasIds

\* A location of a frame that was found: its id is cached and appended.
LEMMA ResolvedKeeps ==
  ASSUME IInv, NEW f, NEW o, Good(o), Leads(output, o), NEW found, Found(o, found),
         Resolved(f, found), UNCHANGED <<world, maps>>
  PROVE  IInv' /\ IdsKept
<1> DEFINE q  == resolveLocation(found.output, found.at)
           id == lookupLocation(q, found.at)
<1>1. PICK p : p = output
  OBVIOUS
<1>2. PICK w, known, unknown, a : w = world /\ known = addressCache /\ unknown = invalidCache
                                  /\ a = analysis
  OBVIOUS
<1>3. Good(p) /\ Leads(p, o) /\ CachedIn(known, p) /\ CachedIn(unknown, p) /\ AnalysisOf(a, w, p)
  BY <1>1, <1>2 DEF IInv, IdsExist
<1>4. Leads(o, q) /\ id \in Existing(q)
  BY ResolvedLemma
<1>5. PICK entry : entry = [id |-> id, interworking |-> found.name \in {<<m>> : m \in Mapping}]
  OBVIOUS
<1>6. /\ output' = q
      /\ cache(f, entry)
      /\ analysis' = [analysis EXCEPT !.ids = Append(@, id)]
  BY <1>5 DEF Resolved
<1>7. entry.id \in Existing(q)
  BY <1>4, <1>5
<1> HIDE DEF q, id
<1>8. Leads(p, q) /\ Good(q)
  BY <1>3, <1>4, LeadsTransitive DEF Leads
<1>9. CachedIn(known, q) /\ CachedIn(unknown, q) /\ AnalysisOf(a, w, q)
  BY <1>3, <1>8, CachedLater, AnalysisLater
<1>10. AnalysisOf([a EXCEPT !.ids = Append(@, id)], w, q)
  BY <1>4, <1>9, AnalysisAppend
<1>11. CachedIn(addressCache', q) /\ CachedIn(invalidCache', q)
  <2>1. PICK key, other : key = CacheKey(f) /\ other = <<f.pid, f.ip>>
    OBVIOUS
  <2>2. \/ addressCache' = insert(known, key, entry) /\ invalidCache' = unknown
        \/ invalidCache' = insert(unknown, other, entry) /\ addressCache' = known
    BY <1>2, <1>6, <2>1 DEF cache
  <2>3. CachedIn(insert(known, key, entry), q) /\ CachedIn(insert(unknown, other, entry), q)
    BY <1>7, <1>9, CachedAdd
  <2> QED
    BY <1>9, <2>2, <2>3
<1>12. IdsExist'
  BY <1>2, <1>6, <1>8, <1>10, <1>11 DEF IdsExist
<1>13. (world \in Worlds /\ MapsRead)'
  BY DEF IInv, MapsRead, MapOf, maps
<1>14. IdsKept
  BY <1>1, <1>6, <1>8 DEF IdsKept, Leads
<1> QED
  BY <1>12, <1>13, <1>14 DEF IInv

\* The frame that is looked up next is a recorded one.
LEMMA NextFrame ==
  ASSUME IInv, Len(analysis.ids) < Len(analysis.frames)
  PROVE  /\ analysis.frames[Len(analysis.ids) + 1].pid \in DOMAIN world.maps
         /\ Len(analysis.ids) \in Nat
<1>1. PICK n \in Nat : n = Len(analysis.ids)
  BY DEF IInv, IdsExist, AnalysisOf
<1>2. analysis.frames # <<>>
  BY <1>1
<1>3. PICK s \in world.samples : analysis.frames = s.frames
  BY <1>2 DEF IInv, IdsExist, AnalysisOf
<1>4. s.frames \in Seq(ToSet(s.frames)) /\ \A f \in ToSet(s.frames) : f.pid \in DOMAIN world.maps
  BY FrameAssumption DEF IInv
<1>5. n + 1 \in 1 .. Len(s.frames)
  BY <1>1, <1>3, <1>4
<1>6. s.frames[n + 1] \in ToSet(s.frames)
  BY <1>4, <1>5
<1> QED
  BY <1>1, <1>3, <1>4, <1>6

LEMMA LookUpStep ==
  ASSUME IInv, LookUp
  PROVE  IInv' /\ IdsKept
<1>1. Len(analysis.ids) < Len(analysis.frames) /\ UNCHANGED <<world, handled, pending, maps>>
  BY DEF LookUp
<1>2. PICK f : f = analysis.frames[Len(analysis.ids) + 1]
  OBVIOUS
<1>3. f.pid \in DOMAIN world.maps
  BY <1>1, <1>2, NextFrame
<1>4. PICK elf : elf = ElfOf(f)
  OBVIOUS
<1>5. PICK o : o = IF Valid(elf) THEN resolveStrings(output, <<elf.name, elf.path, elf.local>>)
                   ELSE output
  OBVIOUS
<1>6. PICK ids : ids = <<lookupString(o, elf.name), lookupString(o, elf.path),
                         lookupString(o, elf.local)>>
  OBVIOUS
<1>7. PICK p : p = output
  OBVIOUS
<1>8. Good(p) /\ Leads(p, o) /\ Good(o)
  <2>1. Good(p)
    BY <1>7 DEF IInv, IdsExist
  <2>2. <<elf.name, elf.path, elf.local>> \in Seq({elf.name, elf.path, elf.local})
    OBVIOUS
  <2>3. Leads(p, resolveStrings(p, <<elf.name, elf.path, elf.local>>)) /\ Leads(p, p)
    BY <2>1, <2>2, resolveStringsLemma, LeadsReflexive
  <2>4. Leads(p, o)
    BY <1>5, <1>7, <2>3
  <2> QED
    BY <2>1, <2>4 DEF Leads
<1>9. ids \in NameIds(o)
  BY <1>6, <1>8, NameIdsLemma
<1>10. ASSUME Cached(f) # {},
              analysis' = [analysis EXCEPT !.ids = Append(@, (CHOOSE x \in Cached(f) : TRUE).id)],
              UNCHANGED <<output, caches>>
       PROVE  IInv' /\ IdsKept
  <2>1. PICK e \in Cached(f) : e = CHOOSE x \in Cached(f) : TRUE
    BY <1>10
  <2>2. e.id \in Existing(output)
    BY <2>1 DEF Cached, IInv, IdsExist, CachedIn
  <2>3. PICK id : id = e.id
    OBVIOUS
  <2>4. PICK a, w : a = analysis /\ w = world
    OBVIOUS
  <2>5. AnalysisOf([a EXCEPT !.ids = Append(@, id)], w, p)
    BY <1>7, <2>2, <2>3, <2>4, AnalysisAppend DEF IInv, IdsExist
  <2>6. analysis' = [a EXCEPT !.ids = Append(@, id)] /\ world' = w /\ output' = p
    BY <1>1, <1>7, <1>10, <2>1, <2>3, <2>4
  <2>7. IdsExist'
    BY <1>7, <1>10, <2>5, <2>6 DEF IInv, IdsExist, caches
  <2>8. (world \in Worlds /\ MapsRead)'
    BY <1>1 DEF IInv, MapsRead, MapOf, maps
  <2> QED
    BY <1>10, <2>7, <2>8, OutputUnchanged DEF IInv
<1>11. ASSUME InModule(f, elf, o, ids)
       PROVE  IInv' /\ IdsKept
  <2>1. PICK c : c = InSymbol(f, elf, ids) /\ Resolved(f, LookupInModule(o, c))
    BY <1>11 DEF InModule
  <2>2. c.ids = ids /\ c.dies = world.files[elf.path].dies
    BY <2>1 DEF InSymbol
  <2>3. elf.path \in DOMAIN world.files
    <3>1. elf.loads
      BY <1>11 DEF InModule
    <3>2. elf # NoElf
      BY <3>1 DEF NoElf
    <3>3. elf \in world.maps[f.pid]
      BY <1>4, <3>2 DEF ElfOf
    <3> QED
      BY <1>3, <3>1, <3>3, FrameAssumption DEF IInv
  <2>4. \E S : c.dies \in Seq(S)
    BY <2>2, <2>3, FrameAssumption DEF IInv
  <2>5. HasIds(o, c)
    BY <1>8, <1>9, <2>2, NameIdsAreIds, LeadsReflexive
  <2>6. PICK found : found = LookupInModule(o, c)
    OBVIOUS
  <2>7. Found(o, found)
    BY <1>8, <2>4, <2>5, <2>6, LookupInModuleLemma
  <2> QED
    BY <1>1, <1>7, <1>8, <2>1, <2>6, <2>7, ResolvedKeeps
<1>12. ASSUME InKernel(f, elf, o, ids)
       PROVE  IInv' /\ IdsKept
  <2>1. PICK told : told = IF kallsyms'.error /\ ~kallsyms.error THEN sendError(o) ELSE o
    OBVIOUS
  <2>2. PICK function : function = KernelFunction(kallsyms'.entries, symbolAddress(f.ip, world.arm))
    OBVIOUS
  <2>3. PICK found : found = LookupElsewhere(told, f, elf, ids, function) /\ Resolved(f, found)
    BY <1>12, <2>1, <2>2 DEF InKernel
  <2>4. Leads(o, told)
    BY <1>8, <2>1, sendErrorLemma, LeadsReflexive
  <2>5. Good(told) /\ Leads(p, told) /\ ids \in NameIds(told)
    BY <1>8, <1>9, <2>4, LeadsTransitive, NameIdsAreIds DEF Leads
  <2>6. Found(told, found)
    BY <2>3, <2>5, LookupElsewhereLemma
  <2> QED
    BY <1>1, <1>7, <2>3, <2>5, <2>6, ResolvedKeeps
<1>13. ASSUME InProcess(f, elf, o, ids)
       PROVE  IInv' /\ IdsKept
  <2>1. PICK function : function = ProcessFunction(f.pid, symbolAddress(f.ip, world.arm))
    OBVIOUS
  <2>2. PICK found : found = LookupElsewhere(o, f, elf, ids, function) /\ Resolved(f, found)
    BY <1>13, <2>1 DEF InProcess
  <2>3. Found(o, found)
    BY <1>8, <1>9, <2>2, LookupElsewhereLemma
  <2> QED
    BY <1>1, <1>7, <1>8, <2>2, <2>3, ResolvedKeeps
<1>14. \/ /\ Cached(f) # {}
          /\ analysis' = [analysis EXCEPT !.ids = Append(@, (CHOOSE x \in Cached(f) : TRUE).id)]
          /\ UNCHANGED <<output, caches>>
       \/ InModule(f, elf, o, ids) \/ InKernel(f, elf, o, ids) \/ InProcess(f, elf, o, ids)
  BY <1>2, <1>4, <1>5, <1>6 DEF LookUp
<1> QED
  BY <1>10, <1>11, <1>12, <1>13, <1>14

LEMMA BeginAnalysisStep ==
  ASSUME IInv, BeginAnalysis
  PROVE  IInv' /\ IdsKept
<1>1. PICK s \in world.samples :
        /\ analysis' = [Idle EXCEPT !.phase = "resolve", !.pid = s.pid, !.frames = s.frames]
        /\ updatePerfMap(s.pid, perfMap[s.pid], position[s.pid])
  BY DEF BeginAnalysis
<1>2. UNCHANGED <<world, output, addressCache, invalidCache, written>>
  BY DEF BeginAnalysis, caches
<1>3. s.pid \in DOMAIN world.maps
  BY FrameAssumption DEF IInv
<1>4. PICK known, from : known = perfMap[s.pid] /\ from = position[s.pid]
  OBVIOUS
<1>5. MapOf(world, s.pid, known, from, written[s.pid])
  BY <1>3, <1>4 DEF IInv, MapsRead
<1>6. MapsRead'
  BY <1>1, <1>2, <1>3, <1>4, <1>5, UpdateKeepsMaps DEF IInv, MapOf
<1>7. AnalysisOf(analysis, world, output)'
  <2>1. <<>> \in Seq(Existing(output))
    OBVIOUS
  <2>2. analysis' = [phase |-> "resolve", pid |-> s.pid, frames |-> s.frames, ids |-> <<>>,
                     attempt |-> 1]
    BY <1>1 DEF Idle
  <2> QED
    BY <1>2, <1>3, <2>1, <2>2 DEF AnalysisOf, Existing
<1> QED
  BY <1>2, <1>6, <1>7, OutputUnchanged DEF IInv, IdsExist, Good, CachedIn, Existing

LEMMA RetryStep ==
  ASSUME IInv, Retry
  PROVE  IInv' /\ IdsKept
<1>1. /\ analysis.phase = "resolve"
      /\ analysis' = [analysis EXCEPT !.ids = <<>>, !.attempt = 2]
      /\ Forget(analysis.pid)
      /\ updatePerfMap(analysis.pid, <<>>, 0)
      /\ UNCHANGED <<world, output, addressCache, written>>
  BY DEF Retry
<1>2. PICK pid : pid = analysis.pid
  OBVIOUS
<1>3. pid \in DOMAIN world.maps
  BY <1>1, <1>2 DEF IInv, IdsExist, AnalysisOf
<1>4. <<>> \in Seq({}) /\ Len(<<>>) = 0 /\ \A n \in Nat : 0 <= n
  OBVIOUS
<1>5. written[pid] \in Nat
  BY <1>3 DEF IInv, MapsRead, MapOf
<1>6. MapsRead'
  BY <1>1, <1>2, <1>3, <1>4, <1>5, UpdateKeepsMaps DEF IInv
<1>7. AnalysisOf(analysis, world, output)'
  <2>1. <<>> \in Seq(Existing(output))
    OBVIOUS
  <2>2. PICK a, w, o : a = analysis /\ w = world /\ o = output
    OBVIOUS
  <2>3. AnalysisOf([a EXCEPT !.ids = <<>>, !.attempt = 2], w, o)
    <3>1. AnalysisOf(a, w, o)
      BY <2>2 DEF IInv, IdsExist
    <3> DEFINE b == [a EXCEPT !.ids = <<>>]
    <3>2. AnalysisOf(b, w, o)
      BY <2>1, <2>2, <3>1 DEF AnalysisOf
    <3>3. [a EXCEPT !.ids = <<>>, !.attempt = 2] = [b EXCEPT !.attempt = 2]
      OBVIOUS
    <3> HIDE DEF b
    <3>4. AnalysisOf([b EXCEPT !.attempt = 2], w, o)
      BY <3>2 DEF AnalysisOf
    <3> QED
      BY <3>3, <3>4
  <2> QED
    BY <1>1, <2>2, <2>3
<1>8. CachedIn(invalidCache', output)
  BY <1>1, <1>2, CachedForget DEF Forget, IInv, IdsExist, CachedIn
<1> QED
  BY <1>1, <1>6, <1>7, <1>8, OutputUnchanged DEF IInv, IdsExist, Good, CachedIn, Existing

LEMMA clearCacheStep ==
  ASSUME IInv, NEW pid \in DOMAIN world.maps, clearCache(pid)
  PROVE  IInv' /\ IdsKept
<1>1. /\ Forget(pid)
      /\ perfMap' = [perfMap EXCEPT ![pid] = <<>>]
      /\ position' = [position EXCEPT ![pid] = 0]
      /\ UNCHANGED <<world, output, addressCache, written, analysis>>
  BY DEF clearCache
<1>2. MapOf(world, pid, <<>>, 0, written[pid])
  <2>1. (\E S : <<>> \in Seq(S)) /\ Len(<<>>) = 0
    <3>1. <<>> \in Seq({}) /\ Len(<<>>) = 0
      OBVIOUS
    <3> QED
      BY <3>1
  <2>2. PICK lines : lines = written[pid]
    OBVIOUS
  <2>3. lines \in Nat /\ (pid \in DOMAIN world.perfMaps => lines <= Len(world.perfMaps[pid]))
    BY <2>2 DEF IInv, MapsRead, MapOf
  <2> QED
    BY <2>1, <2>2, <2>3 DEF MapOf
<1>3. MapsRead'
  BY <1>1, <1>2 DEF IInv, MapsRead
<1>4. CachedIn(invalidCache', output)
  BY <1>1 DEF Forget, IInv, IdsExist, CachedIn
<1> QED
  BY <1>1, <1>3, <1>4, OutputUnchanged DEF IInv, IdsExist, Good, CachedIn, Existing, AnalysisOf

LEMMA WriteLineStep ==
  ASSUME IInv, NEW pid \in DOMAIN world.perfMaps, WriteLine(pid)
  PROVE  IInv' /\ IdsKept
<1>1. /\ written[pid] < Len(world.perfMaps[pid])
      /\ written' = [written EXCEPT ![pid] = @ + 1]
      /\ UNCHANGED <<world, output, addressCache, invalidCache, perfMap, position, analysis>>
  BY DEF WriteLine, caches
<1>2. pid \in DOMAIN world.maps
  BY FrameAssumption DEF IInv
<1>3. PICK n : n = Len(world.perfMaps[pid])
  OBVIOUS
<1>4. n \in Nat
  <2>1. world.perfMaps[pid] \in Seq(ToSet(world.perfMaps[pid]))
    BY FrameAssumption DEF IInv
  <2> QED
    BY <1>3, <2>1
<1>5. MapOf(world, pid, perfMap[pid], position[pid], written[pid] + 1)
  <2>1. PICK map, read, lines : map = perfMap[pid] /\ read = position[pid] /\ lines = written[pid]
    OBVIOUS
  <2>2. MapOf(world, pid, map, read, lines)
    BY <1>2, <2>1 DEF IInv, MapsRead
  <2>3. PICK S : map \in Seq(S)
    BY <2>2 DEF MapOf
  <2>4. lines + 1 \in Nat /\ read \in 0 .. lines + 1 /\ lines + 1 <= n /\ Len(map) <= read
    BY <1>1, <1>3, <1>4, <2>1, <2>2 DEF MapOf
  <2>5. MapOf(world, pid, map, read, lines + 1)
    BY <1>3, <2>3, <2>4 DEF MapOf
  <2> QED
    BY <2>1, <2>5
<1>6. MapsRead'
  BY <1>1, <1>2, <1>5 DEF IInv, MapsRead
<1> QED
  BY <1>1, <1>6, OutputUnchanged DEF IInv, IdsExist, Good, CachedIn, Existing, AnalysisOf

LEMMA SendStep ==
  ASSUME IInv, Send
  PROVE  IInv' /\ IdsKept
<1>1. PICK attribute \in {None} \cup 0 .. output.attributes - 1 :
        \E fields : output' = sendSample(output, ToSet(analysis.ids), attribute, fields)
  BY DEF Send
<1> PICK fields : output' = sendSample(output, ToSet(analysis.ids), attribute, fields)
  BY <1>1
<1>2. analysis' = Idle /\ UNCHANGED <<world, handled, pending, caches, maps>>
  BY DEF Send
<1>3. PICK p : p = output
  OBVIOUS
<1>4. PICK frames : frames = ToSet(analysis.ids)
  OBVIOUS
<1>5. frames \subseteq Existing(p)
  BY <1>3, <1>4 DEF IInv, IdsExist, AnalysisOf, ToSet
<1>6. PICK o : o = sendSample(p, frames, attribute, fields)
  OBVIOUS
<1>7. output' = o
  BY <1>1, <1>3, <1>4, <1>6
<1>8. Good(p) /\ Leads(p, o) /\ Good(o)
  BY <1>1, <1>3, <1>5, <1>6, sendSampleLemma DEF IInv, IdsExist, Leads
<1>9. PICK known, unknown : known = addressCache /\ unknown = invalidCache
  OBVIOUS
<1>10. CachedIn(known, o) /\ CachedIn(unknown, o)
  BY <1>3, <1>8, <1>9, CachedLater DEF IInv, IdsExist
<1>11. AnalysisOf(analysis, world, output)'
  <2>1. <<>> \in Seq(Existing(o))
    OBVIOUS
  <2> QED
    BY <1>2, <1>7, <2>1 DEF AnalysisOf, Idle
<1>12. IdsExist'
  BY <1>2, <1>7, <1>8, <1>9, <1>10, <1>11 DEF IdsExist, caches
<1>13. (world \in Worlds /\ MapsRead)'
  BY <1>2 DEF IInv, MapsRead, MapOf, maps
<1>14. IdsKept
  BY <1>3, <1>7, <1>8 DEF IdsKept, Leads
<1> QED
  BY <1>12, <1>13, <1>14 DEF IInv

\* Records that only define something.
LEMMA DefinitionSteps ==
  ASSUME IInv, Comm \/ SendCommand \/ AddAttributes \/ AddFormat
  PROVE  IInv' /\ IdsKept
<1>1. UNCHANGED <<world, addressCache, invalidCache, maps, analysis>>
  BY DEF Comm, SendCommand, AddAttributes, AddFormat, caches
<1>2. PICK p : p = output
  OBVIOUS
<1>3. Good(p)
  BY <1>2 DEF IInv, IdsExist
<1>4. CASE Comm
  <2>1. PICK name : output' = comm(p, name)
    BY <1>2, <1>4 DEF Comm
  <2>2. PICK o : o = comm(p, name)
    OBVIOUS
  <2>3. Leads(p, o)
    BY <1>3, <2>2, resolveStringLemma DEF comm
  <2> QED
    BY <1>1, <1>2, <2>1, <2>2, <2>3, SendsOnly
<1>5. CASE SendCommand
  <2>1. PICK name : output' = sendTaskEvent(p, name)
    BY <1>2, <1>5 DEF SendCommand
  <2>2. PICK o : o = sendTaskEvent(p, name)
    OBVIOUS
  <2>3. Leads(p, o)
    BY <1>3, <2>2, sendTaskEventLemma
  <2> QED
    BY <1>1, <1>2, <2>1, <2>2, <2>3, SendsOnly
<1>6. CASE AddAttributes
  <2>1. PICK name : output' = sendAttributes(p, name)
    BY <1>2, <1>6 DEF AddAttributes
  <2>2. PICK o : o = sendAttributes(p, name)
    OBVIOUS
  <2>3. Leads(p, o)
    BY <1>3, <2>2, sendAttributesLemma
  <2> QED
    BY <1>1, <1>2, <2>1, <2>2, <2>3, SendsOnly
<1>7. CASE AddFormat
  <2>1. PICK format \in world.formats : output' = sendEventFormat(p, format)
    BY <1>2, <1>7 DEF AddFormat
  <2>2. PICK o : o = sendEventFormat(p, format)
    OBVIOUS
  <2>3. format.fields \in Seq(ToSet(format.fields))
    BY FrameAssumption DEF IInv
  <2>4. Leads(p, o)
    BY <1>3, <2>2, <2>3, sendEventFormatLemma
  <2> QED
    BY <1>1, <1>2, <2>1, <2>2, <2>4, SendsOnly
<1> QED
  BY <1>4, <1>5, <1>6, <1>7

LEMMA NextIInv == IInv /\ [Next]_vars => IInv' /\ IdsKept
<1> SUFFICES ASSUME IInv, [Next]_vars PROVE IInv' /\ IdsKept
  OBVIOUS
<1>1. CASE UNCHANGED vars
  BY <1>1, OutputUnchanged DEF vars, caches, maps, IInv, IdsExist, Good, CachedIn,
                               Existing, AnalysisOf, MapsRead, MapOf
<1>2. CASE Next
  BY <1>2, DefinitionSteps, WriteLineStep, BeginAnalysisStep, LookUpStep, RetryStep, SendStep,
     clearCacheStep DEF Next
<1> QED
  BY <1>1, <1>2

-----------------------------------------------------------------------------
\* A buffer that is sent only names strings, locations and attributes that an earlier one
\* has defined, and their ids count up in the order of the definitions
\* (resolveString, resolveLocation, lookupFrame, analyze).
THEOREM SendsDefinitionsFirst == Spec => []EveryIdIsDefined
<1>1. IInv => EveryIdIsDefined
  BY StreamIsDefined DEF IInv, IdsExist, Good
<1> QED
  BY <1>1, InitIInv, NextIInv, PTL DEF Spec

\* The caches of addresses only hold ids that the client knows, symbols are of such ids,
\* and no line of a perf map is read before it was written or read twice
\* (PerfAddressCache::cache, updatePerfMap).
THEOREM LookupsAreWellFormed == Spec => []FrameTypeOK
<1>1. IInv => FrameTypeOK
  <2> SUFFICES ASSUME IInv PROVE FrameTypeOK
    OBVIOUS
  <2>1. DOMAIN output.symbols \subseteq Ids(output.locations)
    BY DEF IInv, IdsExist, Good, Ids
  <2>2. /\ \A k \in DOMAIN addressCache : addressCache[k].id \in Ids(output.locations)
        /\ \A k \in DOMAIN invalidCache : invalidCache[k].id \in Ids(output.locations)
    BY DEF IInv, IdsExist, CachedIn, Existing, Ids
  <2>3. \A pid \in DOMAIN perfMap :
          position[pid] <= written[pid] /\ Len(perfMap[pid]) <= position[pid]
    <3>1. DOMAIN perfMap = DOMAIN world.maps
      BY DEF IInv, MapsRead
    <3>2. ASSUME NEW pid \in DOMAIN world.maps
          PROVE  position[pid] <= written[pid] /\ Len(perfMap[pid]) <= position[pid]
      <4>1. MapOf(world, pid, perfMap[pid], position[pid], written[pid])
        BY DEF IInv, MapsRead
      <4> QED
        BY <4>1 DEF MapOf
    <3> QED
      BY <3>1, <3>2
  <2>4. analysis.phase \in {"idle", "resolve"} /\ analysis.attempt \in 1 .. 2
    BY DEF IInv, IdsExist, AnalysisOf
  <2> QED
    BY <2>1, <2>2, <2>3, <2>4 DEF FrameTypeOK
<1> QED
  BY <1>1, InitIInv, NextIInv, PTL DEF Spec

\* An id that was sent is of the same string or location for the rest of the run, and a
\* location that has a symbol keeps having one: nothing is taken out of the tables
\* (resolveString, resolveLocation, resolveSymbol).
THEOREM IdsKeepTheirMeaning == Spec => [][Keeps(output, output')]_vars
<1>1. IInv /\ [Next]_vars => [Keeps(output, output')]_vars
  BY NextIInv DEF IdsKept
<1> QED
  BY <1>1, InitIInv, NextIInv, PTL DEF Spec

\* No string and no location is sent to the client under two ids, and the empty string under
\* none: what is asked for again is found (resolveString, resolveLocation).
THEOREM EachThingHasOneId == Spec => []OneIdEach(output)
<1>1. IInv => OneIdEach(output)
  BY DEF IInv, IdsExist, Good
<1> QED
  BY <1>1, InitIInv, NextIInv, PTL DEF Spec
=============================================================================
