------------------------------- MODULE Output -------------------------------
(***************************************************************************)
(* What PerfUnwind (src/app/perfunwind.cpp) sends to the client.  Strings, *)
(* locations, symbols of locations and attributes are sent once, as        *)
(* definitions; everything that is sent later names them by their ids.     *)
(*                                                                         *)
(* An output is a record of the tables and of the stream of buffers sent.  *)
(* The operators take the output as it was and return what it becomes, as  *)
(* the calls of a handler follow each other.  A string is a sequence of    *)
(* tokens, and the empty string is the empty sequence.                     *)
(***************************************************************************)
EXTENDS Integers, SequencesExt

None == -1

\* Op(x), where TLC evaluates x once: each call of a handler takes what the last one left.
With(x, Op(_)) == CHOOSE y \in {Op(v) : v \in {x}} : TRUE

\* QHash::insert
insert(map, key, value) ==
  [k \in DOMAIN map \cup {key} |-> IF k = key THEN value ELSE map[k]]

NoOutput == [strings |-> <<>>, locations |-> <<>>, symbols |-> <<>>,
             attributes |-> 0, stream |-> <<>>]

\* Ids count from 0: the id is the size of the table before the insertion.
IdIn(table, Is(_)) ==
  IF \E i \in DOMAIN table : Is(table[i])
  THEN (CHOOSE i \in DOMAIN table : Is(table[i])) - 1
  ELSE None

\* Locations are told apart by all but their parents.
SameLocation(a, b) ==
  \A field \in DOMAIN a \ {"parentLocationId"} : a[field] = b[field]

lookupString(o, string)     == IdIn(o.strings, LAMBDA s : s = string)
lookupLocation(o, location) == IdIn(o.locations, LAMBDA l : SameLocation(l, location))

\* What a buffer says: strings and locations are the ids that it names, where -1
\* says that there is none.
Buffer(type, id, strings, locations) ==
  [type |-> type, id |-> id, strings |-> strings \ {None},
   locations |-> locations \ {None}, attributes |-> {}]

sendBuffer(o, buffer) == [o EXCEPT !.stream = Append(@, buffer)]

sendString(o, id)   == sendBuffer(o, Buffer("StringDefinition", id, {}, {}))
sendLocation(o, id, location) ==
  sendBuffer(o, Buffer("LocationDefinition", id, {location.file},
                       {location.parentLocationId}))
sendSymbol(o, id, symbol) ==
  sendBuffer(o, Buffer("SymbolDefinition", id,
               {symbol.name, symbol.binary, symbol.path, symbol.actualPath}, {id}))
sendError(o) == sendBuffer(o, Buffer("Error", None, {}, {}))

-----------------------------------------------------------------------------
(***************************************************************************)
(* Interning: resolveString returns lookupString afterwards, which is -1   *)
(* for an empty string.                                                    *)
(***************************************************************************)
\* Faulty: gives the next string the id of the last one.
resolveStringOff(output, string) ==
  With(output, LAMBDA o :
    IF string = <<>> \/ lookupString(o, string) # None THEN o
    ELSE sendString([o EXCEPT !.strings = Append(@, string)], Len(o.strings) - 1))

resolveString(output, string) ==
  With(output, LAMBDA o :
    IF string = <<>> \/ lookupString(o, string) # None THEN o
    ELSE sendString([o EXCEPT !.strings = Append(@, string)], Len(o.strings)))

\* One string after the other.
resolveStrings(output, strings) ==
  LET upTo[k \in 0 .. Len(strings)] ==
        IF k = 0 THEN output ELSE resolveString(upTo[k - 1], strings[k])
  IN  upTo[Len(strings)]

resolveLocation(output, location) ==
  With(output, LAMBDA o :
    IF lookupLocation(o, location) # None THEN o
    ELSE sendLocation([o EXCEPT !.locations = Append(@, location)],
                      Len(o.locations), location))

hasSymbol(o, id) == id \in DOMAIN o.symbols

resolveSymbol(output, id, symbol) ==
  With(output, LAMBDA o :
    sendSymbol([o EXCEPT !.symbols = insert(@, id, symbol)], id, symbol))

-----------------------------------------------------------------------------
(***************************************************************************)
(* The other definitions                                                   *)
(***************************************************************************)
\* The string has been sent when the event is buffered, and so before it is sent.
comm(o, name) == resolveString(o, name)

sendTaskEvent(o, name) ==
  sendBuffer(o, Buffer("Command", None, {lookupString(o, name)}, {}))

sendAttributes(o, name) ==
  With(resolveString(o, name), LAMBDA named :
    sendBuffer([named EXCEPT !.attributes = @ + 1],
      Buffer("AttributesDefinition", o.attributes, {lookupString(named, name)}, {})))

\* The names of fields are sent with the format, because samples name them.
sendEventFormat(o, format) ==
  With(resolveStrings(o, <<format.system, format.name>> \o format.fields),
    LAMBDA named :
      sendBuffer(named, Buffer("TracePointFormat", format.id,
        {lookupString(named, format.system), lookupString(named, format.name)}, {})))

\* The end of analyze; the names of fields are not resolved, but looked up.
sendSample(o, frames, attribute, fields) ==
  sendBuffer(o, [Buffer("Sample", None, {lookupString(o, f) : f \in ToSet(fields)},
                        frames) EXCEPT !.attributes = {attribute} \ {None}])
=============================================================================
