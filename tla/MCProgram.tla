----------------------------- MODULE MCProgram ------------------------------
(***************************************************************************)
(* Recordings for Program: streams with tracing data, a bad record and a   *)
(* bad magic, and files with compressed records that end in the header and *)
(* in the content of an event, truncated, and without what is needed.      *)
(***************************************************************************)
EXTENDS Program

Record(type, at, size) == [NoHeader EXCEPT !.type = type, !.at = at, !.size = size]

Streams == {"stdin", "socket"}
Devices == {"file"} \cup Streams

Stream == [magic |-> "little", headerSize |-> 2, inner |-> {}, size |-> 14,
  dataAt |-> 0, dataEnd |-> 0, compressed |-> FALSE, readable |-> TRUE,
  arch |-> TRUE, devices |-> Devices,
  records |-> {Record("event", 2, 1),
               [Record("tracing", 5, 1) EXCEPT !.extra = 3],
               Record("skipped", 11, 1)}]

Events == [Stream EXCEPT !.size = 8,
  !.records = {Record("event", 2, 0), Record("event", 4, 2)}]

\* Events of a file are not read to their ends.
Unread(r) == [r EXCEPT !.unread = 1]

File == [Stream EXCEPT !.headerSize = 4, !.size = 12, !.dataAt = 5, !.dataEnd = 11,
  !.records = {Unread(Record("event", 5, 2)), Record("event", 9, 0)}]

Slice(at, slice) == [Record("compressed", at, 1) EXCEPT !.slice = slice]

\* The first compressed record ends in the header of the second event, the
\* second one in its content.
Compressed == [File EXCEPT !.size = 18, !.dataEnd = 17, !.compressed = TRUE,
  !.inner   = {Unread(Record("event", 0, 1)), Record("event", 3, 1), Record("event", 6, 0)},
  !.records = {Slice(5, <<0, 1, 2, 3>>), Slice(8, <<4>>), Slice(11, <<5, 6, 7>>),
               Record("event", 14, 1)}]

MCInputs == {
  Stream, Events,
  [Stream EXCEPT !.magic = "bad"],
  [Stream EXCEPT !.size = 13, !.devices = {"file"}],
  [Stream EXCEPT !.headerSize = 1],
  [Stream EXCEPT !.arch = FALSE],
  [Stream EXCEPT !.records = {Record("bad", 2, 10)}],
  [Stream EXCEPT !.records = {Record("compressed", 2, 10)}],
  [Stream EXCEPT !.size = 2, !.records = {}],
  File, Compressed,
  [File EXCEPT !.magic = "big"],
  [File EXCEPT !.readable = FALSE],
  [File EXCEPT !.size = 10, !.devices = {"file"}],
  [File EXCEPT !.size = 3, !.devices = {"file"}],
  [File EXCEPT !.size = 1, !.devices = {"file"}]}
=============================================================================
