-------------------------------- MODULE Detok --------------------------------
(***************************************************************************)
(* What is in a file of table_dir, and the text it makes of a value: the   *)
(* rows of load_mapping become a ByteMap, the ids of train a RankTable     *)
(* (core/src/tables.rs), either becomes a file and is parsed again, by the *)
(* extension and, for a ranking, by the reference client; to_text          *)
(* (core/src/detok.rs) reads values through the map.                       *)
(*                                                                         *)
(* Numbers are scaled: a byte and a u32 both hold 0..MaxU32, so a payload  *)
(* is one sequence of cells, offsets before blob.  The envelope of a file  *)
(* is its magic, version and reserved bytes.  Bytes stand for classes      *)
(* of UTF-8 bytes: a byte below Cont opens a character and is followed by  *)
(* that many continuation bytes; Cont is a continuation byte; bytes above  *)
(* it occur in no text.                                                    *)
(* MappingFile and RankingFile have how a file gets to its path; this      *)
(* module what is in it.  MaxRows and MaxDoc bound the rows of a query and *)
(* the document.                                                           *)
(***************************************************************************)
EXTENDS Integers, RankTable

CONSTANTS
  VocabSize,  \* the vocabulary's declared size
  Entries,    \* the token bytes a query may return, the empty sequence among them
  Absent,     \* no file, no map, SQL's NULL
  Corpora,    \* the id lists a training query may return
  Caps,       \* the caps train is called with
  MaxRows,
  MaxDoc

Cont == 3

Cells == 0..MaxU32
Ids == 0..VocabSize
Row == [id : Ids, bytes : Entries]
File ==
  [envelope : {"sound", "foreign", "reserved"}, kind : {"map", "ranking"}, size : Cells,
   payload : Seq(Cells)]

\* The ids of a training query are int4 columns, so below the largest u32.
ASSUME DetokAssumption ==
  /\ VocabSize \in 1..MaxU32
  /\ Cont <= MaxU32
  /\ Entries \subseteq Seq(0..Cont)
  /\ Corpora \subseteq Seq(0..(MaxU32 - 1)) \ {<<>>} /\ Caps \subseteq Nat
  /\ MaxRows \in Nat /\ MaxDoc \in Nat
  /\ Absent \notin File \cup Seq(Cells)

VARIABLES
  rows,     \* the pairs load_mapping has taken from its query so far
  given,    \* history: the pairs the file was built from
  trained,  \* history: the ranking the file was built from, or Absent
  file,     \* the file, or Absent
  damaged,  \* history: the file is not as it was written
  map,      \* the ByteMap a backend parsed from it, or Absent
  table,    \* the RankTable a backend parsed from it, or Absent
  doc,      \* the ids of a document
  cut       \* its first cut ids are stored as one value, the rest as the next

vars == <<rows, given, trained, file, damaged, map, table, doc, cut>>

Init ==
  /\ rows = <<>> /\ given = {} /\ trained = Absent
  /\ file = Absent /\ damaged = FALSE /\ map = Absent /\ table = Absent
  /\ doc = <<>> /\ cut = 0

-----------------------------------------------------------------------------
(* ByteMap.                                                                 *)

BlobLen(p) == Len(FlattenSeq([i \in DOMAIN p |-> p[i].bytes]))

\* Mutant of Refused: the blob is not measured.
RefusedUnsized(p) ==
  \/ \E i \in DOMAIN p : p[i].id >= VocabSize \/ p[i].bytes = <<>>
  \/ \E i, j \in DOMAIN p : i # j /\ p[i].id = p[j].id

\* What ByteMap::build refuses.
Refused(p) ==
  \/ \E i \in DOMAIN p : p[i].id >= VocabSize \/ p[i].bytes = <<>>
  \/ \E i, j \in DOMAIN p : i # j /\ p[i].id = p[j].id
  \/ BlobLen(p) > MaxU32

\* The bytes of each id, in the order of ids; none where the query had no row.
Owned(p) ==
  [i \in 1..VocabSize |->
     IF \E j \in DOMAIN p : p[j].id = i - 1
     THEN p[CHOOSE j \in DOMAIN p : p[j].id = i - 1].bytes
     ELSE <<>>]

\* Offset k is the length of what the ids below k own, cast to u32.
Build(p) ==
  [offsets |-> [k \in 1..(VocabSize + 1) |->
                  Len(FlattenSeq(SubSeq(Owned(p), 1, k - 1))) % (MaxU32 + 1)],
   blob    |-> FlattenSeq(Owned(p))]

Sound(kind, size, payload) ==
  [envelope |-> "sound", kind |-> kind, size |-> size, payload |-> payload]

\* Mutant of ToBytes: the number of offsets for the number of ids.
ToBytesCount(m) == Sound("map", Len(m.offsets), m.offsets \o m.blob)

\* to_bytes and vocab_size.
ToBytes(m) == Sound("map", Len(m.offsets) - 1, m.offsets \o m.blob)

Offsets(f) == SubSeq(f.payload, 1, f.size + 1)
Blob(f) == SubSeq(f.payload, f.size + 2, Len(f.payload))

\* Mutant of Accepted: the last offset is not compared with the blob.
AcceptedNoEnd(f) ==
  /\ f.envelope = "sound" /\ f.kind = "map"
  /\ Len(f.payload) >= f.size + 1
  /\ Offsets(f)[1] = 0
  /\ \A k \in 1..f.size : Offsets(f)[k] <= Offsets(f)[k + 1]

\* What from_bytes checks.
Accepted(f) ==
  /\ f.envelope = "sound" /\ f.kind = "map"
  /\ Len(f.payload) >= f.size + 1
  /\ Offsets(f)[1] = 0
  /\ \A k \in 1..f.size : Offsets(f)[k] <= Offsets(f)[k + 1]
  /\ Last(Offsets(f)) = Len(Blob(f))

\* What it makes of an accepted file.
FromBytes(f) == [offsets |-> Offsets(f), blob |-> Blob(f)]

\* The bytes of an id, or Absent: the id is past the vocabulary or owns none.
Get(m, id) ==
  IF id >= Len(m.offsets) - 1 \/ m.offsets[id + 1] = m.offsets[id + 2]
  THEN Absent
  ELSE SubSeq(m.blob, m.offsets[id + 1] + 1, m.offsets[id + 2])

-----------------------------------------------------------------------------
(* RankTable's file: the ranked tokens, most frequent first.                *)

\* Mutant of RankToBytes: the ranked tokens counted in bytes.
RankToBytesSized(t) == Sound("ranking", 4 * K(t), t)

\* to_bytes
RankToBytes(t) == Sound("ranking", K(t), t)

\* Mutant of RankFromBytes: the file is trusted to rank no token twice.
RankFromBytesTrusting(f) ==
  IF f.envelope = "sound" /\ f.kind = "ranking" /\ Len(f.payload) = f.size
  THEN {f.payload} ELSE {}

\* from_bytes: none where the file is refused.
RankFromBytes(f) ==
  IF /\ f.envelope = "sound" /\ f.kind = "ranking"
     /\ Len(f.payload) = f.size
     /\ IsTable(f.payload)
  THEN {f.payload} ELSE {}

\* RankTable.load of the client: neither reserved bytes nor tokens ranked twice are looked at.
ClientLoad(f) ==
  IF f.envelope # "foreign" /\ f.kind = "ranking" /\ Len(f.payload) = f.size
  THEN {f.payload} ELSE {}

-----------------------------------------------------------------------------
(* to_text.                                                                 *)

\* core::str::from_utf8, byte by byte: upto bytes are whole characters, the character
\* begun after them still needs some, or a byte was wrong where it stood.
NextByte(s, b) ==
  IF s.bad \/ b > Cont \/ (b = Cont) # (s.need > 0) THEN [s EXCEPT !.bad = TRUE]
  ELSE LET need == IF b = Cont THEN s.need - 1 ELSE b IN
       [bad  |-> FALSE,
        need |-> need,
        seen |-> s.seen + 1,
        upto |-> IF need = 0 THEN s.seen + 1 ELSE s.upto]

FromUtf8(bytes) ==
  LET state[i \in 0..Len(bytes)] ==
        IF i = 0 THEN [bad |-> FALSE, need |-> 0, seen |-> 0, upto |-> 0]
        ELSE NextByte(state[i - 1], bytes[i])
  IN state[Len(bytes)]

Mapped(ids) == \A i \in DOMAIN ids : Get(map, ids[i]) # Absent
BytesOf(ids) == FlattenSeq([i \in DOMAIN ids |-> Get(map, ids[i])])

\* Mutant of ToText: continuation bytes at the front are taken for the rest of a cut character.
ToTextLenient(ids) ==
  IF ~Mapped(ids) THEN {}
  ELSE LET b == BytesOf(ids)
           opens == {i \in DOMAIN b : b[i] # Cont}
           rest == IF opens = {} THEN <<>>
                   ELSE SubSeq(b, CHOOSE i \in opens : \A j \in opens : i <= j, Len(b)) IN
       IF FromUtf8(rest).bad THEN {} ELSE {SubSeq(rest, 1, FromUtf8(rest).upto)}

\* Mutant of ToText: only the last byte of a cut character is dropped.
ToTextLastByte(ids) ==
  IF ~Mapped(ids) \/ FromUtf8(BytesOf(ids)).bad THEN {}
  ELSE LET b == BytesOf(ids) IN
       {IF FromUtf8(b).need = 0 THEN b ELSE SubSeq(b, 1, Len(b) - 1)}

\* Mutant of ToText: a character cut off at the end is an error like any other.
ToTextStrict(ids) ==
  IF ~Mapped(ids) \/ FromUtf8(BytesOf(ids)).bad \/ FromUtf8(BytesOf(ids)).need > 0 THEN {}
  ELSE {BytesOf(ids)}

\* The text of a value under the parsed map: one, or none where to_text returns an error.
ToText(ids) ==
  IF ~Mapped(ids) \/ FromUtf8(BytesOf(ids)).bad THEN {}
  ELSE {SubSeq(BytesOf(ids), 1, FromUtf8(BytesOf(ids)).upto)}

-----------------------------------------------------------------------------
(* Steps.                                                                   *)

\* load_mapping takes a row with an id and bytes.
Fetch(id, bytes) ==
  /\ file = Absent
  /\ Len(rows) < MaxRows
  /\ rows' = Append(rows, [id |-> id, bytes |-> bytes])
  /\ UNCHANGED <<given, trained, file, damaged, map, table, doc, cut>>

\* A NULL, a negative id or a failed query: the statement raises.
FetchFails ==
  /\ rows # <<>>
  /\ rows' = <<>>
  /\ UNCHANGED <<given, trained, file, damaged, map, table, doc, cut>>

\* ByteMap::build refuses the pairs.
BuildFails ==
  /\ rows # <<>>
  /\ Refused(rows)
  /\ rows' = <<>>
  /\ UNCHANGED <<given, trained, file, damaged, map, table, doc, cut>>

\* The map is built and written; write_map's steps are MappingFile's.
LoadMapping ==
  /\ file = Absent
  /\ rows # <<>>
  /\ ~Refused(rows)
  /\ file' = ToBytes(Build(rows))
  /\ given' = {rows[i] : i \in DOMAIN rows}
  /\ rows' = <<>>
  /\ UNCHANGED <<trained, damaged, map, table, doc, cut>>

\* The ids of a training query are ranked and the ranking written; write_table's steps are
\* RankingFile's.
Train(ids, cap) ==
  /\ file = Absent /\ rows = <<>>
  /\ trained' = TrainTable(ids, cap)
  /\ file' = RankToBytes(trained')
  /\ UNCHANGED <<rows, given, damaged, map, table, doc, cut>>

\* The disk changes a cell, the length or a field of the header.
Damage ==
  /\ file # Absent /\ ~damaged /\ map = Absent /\ table = Absent
  /\ damaged' = TRUE
  /\ \/ \E k \in DOMAIN file.payload, c \in Cells :
          file' = [file EXCEPT !.payload[k] = c]
     \/ \E n \in 0..(Len(file.payload) - 1) :
          file' = [file EXCEPT !.payload = SubSeq(@, 1, n)]
     \/ \E c \in Cells : file' = [file EXCEPT !.payload = Append(@, c)]
     \/ \E n \in Cells : file' = [file EXCEPT !.size = n]
     \/ \E kind \in {"map", "ranking"} \ {file.kind} : file' = [file EXCEPT !.kind = kind]
     \/ \E envelope \in {"foreign", "reserved"} : file' = [file EXCEPT !.envelope = envelope]
  /\ UNCHANGED <<rows, given, trained, map, table, doc, cut>>

\* byte_map parses the file; one it refuses stays unread.
ByteMap ==
  /\ file # Absent /\ map = Absent
  /\ Accepted(file)
  /\ map' = FromBytes(file)
  /\ UNCHANGED <<rows, given, trained, file, damaged, table, doc, cut>>

\* rank_table parses it.
ReadRanking ==
  /\ file # Absent /\ table = Absent
  /\ \E t \in RankFromBytes(file) : table' = t
  /\ UNCHANGED <<rows, given, trained, file, damaged, map, doc, cut>>

\* A document grows by a token.
Tokenize(id) ==
  /\ map # Absent
  /\ Len(doc) < MaxDoc /\ cut = 0
  /\ doc' = Append(doc, id)
  /\ UNCHANGED <<rows, given, trained, file, damaged, map, table, cut>>

\* It is stored as two values, cut by token count.
Cut(n) ==
  /\ cut = 0
  /\ cut' = n
  /\ UNCHANGED <<rows, given, trained, file, damaged, map, table, doc>>

\* A new session, in which other documents are read.
Reconnect ==
  /\ map' = Absent /\ table' = Absent /\ doc' = <<>> /\ cut' = 0
  /\ UNCHANGED <<rows, given, trained, file, damaged>>

Next ==
  \/ \E id \in Ids, bytes \in Entries : Fetch(id, bytes)
  \/ FetchFails
  \/ BuildFails
  \/ LoadMapping
  \/ \E ids \in Corpora, cap \in Caps : Train(ids, cap)
  \/ Damage
  \/ ByteMap
  \/ ReadRanking
  \/ \E id \in Ids : Tokenize(id)
  \/ \E n \in 1..Len(doc) : Cut(n)
  \/ Reconnect

Spec == Init /\ [][Next]_vars

-----------------------------------------------------------------------------
(* Properties.                                                              *)

FirstValue == SubSeq(doc, 1, cut)
SecondValue == SubSeq(doc, cut + 1, Len(doc))

TypeOK ==
  /\ rows \in Seq(Row) /\ Len(rows) <= MaxRows
  /\ given \subseteq Row
  /\ file \in File \cup {Absent}
  /\ damaged \in BOOLEAN
  /\ file # Absent /\ ~damaged =>
       file.size = IF trained = Absent THEN VocabSize ELSE K(trained)
  /\ map \in [offsets : Seq(Cells), blob : Seq(Cells)] \cup {Absent}
  /\ trained \in Seq(Cells) \cup {Absent} /\ table \in Seq(Cells) \cup {Absent}
  /\ doc \in Seq(Ids) /\ Len(doc) <= MaxDoc
  /\ cut \in 0..Len(doc)

\* tables.rs:256-346 and pgtoken_client.py:68-81: the file a load or train has written is one
\* that is accepted as what was given.  A mapping has for every id the bytes the rows gave,
\* and nothing for an id without a row, up to the largest blob; a ranking is the same to the
\* extension and to the client.
ArtefactIsKept ==
  file # Absent /\ ~damaged =>
    IF trained # Absent
    THEN RankFromBytes(file) = {trained} /\ ClientLoad(file) = {trained}
    ELSE
      /\ Accepted(file)
      /\ \A id \in Ids :
           LET entries == {r \in given : r.id = id} IN
           IF entries = {} THEN Get(FromBytes(file), id) = Absent
           ELSE \A r \in entries : Get(FromBytes(file), id) = r.bytes

\* tables.rs:456-457, "a reversed or overrunning offset would panic on slice": whatever
\* happened to the file, a map that was accepted has every id's range inside its blob.
NeverOutOfRange ==
  map # Absent =>
    \A k \in 1..(Len(map.offsets) - 1) :
      map.offsets[k] <= map.offsets[k + 1] /\ map.offsets[k + 1] <= Len(map.blob)

\* Whole characters and nothing else, without reading from left to right.
Whole(bytes) ==
  /\ bytes # <<>> => bytes[1] # Cont
  /\ \A i \in DOMAIN bytes :
       bytes[i] # Cont =>
         LET end == i + bytes[i] IN
         /\ bytes[i] < Cont
         /\ end <= Len(bytes)
         /\ \A j \in (i + 1)..end : bytes[j] = Cont
         /\ end < Len(bytes) => bytes[end + 1] # Cont

\* The front of one character, and not all of it.
Begun(bytes) ==
  bytes # <<>> =>
    /\ bytes[1] < Cont
    /\ Len(bytes) <= bytes[1]
    /\ \A i \in 2..Len(bytes) : bytes[i] = Cont

\* detok.rs:39-45: a text is the whole characters of the value's bytes, all but a character
\* cut off at the very end, and there is no text exactly when the bytes are not of that form
\* or an id has no entry.
WholeCharacters ==
  map # Absent =>
    \A ids \in {doc, FirstValue, SecondValue} :
      ToText(ids) =
        IF ~Mapped(ids) THEN {}
        ELSE LET b == BytesOf(ids) IN
             {SubSeq(b, 1, n) : n \in {n \in 0..Len(b) :
                Whole(SubSeq(b, 1, n)) /\ Begun(SubSeq(b, n + 1, Len(b)))}}

\* detok.rs:41-45: the dropped end of a cut character never goes unnoticed.  Where a document
\* has a text and so has each of the values it is cut into, these joined are the document's.
\* Where the document is of whole characters, the value it is cut off at has a text wherever the
\* cut falls, and the value after it has one exactly when no character is cut.
ChunkBoundaries ==
  map # Absent =>
    /\ \A h \in ToText(FirstValue), t \in ToText(SecondValue), d \in ToText(doc) :
         SecondValue # <<>> => d = h \o t
    /\ Mapped(doc) /\ Whole(BytesOf(doc)) =>
         /\ ToText(FirstValue) # {}
         /\ ToText(SecondValue) # {} <=> Whole(BytesOf(FirstValue))

\* tables.rs:298-299, "would make two ranks decode to the same token and silently corrupt the
\* inverse mapping": whatever happened to the file, a ranking the extension accepted gives
\* every id one rank, and the client reads the same ranking from it.
RankingAgrees == table # Absent => IsTable(table) /\ ClientLoad(file) = {table}

=============================================================================
