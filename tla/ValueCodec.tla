------------------------------ MODULE ValueCodec ------------------------------
(***************************************************************************)
(* The byte form of a value, written and read by the extension             *)
(* (core/src/header.rs, value.rs, codec/) and by the reference client      *)
(* (benchmarks/pgtoken_client.py).  A value is made by either, passes      *)
(* between them and may be damaged or framed wrongly on its way.           *)
(*                                                                         *)
(* Numbers are scaled: a byte holds Quad two-bit codes, as many as a       *)
(* control byte of streamvbyte packs (four in the code), so that Base is   *)
(* 4^Quad and a u32 is four bytes of that.  A header is the fields that    *)
(* vary; sound stands for the right magic, version and reserved bytes and  *)
(* a header that is all there.  A function that may raise is the set of    *)
(* what it returns.  Powers and sums are recursive functions of their own, *)
(* as the proofs have no axioms for the library's.                         *)
(***************************************************************************)
EXTENDS RankTable, FiniteSets

CONSTANTS
  Quad,      \* codes in a control byte
  Table,     \* the ranking both sides use
  Lists,     \* the id lists that are written
  Vocabs,    \* vocabulary ids, 0 (UNRESOLVED) among them
  Counts,    \* the counts a damaged header may have
  Noise,     \* the cells damage may put into a payload
  None       \* no value

\* b ^ n
Power(b, n) ==
  LET power[k \in 0..n] == IF k = 0 THEN 1 ELSE b * power[k - 1] IN power[n]

Base == Power(4, Quad)
Bytes == 0..(Base - 1)
Codec == {"raw8", "raw16", "raw24", "freq"}

ASSUME CodecAssumption ==
  /\ Quad \in Nat \ {0}
  /\ MaxU32 = Power(Base, 4) - 1
  /\ IsTable(Table)
  /\ Lists \subseteq Seq(U32)
  /\ Vocabs \subseteq Nat /\ Counts \subseteq Nat /\ Noise \subseteq Bytes

VARIABLES
  ids,     \* history: the list the value was made from
  value,   \* the value, or None
  damage   \* history: "none", "length" (payload length or count), "content"

vars == <<ids, value, damage>>

Init == ids = <<>> /\ value = None /\ damage = "none"

-----------------------------------------------------------------------------
(* Packing integers.                                                        *)

\* The number whose digits, least significant first, are ds.
OfDigits(ds, b) ==
  LET n == Len(ds)
      high[k \in 0..n] == IF k = 0 THEN 0 ELSE high[k - 1] * b + ds[n - k + 1] IN
  high[n]

\* Mutant of LittleEndian: shifted and not masked.
LittleEndianUnmasked(x, n) == [i \in 1..n |-> x \div Power(Base, i - 1)]

LittleEndian(x, n) == [i \in 1..n |-> (x \div Power(Base, i - 1)) % Base]

\* The w-byte chunks of the first n integers of a payload.
Chunk(payload, i, w) == SubSeq(payload, (i - 1) * w + 1, i * w)

Width(codec) == CASE codec = "raw8" -> 1 [] codec = "raw16" -> 2 [] codec = "raw24" -> 3

-----------------------------------------------------------------------------
(* streamvbyte: control bytes of Quad codes, each a length less one, then   *)
(* the integers, little-endian, at these lengths.                           *)

ControlLen(n) == (n + Quad - 1) \div Quad

Layout(list, lens) ==
  LET code(i) == IF i \in DOMAIN list THEN lens[i] - 1 ELSE 0 IN
  [q \in 1..ControlLen(Len(list)) |->
     OfDigits([j \in 1..Quad |-> code((q - 1) * Quad + j)], 4)]
  \o FlattenSeq([i \in DOMAIN list |-> LittleEndian(list[i], lens[i])])

\* The lengths the control bytes of a payload give for n integers.
Lengths(payload, n) ==
  [i \in 1..n |->
     1 + ((payload[((i - 1) \div Quad) + 1] \div Power(4, (i - 1) % Quad)) % 4)]

\* Where integer i begins, counting data bytes from 0.
Start(lens, i) ==
  LET sum[k \in 0..Len(lens)] == IF k = 0 THEN 0 ELSE sum[k - 1] + lens[k] IN sum[i - 1]

-----------------------------------------------------------------------------
(* The extension.                                                           *)

\* The least number of bytes that hold an integer, four at most.
SvbEncode(list) ==
  Layout(list, [i \in DOMAIN list |->
    CHOOSE n \in 1..4 : (n = 4 \/ list[i] < Power(Base, n)) /\ (n = 1 \/ list[i] >= Power(Base, n - 1))])

\* encode8, encode16, encode24: an id past Codec::max_id is refused; raw16 is little-endian,
\* raw24 big-endian.
EncodeRaw(codec, list) ==
  IF \E i \in DOMAIN list : list[i] > Power(Base, Width(codec)) - 1 THEN {}
  ELSE {FlattenSeq([i \in DOMAIN list |->
          LET cells == LittleEndian(list[i], Width(codec)) IN
          IF codec = "raw24" THEN Reverse(cells) ELSE cells])}

\* Mutant of DecodeRaw: every codec is little-endian.
DecodeRawLittle(codec, payload, n) ==
  IF Len(payload) # n * Width(codec) THEN {}
  ELSE {[i \in 1..n |-> OfDigits(Chunk(payload, i, Width(codec)), Base)]}

\* decode8, decode16, decode24.
DecodeRaw(codec, payload, n) ==
  IF Len(payload) # n * Width(codec) THEN {}
  ELSE {[i \in 1..n |->
          LET cells == Chunk(payload, i, Width(codec)) IN
          OfDigits(IF codec = "raw24" THEN Reverse(cells) ELSE cells, Base)]}

\* Mutant of DecodeFreq: bytes left over are ignored.
DecodeFreqLoose(payload, n) ==
  IF n = 0 THEN {<<>>}
  ELSE IF Len(payload) < ControlLen(n) THEN {}
  ELSE LET lens == Lengths(payload, n) IN
       IF Len(payload) < ControlLen(n) + Start(lens, n + 1) THEN {}
       ELSE {[i \in 1..n |->
               LET at == ControlLen(n) + Start(lens, i) IN
               Token(Table, OfDigits(SubSeq(payload, at + 1, at + lens[i]), Base))]}

\* The crate's decoder panics where the payload is too short for the lengths it gives; freq.rs
\* refuses what is longer.
DecodeFreq(payload, n) ==
  IF n = 0 THEN {<<>>}
  ELSE IF Len(payload) < ControlLen(n) THEN {}
  ELSE LET lens == Lengths(payload, n) IN
       IF Len(payload) # ControlLen(n) + Start(lens, n + 1) THEN {}
       ELSE {[i \in 1..n |->
               LET at == ControlLen(n) + Start(lens, i) IN
               Token(Table, OfDigits(SubSeq(payload, at + 1, at + lens[i]), Base))]}

EncodeFreq(list) ==
  IF \A i \in DOMAIN list : RankFits(Table, list[i])
  THEN {SvbEncode([i \in DOMAIN list |-> Rank(Table, list[i])])}
  ELSE {}

Framed(codec, vocab, list, payload) ==
  [sound |-> TRUE, codec |-> codec, vocab |-> vocab, n |-> Len(list), payload |-> payload]

\* value::encode.
ValueEncode(codec, vocab, list) ==
  IF codec = "freq" THEN {Framed(codec, vocab, list, p) : p \in EncodeFreq(list)}
  ELSE {Framed(codec, vocab, list, p) : p \in EncodeRaw(codec, list)}

\* Mutant of HeaderParses: the payload of a raw value is not measured.
HeaderParsesAnyLength(v) ==
  /\ v.sound
  /\ v.codec \in Codec
  /\ v.codec = "freq" => v.vocab # 0 /\ (v.n > 0 => v.payload # <<>>)

\* Header::parse accepts the value.
HeaderParses(v) ==
  /\ v.sound
  /\ v.codec \in Codec
  /\ v.codec = "freq" => v.vocab # 0
  /\ IF v.codec = "freq" THEN v.n > 0 => v.payload # <<>>
     ELSE Len(v.payload) = v.n * Width(v.codec)

\* value::decode.
ValueDecode(v) ==
  IF ~HeaderParses(v) THEN {}
  ELSE IF v.codec = "freq" THEN DecodeFreq(v.payload, v.n)
  ELSE DecodeRaw(v.codec, v.payload, v.n)

\* describe, and token_count, its n_tokens: the header and the length, nothing is decoded.
Describe(v) ==
  IF HeaderParses(v)
  THEN {[codec |-> v.codec, vocab |-> v.vocab, n |-> v.n, payloadBytes |-> Len(v.payload)]}
  ELSE {}

-----------------------------------------------------------------------------
(* The client.                                                              *)

\* numpy's addition and cast to uint32 wrap.
ClientRank(id) ==
  IF id \in Ranked(Table) THEN (CHOOSE i \in 1..K(Table) : Table[i] = id) - 1
  ELSE (id + K(Table)) % (MaxU32 + 1)

ClientToken(rank) == IF rank < K(Table) THEN Table[rank + 1] ELSE rank - K(Table)

\* Mutant of ClientSvbEncode: one byte more from just below each power.
ClientSvbEncodeWide(list) ==
  Layout(list, [i \in DOMAIN list |-> 1 + Cardinality({n \in 1..3 : list[i] >= Power(Base, n) - 1})])

\* One byte more at each power of the base that is reached.
ClientSvbEncode(list) ==
  Layout(list, [i \in DOMAIN list |-> 1 + Cardinality({n \in 1..3 : list[i] >= Power(Base, n)})])

\* raw24 is big-endian, matching the extension.
ClientCells(codec, id) ==
  CASE codec = "raw8"  -> <<id>>
    [] codec = "raw16" -> LittleEndian(id, 2)
    [] codec = "raw24" -> <<(id \div Power(Base, 2)) % Base, (id \div Base) % Base, id % Base>>

\* Ids too wide are refused; freq has no such check, but a lookup in an empty ranking raises.
ClientEncode(codec, vocab, list) ==
  IF codec = "freq"
  THEN IF K(Table) = 0 /\ list # <<>> THEN {}
       ELSE {Framed(codec, vocab, list,
                    ClientSvbEncode([i \in DOMAIN list |-> ClientRank(list[i])]))}
  ELSE IF \E i \in DOMAIN list : list[i] >= Power(Base, Width(codec)) THEN {}
       ELSE {Framed(codec, vocab, list,
                    FlattenSeq([i \in DOMAIN list |-> ClientCells(codec, list[i])]))}

\* parse_header accepts the value.
ClientParses(v) == v.sound /\ v.codec \in Codec

\* Mutant of ClientSvbDecode: no zeros behind the data.
ClientSvbDecodeUnpadded(payload, n) ==
  IF n = 0 THEN {<<>>}
  ELSE IF Len(payload) < ControlLen(n) THEN {}
  ELSE LET lens == Lengths(payload, n)
           data == SubSeq(payload, ControlLen(n) + 1, Len(payload)) IN
       IF \E i \in 1..n : Start(lens, i) + 4 > Len(data) THEN {}
       ELSE {[i \in 1..n |->
               LET at == Start(lens, i) IN
               OfDigits(SubSeq(data, at + 1, at + lens[i]), Base)]}

\* Each integer is gathered from four bytes of the data with four zeros behind it, and what
\* its length does not cover is masked out; further data is left unread.
ClientSvbDecode(payload, n) ==
  IF n = 0 THEN {<<>>}
  ELSE IF Len(payload) < ControlLen(n) THEN {}
  ELSE LET lens == Lengths(payload, n)
           data == SubSeq(payload, ControlLen(n) + 1, Len(payload)) IN
       IF \E i \in 1..n : Start(lens, i) > Len(data) THEN {}
       ELSE {[i \in 1..n |->
               LET at == Start(lens, i) IN
               OfDigits(SubSeq(data \o <<0, 0, 0, 0>>, at + 1, at + lens[i]), Base)]}

\* frombuffer takes the first n elements and raises where there are fewer.
ClientDecode(v) ==
  IF ~ClientParses(v) THEN {}
  ELSE IF v.codec = "freq"
  THEN {[i \in 1..v.n |-> ClientToken(ranks[i])] : ranks \in ClientSvbDecode(v.payload, v.n)}
  ELSE IF Len(v.payload) < v.n * Width(v.codec) THEN {}
  ELSE {[i \in 1..v.n |->
          LET b == Chunk(v.payload, i, Width(v.codec)) IN
          IF v.codec = "raw24" THEN b[1] * Power(Base, 2) + b[2] * Base + b[3] ELSE OfDigits(b, Base)]}

-----------------------------------------------------------------------------
(* Steps.                                                                   *)

\* The extension or the client makes a value.
Make(codec, vocab, list) ==
  /\ value = None
  /\ value' \in ValueEncode(codec, vocab, list) \cup ClientEncode(codec, vocab, list)
  /\ ids' = list
  /\ UNCHANGED damage

\* It is decoded and encoded anew, by the extension (value::recode) or by the client.
Recode(codec, vocab) ==
  /\ value # None /\ damage = "none"
  /\ \/ \E list \in ValueDecode(value) : value' \in ValueEncode(codec, vocab, list)
     \/ \E list \in ClientDecode(value) : value' \in ClientEncode(codec, vocab, list)
  /\ UNCHANGED <<ids, damage>>

\* Its length or its count changes on the way.
ChangeLength ==
  /\ value # None /\ damage = "none"
  /\ damage' = "length"
  /\ \/ \E n \in 0..(Len(value.payload) - 1) :
          value' = [value EXCEPT !.payload = SubSeq(@, 1, n)]
     \/ \E c \in Noise : value' = [value EXCEPT !.payload = Append(@, c)]
     \/ \E n \in Counts \ {value.n} : value' = [value EXCEPT !.n = n]
  /\ UNCHANGED ids

\* Something else of it does.
ChangeContent ==
  /\ value # None /\ damage = "none"
  /\ damage' = "content"
  /\ \/ \E k \in DOMAIN value.payload, c \in Noise : value' = [value EXCEPT !.payload[k] = c]
     \/ \E codec \in Codec \cup {"unknown"} : value' = [value EXCEPT !.codec = codec]
     \/ \E vocab \in Vocabs : value' = [value EXCEPT !.vocab = vocab]
     \/ value' = [value EXCEPT !.sound = FALSE]
  /\ UNCHANGED ids

\* The value is gone; another one is written.
Delete ==
  /\ value # None
  /\ value' = None /\ ids' = <<>> /\ damage' = "none"

Next ==
  \/ \E codec \in Codec, vocab \in Vocabs, list \in Lists : Make(codec, vocab, list)
  \/ \E codec \in Codec, vocab \in Vocabs : Recode(codec, vocab)
  \/ ChangeLength
  \/ ChangeContent
  \/ Delete

Spec == Init /\ [][Next]_vars

-----------------------------------------------------------------------------
(* Properties.                                                              *)

Value ==
  [sound : BOOLEAN, codec : Codec \cup {"unknown"}, vocab : Vocabs, n : Nat, payload : Seq(Bytes)]

ASSUME NoneAssumption == None \notin Value

TypeOK ==
  /\ ids \in Seq(U32)
  /\ value \in Value \cup {None}
  /\ damage \in {"none", "length", "content"}
  /\ \A list \in IF value = None THEN {} ELSE ValueDecode(value) : list \in Seq(U32)

\* What either side may write: a freq value names its ranking, and every id has an integer in
\* a u32, which the extension checks and the client does not.
Writable ==
  /\ value # None /\ damage = "none"
  /\ value.codec = "freq" => value.vocab # 0
  /\ \A i \in DOMAIN ids : RankFits(Table, ids[i])

\* freq.rs:5-6 and raw.rs:3-4: whichever side wrote a value, and however often it was written
\* anew under other codecs by either, both read the list it was made from.
RoundTrip == Writable => ValueDecode(value) = {ids} /\ ClientDecode(value) = {ids}

\* tokens.rs:555-557, "The encoding is canonical", on which equality and hashing rest: a list
\* under one vocabulary and codec is one string of bytes, whoever wrote it after whichever
\* detour.  The client cannot write an id under a ranking of nothing.
Canonical ==
  Writable =>
    /\ ValueEncode(value.codec, value.vocab, ids) = {value}
    /\ ClientEncode(value.codec, value.vocab, ids) =
         IF value.codec = "freq" /\ K(Table) = 0 /\ ids # <<>> THEN {} ELSE {value}

\* header.rs:147-149, freq.rs:28-30, "the payload and the declared token count disagree": a
\* payload that lost or gained bytes, or a count that changed, is never decoded, except to the
\* empty list when the count of a freq value is 0.
LengthGuarded ==
  value # None /\ damage = "length" =>
    ValueDecode(value) = {} \/ (value.codec = "freq" /\ value.n = 0 /\ ValueDecode(value) = {<<>>})

\* pgtoken_client.py:3-4: of any bytes at all, framed rightly or wrongly, what the extension
\* decodes the client decodes to the same list.
ClientFollows == value # None => ValueDecode(value) \subseteq ClientDecode(value)

\* lib.rs:69-86, inspection that decodes nothing: of any bytes at all, a raw value is described
\* exactly when it can be read, and where a value can be read its described count is the number
\* of its ids, to the client as well.
CountHonest ==
  value # None =>
    /\ value.codec # "freq" => (Describe(value) # {} <=> ValueDecode(value) # {})
    /\ \A list \in ValueDecode(value) :
         /\ \A d \in Describe(value) : d.n = Len(list)
         /\ \A list2 \in ClientDecode(value) : Len(list2) = Len(list)

=============================================================================
