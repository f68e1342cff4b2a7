------------------------------ MODULE TokenValue ------------------------------
(***************************************************************************)
(* Values of pgtoken.tokens as the SQL functions see them: the vocabulary  *)
(* a header names, its codec and the integers its payload packs            *)
(* (core/src/header.rs, core/src/value.rs), and the three forms in which   *)
(* token ids come and go: text (TokenText), int[] and packed               *)
(* (ext/src/tokens.rs, ext/src/casts.rs).  The byte order of a packing is  *)
(* ValueCodec's.                                                           *)
(*                                                                         *)
(* A payload has a form: the one encode produces ("exact"), another one    *)
(* that decodes to the same integers ("loose": streamvbyte integers wider  *)
(* than they need to be, bytes after an empty list), or one that does not  *)
(* decode ("broken").                                                      *)
(*                                                                         *)
(* A function that may raise is modelled by the set of values it returns:  *)
(* empty if it raises.                                                     *)
(***************************************************************************)
EXTENDS TokenText

CONSTANTS
  Max8, Max16, Max24,  \* the largest ids of one, two and three bytes
  MaxI32,              \* i32::MAX
  Nothing              \* an empty column, a vocabulary without ranking

\* MAX_VOCAB_SIZE is Max24 + 1.
WidthsFit ==
  /\ Max8 \in Nat /\ Max16 \in Nat /\ Max24 \in Nat /\ MaxI32 \in Nat
  /\ Max8 < Max16 /\ Max16 < Max24 /\ Max24 <= MaxI32
  /\ MaxU32 = 2 * MaxI32 + 1

UNRESOLVED == 0

Codecs == {"raw8", "raw16", "raw24", "freq"}

\* Codec::max_id; what freq packs is bounded by its integers only.
MaxPacked(codec) ==
  CASE codec = "raw8" -> Max8
    [] codec = "raw16" -> Max16
    [] codec = "raw24" -> Max24
    [] codec = "freq" -> MaxU32

\* The sizes create_vocabulary accepts.
VocabSizes == 1..Max24 + 1

\* Mutant of WidthFor: the size in place of the largest id, off by one the wrong way.
WidthForOff(size) ==
  CASE size <= Max8 + 2 -> 1
    [] size > Max8 + 2 /\ size <= Max16 + 2 -> 2
    [] OTHER -> 3

\* width_for: the narrowest width that addresses the ids below the declared size.
WidthFor(size) ==
  CASE size - 1 <= Max8 -> 1
    [] size - 1 > Max8 /\ size - 1 <= Max16 -> 2
    [] OTHER -> 3

\* codec_for: freq ignores the width.
CodecOf(compression, width) ==
  IF compression = "freq" THEN "freq" ELSE <<"raw8", "raw16", "raw24">>[width]

IsValue(w) ==
  /\ DOMAIN w = {"vocab", "codec", "packed", "form"}
  /\ w.vocab \in Nat
  /\ w.codec \in Codecs
  /\ w.packed \in Seq(0..MaxPacked(w.codec))
  /\ w.form \in {"exact", "loose", "broken"}
  /\ w.codec # "freq" => w.form = "exact"

Exactly(v, codec, packed) == [vocab |-> v, codec |-> codec, packed |-> packed, form |-> "exact"]

\* Header::parse, as far as a client can violate it: freq names a vocabulary.
Parses(w) == w.codec = "freq" => w.vocab # UNRESOLVED

\* require_vocabulary, and validate, which hands the value on.
Validate(w) == IF Parses(w) /\ w.vocab # UNRESOLVED THEN {w} ELSE {}

\* decode_value under the ranking of the value's vocabulary, which only freq needs.
Decode(w, table) ==
  IF w.codec # "freq" THEN {w.packed}
  ELSE IF table = Nothing \/ w.form = "broken" THEN {}
  ELSE {[i \in 1..Len(w.packed) |-> Token(table, w.packed[i])]}

\* encode_for: every id inside the declared size, then value::encode, which refuses ids its
\* codec cannot hold.
Encode(ids, v, size, codec, table) ==
  IF \E i \in 1..Len(ids) : ids[i] >= size THEN {}
  ELSE IF codec = "freq"
    THEN IF table # Nothing /\ \A i \in 1..Len(ids) : RankFits(table, ids[i])
         THEN {Exactly(v, codec, [i \in 1..Len(ids) |-> Rank(table, ids[i])])}
         ELSE {}
    ELSE IF \A i \in 1..Len(ids) : ids[i] <= MaxPacked(codec)
         THEN {Exactly(v, codec, ids)}
         ELSE {}

\* encode_unresolved: raw24 without looking at the ids, bounded by the format.
EncodeUnresolved(ids) ==
  IF \E i \in 1..Len(ids) : ids[i] > Max24 THEN {} ELSE {Exactly(UNRESOLVED, "raw24", ids)}

\* Mutant of TokensEq: the payload without the header.
TokensEqPayload(a, b) == a.packed = b.packed /\ a.form = b.form

\* tokens_eq, and tokens_ne its negation: the same bytes.
TokensEq(a, b) == a = b

-----------------------------------------------------------------------------
(* int[].                                                                   *)

\* tokens_to_int4array: u32 as i32 wraps.
AsI32(id) == IF id > MaxI32 THEN id - (MaxU32 + 1) ELSE id
Int4Array(ids) == [i \in 1..Len(ids) |-> AsI32(ids[i])]

\* Mutant of IdsFromSql: NULLs and negative integers are skipped, as train skips them.
IdsFromSqlFiltered(ints) == {SelectSeq(ints, LAMBDA n : n # Nothing /\ n >= 0)}

\* ids_from_sql: a NULL and a negative integer are refused.
IdsFromSql(ints) ==
  IF \E i \in 1..Len(ints) : ints[i] = Nothing \/ ints[i] < 0 THEN {} ELSE {ints}

=============================================================================
