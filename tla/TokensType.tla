------------------------------ MODULE TokensType ------------------------------
(***************************************************************************)
(* The type pgtoken.tokens (ext/src/tokens.rs, typmod.rs, casts.rs): every *)
(* path on which a value enters a column or moves to another, over the     *)
(* values of TokenValue.  A typmod is the vocabulary it names; how it is   *)
(* packed is Exchange's.                                                   *)
(*                                                                         *)
(* A statement that raises changes nothing and is no action.               *)
(***************************************************************************)
EXTENDS TokenValue

CONSTANTS
  Columns,        \* the columns of the database, one row each
  Vocabularies,   \* the ids of the registered vocabularies
  Size,           \* Size[v]: its declared vocab_size
  Compression,    \* Compression[v]: "raw" or "freq"
  Texts,          \* the literals clients write, as sequences of words
  Arrays,         \* the int[] clients write
  ClientValues,   \* the binary values clients frame themselves
  Corpora,        \* the id lists a training query may return
  Caps,           \* the caps train is called with
  Bare            \* the typmod -1: no vocabulary

ASSUME WidthsAssumption == WidthsFit
ASSUME VocabulariesAssumption ==
  /\ Vocabularies \subseteq Nat \ {UNRESOLVED}
  /\ Size \in [Vocabularies -> VocabSizes]
  /\ Compression \in [Vocabularies -> {"raw", "freq"}]
  /\ Bare \notin Vocabularies
\* Texts of words; int4 arrays; train reads its ids from int4 columns and drops negative ones.
ASSUME ListsAssumption ==
  /\ Texts \subseteq Seq(Words)
  /\ Arrays \subseteq Seq({n \in Int : -(MaxI32 + 1) <= n /\ n <= MaxI32} \cup {Nothing})
  /\ Corpora \subseteq Seq(0..MaxI32)
  /\ Caps \subseteq Nat
ASSUME ClientAssumption == \A w \in ClientValues : IsValue(w)

VARIABLES
  type,     \* type[c]: the vocabulary of the column's typmod, or Bare
  cell,     \* cell[c]: the value stored in the column, or Nothing
  ranking,  \* ranking[v]: the table trained for v, or Nothing
  origin    \* history: what the writer of cell[c] meant (see Meant)

vars == <<type, cell, ranking, origin>>

\* The ids the writer gave or accepted, the vocabulary they were resolved under, and
\* whether any path on the way checked the ids one by one.
Meant(ids, v, checked) == [ids |-> ids, vocab |-> v, checked |-> checked]

TypeOK ==
  /\ type \in [Columns -> Vocabularies \cup {Bare}]
  /\ \A c \in Columns : cell[c] # Nothing => IsValue(cell[c])
  /\ \A v \in Vocabularies : ranking[v] # Nothing => IsTable(ranking[v])
  /\ DOMAIN cell = Columns /\ DOMAIN origin = Columns /\ DOMAIN ranking = Vocabularies

Init ==
  /\ type \in [Columns -> Vocabularies \cup {Bare}]
  /\ cell = [c \in Columns |-> Nothing]
  /\ ranking = [v \in Vocabularies |-> Nothing]
  /\ origin = [c \in Columns |-> Nothing]

-----------------------------------------------------------------------------
(* What the functions of the type make of a value under the rankings there  *)
(* are.                                                                     *)

CodecFor(v) == CodecOf(Compression[v], WidthFor(Size[v]))

\* rank_table
TableOf(v) == IF v \in Vocabularies THEN ranking[v] ELSE Nothing

DecodeValue(w) == Decode(w, TableOf(w.vocab))

EncodeFor(ids, v) == Encode(ids, v, Size[v], CodecFor(v), TableOf(v))

\* tokens_in: with a typmod straight to the column's width, without one unresolved.
TokensIn(text, t) ==
  UNION {IF t = Bare THEN EncodeUnresolved(ids) ELSE EncodeFor(ids, t) : ids \in ParseIds(text)}

\* tokens_out
TokensOut(w) == {RenderIds(ids) : ids \in UNION {DecodeValue(u) : u \in Validate(w)}}

\* The cast to int[].
ToArray(w) == {Int4Array(ids) : ids \in UNION {DecodeValue(u) : u \in Validate(w)}}

\* The cast from int[], which needs a typmod.
FromArray(ints, v) == UNION {EncodeFor(ids, v) : ids \in IdsFromSql(ints)}

\* tokens_recv: check_against_typmod compares the header with the column, then validate.
TokensRecv(w, t) ==
  IF t = Bare \/ (w.vocab = t /\ w.codec = CodecFor(t)) THEN Validate(w) ELSE {}

Recode(w, v) == UNION {EncodeFor(ids, v) : ids \in DecodeValue(w)}

\* Mutants of TypmodApply: the codec is not compared; an assignment may change the
\* vocabulary; the header is stamped and the payload kept.
ApplyAnyCodec(w, v, isExplicit) ==
  IF w.vocab = v THEN {w}
  ELSE IF w.vocab # UNRESOLVED /\ ~isExplicit THEN {}
  ELSE Recode(w, v)

ApplyAcross(w, v, isExplicit) ==
  IF w.vocab = v /\ w.codec = CodecFor(v) THEN {w} ELSE Recode(w, v)

ApplyStamp(w, v, isExplicit) ==
  IF w.vocab # UNRESOLVED /\ w.vocab # v /\ ~isExplicit THEN {}
  ELSE IF \A i \in 1..Len(w.packed) : w.packed[i] <= MaxPacked(CodecFor(v))
    THEN {[w EXCEPT !.vocab = v, !.codec = CodecFor(v)]}
    ELSE {}

\* tokens_typmod_apply: a value already in the column's encoding stays as it is; only an
\* explicit cast changes a vocabulary, an unresolved value has none to change.
TypmodApply(w, v, isExplicit) ==
  IF w.vocab = v /\ w.codec = CodecFor(v) THEN {w}
  ELSE IF w.vocab # UNRESOLVED /\ w.vocab # v /\ ~isExplicit THEN {}
  ELSE Recode(w, v)

\* The planner's length coercion: none for a typmod of -1.
Coerce(w, t, isExplicit) == IF t = Bare THEN {w} ELSE TypmodApply(w, t, isExplicit)

-----------------------------------------------------------------------------
(* Statements that write a column.                                          *)

Store(c, w, meant) ==
  /\ cell' = [cell EXCEPT ![c] = w]
  /\ origin' = [origin EXCEPT ![c] = meant]

\* What is known of w, a value made by coercing src to the typmod t.
Carried(meant, src, w, t, isExplicit) ==
  IF w = src THEN meant
  ELSE [ids |-> IF meant.checked \/ DecodeValue(src) = {} THEN meant.ids
                ELSE CHOOSE ids \in DecodeValue(src) : TRUE,
        vocab |-> IF meant.vocab = UNRESOLVED \/ isExplicit THEN t ELSE meant.vocab,
        checked |-> TRUE]

\* The ids a text spells: the numbers between its braces, one comma between two.  The writer
\* of any other text meant no list, and nothing stored for it is what was meant.
Written(text) ==
  LET words == Squeezed(text)
      ids == [i \in 1..(Len(words) - 1) \div 2 |-> words[2 * i].value] IN
  IF (\A i \in DOMAIN ids : words[2 * i].is = "number") /\ words = RenderIds(ids)
    THEN ids ELSE <<Nothing>>

\* INSERT of a string literal: tokens_in with typmod -1, then the length coercion.
InsertLiteral(c, text) ==
  /\ \E u \in TokensIn(text, Bare) : \E w \in Coerce(u, type[c], FALSE) :
       Store(c, w, Carried(Meant(Written(text), UNRESOLVED, TRUE), u, w, type[c], FALSE))
  /\ UNCHANGED <<type, ranking>>

\* COPY in text format, the way pg_dump restores: tokens_in with the column's typmod.
CopyText(c, text) ==
  /\ \E w \in TokensIn(text, type[c]) : Store(c, w, Meant(Written(text), w.vocab, TRUE))
  /\ UNCHANGED <<type, ranking>>

\* INSERT of an int[]: the cast to tokens, which needs a typmod.
InsertArray(c, ints) ==
  /\ type[c] # Bare
  /\ \E w \in FromArray(ints, type[c]) : Store(c, w, Meant(ints, w.vocab, TRUE))
  /\ UNCHANGED <<type, ranking>>

\* INSERT ... SELECT body::int[] from another column, which names no vocabulary any more.
InsertFromArray(c, d) ==
  /\ cell[d] # Nothing
  /\ type[c] # Bare
  /\ \E ids \in DecodeValue(cell[d]), ints \in ToArray(cell[d]) :
       \E w \in FromArray(ints, type[c]) :
         Store(c, w, Meant(IF origin[d].checked THEN origin[d].ids ELSE ids, w.vocab, TRUE))
  /\ UNCHANGED <<type, ranking>>

\* COPY in binary format: RECEIVE, and nothing after it.
CopyBinary(c, bytes) ==
  /\ \E w \in TokensRecv(bytes, type[c]) : Store(c, w, Meant(<<>>, w.vocab, FALSE))
  /\ UNCHANGED <<type, ranking>>

\* INSERT of tokens_recv_bytes(bytea): validate, then the length coercion.
InsertBytes(c, bytes) ==
  /\ \E u \in Validate(bytes) : \E w \in Coerce(u, type[c], FALSE) :
       Store(c, w, Carried(Meant(<<>>, u.vocab, FALSE), u, w, type[c], FALSE))
  /\ UNCHANGED <<type, ranking>>

\* INSERT ... SELECT from another column, by assignment or with an explicit cast.
InsertSelect(c, d, isExplicit) ==
  /\ cell[d] # Nothing
  /\ \E w \in Coerce(cell[d], type[c], isExplicit) :
       Store(c, w, Carried(origin[d], cell[d], w, type[c], isExplicit))
  /\ UNCHANGED <<type, ranking>>

\* ALTER TABLE ... TYPE, bare (an assignment) or with USING (an explicit cast).
AlterType(c, t, isExplicit) ==
  /\ t # type[c]
  /\ type' = [type EXCEPT ![c] = t]
  /\ IF cell[c] = Nothing
     THEN UNCHANGED <<cell, origin>>
     ELSE \E w \in Coerce(cell[c], t, isExplicit) :
            Store(c, w, Carried(origin[c], cell[c], w, t, isExplicit))
  /\ UNCHANGED ranking

\* pgtoken.train: once per vocabulary, from a query that returned ids.
Train(v, ids, cap) ==
  /\ ranking[v] = Nothing
  /\ ids # <<>>
  /\ ranking' = [ranking EXCEPT ![v] = TrainTable(ids, cap)]
  /\ UNCHANGED <<type, cell, origin>>

Next ==
  \/ \E c \in Columns :
       \/ \E text \in Texts : InsertLiteral(c, text) \/ CopyText(c, text)
       \/ \E ints \in Arrays : InsertArray(c, ints)
       \/ \E bytes \in ClientValues : CopyBinary(c, bytes) \/ InsertBytes(c, bytes)
       \/ \E d \in Columns \ {c} :
            InsertFromArray(c, d) \/ \E isExplicit \in BOOLEAN : InsertSelect(c, d, isExplicit)
       \/ \E t \in Vocabularies \cup {Bare}, isExplicit \in BOOLEAN : AlterType(c, t, isExplicit)
  \/ \E v \in Vocabularies, ids \in Corpora, cap \in Caps : Train(v, ids, cap)

Spec == Init /\ [][Next]_vars

-----------------------------------------------------------------------------
(* Properties.                                                              *)

Filled == {c \in Columns : cell[c] # Nothing}
Typed == {c \in Filled : type[c] # Bare}

\* tokens.rs:253-287, "a column's stride has to be uniform": whatever path a value took, in
\* a column with a typmod it has that column's vocabulary and that column's packing.
ColumnUniform ==
  \A c \in Typed : cell[c].vocab = type[c] /\ cell[c].codec = CodecFor(type[c])

\* tables.rs:24-26, "lossless for every ID": an id list that any path has checked is read
\* back unchanged, through every later recoding, move and training.
Lossless ==
  \A c \in Filled : origin[c].checked => DecodeValue(cell[c]) = {origin[c].ids}

\* tokens.rs:40-61: a value says it belongs to the vocabulary its ids were first resolved
\* under, or to the one the last explicit cast named; no chain of assignments, through bare
\* columns or typed ones, changes that.
VocabularyKept == \A c \in Filled : cell[c].vocab = origin[c].vocab

\* Both ways of restoring a dump of column c give back the stored value.
Restores(c) ==
  /\ \A text \in TokensOut(cell[c]) : TokensIn(text, type[c]) = {cell[c]}
  /\ TokensRecv(cell[c], type[c]) = {cell[c]}

\* tokens.rs:3-5: a value whose ids some path has checked, dumped as text or as binary from
\* a column with a typmod, is restored to the same bytes.
CheckedDumpRestores == \A c \in Typed : origin[c].checked => Restores(c)

\* tokens.rs:159-170: a value stored through a bare column is repaired in place by a bare
\* ALTER TABLE ... TYPE, for every vocabulary that has its ids and what its codec needs.
UnresolvedRepairable ==
  \A c \in Filled, v \in Vocabularies :
    LET ids == cell[c].packed IN
    /\ cell[c].vocab = UNRESOLVED
    /\ \A i \in 1..Len(ids) : ids[i] < Size[v]
    /\ Compression[v] = "freq" => ranking[v] # Nothing
    => TypmodApply(cell[c], v, FALSE) # {}

\* tokens.rs:555-561: between values whose ids some path has checked, comparing bytes compares
\* the vocabulary, its packing and the ids, whatever ways the two values came.
EqualityIsById ==
  \A c, d \in Filled :
    origin[c].checked /\ origin[d].checked =>
      (TokensEq(cell[c], cell[d]) <=>
         /\ cell[c].vocab = cell[d].vocab /\ cell[c].codec = cell[d].codec
         /\ DecodeValue(cell[c]) = DecodeValue(cell[d]))

=============================================================================
