--------------------------- MODULE TokensTypeProofs ---------------------------
(***************************************************************************)
(* For every set of columns, vocabularies, texts, arrays, corpora and      *)
(* client values: what each path stores is what its writer meant.  The     *)
(* invariant says of every stored value that it is well-formed, and, once  *)
(* its ids were checked, that it is exactly what encoding them yields; all *)
(* the properties of TokensType follow from that.                          *)
(***************************************************************************)
EXTENDS TokensType, OperatorProofs

Typmods == Vocabularies \cup {Bare}

Uniform(w, v) == w.vocab = v /\ w.codec = CodecFor(v)

\* Trained rankings are tables, with no more ranks than there are int4 ids.
Tables(tables) ==
  /\ tables = [v \in Vocabularies |-> tables[v]]
  /\ \A v \in Vocabularies : tables[v] # Nothing =>
       IsTable(tables[v]) /\ K(tables[v]) <= MaxI32 + 1

\* w is what ids are encoded as, unresolved or for the vocabulary that w names.
Encoded(w, ids, tables) ==
  /\ ids \in Seq(U32)
  /\ \/ w.vocab = UNRESOLVED /\ w \in EncodeUnresolved(ids)
     \/ /\ w.vocab \in Vocabularies
        /\ w \in Encode(ids, w.vocab, Size[w.vocab], CodecFor(w.vocab), tables[w.vocab])

\* w is well-formed, and if its ids were checked, it is what they are encoded as.
Sound(w, meant, tables) ==
  /\ IsValue(w) /\ Parses(w)
  /\ meant.checked => Encoded(w, meant.ids, tables)

CellsSound == \A c \in Filled : Sound(cell[c], origin[c], ranking)

IInv ==
  /\ type \in [Columns -> Typmods]
  /\ cell = [c \in Columns |-> cell[c]]
  /\ origin = [c \in Columns |-> origin[c]]
  /\ Tables(ranking)
  /\ CellsSound
  /\ ColumnUniform
  /\ VocabularyKept

-----------------------------------------------------------------------------
(* Encoding and decoding.                                                   *)

\* The codec of a vocabulary holds every id below its size.
LEMMA CodecForHolds ==
  ASSUME NEW v \in Vocabularies
  PROVE  /\ v \in Nat /\ v # UNRESOLVED /\ v # Bare
         /\ Size[v] \in Nat /\ Size[v] <= Max24 + 1
         /\ CodecFor(v) \in Codecs
         /\ CodecFor(v) = "freq" <=> Compression[v] = "freq"
         /\ CodecFor(v) # "freq" => \A id \in Nat : id < Size[v] => id <= MaxPacked(CodecFor(v))
<1>1. v \in Nat /\ v # UNRESOLVED /\ v # Bare
  BY VocabulariesAssumption
<1>2. Size[v] \in VocabSizes /\ Compression[v] \in {"raw", "freq"}
  BY VocabulariesAssumption
<1>3. Size[v] \in Nat /\ Size[v] >= 1 /\ Size[v] <= Max24 + 1
  BY <1>2, Widths, WidthsAssumption DEF VocabSizes
<1>4. CASE Compression[v] = "freq"
  <2>1. CodecFor(v) = "freq"
    BY <1>4 DEF CodecFor, CodecOf
  <2> QED
    BY <1>1, <1>3, <1>4, <2>1 DEF Codecs
<1>5. CASE Compression[v] # "freq"
  <2>1. CodecFor(v) = <<"raw8", "raw16", "raw24">>[WidthFor(Size[v])]
    BY <1>5 DEF CodecFor, CodecOf
  <2>2. \/ CodecFor(v) = "raw8" /\ Size[v] - 1 <= Max8
        \/ CodecFor(v) = "raw16" /\ Size[v] - 1 <= Max16
        \/ CodecFor(v) = "raw24" /\ Size[v] - 1 <= Max24
    <3>1. CASE Size[v] - 1 <= Max8
      <4>1. WidthFor(Size[v]) = 1
        BY <1>3, <3>1, Widths, WidthsAssumption DEF WidthFor
      <4> QED
        BY <2>1, <3>1, <4>1
    <3>2. CASE Size[v] - 1 > Max8 /\ Size[v] - 1 <= Max16
      <4>1. WidthFor(Size[v]) = 2
        BY <1>3, <3>2, Widths, WidthsAssumption DEF WidthFor
      <4> QED
        BY <2>1, <3>2, <4>1
    <3>3. CASE Size[v] - 1 > Max8 /\ Size[v] - 1 > Max16
      <4>1. WidthFor(Size[v]) = 3
        BY <1>3, <3>3, Widths, WidthsAssumption DEF WidthFor
      <4> QED
        BY <1>3, <2>1, <4>1, Widths, WidthsAssumption
    <3> QED
      BY <1>3, <3>1, <3>2, <3>3, Widths, WidthsAssumption
  <2>3. CodecFor(v) \in Codecs /\ CodecFor(v) # "freq" /\ Size[v] - 1 <= MaxPacked(CodecFor(v))
    BY <2>2 DEF Codecs, MaxPacked
  <2>4. MaxPacked(CodecFor(v)) \in Nat
    BY <2>3, Widths, WidthsAssumption
  <2> QED
    BY <1>1, <1>3, <1>5, <2>3, <2>4
<1> QED
  BY <1>4, <1>5

LEMMA TableOfIs ==
  ASSUME Tables(ranking), NEW v
  PROVE  /\ TableOf(v) # Nothing => IsTable(TableOf(v))
         /\ v \in Vocabularies => TableOf(v) = ranking[v]
BY DEF Tables, TableOf

LEMMA EncodeForEncoded ==
  ASSUME Tables(ranking), NEW ids \in Seq(U32), NEW v \in Vocabularies, NEW w \in EncodeFor(ids, v)
  PROVE  /\ Encoded(w, ids, ranking)
         /\ EncodeFor(ids, v) = {w}
         /\ Uniform(w, v)
<1>1. TableOf(v) = ranking[v]
  BY TableOfIs
<1>2. w \in Encode(ids, v, Size[v], CodecFor(v), ranking[v])
  BY <1>1 DEF EncodeFor
<1>3. /\ Encode(ids, v, Size[v], CodecFor(v), ranking[v]) = {w}
      /\ w.vocab = v /\ w.codec = CodecFor(v)
  BY <1>2, EncodeIs, ExactlyIs
<1> QED
  BY <1>1, <1>2, <1>3 DEF EncodeFor, Encoded, Uniform

LEMMA EncodedSound ==
  ASSUME Tables(ranking), NEW ids, NEW w, Encoded(w, ids, ranking)
  PROVE  /\ ids \in Seq(U32)
         /\ IsValue(w) /\ Parses(w) /\ DecodeValue(w) = {ids}
         /\ w.vocab = UNRESOLVED => EncodeUnresolved(ids) = {w}
         /\ w.vocab # UNRESOLVED => w.vocab \in Vocabularies /\ EncodeFor(ids, w.vocab) = {w}
<1> DEFINE v == w.vocab
<1>1. ids \in Seq(U32)
  BY DEF Encoded
<1>2. CASE v = UNRESOLVED
  <2>1. v \notin Vocabularies
    BY <1>2, CodecForHolds
  <2>2. w \in EncodeUnresolved(ids)
    BY <2>1 DEF Encoded
  <2>3. /\ EncodeUnresolved(ids) = {w}
        /\ IsValue(w) /\ Parses(w) /\ Decode(w, TableOf(v)) = {ids}
    BY <1>1, <2>2, UnresolvedSound, WidthsAssumption
  <2> QED
    BY <1>1, <1>2, <2>3 DEF DecodeValue
<1>3. CASE v # UNRESOLVED
  <2>1. v \in Vocabularies /\ w \in Encode(ids, v, Size[v], CodecFor(v), ranking[v])
    BY <1>3 DEF Encoded
  <2>2. TableOf(v) = ranking[v] /\ (ranking[v] # Nothing => IsTable(ranking[v]))
    BY <2>1, TableOfIs
  <2>3. w \in EncodeFor(ids, v)
    BY <2>1, <2>2 DEF EncodeFor
  <2>4. EncodeFor(ids, v) = {w}
    BY <1>1, <2>1, <2>3, EncodeForEncoded
  <2>5. v \in Nat \ {UNRESOLVED} /\ CodecFor(v) \in Codecs
    BY <2>1, CodecForHolds
  <2>6. IsValue(w) /\ Parses(w) /\ Decode(w, ranking[v]) = {ids}
    <3> HIDE DEF v
    <3> QED
      BY <1>1, <2>1, <2>2, <2>5, EncodeSound, WidthsAssumption
  <2> QED
    BY <1>1, <1>3, <2>1, <2>2, <2>4, <2>6 DEF DecodeValue
<1> QED
  BY <1>2, <1>3

LEMMA DecodeValueIds ==
  ASSUME Tables(ranking), NEW w, IsValue(w), NEW ids \in DecodeValue(w)
  PROVE  ids \in Seq(U32) /\ DecodeValue(w) = {ids}
BY TableOfIs, DecodeIds, WidthsAssumption DEF DecodeValue

\* Coercion keeps a value sound, and knows what it is of.
LEMMA CoerceSound ==
  ASSUME Tables(ranking), NEW src, NEW meant, Sound(src, meant, ranking), NEW t \in Typmods, NEW x,
         NEW w \in Coerce(src, t, x)
  PROVE  Sound(w, Carried(meant, src, w, t, x), ranking)
<1>1. CASE w = src
  BY <1>1 DEF Carried
<1>2. CASE w # src
  <2> DEFINE m == Carried(meant, src, w, t, x)
  <2>1. t \in Vocabularies /\ w \in Recode(src, t)
    BY <1>2 DEF Coerce, TypmodApply, Typmods
  <2>2. PICK ids \in DecodeValue(src) : w \in EncodeFor(ids, t)
    BY <2>1 DEF Recode
  <2>3. ids \in Seq(U32) /\ DecodeValue(src) = {ids}
    BY <2>2, DecodeValueIds DEF Sound
  <2>4. Encoded(w, ids, ranking)
    BY <2>1, <2>2, <2>3, EncodeForEncoded
  <2>5. IsValue(w) /\ Parses(w)
    BY <2>4, EncodedSound
  <2>6. m.ids = IF meant.checked \/ DecodeValue(src) = {} THEN meant.ids
                ELSE CHOOSE i \in DecodeValue(src) : TRUE
    BY <1>2 DEF Carried
  <2>7. m.ids = ids
    <3>1. CASE meant.checked
      <4>1. DecodeValue(src) = {meant.ids}
        BY <3>1, EncodedSound DEF Sound
      <4> QED
        BY <2>3, <2>6, <3>1, <4>1
    <3>2. CASE ~meant.checked
      <4>1. DecodeValue(src) # {}
        BY <2>3
      <4>2. m.ids = CHOOSE i \in {ids} : TRUE
        BY <2>3, <2>6, <3>2, <4>1
      <4> QED
        BY <4>2
    <3> QED
      BY <3>1, <3>2
  <2> QED
    BY <2>4, <2>5, <2>7 DEF Sound
<1> QED
  BY <1>1, <1>2

-----------------------------------------------------------------------------
(* Texts and arrays.                                                        *)

\* The ids a text spells are those it is parsed to.
LEMMA WrittenIs ==
  ASSUME NEW text \in Seq(Words), NEW ids \in ParseIds(text)
  PROVE  ids \in Seq(U32) /\ Written(text) = ids
<1>1. ids \in Seq(U32) /\ Squeezed(text) = RenderIds(ids)
  BY ParseAccepts
<1> DEFINE r == RenderIds(ids)
           got == [i \in 1..(Len(r) - 1) \div 2 |-> r[2 * i].value]
<1>2. CASE ids = <<>>
  <2>1. r = <<Open, Close>>
    BY <1>2 DEF RenderIds
  <2>2. (Len(r) - 1) \div 2 = 0
    BY <2>1
  <2>3. got = <<>>
    BY <2>2
  <2>4. Written(text) = IF (\A i \in DOMAIN got : r[2 * i].is = "number") /\ r = RenderIds(got)
                        THEN got ELSE <<Nothing>>
    BY <1>1 DEF Written
  <2> HIDE DEF got
  <2> QED
    BY <1>1, <1>2, <2>3, <2>4
<1>3. CASE ids # <<>>
  <2> DEFINE n == Len(ids)
  <2>1. n \in Nat /\ Len(r) = 2 * n + 1 /\ ids = [i \in 1..n |-> ids[i]]
    BY <1>1, <1>3, Rendered
  <2>2. \A i \in 1..n : r[2 * i] = Number(ids[i])
    BY <1>1, <1>3, Rendered
  <2>3. \A i \in 1..n : r[2 * i].is = "number" /\ r[2 * i].value = ids[i]
    BY <2>2, WordsDiffer
  <2> HIDE DEF n, r
  <2>4. (Len(r) - 1) \div 2 = n
    BY <2>1
  <2>5. got = ids /\ DOMAIN got = 1..n
    BY <2>1, <2>3, <2>4
  <2>6. Written(text) = IF (\A i \in DOMAIN got : r[2 * i].is = "number") /\ r = RenderIds(got)
                        THEN got ELSE <<Nothing>>
    BY <1>1 DEF Written, r
  <2> HIDE DEF got
  <2> QED
    BY <1>1, <2>3, <2>5, <2>6 DEF r
<1> QED
  BY <1>2, <1>3

LEMMA TextSound ==
  ASSUME Tables(ranking), NEW text \in Seq(Words), NEW t \in Typmods, NEW w \in TokensIn(text, t),
         NEW v
  PROVE  Sound(w, Meant(Written(text), v, TRUE), ranking)
<1>1. PICK ids \in ParseIds(text) :
        w \in IF t = Bare THEN EncodeUnresolved(ids) ELSE EncodeFor(ids, t)
  BY DEF TokensIn
<1>2. ids \in Seq(U32) /\ Written(text) = ids
  BY WrittenIs
<1>3. Encoded(w, ids, ranking)
  <2>1. CASE t = Bare
    BY <1>1, <1>2, <2>1, UnresolvedSound, WidthsAssumption DEF Encoded
  <2>2. CASE t # Bare
    BY <1>1, <1>2, <2>2, EncodeForEncoded DEF Typmods
  <2> QED
    BY <2>1, <2>2
<1>4. IsValue(w) /\ Parses(w)
  BY <1>3, EncodedSound
<1> QED
  BY <1>2, <1>3, <1>4 DEF Sound, Meant

Int4 == {n \in Int : -(MaxI32 + 1) <= n /\ n <= MaxI32}

LEMMA ArraySound ==
  ASSUME Tables(ranking), NEW ints \in Seq(Int4 \cup {Nothing}), NEW v \in Vocabularies,
         NEW w \in FromArray(ints, v)
  PROVE  ints \in Seq(U32) /\ Sound(w, Meant(ints, w.vocab, TRUE), ranking)
<1>1. w \in EncodeFor(ints, v) /\ \A i \in 1..Len(ints) : ints[i] # Nothing /\ ~(ints[i] < 0)
  BY Zenon DEF FromArray, IdsFromSql
<1>2. \A i \in 1..Len(ints) : ints[i] \in U32
  BY <1>1, Widths, WidthsAssumption DEF Int4, U32
<1>3. ints \in Seq(U32)
  BY <1>2
<1>4. Encoded(w, ints, ranking)
  BY <1>1, <1>3, EncodeForEncoded
<1>5. IsValue(w) /\ Parses(w)
  BY <1>4, EncodedSound
<1> QED
  BY <1>3, <1>4, <1>5 DEF Sound, Meant

\* An id that wraps is negative, and refused on the way back.
LEMMA CastSound ==
  ASSUME Tables(ranking), NEW src, IsValue(src), NEW ints \in ToArray(src), NEW v \in Vocabularies,
         NEW w \in FromArray(ints, v)
  PROVE  ints \in DecodeValue(src) /\ Encoded(w, ints, ranking)
<1>1. PICK u \in Validate(src) : \E ids \in DecodeValue(u) : ints = Int4Array(ids)
  BY DEF ToArray
<1>2. PICK ids \in DecodeValue(src) : ints = Int4Array(ids)
  BY <1>1 DEF Validate
<1>3. ids \in Seq(U32)
  BY <1>2, DecodeValueIds
<1>4. w \in EncodeFor(ints, v) /\ \A i \in 1..Len(ints) : ints[i] # Nothing /\ ~(ints[i] < 0)
  BY Zenon DEF FromArray, IdsFromSql
<1>5. Len(ids) \in Nat /\ ids \in [1..Len(ids) -> U32] /\ \A i \in 1..Len(ids) : ids[i] \in U32
  BY <1>3
<1>6. ints = [i \in 1..Len(ids) |-> AsI32(ids[i])]
  BY <1>2 DEF Int4Array
<1>7. Len(ints) = Len(ids)
  BY <1>5, <1>6
<1>8. \A i \in 1..Len(ids) : ints[i] = ids[i]
  <2> SUFFICES ASSUME NEW i \in 1..Len(ids) PROVE ints[i] = ids[i]
    OBVIOUS
  <2>1. ints[i] = AsI32(ids[i]) /\ ~(ints[i] < 0)
    BY <1>4, <1>6, <1>7
  <2>2. ids[i] \in Nat /\ ids[i] <= MaxU32
    BY <1>5, Widths, WidthsAssumption DEF U32
  <2> QED
    BY <2>1, <2>2, Widths, WidthsAssumption DEF AsI32
<1>9. ints = ids
  BY <1>5, <1>6, <1>8
<1> QED
  BY <1>2, <1>3, <1>4, <1>9, EncodeForEncoded

\* A value a client framed is checked for its header only.
LEMMA ClientSound ==
  ASSUME NEW bytes \in ClientValues, NEW w \in Validate(bytes), NEW v
  PROVE  Sound(w, Meant(<<>>, v, FALSE), ranking)
<1>1. w = bytes /\ Parses(bytes)
  BY DEF Validate
<1> QED
  BY <1>1, ClientAssumption DEF Sound, Meant

-----------------------------------------------------------------------------
(* The vocabulary of what the functions of the type return.                 *)

LEMMA EncodeForUniform ==
  ASSUME NEW ids, NEW v, NEW w \in EncodeFor(ids, v)
  PROVE  Uniform(w, v)
<1>1. \E packed : w = Exactly(v, CodecFor(v), packed)
  BY DEF EncodeFor, Encode
<1> QED
  BY <1>1 DEF Exactly, Uniform

LEMMA TypmodApplyUniform ==
  ASSUME NEW src, NEW v, NEW x, NEW w \in TypmodApply(src, v, x)
  PROVE  Uniform(w, v)
<1>1. CASE src.vocab = v /\ src.codec = CodecFor(v)
  BY <1>1 DEF TypmodApply, Uniform
<1>2. CASE ~(src.vocab = v /\ src.codec = CodecFor(v))
  <2>1. w \in Recode(src, v)
    BY <1>2 DEF TypmodApply
  <2>2. PICK ids \in DecodeValue(src) : w \in EncodeFor(ids, v)
    BY <2>1 DEF Recode
  <2> QED
    BY <2>2, EncodeForUniform
<1> QED
  BY <1>1, <1>2

LEMMA TokensInUniform ==
  ASSUME NEW text, NEW t, NEW w \in TokensIn(text, t)
  PROVE  /\ t # Bare => Uniform(w, t)
         /\ t = Bare => w.vocab = UNRESOLVED
<1>1. PICK ids \in ParseIds(text) :
        w \in IF t = Bare THEN EncodeUnresolved(ids) ELSE EncodeFor(ids, t)
  BY DEF TokensIn
<1>2. CASE t = Bare
  BY <1>1, <1>2 DEF EncodeUnresolved, Exactly
<1>3. CASE t # Bare
  BY <1>1, <1>3, EncodeForUniform
<1> QED
  BY <1>2, <1>3

LEMMA FromArrayUniform ==
  ASSUME NEW ints, NEW v, NEW w \in FromArray(ints, v)
  PROVE  Uniform(w, v)
BY EncodeForUniform DEF FromArray

LEMMA RecvUniform ==
  ASSUME NEW bytes, NEW t, NEW w \in TokensRecv(bytes, t)
  PROVE  t # Bare => Uniform(w, t)
BY DEF TokensRecv, Validate, Uniform

LEMMA CoerceUniform ==
  ASSUME NEW src, NEW t, NEW x, NEW w \in Coerce(src, t, x)
  PROVE  t # Bare => Uniform(w, t)
BY TypmodApplyUniform DEF Coerce

\* Coercion leaves a vocabulary alone unless it is the first, or the cast is explicit.
LEMMA CoerceKeeps ==
  ASSUME NEW src, NEW t, NEW x, NEW w \in Coerce(src, t, x), NEW meant,
         meant.vocab = src.vocab
  PROVE  Carried(meant, src, w, t, x).vocab = w.vocab
<1>1. CASE w = src
  BY <1>1 DEF Carried
<1>2. CASE w # src
  <2>1. t # Bare /\ w \in TypmodApply(src, t, x)
    BY <1>2 DEF Coerce
  <2>2. w.vocab = t
    BY <2>1, TypmodApplyUniform DEF Uniform
  <2>3. src.vocab = UNRESOLVED \/ src.vocab = t \/ x
    BY <1>2, <2>1 DEF TypmodApply
  <2>4. Carried(meant, src, w, t, x).vocab =
          IF meant.vocab = UNRESOLVED \/ x THEN t ELSE meant.vocab
    BY <1>2 DEF Carried
  <2> QED
    BY <2>2, <2>3, <2>4
<1> QED
  BY <1>1, <1>2

-----------------------------------------------------------------------------
(* Every statement preserves the invariant.                                 *)

\* A sound value stored in one column under its typmod, with a note of its vocabulary.
LEMMA StoreKeeps ==
  ASSUME IInv, NEW c \in Columns, NEW w, NEW meant, Store(c, w, meant),
         type' \in [Columns -> Typmods],
         \A d \in Columns \ {c} : type'[d] = type[d],
         type'[c] # Bare => Uniform(w, type'[c]),
         meant.vocab = w.vocab,
         Sound(w, meant, ranking),
         ranking' = ranking
  PROVE  IInv'
<1>1. /\ cell' = [d \in Columns |-> IF d = c THEN w ELSE cell[d]]
      /\ origin' = [d \in Columns |-> IF d = c THEN meant ELSE origin[d]]
  BY DEF Store, IInv
<1>2. cell'[c] = w /\ origin'[c] = meant
  BY <1>1
<1>3. \A d \in Columns \ {c} : cell'[d] = cell[d] /\ origin'[d] = origin[d]
  BY <1>1
<1>4. cell' = [d \in Columns |-> cell'[d]] /\ origin' = [d \in Columns |-> origin'[d]]
  BY <1>1
<1>5. ColumnUniform'
  <2> SUFFICES ASSUME NEW d \in Columns, cell'[d] # Nothing, type'[d] # Bare
               PROVE  cell'[d].vocab = type'[d] /\ cell'[d].codec = CodecFor(type'[d])
    BY DEF ColumnUniform, Typed, Filled
  <2>1. CASE d = c
    BY <2>1, <1>2 DEF Uniform
  <2>2. CASE d # c
    BY <2>2, <1>3 DEF IInv, ColumnUniform, Typed, Filled
  <2> QED
    BY <2>1, <2>2
<1>6. VocabularyKept'
  <2> SUFFICES ASSUME NEW d \in Columns, cell'[d] # Nothing
               PROVE  cell'[d].vocab = origin'[d].vocab
    BY DEF VocabularyKept, Filled
  <2>1. CASE d = c
    BY <2>1, <1>2
  <2>2. CASE d # c
    BY <2>2, <1>3 DEF IInv, VocabularyKept, Filled
  <2> QED
    BY <2>1, <2>2
<1>7. CellsSound'
  <2> SUFFICES ASSUME NEW d \in Columns, cell'[d] # Nothing
               PROVE  Sound(cell'[d], origin'[d], ranking')
    BY DEF CellsSound, Filled
  <2>1. CASE d = c
    BY <2>1, <1>2
  <2>2. CASE d # c
    BY <2>2, <1>3 DEF IInv, CellsSound, Filled
  <2> QED
    BY <2>1, <2>2
<1>8. Tables(ranking')
  BY DEF IInv
<1> QED
  BY <1>4, <1>5, <1>6, <1>7, <1>8 DEF IInv

\* INSERT of a literal.
LEMMA InsertLiteralKeeps ==
  ASSUME IInv, NEW c \in Columns, NEW text \in Texts, InsertLiteral(c, text)
  PROVE  IInv'
<1> DEFINE m == Meant(Written(text), UNRESOLVED, TRUE)
<1>1. PICK u \in TokensIn(text, Bare) : \E w \in Coerce(u, type[c], FALSE) :
        Store(c, w, Carried(m, u, w, type[c], FALSE))
  BY DEF InsertLiteral
<1>2. PICK w \in Coerce(u, type[c], FALSE) : Store(c, w, Carried(m, u, w, type[c], FALSE))
  BY <1>1
<1>3. m.vocab = u.vocab
  BY <1>1, TokensInUniform DEF Meant
<1>4. Carried(m, u, w, type[c], FALSE).vocab = w.vocab
  <2> DEFINE x == FALSE
  <2>1. w \in Coerce(u, type[c], x)
    OBVIOUS
  <2>2. Carried(m, u, w, type[c], x).vocab = w.vocab
    <3> HIDE DEF m, x
    <3> QED
      BY <2>1, <1>3, CoerceKeeps
  <2> QED
    BY <2>2
<1>5. type' = type /\ ranking' = ranking
  BY DEF InsertLiteral
<1>6. type[c] # Bare => Uniform(w, type[c])
  BY <1>2, CoerceUniform
<1>7. Tables(ranking) /\ text \in Seq(Words) /\ Bare \in Typmods /\ type[c] \in Typmods
  BY ListsAssumption DEF IInv, Typmods
<1>8. Sound(u, m, ranking)
  BY <1>1, <1>7, TextSound
<1>9. Sound(w, Carried(m, u, w, type[c], FALSE), ranking)
  <2> DEFINE x == FALSE
  <2>1. w \in Coerce(u, type[c], x)
    OBVIOUS
  <2>2. Sound(w, Carried(m, u, w, type[c], x), ranking)
    <3> HIDE DEF m, x
    <3> QED
      BY <1>7, <1>8, <2>1, CoerceSound
  <2> QED
    BY <2>2
<1> HIDE DEF m
<1> QED
  BY <1>2, <1>4, <1>5, <1>6, <1>9, StoreKeeps DEF IInv

\* COPY in text format.
LEMMA CopyTextKeeps ==
  ASSUME IInv, NEW c \in Columns, NEW text \in Texts, CopyText(c, text)
  PROVE  IInv'
<1>1. PICK w \in TokensIn(text, type[c]) : Store(c, w, Meant(Written(text), w.vocab, TRUE))
  BY DEF CopyText
<1>2. type[c] # Bare => Uniform(w, type[c])
  BY <1>1, TokensInUniform
<1>3. Meant(Written(text), w.vocab, TRUE).vocab = w.vocab
  BY DEF Meant
<1>4. type' = type /\ ranking' = ranking
  BY DEF CopyText
<1>5. Tables(ranking) /\ text \in Seq(Words) /\ type[c] \in Typmods
  BY ListsAssumption DEF IInv
<1>6. Sound(w, Meant(Written(text), w.vocab, TRUE), ranking)
  BY <1>1, <1>5, TextSound
<1> QED
  BY <1>1, <1>2, <1>3, <1>4, <1>6, StoreKeeps DEF IInv

\* INSERT of an int[].
LEMMA InsertArrayKeeps ==
  ASSUME IInv, NEW c \in Columns, NEW ints \in Arrays, InsertArray(c, ints)
  PROVE  IInv'
<1>1. PICK w \in FromArray(ints, type[c]) : Store(c, w, Meant(ints, w.vocab, TRUE))
  BY DEF InsertArray
<1>2. Uniform(w, type[c]) /\ Meant(ints, w.vocab, TRUE).vocab = w.vocab
  BY <1>1, FromArrayUniform DEF Meant
<1>3. type' = type /\ ranking' = ranking
  BY DEF InsertArray
<1>4. Tables(ranking) /\ type[c] \in Vocabularies
  BY DEF IInv, InsertArray, Typmods
<1>5. ints \in Seq(Int4 \cup {Nothing})
  BY ListsAssumption DEF Int4
<1>6. Sound(w, Meant(ints, w.vocab, TRUE), ranking)
  BY <1>1, <1>4, <1>5, ArraySound
<1> QED
  BY <1>1, <1>2, <1>3, <1>6, StoreKeeps DEF IInv

LEMMA InsertFromArrayKeeps ==
  ASSUME IInv, NEW c \in Columns, NEW d \in Columns, InsertFromArray(c, d)
  PROVE  IInv'
<1>1. PICK ids \in DecodeValue(cell[d]), ints \in ToArray(cell[d]) :
        \E w \in FromArray(ints, type[c]) :
          Store(c, w, Meant(IF origin[d].checked THEN origin[d].ids ELSE ids, w.vocab, TRUE))
  BY DEF InsertFromArray
<1> DEFINE list == IF origin[d].checked THEN origin[d].ids ELSE ids
<1>2. PICK w \in FromArray(ints, type[c]) : Store(c, w, Meant(list, w.vocab, TRUE))
  BY <1>1
<1>3. Uniform(w, type[c]) /\ Meant(list, w.vocab, TRUE).vocab = w.vocab
  BY <1>2, FromArrayUniform DEF Meant
<1>4. type' = type /\ ranking' = ranking
  BY DEF InsertFromArray
<1>5. Tables(ranking) /\ type[c] \in Vocabularies /\ Sound(cell[d], origin[d], ranking)
  BY DEF IInv, InsertFromArray, Typmods, CellsSound, Filled
<1>6. ints \in DecodeValue(cell[d]) /\ Encoded(w, ints, ranking)
  BY <1>1, <1>2, <1>5, CastSound DEF Sound
<1>7. DecodeValue(cell[d]) = {ids}
  BY <1>1, <1>5, DecodeValueIds DEF Sound
<1>8. list = ints
  <2>1. CASE origin[d].checked
    <3>1. DecodeValue(cell[d]) = {origin[d].ids}
      BY <1>5, <2>1, EncodedSound DEF Sound
    <3> QED
      BY <1>6, <2>1, <3>1
  <2>2. CASE ~origin[d].checked
    BY <1>6, <1>7, <2>2
  <2> QED
    BY <2>1, <2>2
<1> HIDE DEF list
<1>9. IsValue(w) /\ Parses(w)
  BY <1>5, <1>6, EncodedSound
<1>10. Sound(w, Meant(list, w.vocab, TRUE), ranking)
  BY <1>6, <1>8, <1>9 DEF Sound, Meant
<1> QED
  BY <1>2, <1>3, <1>4, <1>10, StoreKeeps DEF IInv

\* COPY in binary format.
LEMMA CopyBinaryKeeps ==
  ASSUME IInv, NEW c \in Columns, NEW bytes \in ClientValues, CopyBinary(c, bytes)
  PROVE  IInv'
<1>1. PICK w \in TokensRecv(bytes, type[c]) : Store(c, w, Meant(<<>>, w.vocab, FALSE))
  BY DEF CopyBinary
<1>2. type[c] # Bare => Uniform(w, type[c])
  BY <1>1, RecvUniform
<1>3. Meant(<<>>, w.vocab, FALSE).vocab = w.vocab
  BY DEF Meant
<1>4. type' = type /\ ranking' = ranking
  BY DEF CopyBinary
<1>5. w \in Validate(bytes)
  BY <1>1 DEF TokensRecv
<1>6. Sound(w, Meant(<<>>, w.vocab, FALSE), ranking)
  BY <1>5, ClientSound
<1> QED
  BY <1>1, <1>2, <1>3, <1>4, <1>6, StoreKeeps DEF IInv

\* INSERT of tokens_recv_bytes.
LEMMA InsertBytesKeeps ==
  ASSUME IInv, NEW c \in Columns, NEW bytes \in ClientValues, InsertBytes(c, bytes)
  PROVE  IInv'
<1>1. PICK u \in Validate(bytes) : \E w \in Coerce(u, type[c], FALSE) :
        Store(c, w, Carried(Meant(<<>>, u.vocab, FALSE), u, w, type[c], FALSE))
  BY DEF InsertBytes
<1> DEFINE m == Meant(<<>>, u.vocab, FALSE)
<1>2. PICK w \in Coerce(u, type[c], FALSE) : Store(c, w, Carried(m, u, w, type[c], FALSE))
  BY <1>1
<1>3. m.vocab = u.vocab
  BY DEF Meant
<1>4. Carried(m, u, w, type[c], FALSE).vocab = w.vocab
  <2> DEFINE x == FALSE
  <2>1. w \in Coerce(u, type[c], x)
    OBVIOUS
  <2>2. Carried(m, u, w, type[c], x).vocab = w.vocab
    <3> HIDE DEF m, x
    <3> QED
      BY <2>1, <1>3, CoerceKeeps
  <2> QED
    BY <2>2
<1>5. type' = type /\ ranking' = ranking
  BY DEF InsertBytes
<1>6. type[c] # Bare => Uniform(w, type[c])
  BY <1>2, CoerceUniform
<1>7. Tables(ranking) /\ type[c] \in Typmods
  BY DEF IInv
<1>8. Sound(u, m, ranking)
  BY <1>1, ClientSound
<1>9. Sound(w, Carried(m, u, w, type[c], FALSE), ranking)
  <2> DEFINE x == FALSE
  <2>1. w \in Coerce(u, type[c], x)
    OBVIOUS
  <2>2. Sound(w, Carried(m, u, w, type[c], x), ranking)
    <3> HIDE DEF m, x
    <3> QED
      BY <1>7, <1>8, <2>1, CoerceSound
  <2> QED
    BY <2>2
<1> HIDE DEF m
<1> QED
  BY <1>2, <1>4, <1>5, <1>6, <1>9, StoreKeeps DEF IInv

\* INSERT ... SELECT.
LEMMA InsertSelectKeeps ==
  ASSUME IInv, NEW c \in Columns, NEW d \in Columns, NEW x \in BOOLEAN, InsertSelect(c, d, x)
  PROVE  IInv'
<1>1. PICK w \in Coerce(cell[d], type[c], x) :
        Store(c, w, Carried(origin[d], cell[d], w, type[c], x))
  BY DEF InsertSelect
<1>2. origin[d].vocab = cell[d].vocab
  BY DEF InsertSelect, IInv, VocabularyKept, Filled
<1>3. Carried(origin[d], cell[d], w, type[c], x).vocab = w.vocab
  BY <1>1, <1>2, CoerceKeeps
<1>4. type' = type /\ ranking' = ranking
  BY DEF InsertSelect
<1>5. type[c] # Bare => Uniform(w, type[c])
  BY <1>1, CoerceUniform
<1>6. Tables(ranking) /\ type[c] \in Typmods /\ Sound(cell[d], origin[d], ranking)
  BY DEF IInv, InsertSelect, CellsSound, Filled
<1>7. Sound(w, Carried(origin[d], cell[d], w, type[c], x), ranking)
  BY <1>1, <1>6, CoerceSound
<1> QED
  BY <1>1, <1>3, <1>4, <1>5, <1>7, StoreKeeps DEF IInv

\* ALTER TABLE ... TYPE.
LEMMA AlterTypeKeeps ==
  ASSUME IInv, NEW c \in Columns, NEW t \in Typmods, NEW x \in BOOLEAN, AlterType(c, t, x)
  PROVE  IInv'
<1>1. type' = [d \in Columns |-> IF d = c THEN t ELSE type[d]]
  BY DEF AlterType, IInv
<1>2. /\ type' \in [Columns -> Typmods]
      /\ type'[c] = t
      /\ \A d \in Columns \ {c} : type'[d] = type[d]
  BY <1>1 DEF IInv
<1>3. ranking' = ranking /\ Tables(ranking')
  BY DEF AlterType, IInv
<1>4. CASE cell[c] = Nothing
  <2>1. cell' = cell /\ origin' = origin
    BY <1>4 DEF AlterType
  <2>2. ColumnUniform'
    BY <1>2, <1>4, <2>1 DEF IInv, ColumnUniform, Typed, Filled
  <2>3. VocabularyKept'
    BY <2>1 DEF IInv, VocabularyKept, Filled
  <2>4. CellsSound'
    BY <1>3, <2>1 DEF IInv, CellsSound, Filled
  <2> QED
    BY <1>2, <1>3, <2>1, <2>2, <2>3, <2>4 DEF IInv
<1>5. CASE cell[c] # Nothing
  <2>1. PICK w \in Coerce(cell[c], t, x) : Store(c, w, Carried(origin[c], cell[c], w, t, x))
    BY <1>5 DEF AlterType
  <2>2. origin[c].vocab = cell[c].vocab
    BY <1>5 DEF IInv, VocabularyKept, Filled
  <2>3. Carried(origin[c], cell[c], w, t, x).vocab = w.vocab
    BY <2>1, <2>2, CoerceKeeps
  <2>4. t # Bare => Uniform(w, t)
    BY <2>1, CoerceUniform
  <2>5. Sound(cell[c], origin[c], ranking) /\ Tables(ranking)
    BY <1>5 DEF IInv, CellsSound, Filled
  <2>6. Sound(w, Carried(origin[c], cell[c], w, t, x), ranking)
    BY <2>1, <2>5, CoerceSound
  <2> QED
    BY <1>2, <1>3, <2>1, <2>3, <2>4, <2>6, StoreKeeps
<1> QED
  BY <1>4, <1>5

\* A ranking that was there before stays, and what has none is not encoded by it.
LEMMA EncodedStays ==
  ASSUME NEW tables, NEW next, \A v \in Vocabularies : tables[v] # Nothing => next[v] = tables[v],
         NEW w, NEW ids, Encoded(w, ids, tables)
  PROVE  Encoded(w, ids, next)
<1> DEFINE v == w.vocab
<1>1. CASE v = UNRESOLVED /\ w \in EncodeUnresolved(ids)
  BY <1>1 DEF Encoded
<1>2. CASE v \in Vocabularies /\ w \in Encode(ids, v, Size[v], CodecFor(v), tables[v])
  <2>1. CASE tables[v] # Nothing
    BY <1>2, <2>1 DEF Encoded
  <2>2. CASE tables[v] = Nothing
    <3>1. CodecFor(v) # "freq"
      BY <1>2, <2>2, EncodeIs DEF RanksFit
    <3>2. w \in Encode(ids, v, Size[v], CodecFor(v), next[v])
      BY <1>2, <3>1, Zenon DEF Encode
    <3> QED
      BY <1>2, <3>2 DEF Encoded
  <2> QED
    BY <2>1, <2>2
<1> QED
  BY <1>1, <1>2 DEF Encoded

\* pgtoken.train.
LEMMA TrainKeeps ==
  ASSUME IInv, NEW v \in Vocabularies, NEW ids \in Corpora, NEW cap \in Caps, Train(v, ids, cap)
  PROVE  IInv'
<1> DEFINE table == TrainTable(ids, cap)
<1>1. type' = type /\ cell' = cell /\ origin' = origin
  BY DEF Train
<1>2. IsTable(table) /\ K(table) <= MaxI32 + 1
  <2>1. ids \in Seq(0..MaxI32) /\ cap \in Nat /\ MaxI32 \in Nat /\ MaxI32 < MaxU32
    BY ListsAssumption, Widths, WidthsAssumption
  <2> QED
    BY <2>1, TrainTableIsTable
<1>3. ranking[v] = Nothing /\ ranking' = [ranking EXCEPT ![v] = table]
  BY DEF Train
<1> HIDE DEF table
<1>4. ranking' = [u \in Vocabularies |-> IF u = v THEN table ELSE ranking[u]]
  BY <1>3 DEF IInv, Tables
<1>5. Tables(ranking')
  BY <1>2, <1>4 DEF IInv, Tables
<1>6. \A u \in Vocabularies : ranking[u] # Nothing => ranking'[u] = ranking[u]
  BY <1>3, <1>4
<1>7. CellsSound'
  <2> SUFFICES ASSUME NEW c \in Columns, cell[c] # Nothing
               PROVE  Sound(cell[c], origin[c], ranking')
    BY <1>1 DEF CellsSound, Filled
  <2>1. Sound(cell[c], origin[c], ranking)
    BY DEF IInv, CellsSound, Filled
  <2>2. origin[c].checked => Encoded(cell[c], origin[c].ids, ranking')
    BY <1>6, <2>1, EncodedStays DEF Sound
  <2> QED
    BY <2>1, <2>2 DEF Sound
<1> QED
  BY <1>1, <1>5, <1>7 DEF IInv, ColumnUniform, VocabularyKept, Typed, Filled

LEMMA StepKeeps ==
  ASSUME IInv, [Next]_vars
  PROVE  IInv'
<1>1. ASSUME NEW c \in Columns, NEW text \in Texts, InsertLiteral(c, text) \/ CopyText(c, text)
      PROVE  IInv'
  BY <1>1, InsertLiteralKeeps, CopyTextKeeps
<1>2. ASSUME NEW c \in Columns, NEW ints \in Arrays, InsertArray(c, ints)
      PROVE  IInv'
  BY <1>2, InsertArrayKeeps
<1>3. ASSUME NEW c \in Columns, NEW d \in Columns \ {c}, InsertFromArray(c, d)
      PROVE  IInv'
  BY <1>3, InsertFromArrayKeeps
<1>4. ASSUME NEW c \in Columns, NEW bytes \in ClientValues,
             CopyBinary(c, bytes) \/ InsertBytes(c, bytes)
      PROVE  IInv'
  BY <1>4, CopyBinaryKeeps, InsertBytesKeeps
<1>5. ASSUME NEW c \in Columns, NEW d \in Columns \ {c}, NEW x \in BOOLEAN, InsertSelect(c, d, x)
      PROVE  IInv'
  BY <1>5, InsertSelectKeeps
<1>6. ASSUME NEW c \in Columns, NEW t \in Vocabularies \cup {Bare}, NEW x \in BOOLEAN,
             AlterType(c, t, x)
      PROVE  IInv'
  BY <1>6, AlterTypeKeeps DEF Typmods
<1>7. ASSUME NEW v \in Vocabularies, NEW ids \in Corpora, NEW cap \in Caps, Train(v, ids, cap)
      PROVE  IInv'
  BY <1>7, TrainKeeps
<1>8. ASSUME UNCHANGED vars
      PROVE  IInv'
  <2>1. type' = type /\ cell' = cell /\ origin' = origin /\ ranking' = ranking
    BY <1>8 DEF vars
  <2> QED
    BY <2>1 DEF IInv, ColumnUniform, VocabularyKept, CellsSound, Typed, Filled
<1> QED
  BY <1>1, <1>2, <1>3, <1>4, <1>5, <1>6, <1>7, <1>8 DEF Next

\* Whatever the statements and in whatever order: rankings are tables, and what a column
\* holds is what its writer meant, packed as the column says, of the vocabulary it first had.
THEOREM Invariant == Spec => []IInv
<1>1. Init => IInv
  <2> SUFFICES ASSUME Init PROVE IInv
    OBVIOUS
  <2>1. \A c \in Columns : cell[c] = Nothing
    BY DEF Init
  <2>2. ColumnUniform /\ VocabularyKept /\ CellsSound
    BY <2>1 DEF ColumnUniform, VocabularyKept, CellsSound, Typed, Filled
  <2>3. type \in [Columns -> Typmods]
    BY DEF Init, Typmods
  <2>4. cell = [c \in Columns |-> cell[c]] /\ origin = [c \in Columns |-> origin[c]]
    BY DEF Init
  <2>5. Tables(ranking)
    BY DEF Init, Tables
  <2> QED
    BY <2>2, <2>3, <2>4, <2>5 DEF IInv
<1>2. IInv /\ [Next]_vars => IInv'
  BY StepKeeps
<1> QED
  BY <1>1, <1>2, PTL DEF Spec

\* Every cell is empty or well-formed, and every ranking a table.
THEOREM TypeCorrect == Spec => []TypeOK
<1>1. IInv => TypeOK
  BY DEF IInv, TypeOK, Tables, CellsSound, Sound, Filled, Typmods
<1> QED
  BY <1>1, Invariant, PTL

\* tokens.rs:238-260: no write path leaves a value of another vocabulary or another packing
\* in a column with a typmod.
THEOREM ColumnUniformHolds == Spec => []ColumnUniform
<1>1. IInv => ColumnUniform
  BY DEF IInv
<1> QED
  BY <1>1, Invariant, PTL

\* tokens.rs:40-61: no chain of assignments changes the vocabulary of a value.
THEOREM VocabularyKeptHolds == Spec => []VocabularyKept
<1>1. IInv => VocabularyKept
  BY DEF IInv
<1> QED
  BY <1>1, Invariant, PTL

\* tables.rs:24-26, "lossless for every ID": no sequence of inserts, copies, casts, ALTERs and
\* trainings changes an id list that some path has checked.
THEOREM LosslessHolds == Spec => []Lossless
<1>1. IInv => Lossless
  <2> SUFFICES ASSUME IInv, NEW c \in Filled, origin[c].checked
               PROVE  DecodeValue(cell[c]) = {origin[c].ids}
    BY DEF Lossless
  <2>1. Tables(ranking) /\ Encoded(cell[c], origin[c].ids, ranking)
    BY DEF IInv, CellsSound, Sound
  <2> QED
    BY <2>1, EncodedSound
<1> QED
  BY <1>1, Invariant, PTL

\* tokens.rs:3-5: a checked value in a column with a typmod survives dump and restore, as text
\* and as binary, to the byte.
THEOREM CheckedDumpRestoresHolds == Spec => []CheckedDumpRestores
<1>1. IInv => CheckedDumpRestores
  <2> SUFFICES ASSUME IInv, NEW c \in Typed, origin[c].checked
               PROVE  Restores(c)
    BY DEF CheckedDumpRestores
  <2> DEFINE w == cell[c]
             ids == origin[c].ids
             t == type[c]
  <2>1. Tables(ranking) /\ Encoded(w, ids, ranking) /\ w.vocab = t /\ w.codec = CodecFor(t)
    BY DEF IInv, CellsSound, Sound, ColumnUniform, Typed
  <2>2. t \in Vocabularies /\ t # Bare
    BY DEF IInv, Typed, Filled, Typmods
  <2>3. t # UNRESOLVED
    BY <2>2, CodecForHolds
  <2> HIDE DEF w, ids, t
  <2>4. ids \in Seq(U32) /\ Parses(w) /\ DecodeValue(w) = {ids} /\ EncodeFor(ids, t) = {w}
    BY <2>1, <2>3, EncodedSound
  <2>5. ASSUME NEW text \in TokensOut(w)
        PROVE  TokensIn(text, t) = {w}
    <3>1. text = RenderIds(ids)
      BY <2>4, <2>5 DEF TokensOut, Validate
    <3>2. ParseIds(text) = {ids}
      BY <2>4, <3>1, RenderParses
    <3>3. TokensIn(text, t) = UNION {EncodeFor(i, t) : i \in {ids}}
      BY <2>2, <3>2 DEF TokensIn
    <3> QED
      BY <2>4, <3>3
  <2>6. TokensRecv(w, t) = {w}
    BY <2>1, <2>3, <2>4 DEF TokensRecv, Validate
  <2> QED
    BY <2>5, <2>6 DEF Restores, w, t
<1> QED
  BY <1>1, Invariant, PTL

\* tokens.rs:159-170: a value stored unresolved can be repaired in place, for every vocabulary
\* that has its ids and, if it packs by rank, a ranking.
THEOREM UnresolvedRepairableHolds == Spec => []UnresolvedRepairable
<1>1. IInv => UnresolvedRepairable
  <2> SUFFICES ASSUME IInv, NEW c \in Filled, NEW v \in Vocabularies,
                      cell[c].vocab = UNRESOLVED,
                      \A i \in 1..Len(cell[c].packed) : cell[c].packed[i] < Size[v],
                      Compression[v] = "freq" => ranking[v] # Nothing
               PROVE  TypmodApply(cell[c], v, FALSE) # {}
    BY DEF UnresolvedRepairable
  <2> DEFINE w == cell[c]
             ids == w.packed
             codec == CodecFor(v)
             table == ranking[v]
  <2>1. Tables(ranking) /\ IsValue(w) /\ Parses(w) /\ w.vocab = UNRESOLVED
    BY DEF IInv, CellsSound, Sound
  <2>2. \A i \in 1..Len(ids) : ids[i] < Size[v]
    OBVIOUS
  <2>3. /\ v # UNRESOLVED /\ Size[v] \in Nat /\ Size[v] <= Max24 + 1
        /\ codec = "freq" <=> Compression[v] = "freq"
        /\ codec # "freq" => \A id \in Nat : id < Size[v] => id <= MaxPacked(codec)
    BY CodecForHolds
  <2>4. Compression[v] = "freq" => table # Nothing
    OBVIOUS
  <2>5. TableOf(v) = table /\ (table # Nothing => IsTable(table) /\ K(table) <= MaxI32 + 1)
    BY <2>1 DEF Tables, TableOf
  <2>6. TypmodApply(w, v, FALSE) = Recode(w, v)
    BY <2>1, <2>3 DEF TypmodApply
  <2> HIDE DEF w, codec, table
  <2>7. DecodeValue(w) = {ids}
    BY <2>1 DEF Parses, DecodeValue, Decode
  <2>8. Recode(w, v) = EncodeFor(ids, v)
    BY <2>7 DEF Recode
  <2>9. \A i \in 1..Len(ids) : ids[i] \in Nat /\ ids[i] < Size[v] /\ ~(ids[i] >= Size[v])
    <3>1. w.codec \in Codecs /\ ids \in Seq(0..MaxPacked(w.codec))
      BY <2>1 DEF IsValue
    <3>2. MaxPacked(w.codec) \in Nat
      BY <3>1, Widths, WidthsAssumption
    <3> QED
      BY <2>2, <2>3, <3>1, <3>2
  <2> HIDE DEF ids
  <2>10. CASE codec = "freq"
    <3>1. table # Nothing /\ IsTable(table) /\ K(table) \in Nat /\ K(table) <= MaxI32 + 1
      BY <2>3, <2>4, <2>5, <2>10 DEF IsTable, K
    <3>2. \A i \in 1..Len(ids) : RankFits(table, ids[i])
      BY <2>3, <2>9, <3>1, Widths, WidthsAssumption DEF RankFits
    <3>3. EncodeFor(ids, v) # {}
      BY <2>5, <2>9, <2>10, <3>1, <3>2, Zenon DEF EncodeFor, Encode, codec
    <3> QED
      BY <2>6, <2>8, <3>3 DEF w
  <2>11. CASE codec # "freq"
    <3>1. \A i \in 1..Len(ids) : ids[i] <= MaxPacked(codec)
      BY <2>3, <2>9, <2>11
    <3>2. EncodeFor(ids, v) # {}
      BY <2>9, <2>11, <3>1, Zenon DEF EncodeFor, Encode, codec
    <3> QED
      BY <2>6, <2>8, <3>2 DEF w
  <2> QED
    BY <2>10, <2>11
<1> QED
  BY <1>1, Invariant, PTL

\* tokens.rs:555-561: comparing the bytes of two checked values compares vocabulary, packing
\* and ids, whatever ways they came.
THEOREM EqualityIsByIdHolds == Spec => []EqualityIsById
<1>1. IInv => EqualityIsById
  <2> SUFFICES ASSUME IInv, NEW c \in Filled, NEW d \in Filled,
                      origin[c].checked, origin[d].checked
               PROVE  TokensEq(cell[c], cell[d]) <=>
                        /\ cell[c].vocab = cell[d].vocab /\ cell[c].codec = cell[d].codec
                        /\ DecodeValue(cell[c]) = DecodeValue(cell[d])
    BY DEF EqualityIsById
  <2>1. /\ Tables(ranking)
        /\ Encoded(cell[c], origin[c].ids, ranking)
        /\ Encoded(cell[d], origin[d].ids, ranking)
    BY DEF IInv, CellsSound, Sound
  <2>2. DecodeValue(cell[c]) = {origin[c].ids} /\ DecodeValue(cell[d]) = {origin[d].ids}
    BY <2>1, EncodedSound
  <2>3. ASSUME cell[c].vocab = cell[d].vocab, DecodeValue(cell[c]) = DecodeValue(cell[d])
        PROVE  cell[c] = cell[d]
    <3>1. origin[c].ids = origin[d].ids
      BY <2>2, <2>3
    <3>2. CASE cell[c].vocab = UNRESOLVED
      <4>1. /\ EncodeUnresolved(origin[c].ids) = {cell[c]}
            /\ EncodeUnresolved(origin[d].ids) = {cell[d]}
        BY <2>1, <2>3, <3>2, EncodedSound
      <4> QED
        BY <3>1, <4>1
    <3>3. CASE cell[c].vocab # UNRESOLVED
      <4>1. /\ EncodeFor(origin[c].ids, cell[c].vocab) = {cell[c]}
            /\ EncodeFor(origin[d].ids, cell[d].vocab) = {cell[d]}
        BY <2>1, <2>3, <3>3, EncodedSound
      <4> QED
        BY <2>3, <3>1, <4>1
    <3> QED
      BY <3>2, <3>3
  <2> QED
    BY <2>3 DEF TokensEq
<1> QED
  BY <1>1, Invariant, PTL

=============================================================================
