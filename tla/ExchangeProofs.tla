----------------------------- MODULE ExchangeProofs -----------------------------
(***************************************************************************)
(* For every number of databases, ids and names, and whatever is trained,  *)
(* loaded, inserted, copied, dumped and restored: a typmod names the row   *)
(* it was made from, and vocabularies that vocabulary_info reports alike   *)
(* read a stored value alike; safe ways keep its ids, and a dump that is   *)
(* restored a second time brings it back.                                  *)
(***************************************************************************)
EXTENDS Exchange, OperatorProofs

\* The fields of a row that a typmod packs.
FieldsOf(r) ==
  [id |-> r.id, compression |-> CompressionCode(r.compression), width |-> r.width]

\* The constraints of the table pgtoken.vocabulary.
Sound(R) ==
  /\ R \subseteq Row
  /\ \A r, s \in R : r.id = s.id \/ r.name = s.name => r = s

Uniform(w, typmod) == w.vocab = Unpack(typmod).id /\ w.codec = CodecFor(typmod)

CatalogInv ==
  /\ rows = [d \in Databases |-> rows[d]]
  /\ domain = [d \in Databases |-> [n \in Names |-> domain[d][n]]]
  /\ \A d \in Databases : Sound(rows[d])
  /\ \A d \in Databases, n \in Names :
       domain[d][n] # Nothing =>
         \E r \in rows[d] : r.name = n /\ domain[d][n] = Pack(FieldsOf(r))

TableInv ==
  /\ column = [d \in Databases |-> column[d]]
  /\ cell = [d \in Databases |-> cell[d]]
  /\ \A d \in Databases :
       column[d] # Nothing => column[d] \in Names /\ domain[d][column[d]] # Nothing
  /\ \A d \in Databases :
       cell[d] # Nothing => column[d] # Nothing /\ Uniform(cell[d], ColumnTypmod(d))

DumpInv ==
  dump # Nothing =>
    /\ {"rows", "domains", "column", "into"} \subseteq DOMAIN dump
    /\ dump.into \in Databases
    /\ Sound(dump.rows)
    /\ \A n \in DOMAIN dump.domains : dump.domains[n] = n
    /\ dump.column \in Names

IInv == CatalogInv /\ TableInv /\ DumpInv

\* w is what the vocabulary of row r packs ids as, where ranks is its ranking.
Made(w, ids, r, ranks) ==
  w \in Encode(ids, r.id, r.size, CodecOf(r.compression, r.width), ranks)

FilesInv ==
  /\ ranking = [d \in Databases |-> [id \in Ids |-> ranking[d][id]]]
  /\ mapping = [d \in Databases |-> [id \in Ids |-> mapping[d][id]]]
  /\ \A d \in Databases, id \in Ids :
       /\ ranking[d][id] # Nothing => IsTable(ranking[d][id])
       /\ mapping[d][id] \in Mappings \cup {Nothing}

History(o) ==
  /\ DOMAIN o = {"ids", "safe"} /\ o.safe \in BOOLEAN
  /\ o.safe => o.ids \in Seq(U32)

\* w is a value, and if it only came by safe ways, it is what the row with the column's name
\* packs the ids it was written with as.
Kept(w, o, name, R, tables) ==
  /\ IsValue(w) /\ History(o)
  /\ o.safe => \E r \in R : r.name = name /\ Made(w, o.ids, r, tables[r.id])

ValuesInv ==
  /\ origin = [d \in Databases |-> origin[d]]
  /\ \A d \in Databases :
       cell[d] # Nothing => Kept(cell[d], origin[d], column[d], rows[d], ranking[d])

\* The text of a dump, and the value where its vocabulary needs no ranking.
DumpTextInv ==
  dump # Nothing =>
    /\ DOMAIN dump = {"from", "into", "stage", "rows", "domains", "column", "text", "value",
                      "origin", "got", "tries"}
    /\ dump.column # Nothing /\ dump.column \in DOMAIN dump.domains
    /\ History(dump.origin)
    /\ ParseIds(dump.text) \subseteq Seq(U32)
    /\ dump.origin.safe => ParseIds(dump.text) = {dump.origin.ids}
    /\ \E r \in dump.rows :
         /\ r.name = dump.column
         /\ dump.origin.safe /\ dump.value.codec # "freq" =>
              Made(dump.value, dump.origin.ids, r, Nothing)

\* A database that restored once has rows, so that it clashes with a second copy of them.
RestoreInv ==
  dump # Nothing =>
    /\ dump.tries \in 0..2 /\ dump.stage \in {"taken", "schema", "restored"}
    /\ dump.stage = "taken" => dump.tries = 0
    /\ dump.stage = "restored" \/ dump.tries = 2 => rows[dump.into] # {}
    /\ dump.stage = "schema" /\ dump.tries = 2 /\ rows[dump.into] = dump.rows =>
         column[dump.into] = dump.column
    /\ CatalogRestored /\ dump.tries = 2 => dump.got = dump.value

DInv == FilesInv /\ ValuesInv /\ DumpTextInv /\ RestoreInv

-----------------------------------------------------------------------------
(* Typmods and rows.                                                        *)

\* Division with remainder by 2^16 and by 2^20 has one solution.
LEMMA DivMod16 ==
  ASSUME NEW x \in Int, NEW q \in Int, 0 <= x, x <= 65535, 0 <= q
  PROVE  (x + q * 65536) % 65536 = x /\ (x + q * 65536) \div 65536 = q
<1> DEFINE t == x + q * 65536
           m == t % 65536
           k == t \div 65536
<1>1. t \in Nat
  BY SMTT(20)
<1>2. m \in Int /\ 0 <= m /\ m <= 65535 /\ k \in Int /\ m + k * 65536 = t
  <2> HIDE DEF t
  <2> QED
    BY <1>1, SMTT(20)
<1>3. m + k * 65536 = x + q * 65536
  BY <1>2
<1> HIDE DEF m, k
<1>4. m = x /\ k = q
  BY <1>2, <1>3, SMTT(20)
<1> QED
  BY <1>4 DEF m, k

LEMMA DivMod20 ==
  ASSUME NEW x \in Int, NEW q \in Int, 0 <= x, x <= 1048575, 0 <= q
  PROVE  (x + q * 1048576) % 1048576 = x /\ (x + q * 1048576) \div 1048576 = q
<1> DEFINE t == x + q * 1048576
           m == t % 1048576
           k == t \div 1048576
<1>1. t \in Nat
  BY SMTT(20)
<1>2. m \in Int /\ 0 <= m /\ m <= 1048575 /\ k \in Int /\ m + k * 1048576 = t
  <2> HIDE DEF t
  <2> QED
    BY <1>1, SMTT(20)
<1>3. m + k * 1048576 = x + q * 1048576
  BY <1>2
<1> HIDE DEF m, k
<1>4. m = x /\ k = q
  BY <1>2, <1>3, SMTT(20)
<1> QED
  BY <1>4 DEF m, k
\* typmod.rs:22-37: what is packed is unpacked again, field by field.
LEMMA UnpackPack ==
  ASSUME NEW v, v = [id |-> v.id, compression |-> v.compression, width |-> v.width],
         v.id \in Int, 0 <= v.id, v.id <= 65535,
         v.compression \in Int, 0 <= v.compression, v.compression <= 15,
         v.width \in Int, 0 <= v.width, v.width <= 7
  PROVE  Unpack(Pack(v)) = v
<1> DEFINE i == v.id
           c == v.compression
           w == v.width
           low == i + c * 65536
           high == c + w * 16
<1>1. i \in Int /\ 0 <= i /\ i <= 65535 /\ c \in Int /\ 0 <= c /\ c <= 15 /\ w \in Int /\ 0 <= w /\ w <= 7
  OBVIOUS
<1>2. Pack(v) = i + c * 65536 + w * 1048576
  BY DEF Pack
<1> HIDE DEF i, c, w
<1>3. low \in Int /\ 0 <= low /\ low <= 1048575 /\ high \in Int /\ 0 <= high
  BY <1>1, SMTT(20)
<1>4. Pack(v) = i + high * 65536 /\ Pack(v) = low + w * 1048576
  BY <1>1, <1>2, SMTT(20)
<1>5. high % 16 = c /\ w % 8 = w
  BY <1>1, SMTT(20)
<1> HIDE DEF low, high
<1>6. Pack(v) % 65536 = i /\ Pack(v) \div 65536 = high
  BY <1>1, <1>3, <1>4, DivMod16, SMTT(20)
<1>7. Pack(v) \div 1048576 = w
  BY <1>1, <1>3, <1>4, DivMod20, SMTT(20)
<1>8. Unpack(Pack(v)) = [id |-> i, compression |-> c, width |-> w]
  BY <1>5, <1>6, <1>7 DEF Unpack
<1> QED
  BY <1>8 DEF i, c, w

LEMMA IdsInRange == \A id \in Ids : id \in Int /\ 0 <= id /\ id <= 65535 /\ id # UNRESOLVED
BY ExchangeAssumption, SMTT(20) DEF UNRESOLVED

LEMMA UnpackRow ==
  ASSUME NEW r \in Row
  PROVE  Unpack(Pack(FieldsOf(r))) = FieldsOf(r)
<1> DEFINE v == FieldsOf(r)
<1>1. v = [id |-> v.id, compression |-> v.compression, width |-> v.width]
  BY DEF FieldsOf
<1>2. v.id = r.id /\ v.compression = CompressionCode(r.compression) /\ v.width = r.width
  BY DEF FieldsOf
<1>3. v.id \in Int /\ 0 <= v.id /\ v.id <= 65535 /\ v.width \in Int /\ 0 <= v.width /\ v.width <= 7
  <2>1. r.id \in Ids /\ r.width \in 1..3
    BY DEF Row
  <2>2. r.id \in Int /\ 0 <= r.id /\ r.id <= 65535
    BY <2>1, IdsInRange
  <2>3. r.width \in Int /\ 0 <= r.width /\ r.width <= 7
    BY <2>1, SMTT(20)
  <2> QED
    BY <1>2, <2>2, <2>3
<1>4. v.compression \in Int /\ 0 <= v.compression /\ v.compression <= 15
  BY <1>2, SMTT(20) DEF CompressionCode
<1> HIDE DEF v
<1>5. Unpack(Pack(v)) = v
  BY <1>1, <1>3, <1>4, UnpackPack
<1> QED
  BY <1>5 DEF v

\* In a sound catalog a name and an id find one row.
LEMMA RowFound ==
  ASSUME NEW d, NEW r \in rows[d], Sound(rows[d])
  PROVE  /\ LookupByName(d, r.name) = {FieldsOf(r)}
         /\ NameForId(d, r.id) = {r.name}
         /\ VocabSizeFor(d, r.id) = {r.size}
BY DEF Sound, LookupByName, NameForId, VocabSizeFor, FieldsOf

\* A domain's typmod is that of its row.
LEMMA DomainRow ==
  ASSUME CatalogInv, NEW d \in Databases, NEW n \in Names, domain[d][n] # Nothing
  PROVE  \E r \in rows[d] :
           /\ r \in Row /\ r.name = n
           /\ Unpack(domain[d][n]) = FieldsOf(r)
           /\ LookupByName(d, n) = {FieldsOf(r)}
           /\ NameForId(d, r.id) = {n}
           /\ VocabSizeFor(d, r.id) = {r.size}
<1>1. PICK r \in rows[d] : r.name = n /\ domain[d][n] = Pack(FieldsOf(r))
  BY DEF CatalogInv
<1>2. Sound(rows[d])
  BY DEF CatalogInv
<1>3. r \in Row
  BY <1>2 DEF Sound
<1> QED
  BY <1>1, <1>2, <1>3, UnpackRow, RowFound

LEMMA CatalogNames == CatalogInv => TypmodsNameRows
<1> SUFFICES ASSUME CatalogInv, NEW d \in Databases, NEW n \in Names, domain[d][n] # Nothing
             PROVE  LET v == Unpack(domain[d][n]) IN
                    /\ LookupByName(d, n) = {v}
                    /\ TypmodOut(d, domain[d][n]) = n
                    /\ NameForId(d, v.id) = {n}
  BY DEF TypmodsNameRows
<1>1. PICK r \in rows[d] :
        /\ Unpack(domain[d][n]) = FieldsOf(r)
        /\ LookupByName(d, n) = {FieldsOf(r)}
        /\ NameForId(d, r.id) = {n}
  BY DomainRow
<1>2. Unpack(domain[d][n]).id = r.id
  BY <1>1 DEF FieldsOf
<1>3. TypmodOut(d, domain[d][n]) = n
  BY <1>1, <1>2 DEF TypmodOut
<1> QED
  BY <1>1, <1>2, <1>3

-----------------------------------------------------------------------------
(* vocabulary_info.                                                         *)

\* The one line vocabulary_info prints of a vocabulary.
Line(d, r) ==
  <<r.id, r.size, CompressionName(CompressionCode(r.compression)), r.width,
    DescribeTable(d, r.id), DescribeMap(d, r.id)>>

LEMMA InfoFound ==
  ASSUME CatalogInv, NEW d \in Databases, NEW n \in Names, domain[d][n] # Nothing
  PROVE  \E r \in rows[d] :
           /\ r \in Row /\ r.name = n
           /\ Unpack(domain[d][n]) = FieldsOf(r) /\ Info(d, n) = {Line(d, r)}
<1> DEFINE entry(v, size) ==
             <<v.id, size, CompressionName(v.compression), v.width,
               DescribeTable(d, v.id), DescribeMap(d, v.id)>>
<1>1. PICK r \in rows[d] :
        /\ r \in Row /\ r.name = n
        /\ Unpack(domain[d][n]) = FieldsOf(r)
        /\ LookupByName(d, n) = {FieldsOf(r)}
        /\ VocabSizeFor(d, r.id) = {r.size}
  BY DomainRow
<1>2. Info(d, n) =
        UNION {{entry(v, size) : size \in VocabSizeFor(d, v.id)} : v \in LookupByName(d, n)}
  BY DEF Info
<1>3. FieldsOf(r).id = r.id
  BY DEF FieldsOf
<1>4. entry(FieldsOf(r), r.size) = Line(d, r)
  BY DEF FieldsOf, Line
<1> HIDE DEF entry
<1>5. Info(d, n) = {entry(FieldsOf(r), r.size)}
  BY <1>1, <1>2, <1>3
<1> QED
  BY <1>1, <1>4, <1>5

LEMMA SameTable ==
  ASSUME NEW d, NEW e, NEW id, DescribeTable(d, id) = DescribeTable(e, id)
  PROVE  ranking[d][id] = ranking[e][id]
<1> DEFINE a == <<K(ranking[d][id]), ranking[d][id]>>
           b == <<K(ranking[e][id]), ranking[e][id]>>
<1>1. a = b => ranking[d][id] = ranking[e][id]
  OBVIOUS
<1> HIDE DEF a, b
<1>2. /\ DescribeTable(d, id) = IF ranking[d][id] = Nothing THEN {} ELSE {a}
      /\ DescribeTable(e, id) = IF ranking[e][id] = Nothing THEN {} ELSE {b}
  BY DEF DescribeTable, a, b
<1> QED
  BY <1>1, <1>2

LEMMA SameMap ==
  ASSUME NEW d, NEW e, NEW id, DescribeMap(d, id) = DescribeMap(e, id)
  PROVE  mapping[d][id] = mapping[e][id]
<1> DEFINE count(m) == Cardinality({i \in DOMAIN m : m[i] # Nothing})
           a == <<count(mapping[d][id]), mapping[d][id]>>
           b == <<count(mapping[e][id]), mapping[e][id]>>
<1>1. a = b => mapping[d][id] = mapping[e][id]
  OBVIOUS
<1>2. /\ DescribeMap(d, id) = IF mapping[d][id] = Nothing THEN {} ELSE {a}
      /\ DescribeMap(e, id) = IF mapping[e][id] = Nothing THEN {} ELSE {b}
  BY DEF DescribeMap
<1> HIDE DEF a, b
<1> QED
  BY <1>1, <1>2

LEMMA InfosDecide == CatalogInv /\ TableInv => DigestsSuffice
<1> SUFFICES ASSUME CatalogInv, TableInv, NEW d \in Filled, NEW e \in Databases,
                    column[e] # Nothing, InfosAgree(d, e)
             PROVE  /\ TokensRecv(cell[d], ColumnTypmod(e)) = {cell[d]}
                    /\ DecodeValue(e, cell[d]) = DecodeValue(d, cell[d])
                    /\ Text(e, cell[d]) = Text(d, cell[d])
  BY DEF DigestsSuffice
<1> DEFINE w == cell[d]
<1>1. d \in Databases /\ column[d] # Nothing /\ Uniform(w, ColumnTypmod(d))
  BY DEF Filled, TableInv
<1>2. /\ column[d] \in Names /\ domain[d][column[d]] # Nothing
      /\ column[e] \in Names /\ domain[e][column[e]] # Nothing
  BY <1>1 DEF TableInv
<1>3. PICK r \in rows[d] :
        r \in Row /\ Unpack(ColumnTypmod(d)) = FieldsOf(r) /\ Info(d, column[d]) = {Line(d, r)}
  BY <1>1, <1>2, InfoFound DEF ColumnTypmod
<1>4. PICK s \in rows[e] :
        s \in Row /\ Unpack(ColumnTypmod(e)) = FieldsOf(s) /\ Info(e, column[e]) = {Line(e, s)}
  BY <1>2, InfoFound DEF ColumnTypmod
<1>5. Line(d, r) = Line(e, s)
  BY <1>3, <1>4 DEF InfosAgree
<1>6. /\ r.id = s.id /\ r.width = s.width
      /\ CompressionName(CompressionCode(r.compression)) =
           CompressionName(CompressionCode(s.compression))
      /\ DescribeTable(d, r.id) = DescribeTable(e, r.id)
      /\ DescribeMap(d, r.id) = DescribeMap(e, r.id)
  BY <1>5 DEF Line
<1>7. CompressionCode(r.compression) = CompressionCode(s.compression)
  BY <1>6 DEF CompressionName, CompressionCode
<1>8. Unpack(ColumnTypmod(e)) = Unpack(ColumnTypmod(d))
  BY <1>3, <1>4, <1>6, <1>7 DEF FieldsOf
<1>9. CodecFor(ColumnTypmod(e)) = CodecFor(ColumnTypmod(d))
  BY <1>8 DEF CodecFor
<1>10. w.vocab = r.id /\ w.vocab \in Ids /\ w.vocab # UNRESOLVED
  BY <1>1, <1>3, IdsInRange DEF Uniform, FieldsOf, Row
<1>11. Validate(w) = {w}
  BY <1>10 DEF Validate, Parses
<1>12. TokensRecv(w, ColumnTypmod(e)) = {w}
  BY <1>1, <1>8, <1>9, <1>11 DEF TokensRecv, Uniform
<1>13. ranking[d][w.vocab] = ranking[e][w.vocab] /\ mapping[d][w.vocab] = mapping[e][w.vocab]
  BY <1>6, <1>10, SameTable, SameMap
<1>14. DecodeValue(e, w) = DecodeValue(d, w)
  BY <1>10, <1>13 DEF DecodeValue, TableOf
<1>15. Text(e, w) = Text(d, w)
  <2> DEFINE lists(b) == UNION {DecodeValue(b, u) : u \in Validate(w)}
             read(m, L) ==
               IF m = Nothing THEN {}
               ELSE {[i \in DOMAIN ids |-> m[ids[i] + 1]] :
                       ids \in {ids \in L : \A i \in DOMAIN ids :
                                             ids[i] < Len(m) /\ m[ids[i] + 1] # Nothing}}
  <2>1. lists(e) = lists(d)
    BY <1>11, <1>14
  <2>2. /\ Text(d, w) = read(mapping[d][w.vocab], lists(d))
        /\ Text(e, w) = read(mapping[e][w.vocab], lists(e))
    BY <1>10 DEF Text
  <2> HIDE DEF lists, read
  <2> QED
    BY <1>13, <2>1, <2>2
<1> QED
  BY <1>12, <1>14, <1>15

-----------------------------------------------------------------------------
(* The steps.                                                               *)

LEMMA EncodeUniform ==
  ASSUME NEW ids, NEW v, NEW size, NEW codec, NEW ranks, NEW w \in Encode(ids, v, size, codec, ranks)
  PROVE  w.vocab = v /\ w.codec = codec
BY DEF Encode, Exactly

LEMMA TokensInUniform ==
  ASSUME NEW d, NEW text, NEW typmod, NEW w \in TokensIn(d, text, typmod)
  PROVE  Uniform(w, typmod)
<1>1. PICK ids \in ParseIds(text) : w \in EncodeFor(d, ids, typmod)
  BY DEF TokensIn
<1> DEFINE v == Unpack(typmod).id
<1>2. PICK size \in VocabSizeFor(d, v) :
        w \in Encode(ids, v, size, CodecFor(typmod), TableOf(d, v))
  BY <1>1 DEF EncodeFor
<1> QED
  BY <1>2, EncodeUniform DEF Uniform

LEMMA TokensRecvUniform ==
  ASSUME NEW bytes, NEW typmod, NEW w \in TokensRecv(bytes, typmod)
  PROVE  Uniform(w, typmod)
BY DEF TokensRecv, Validate, Uniform

LEMMA CreateVocabularyInv ==
  ASSUME IInv, NEW d \in Databases, NEW name \in Names, NEW id \in Ids, NEW decl \in Declared,
         CreateVocabulary(d, name, id, decl)
  PROVE  IInv'
<1> DEFINE row == [id |-> id, name |-> name, size |-> decl.size,
                   compression |-> decl.compression, width |-> WidthFor(decl.size)]
           typmod == Pack([id |-> id, compression |-> CompressionCode(row.compression),
                           width |-> row.width])
<1>1. /\ rows[d] = {}
      /\ rows' = [rows EXCEPT ![d] = {row}]
      /\ domain' = [domain EXCEPT ![d][name] = typmod]
      /\ UNCHANGED <<column, cell, dump>>
  BY DEF CreateVocabulary, table
<1>2. row \in Row
  <2>1. decl.size \in VocabSizes /\ decl.compression \in {"raw", "freq"}
    BY ExchangeAssumption
  <2>2. WidthFor(decl.size) \in 1..3
    BY DEF WidthFor
  <2> QED
    BY <2>1, <2>2 DEF Row
<1>3. typmod = Pack(FieldsOf(row)) /\ row.name = name
  BY DEF FieldsOf
<1> HIDE DEF row, typmod
<1>4. Sound({row})
  BY <1>2 DEF Sound
<1>5. \A n \in Names : domain[d][n] = Nothing
  BY <1>1 DEF IInv, CatalogInv
<1>6. CatalogInv'
  <2>1. rows' = [x \in Databases |-> rows'[x]] /\ \A x \in Databases : Sound(rows'[x])
    BY <1>1, <1>4 DEF IInv, CatalogInv
  <2>2. domain' = [x \in Databases |-> [n \in Names |-> domain'[x][n]]]
    <3> DEFINE old(x) == [n \in Names |-> domain[x][n]]
               new == [domain[d] EXCEPT ![name] = typmod]
    <3>1. domain = [x \in Databases |-> old(x)] /\ domain[d] = old(d)
      BY DEF IInv, CatalogInv
    <3>2. new = [n \in Names |-> new[n]]
      BY <3>1
    <3>3. domain' = [domain EXCEPT ![d] = new]
      BY <1>1
    <3> HIDE DEF new
    <3>4. \A x \in Databases : domain'[x] = [n \in Names |-> domain'[x][n]]
      BY <3>1, <3>2, <3>3
    <3>5. domain' = [x \in Databases |-> domain'[x]]
      BY <3>1, <3>3
    <3> QED
      BY <3>4, <3>5
  <2>3. ASSUME NEW x \in Databases, NEW n \in Names, domain'[x][n] # Nothing
        PROVE  \E r \in rows'[x] : r.name = n /\ domain'[x][n] = Pack(FieldsOf(r))
    <3>1. CASE x = d
      <4>1. n = name /\ domain'[x][n] = typmod /\ rows'[x] = {row}
        BY <1>1, <1>5, <2>3, <3>1 DEF IInv, CatalogInv
      <4> QED
        BY <1>3, <4>1
    <3>2. CASE x # d
      BY <1>1, <2>3, <3>2 DEF IInv, CatalogInv
    <3> QED
      BY <3>1, <3>2
  <2> QED
    BY <2>1, <2>2, <2>3 DEF CatalogInv
<1>7. TableInv'
  <2>1. column[d] = Nothing /\ cell[d] = Nothing
    BY <1>5 DEF IInv, TableInv
  <2>2. \A x \in Databases : x # d => domain'[x] = domain[x]
    BY <1>1 DEF IInv, CatalogInv
  <2> QED
    BY <1>1, <2>1, <2>2 DEF IInv, TableInv, ColumnTypmod, Uniform
<1>8. DumpInv'
  BY <1>1 DEF IInv, DumpInv
<1> QED
  BY <1>6, <1>7, <1>8 DEF IInv

\* A value of the column's own vocabulary and packing, or none, is stored.
LEMMA StoreInv ==
  ASSUME IInv, NEW d \in Databases, NEW w, NEW o, Store(d, w, o),
         w # Nothing => column[d] # Nothing /\ Uniform(w, ColumnTypmod(d)),
         UNCHANGED <<catalogVars, column, dump>>
  PROVE  IInv'
<1>1. UNCHANGED <<rows, domain, column, dump>>
  BY DEF catalogVars
<1>2. CatalogInv' /\ DumpInv'
  BY <1>1 DEF IInv, CatalogInv, DumpInv
<1>3. cell' = [cell EXCEPT ![d] = w]
  BY DEF Store
<1>4. \A x \in Databases : cell'[x] = IF x = d THEN w ELSE cell[x]
  BY <1>3 DEF IInv, TableInv
<1>5. cell' = [x \in Databases |-> cell'[x]]
  BY <1>3 DEF IInv, TableInv
<1>6. TableInv'
  BY <1>1, <1>4, <1>5 DEF IInv, TableInv, ColumnTypmod, Uniform
<1> QED
  BY <1>2, <1>6 DEF IInv

LEMMA CreateTableInv ==
  ASSUME IInv, NEW d \in Databases, NEW name \in Names, CreateTable(d, name)
  PROVE  IInv'
<1>1. /\ column[d] = Nothing /\ domain[d][name] # Nothing
      /\ column' = [column EXCEPT ![d] = name]
      /\ UNCHANGED <<rows, domain, cell, dump>>
  BY DEF CreateTable, catalogVars
<1>2. CatalogInv' /\ DumpInv'
  BY <1>1 DEF IInv, CatalogInv, DumpInv
<1>3. cell[d] = Nothing
  BY <1>1 DEF IInv, TableInv
<1>4. \A x \in Databases : column'[x] = IF x = d THEN name ELSE column[x]
  BY <1>1 DEF IInv, TableInv
<1>5. column' = [x \in Databases |-> column'[x]]
  BY <1>1 DEF IInv, TableInv
<1>6. TableInv'
  BY <1>1, <1>3, <1>4, <1>5 DEF IInv, TableInv, ColumnTypmod, Uniform
<1> QED
  BY <1>2, <1>6 DEF IInv

LEMMA DumpTakenInv ==
  ASSUME IInv, NEW d \in Databases, cell[d] # Nothing, Dump(d)
  PROVE  IInv'
<1>1. UNCHANGED <<rows, domain, column, cell>>
  BY DEF Dump, catalogVars, table
<1>2. CatalogInv' /\ TableInv'
  BY <1>1 DEF IInv, CatalogInv, TableInv, ColumnTypmod, Uniform
<1>3. PICK text \in TokensOut(d, cell[d]) :
        dump' = [from |-> d, into |-> d, stage |-> "taken",
                 rows |-> rows[d],
                 domains |-> [n \in {n \in Names : domain[d][n] # Nothing} |->
                                TypmodOut(d, domain[d][n])],
                 column |-> column[d], text |-> text,
                 value |-> cell[d], origin |-> origin[d], got |-> Nothing, tries |-> 0]
  BY DEF Dump
<1>4. \A n \in Names : domain[d][n] # Nothing => TypmodOut(d, domain[d][n]) = n
  BY CatalogNames DEF IInv, TypmodsNameRows
<1>5. column[d] \in Names /\ Sound(rows[d])
  BY DEF IInv, TableInv, CatalogInv
<1>6. DumpInv'
  <2> DEFINE names == {n \in Names : domain[d][n] # Nothing}
             rendered == [n \in names |-> TypmodOut(d, domain[d][n])]
  <2>1. \A n \in DOMAIN rendered : rendered[n] = n
    BY <1>4
  <2> HIDE DEF names, rendered
  <2>2. /\ {"rows", "domains", "column", "into"} \subseteq DOMAIN dump'
        /\ dump'.rows = rows[d] /\ dump'.domains = rendered
        /\ dump'.column = column[d] /\ dump'.into = d
    BY <1>3 DEF names, rendered
  <2> QED
    BY <1>5, <2>1, <2>2 DEF DumpInv, Sound
<1> QED
  BY <1>2, <1>6 DEF IInv

\* A restore keeps what it restores.
LEMMA DumpKept ==
  ASSUME DumpInv, dump # Nothing, DOMAIN dump' = DOMAIN dump,
         dump'.into \in Databases,
         dump'.rows = dump.rows, dump'.domains = dump.domains, dump'.column = dump.column
  PROVE  DumpInv'
BY DEF DumpInv, Sound

LEMMA RestoreSchemaInv ==
  ASSUME IInv, dump # Nothing, NEW e \in Databases, RestoreSchema(e)
  PROVE  IInv'
<1> DEFINE typmods(n) == IF n \in DOMAIN dump.domains THEN TypmodIn(e, dump.domains[n]) ELSE {}
           new(n) == IF domain[e][n] # Nothing \/ typmods(n) = {} THEN domain[e][n]
                     ELSE CHOOSE t \in typmods(n) : TRUE
<1>1. /\ column[e] = Nothing
      /\ domain' = [domain EXCEPT ![e] = [n \in Names |-> new(n)]]
      /\ column' = [column EXCEPT ![e] =
           IF domain'[e][dump.column] = Nothing THEN Nothing ELSE dump.column]
      /\ UNCHANGED <<rows, cell>>
  BY DEF RestoreSchema
<1>2. cell[e] = Nothing
  BY <1>1 DEF IInv, TableInv
<1>3. \A n \in Names : new(n) # Nothing /\ new(n) # domain[e][n] => new(n) \in TypmodIn(e, n)
  BY DEF IInv, DumpInv
<1>4. \A n \in Names : new(n) # Nothing =>
        \E r \in rows[e] : r.name = n /\ new(n) = Pack(FieldsOf(r))
  <2> SUFFICES ASSUME NEW n \in Names, new(n) # Nothing
               PROVE  \E r \in rows[e] : r.name = n /\ new(n) = Pack(FieldsOf(r))
    OBVIOUS
  <2> HIDE DEF new
  <2>1. CASE new(n) = domain[e][n]
    BY <2>1 DEF IInv, CatalogInv
  <2>2. CASE new(n) # domain[e][n]
    BY <1>3, <2>2 DEF TypmodIn, LookupByName, FieldsOf
  <2> QED
    BY <2>1, <2>2
<1> HIDE DEF new
<1>5. CatalogInv'
  <2>1. \A x \in Databases : domain'[x] = IF x = e THEN [n \in Names |-> new(n)] ELSE domain[x]
    BY <1>1 DEF IInv, CatalogInv
  <2>2. domain' = [x \in Databases |-> [n \in Names |-> domain'[x][n]]]
    <3>1. domain' = [x \in Databases |-> domain'[x]]
      BY <1>1 DEF IInv, CatalogInv
    <3>2. \A x \in Databases : domain[x] = [n \in Names |-> domain[x][n]]
      BY DEF IInv, CatalogInv
    <3>3. \A x \in Databases : domain'[x] = [n \in Names |-> domain'[x][n]]
      BY <2>1, <3>2
    <3> QED
      BY <3>1, <3>3
  <2>3. \A x \in Databases, n \in Names : domain'[x][n] # Nothing =>
          \E r \in rows[x] : r.name = n /\ domain'[x][n] = Pack(FieldsOf(r))
    <3> SUFFICES ASSUME NEW x \in Databases, NEW n \in Names, domain'[x][n] # Nothing
                 PROVE  \E r \in rows[x] : r.name = n /\ domain'[x][n] = Pack(FieldsOf(r))
      OBVIOUS
    <3>1. CASE x = e
      <4>1. domain'[x][n] = new(n)
        BY <2>1, <3>1
      <4> QED
        BY <1>4, <3>1, <4>1
    <3>2. CASE x # e
      <4>1. domain'[x][n] = domain[x][n]
        BY <2>1, <3>2
      <4> QED
        BY <4>1 DEF IInv, CatalogInv
    <3> QED
      BY <3>1, <3>2
  <2> QED
    BY <1>1, <2>2, <2>3 DEF IInv, CatalogInv
<1>6. TableInv'
  <2>1. dump.column \in Names
    BY DEF IInv, DumpInv
  <2>2. column' = [x \in Databases |-> column'[x]]
    BY <1>1 DEF IInv, TableInv
  <2>3. \A x \in Databases : x # e =>
          column'[x] = column[x] /\ domain'[x] = domain[x] /\ cell'[x] = cell[x]
    BY <1>1 DEF IInv, TableInv, CatalogInv
  <2>4. column'[e] # Nothing => column'[e] \in Names /\ domain'[e][column'[e]] # Nothing
    BY <1>1, <2>1 DEF IInv, TableInv
  <2>5. cell'[e] = Nothing
    BY <1>1, <1>2
  <2> QED
    BY <1>1, <2>2, <2>3, <2>4, <2>5 DEF IInv, TableInv, ColumnTypmod, Uniform
<1>7. DumpInv'
  <2>1. dump' = [dump EXCEPT !.into = e, !.stage = "schema", !.tries = @ + 1]
    BY DEF RestoreSchema
  <2>2. {"rows", "domains", "column", "into"} \subseteq DOMAIN dump
    BY DEF IInv, DumpInv
  <2>3. /\ DOMAIN dump' = DOMAIN dump /\ dump'.into = e
        /\ dump'.rows = dump.rows /\ dump'.domains = dump.domains
        /\ dump'.column = dump.column
    BY <2>1, <2>2
  <2> QED
    BY <2>3, DumpKept DEF IInv
<1> QED
  BY <1>5, <1>6, <1>7 DEF IInv

LEMMA RestoreDataInv ==
  ASSUME IInv, dump # Nothing, RestoreData
  PROVE  IInv'
<1> DEFINE e == dump.into
           clash == \E r \in rows[e], s \in dump.rows : r.id = s.id \/ r.name = s.name
           all == IF clash THEN rows[e] ELSE rows[e] \cup dump.rows
<1>1. /\ cell[e] = Nothing
      /\ rows' = [rows EXCEPT ![e] = all]
      /\ UNCHANGED <<domain, column>>
  BY DEF RestoreData
<1>2. e \in Databases /\ Sound(dump.rows) /\ Sound(rows[e])
  BY DEF IInv, DumpInv, CatalogInv
<1>3. Sound(all) /\ rows[e] \subseteq all
  BY <1>2 DEF Sound
<1>4. \/ /\ column[e] # Nothing
         /\ \E w \in TokensIn(e, dump.text, ColumnTypmod(e)) :
              /\ cell' = [cell EXCEPT ![e] = w]
              /\ dump' = [dump EXCEPT !.stage = "restored", !.got = w]
      \/ cell' = cell /\ dump' = [dump EXCEPT !.stage = "restored"]
  BY DEF RestoreData, Store
<1> HIDE DEF e, all
<1>5. CatalogInv'
  <2>1. \A x \in Databases : rows'[x] = IF x = e THEN all ELSE rows[x]
    BY <1>1 DEF IInv, CatalogInv
  <2>2. rows' = [x \in Databases |-> rows'[x]] /\ \A x \in Databases : Sound(rows'[x])
    BY <1>1, <1>3, <2>1 DEF IInv, CatalogInv
  <2>3. \A x \in Databases : rows[x] \subseteq rows'[x]
    BY <1>3, <2>1
  <2> QED
    BY <1>1, <2>2, <2>3 DEF IInv, CatalogInv
<1>6. TableInv'
  <2>1. CASE cell' = cell
    BY <1>1, <2>1 DEF IInv, TableInv, ColumnTypmod, Uniform
  <2>2. ASSUME NEW w \in TokensIn(e, dump.text, ColumnTypmod(e)), column[e] # Nothing,
               cell' = [cell EXCEPT ![e] = w]
        PROVE  TableInv'
    <3>1. Uniform(w, ColumnTypmod(e))
      BY TokensInUniform
    <3>2. \A x \in Databases : cell'[x] = IF x = e THEN w ELSE cell[x]
      BY <2>2 DEF IInv, TableInv
    <3>3. cell' = [x \in Databases |-> cell'[x]]
      BY <2>2 DEF IInv, TableInv
    <3> QED
      BY <1>1, <2>2, <3>1, <3>2, <3>3 DEF IInv, TableInv, ColumnTypmod, Uniform
  <2> QED
    BY <1>4, <2>1, <2>2
<1>7. DumpInv'
  <2>1. {"rows", "domains", "column", "into"} \subseteq DOMAIN dump
    BY DEF IInv, DumpInv
  <2>2. /\ DOMAIN dump' = DOMAIN dump /\ dump'.into = e
        /\ dump'.rows = dump.rows /\ dump'.domains = dump.domains
        /\ dump'.column = dump.column
    BY <1>4, <2>1 DEF e
  <2> QED
    BY <1>2, <2>2, DumpKept DEF IInv
<1> QED
  BY <1>5, <1>6, <1>7 DEF IInv

-----------------------------------------------------------------------------
(* What the vocabulary of a row packs.                                      *)

LEMMA RowIs ==
  ASSUME NEW r \in Row
  PROVE  /\ r.id \in Ids /\ r.id \in Nat \ {UNRESOLVED}
         /\ CodecOf(r.compression, r.width) \in Codecs
<1>1. r.id \in Ids /\ r.compression \in {"raw", "freq"} /\ r.width \in 1..3
  BY DEF Row
<1>2. r.id \in Nat /\ r.id # UNRESOLVED
  BY <1>1, IdsInRange
<1>3. CASE r.compression = "freq"
  BY <1>1, <1>2, <1>3 DEF CodecOf, Codecs
<1>4. CASE r.compression # "freq"
  <2>1. CodecOf(r.compression, r.width) = <<"raw8", "raw16", "raw24">>[r.width]
    BY <1>4 DEF CodecOf
  <2>2. r.width = 1 \/ r.width = 2 \/ r.width = 3
    BY <1>1
  <2>3. <<"raw8", "raw16", "raw24">>[r.width] \in Codecs
    BY <2>2 DEF Codecs
  <2> QED
    BY <1>1, <1>2, <2>1, <2>3
<1> QED
  BY <1>3, <1>4

LEMMA MadeSound ==
  ASSUME NEW r \in Row, NEW ids \in Seq(U32), NEW ranks, ranks # Nothing => IsTable(ranks),
         NEW w, Made(w, ids, r, ranks)
  PROVE  IsValue(w) /\ w.vocab = r.id /\ Decode(w, ranks) = {ids}
<1> DEFINE codec == CodecOf(r.compression, r.width)
           size == r.size
           v == r.id
<1>1. w \in Encode(ids, v, size, codec, ranks)
  BY DEF Made
<1>2. v \in Nat \ {UNRESOLVED} /\ codec \in Codecs
  BY RowIs
<1> HIDE DEF codec, size, v
<1>3. IsValue(w) /\ Decode(w, ranks) = {ids}
  BY <1>1, <1>2, EncodeSound, WidthsAssumption
<1>4. w.vocab = v
  BY <1>1, EncodeUniform
<1> QED
  BY <1>3, <1>4 DEF codec, size, v

LEMMA MadeOnly ==
  ASSUME NEW r, NEW ids, NEW ranks, NEW w, Made(w, ids, r, ranks)
  PROVE  Encode(ids, r.id, r.size, CodecOf(r.compression, r.width), ranks) = {w}
<1> DEFINE codec == CodecOf(r.compression, r.width)
           size == r.size
           v == r.id
<1>1. w \in Encode(ids, v, size, codec, ranks)
  BY DEF Made
<1> HIDE DEF codec, size, v
<1>2. Encode(ids, v, size, codec, ranks) = {w}
  BY <1>1, EncodeIs
<1> QED
  BY <1>2 DEF codec, size, v

\* Only freq needs the ranking, and freq needs it to be there.
LEMMA MadeKept ==
  ASSUME NEW r, NEW ids, NEW ranks, NEW w, Made(w, ids, r, ranks),
         w.codec # "freq" \/ ranks = Nothing, NEW new
  PROVE  Made(w, ids, r, new)
<1> DEFINE codec == CodecOf(r.compression, r.width)
           size == r.size
           v == r.id
<1>1. w \in Encode(ids, v, size, codec, ranks)
  BY DEF Made
<1> HIDE DEF codec, size, v
<1>2. w.codec = codec
  BY <1>1, EncodeUniform
<1>3. codec # "freq"
  <2>1. ASSUME codec = "freq", ranks = Nothing
        PROVE  FALSE
    BY <1>1, <2>1, Zenon DEF Encode
  <2> QED
    BY <1>2, <2>1
<1>4. Encode(ids, v, size, codec, new) = Encode(ids, v, size, codec, ranks)
  BY <1>3, Zenon DEF Encode
<1> QED
  BY <1>1, <1>4 DEF Made, codec, size, v

\* More rows and new rankings change nothing of what was made before.
LEMMA KeptGrows ==
  ASSUME NEW w, NEW o, NEW name, NEW R, NEW S, R \subseteq S, NEW old, NEW new,
         \A r \in R : new[r.id] = old[r.id] \/ old[r.id] = Nothing,
         Kept(w, o, name, R, old)
  PROVE  Kept(w, o, name, S, new)
<1>1. ASSUME o.safe
      PROVE  \E r \in S : r.name = name /\ Made(w, o.ids, r, new[r.id])
  <2>1. PICK r \in R : r.name = name /\ Made(w, o.ids, r, old[r.id])
    BY <1>1 DEF Kept
  <2>2. Made(w, o.ids, r, new[r.id])
    <3>1. CASE new[r.id] = old[r.id]
      BY <2>1, <3>1
    <3>2. CASE old[r.id] = Nothing
      BY <2>1, <3>2, MadeKept
    <3> QED
      BY <3>1, <3>2
  <2> QED
    BY <2>1, <2>2
<1> QED
  BY <1>1 DEF Kept

LEMMA TableIs ==
  ASSUME FilesInv, NEW d \in Databases, NEW id
  PROVE  /\ TableOf(d, id) # Nothing => IsTable(TableOf(d, id))
         /\ id \in Ids => TableOf(d, id) = ranking[d][id]
BY DEF FilesInv, TableOf

\* A column's row, and what its typmod encodes with it.
LEMMA ColumnRow ==
  ASSUME IInv, NEW d \in Databases, column[d] # Nothing
  PROVE  \E r \in rows[d] :
           /\ r \in Row /\ r.name = column[d]
           /\ Unpack(ColumnTypmod(d)) = FieldsOf(r)
           /\ VocabSizeFor(d, r.id) = {r.size}
           /\ \A s \in rows[d] : s.name = column[d] => s = r
<1>1. column[d] \in Names /\ domain[d][column[d]] # Nothing /\ Sound(rows[d])
  BY DEF IInv, TableInv, CatalogInv
<1>2. PICK r \in rows[d] :
        /\ r \in Row /\ r.name = column[d]
        /\ Unpack(domain[d][column[d]]) = FieldsOf(r)
        /\ VocabSizeFor(d, r.id) = {r.size}
  BY <1>1, DomainRow DEF IInv
<1>3. \A s \in rows[d] : s.name = column[d] => s = r
  BY <1>1, <1>2 DEF Sound
<1> QED
  BY <1>2, <1>3 DEF ColumnTypmod

LEMMA RowEncodes ==
  ASSUME IInv, FilesInv, NEW d \in Databases, column[d] # Nothing,
         NEW r \in rows[d], r.name = column[d], NEW ids
  PROVE  /\ r \in Row
         /\ EncodeFor(d, ids, ColumnTypmod(d)) =
              Encode(ids, r.id, r.size, CodecOf(r.compression, r.width), ranking[d][r.id])
<1>1. /\ r \in Row
      /\ Unpack(ColumnTypmod(d)) = FieldsOf(r)
      /\ VocabSizeFor(d, r.id) = {r.size}
  BY ColumnRow
<1>2. Unpack(ColumnTypmod(d)).id = r.id
  BY <1>1 DEF FieldsOf
<1>3. CodecFor(ColumnTypmod(d)) = CodecOf(r.compression, r.width)
  <2>1. /\ Unpack(ColumnTypmod(d)).compression = CompressionCode(r.compression)
        /\ Unpack(ColumnTypmod(d)).width = r.width
    BY <1>1 DEF FieldsOf
  <2>2. CompressionName(CompressionCode(r.compression)) = r.compression
    BY <1>1 DEF CompressionName, CompressionCode, Row
  <2> QED
    BY <2>1, <2>2 DEF CodecFor
<1>4. TableOf(d, r.id) = ranking[d][r.id]
  BY <1>1, RowIs, TableIs
<1>5. EncodeFor(d, ids, ColumnTypmod(d)) =
        UNION {Encode(ids, r.id, size, CodecOf(r.compression, r.width), ranking[d][r.id]) :
                 size \in VocabSizeFor(d, r.id)}
  BY <1>2, <1>3, <1>4 DEF EncodeFor
<1>6. EncodeFor(d, ids, ColumnTypmod(d)) =
        Encode(ids, r.id, r.size, CodecOf(r.compression, r.width), ranking[d][r.id])
  <2> DEFINE f(size) == Encode(ids, r.id, size, CodecOf(r.compression, r.width), ranking[d][r.id])
  <2>1. EncodeFor(d, ids, ColumnTypmod(d)) = UNION {f(size) : size \in VocabSizeFor(d, r.id)}
    BY <1>5
  <2> HIDE DEF f
  <2>2. UNION {f(size) : size \in {r.size}} = f(r.size)
    OBVIOUS
  <2> QED
    BY <1>1, <2>1, <2>2 DEF f
<1> QED
  BY <1>1, <1>6

\* tokens_in: a column stores what its row makes of the ids of the text.
LEMMA TokensInKept ==
  ASSUME IInv, FilesInv, NEW d \in Databases, column[d] # Nothing, NEW text,
         ParseIds(text) \subseteq Seq(U32), NEW o, History(o),
         o.safe => ParseIds(text) = {o.ids},
         NEW w \in TokensIn(d, text, ColumnTypmod(d))
  PROVE  Kept(w, o, column[d], rows[d], ranking[d])
<1>1. PICK ids \in ParseIds(text) : w \in EncodeFor(d, ids, ColumnTypmod(d))
  BY DEF TokensIn
<1>2. PICK r \in rows[d] : r \in Row /\ r.name = column[d]
  BY ColumnRow
<1>3. Made(w, ids, r, ranking[d][r.id])
  BY <1>1, <1>2, RowEncodes DEF Made
<1>4. r.id \in Ids /\ (ranking[d][r.id] # Nothing => IsTable(ranking[d][r.id]))
  BY <1>2, RowIs DEF FilesInv
<1>5. IsValue(w)
  BY <1>1, <1>2, <1>3, <1>4, MadeSound
<1>6. o.safe => Made(w, o.ids, r, ranking[d][r.id])
  BY <1>1, <1>3
<1> QED
  BY <1>2, <1>5, <1>6 DEF Kept

\* A value that came by safe ways only reads as the ids it was written with.
LEMMA KeptReads ==
  ASSUME IInv, DInv, NEW d \in Databases, cell[d] # Nothing, origin[d].safe
  PROVE  DecodeValue(d, cell[d]) = {origin[d].ids}
<1> DEFINE w == cell[d]
           ids == origin[d].ids
<1>1. Kept(w, origin[d], column[d], rows[d], ranking[d]) /\ Sound(rows[d]) /\ FilesInv
  BY DEF DInv, ValuesInv, IInv, CatalogInv
<1>2. PICK r \in rows[d] : r.name = column[d] /\ Made(w, ids, r, ranking[d][r.id])
  BY <1>1 DEF Kept
<1>3. r \in Row /\ ids \in Seq(U32)
  BY <1>1 DEF Sound, Kept, History
<1>4. r.id \in Ids /\ (ranking[d][r.id] # Nothing => IsTable(ranking[d][r.id]))
  BY <1>1, <1>3, RowIs DEF FilesInv
<1> HIDE DEF w, ids
<1>5. Decode(w, ranking[d][r.id]) = {ids} /\ w.vocab = r.id
  BY <1>2, <1>3, <1>4, MadeSound
<1>6. TableOf(d, w.vocab) = ranking[d][r.id]
  BY <1>1, <1>4, <1>5, TableIs
<1> QED
  BY <1>5, <1>6 DEF DecodeValue, w, ids

\* tokens_out: what it writes is read back as the ids of the value.
LEMMA TokensOutReads ==
  ASSUME IInv, DInv, NEW d \in Databases, cell[d] # Nothing, NEW text \in TokensOut(d, cell[d])
  PROVE  /\ History(origin[d])
         /\ ParseIds(text) \subseteq Seq(U32)
         /\ origin[d].safe => ParseIds(text) = {origin[d].ids}
<1> DEFINE w == cell[d]
<1>1. IsValue(w) /\ History(origin[d]) /\ FilesInv
  BY DEF DInv, ValuesInv, Kept
<1>2. PICK ids \in DecodeValue(d, w) : text = RenderIds(ids)
  BY DEF TokensOut, Validate
<1>3. ids \in Decode(w, TableOf(d, w.vocab))
  BY <1>2 DEF DecodeValue
<1>4. TableOf(d, w.vocab) # Nothing => IsTable(TableOf(d, w.vocab))
  BY <1>1, TableIs
<1>5. ids \in Seq(U32)
  BY <1>1, <1>3, <1>4, DecodeIds, WidthsAssumption
<1>6. ParseIds(text) = {ids}
  BY <1>2, <1>5, RenderParses
<1>7. origin[d].safe => ids = origin[d].ids
  BY <1>2, KeptReads
<1> QED
  BY <1>1, <1>5, <1>6, <1>7

-----------------------------------------------------------------------------
(* The steps keep what the files, the values and the dump hold.             *)

LEMMA ValuesFrame ==
  ASSUME ValuesInv, UNCHANGED <<cell, origin>>,
         \A d \in Databases : cell[d] # Nothing =>
           /\ column'[d] = column[d] /\ rows[d] \subseteq rows'[d]
           /\ \A r \in rows[d] : ranking'[d][r.id] = ranking[d][r.id] \/ ranking[d][r.id] = Nothing
  PROVE  ValuesInv'
<1>1. ASSUME NEW d \in Databases, cell'[d] # Nothing
      PROVE  Kept(cell'[d], origin'[d], column'[d], rows'[d], ranking'[d])
  <2>1. Kept(cell[d], origin[d], column[d], rows[d], ranking[d]) /\ cell[d] # Nothing
    BY <1>1 DEF ValuesInv
  <2>2. Kept(cell[d], origin[d], column[d], rows'[d], ranking'[d])
    BY <2>1, KeptGrows
  <2> QED
    BY <2>1, <2>2
<1> QED
  BY <1>1 DEF ValuesInv

LEMMA RestoreFrame ==
  ASSUME DumpTextInv, RestoreInv, UNCHANGED dump,
         dump # Nothing =>
           /\ rows[dump.into] # {} => rows'[dump.into] = rows[dump.into]
           /\ rows[dump.into] \subseteq rows'[dump.into]
           /\ column[dump.into] # Nothing => column'[dump.into] = column[dump.into]
  PROVE  DumpTextInv' /\ RestoreInv'
<1>1. DumpTextInv'
  BY DEF DumpTextInv, History
<1>2. RestoreInv'
  <2> SUFFICES ASSUME dump # Nothing
               PROVE  RestoreInv'
    BY DEF RestoreInv
  <2>1. dump.column # Nothing
    BY DEF DumpTextInv
  <2>2. /\ dump.tries \in 0..2 /\ dump.stage \in {"taken", "schema", "restored"}
        /\ dump.stage = "taken" => dump.tries = 0
        /\ dump.stage = "restored" \/ dump.tries = 2 => rows[dump.into] # {}
        /\ dump.stage = "schema" /\ dump.tries = 2 /\ rows[dump.into] = dump.rows =>
             column[dump.into] = dump.column
        /\ CatalogRestored /\ dump.tries = 2 => dump.got = dump.value
    BY DEF RestoreInv
  <2>3. dump.stage = "restored" \/ dump.tries = 2 => rows'[dump.into] = rows[dump.into]
    BY <2>2
  <2>4. dump.stage = "schema" /\ dump.tries = 2 /\ rows'[dump.into] = dump.rows =>
          column'[dump.into] = dump.column
    BY <2>1, <2>2, <2>3
  <2>5. CatalogRestored' => CatalogRestored
    BY <2>3 DEF CatalogRestored
  <2> QED
    BY <2>2, <2>3, <2>4, <2>5 DEF RestoreInv
<1> QED
  BY <1>1, <1>2

LEMMA CreateVocabularyKeeps ==
  ASSUME IInv, DInv, NEW d \in Databases, NEW name \in Names, NEW id \in Ids, NEW decl \in Declared,
         CreateVocabulary(d, name, id, decl)
  PROVE  DInv'
<1>1. PICK row : /\ rows[d] = {} /\ rows' = [rows EXCEPT ![d] = {row}]
                 /\ UNCHANGED <<ranking, mapping, column, cell, origin, dump>>
  BY DEF CreateVocabulary, files, table
<1>2. \A x \in Databases : rows[x] \subseteq rows'[x] /\ (rows[x] # {} => rows'[x] = rows[x])
  BY <1>1 DEF IInv, CatalogInv
<1>3. FilesInv'
  BY <1>1 DEF DInv, FilesInv
<1>4. ValuesInv'
  BY <1>1, <1>2, ValuesFrame DEF DInv
<1>5. DumpTextInv' /\ RestoreInv'
  <2>1. dump # Nothing => dump.into \in Databases
    BY DEF IInv, DumpInv
  <2> QED
    BY <1>1, <1>2, <2>1, RestoreFrame DEF DInv
<1> QED
  BY <1>3, <1>4, <1>5 DEF DInv

\* train's ranking is one the extension accepts, and it is the first.
LEMMA TrainKeeps ==
  ASSUME IInv, DInv, NEW d \in Databases, NEW name \in Names, NEW ids \in Corpora, Train(d, name, ids)
  PROVE  DInv'
<1> DEFINE new == TrainTable(ids, Len(ids))
<1>1. PICK v \in LookupByName(d, name) :
        ranking[d][v.id] = Nothing /\ ranking' = [ranking EXCEPT ![d][v.id] = new]
  BY DEF Train
<1>2. UNCHANGED <<rows, domain, mapping, column, cell, origin, dump>>
  BY DEF Train, catalogVars, table
<1>3. v.id \in Ids
  <2>1. PICK r \in rows[d] : v = FieldsOf(r)
    BY DEF LookupByName, FieldsOf
  <2>2. r \in Row
    BY DEF IInv, CatalogInv, Sound
  <2> QED
    BY <2>1, <2>2, RowIs DEF FieldsOf
<1>4. IsTable(new)
  <2>1. ids \in Seq(0..MaxI32) /\ Len(ids) \in Nat
    BY ExchangeAssumption
  <2>2. MaxI32 \in Nat /\ MaxI32 < MaxU32
    BY Widths, WidthsAssumption
  <2> QED
    BY <2>1, <2>2, TrainTableIsTable
<1> HIDE DEF new
<1>5. \A x \in Databases, id \in Ids :
        ranking'[x][id] = IF x = d /\ id = v.id THEN new ELSE ranking[x][id]
  BY <1>1, <1>3 DEF DInv, FilesInv
<1>6. FilesInv'
  <2>1. ranking' = [x \in Databases |-> [id \in Ids |-> ranking'[x][id]]]
    <3> DEFINE line(x) == [id \in Ids |-> ranking[x][id]]
               one == [ranking[d] EXCEPT ![v.id] = new]
    <3>1. ranking = [x \in Databases |-> line(x)] /\ ranking[d] = line(d)
      BY DEF DInv, FilesInv
    <3>2. one = [id \in Ids |-> one[id]]
      BY <3>1
    <3>3. ranking' = [ranking EXCEPT ![d] = one]
      BY <1>1
    <3>4. \A x \in Databases : x # d => ranking[x] = [id \in Ids |-> ranking[x][id]]
      BY <3>1
    <3> HIDE DEF one, line
    <3>5. \A x \in Databases : ranking'[x] = [id \in Ids |-> ranking'[x][id]]
      BY <3>1, <3>2, <3>3, <3>4
    <3>6. ranking' = [x \in Databases |-> ranking'[x]]
      BY <3>1, <3>3
    <3> QED
      BY <3>5, <3>6
  <2>2. \A x \in Databases, id \in Ids : ranking'[x][id] # Nothing => IsTable(ranking'[x][id])
    BY <1>4, <1>5 DEF DInv, FilesInv
  <2> QED
    BY <1>2, <2>1, <2>2 DEF DInv, FilesInv
<1>7. ValuesInv'
  <2>1. \A x \in Databases : \A r \in rows[x] :
          ranking'[x][r.id] = ranking[x][r.id] \/ ranking[x][r.id] = Nothing
    <3>1. \A x \in Databases : \A r \in rows[x] : r.id \in Ids
      BY RowIs DEF IInv, CatalogInv, Sound
    <3> QED
      BY <1>1, <1>5, <3>1
  <2> QED
    BY <1>2, <2>1, ValuesFrame DEF DInv
<1>8. DumpTextInv' /\ RestoreInv'
  BY <1>2, RestoreFrame DEF DInv
<1> QED
  BY <1>6, <1>7, <1>8 DEF DInv

LEMMA LoadMappingKeeps ==
  ASSUME IInv, DInv, NEW d \in Databases, NEW name \in Names, NEW m \in Mappings,
         LoadMapping(d, name, m)
  PROVE  DInv'
<1>1. PICK v \in LookupByName(d, name) : mapping' = [mapping EXCEPT ![d][v.id] = m]
  BY DEF LoadMapping
<1>2. UNCHANGED <<rows, domain, ranking, column, cell, origin, dump>>
  BY DEF LoadMapping, catalogVars, table
<1>3. v.id \in Ids
  <2>1. PICK r \in rows[d] : v = FieldsOf(r)
    BY DEF LookupByName, FieldsOf
  <2>2. r \in Row
    BY DEF IInv, CatalogInv, Sound
  <2> QED
    BY <2>1, <2>2, RowIs DEF FieldsOf
<1>4. \A x \in Databases, id \in Ids :
        mapping'[x][id] = IF x = d /\ id = v.id THEN m ELSE mapping[x][id]
  BY <1>1, <1>3 DEF DInv, FilesInv
<1>5. FilesInv'
  <2>1. mapping' = [x \in Databases |-> [id \in Ids |-> mapping'[x][id]]]
    <3> DEFINE line(x) == [id \in Ids |-> mapping[x][id]]
               one == [mapping[d] EXCEPT ![v.id] = m]
    <3>1. mapping = [x \in Databases |-> line(x)] /\ mapping[d] = line(d)
      BY DEF DInv, FilesInv
    <3>2. one = [id \in Ids |-> one[id]]
      BY <3>1
    <3>3. mapping' = [mapping EXCEPT ![d] = one]
      BY <1>1
    <3>4. \A x \in Databases : x # d => mapping[x] = [id \in Ids |-> mapping[x][id]]
      BY <3>1
    <3> HIDE DEF one, line
    <3>5. \A x \in Databases : mapping'[x] = [id \in Ids |-> mapping'[x][id]]
      BY <3>1, <3>2, <3>3, <3>4
    <3>6. mapping' = [x \in Databases |-> mapping'[x]]
      BY <3>1, <3>3
    <3> QED
      BY <3>5, <3>6
  <2>2. \A x \in Databases, id \in Ids : mapping'[x][id] \in Mappings \cup {Nothing}
    BY <1>4 DEF DInv, FilesInv
  <2> QED
    BY <1>2, <2>1, <2>2 DEF DInv, FilesInv
<1>6. ValuesInv'
  BY <1>2, ValuesFrame DEF DInv
<1>7. DumpTextInv' /\ RestoreInv'
  BY <1>2, RestoreFrame DEF DInv
<1> QED
  BY <1>5, <1>6, <1>7 DEF DInv

LEMMA CreateTableKeeps ==
  ASSUME IInv, DInv, NEW d \in Databases, NEW name \in Names, CreateTable(d, name)
  PROVE  DInv'
<1>1. /\ column[d] = Nothing /\ column' = [column EXCEPT ![d] = name]
      /\ UNCHANGED <<rows, ranking, mapping, cell, origin, dump>>
  BY DEF CreateTable, catalogVars, files
<1>2. \A x \in Databases : column[x] # Nothing => column'[x] = column[x]
  BY <1>1 DEF IInv, TableInv
<1>3. FilesInv'
  BY <1>1 DEF DInv, FilesInv
<1>4. ValuesInv'
  <2>1. \A x \in Databases : cell[x] # Nothing => column[x] # Nothing
    BY DEF IInv, TableInv
  <2> QED
    BY <1>1, <1>2, <2>1, ValuesFrame DEF DInv
<1>5. DumpTextInv' /\ RestoreInv'
  <2>1. dump # Nothing => dump.into \in Databases
    BY DEF IInv, DumpInv
  <2> QED
    BY <1>1, <1>2, <2>1, RestoreFrame DEF DInv
<1> QED
  BY <1>3, <1>4, <1>5 DEF DInv

LEMMA ValueStored ==
  ASSUME ValuesInv, NEW d \in Databases, NEW w, NEW o, Store(d, w, o),
         cell = [x \in Databases |-> cell[x]],
         w # Nothing => Kept(w, o, column[d], rows[d], ranking[d]),
         UNCHANGED <<rows, ranking, column>>
  PROVE  ValuesInv'
<1>1. cell' = [cell EXCEPT ![d] = w] /\ origin' = [origin EXCEPT ![d] = o]
  BY DEF Store
<1>2. origin = [x \in Databases |-> origin[x]]
  BY DEF ValuesInv
<1>3. origin' = [x \in Databases |-> origin'[x]]
  BY <1>1, <1>2
<1>4. /\ \A x \in Databases : cell'[x] = IF x = d THEN w ELSE cell[x]
      /\ \A x \in Databases : origin'[x] = IF x = d THEN o ELSE origin[x]
  BY <1>1, <1>2
<1>5. ASSUME NEW x \in Databases, cell'[x] # Nothing
      PROVE  Kept(cell'[x], origin'[x], column[x], rows[x], ranking[x])
  <2>1. CASE x = d
    BY <1>4, <1>5, <2>1
  <2>2. CASE x # d
    BY <1>4, <1>5, <2>2 DEF ValuesInv
  <2> QED
    BY <2>1, <2>2
<1> QED
  BY <1>3, <1>5 DEF ValuesInv

LEMMA StoreKeeps ==
  ASSUME IInv, DInv, NEW d \in Databases, NEW w, NEW o, Store(d, w, o),
         w # Nothing => Kept(w, o, column[d], rows[d], ranking[d]),
         UNCHANGED <<catalogVars, files, column, dump>>
  PROVE  DInv'
<1>1. UNCHANGED <<rows, ranking, mapping, column, dump>>
  BY DEF catalogVars, files
<1>2. FilesInv'
  BY <1>1 DEF DInv, FilesInv
<1>3. ValuesInv'
  BY <1>1, ValueStored DEF DInv, IInv, TableInv
<1>4. DumpTextInv' /\ RestoreInv'
  BY <1>1, RestoreFrame DEF DInv
<1> QED
  BY <1>2, <1>3, <1>4 DEF DInv

LEMMA InsertKeeps ==
  ASSUME IInv, DInv, NEW d \in Databases, NEW ids \in Lists, Insert(d, ids)
  PROVE  DInv'
<1> DEFINE o == [ids |-> ids, safe |-> TRUE]
<1>1. PICK w \in TokensIn(d, RenderIds(ids), ColumnTypmod(d)) : Store(d, w, o)
  BY DEF Insert
<1>2. column[d] # Nothing /\ UNCHANGED <<catalogVars, files, column, dump>>
  BY DEF Insert, Empty
<1>3. ids \in Seq(U32)
  BY ExchangeAssumption
<1>4. ParseIds(RenderIds(ids)) = {ids}
  BY <1>3, RenderParses
<1>5. History(o) /\ o.ids = ids
  BY <1>3 DEF History
<1> HIDE DEF o
<1>6. Kept(w, o, column[d], rows[d], ranking[d])
  BY <1>1, <1>2, <1>3, <1>4, <1>5, TokensInKept DEF DInv
<1> QED
  BY <1>1, <1>2, <1>6, StoreKeeps

LEMMA CopyTextKeeps ==
  ASSUME IInv, DInv, NEW d \in Databases, NEW e \in Databases, CopyText(d, e)
  PROVE  DInv'
<1>1. PICK text \in TokensOut(d, cell[d]) :
        \E w \in TokensIn(e, text, ColumnTypmod(e)) : Store(e, w, origin[d])
  BY DEF CopyText
<1>2. PICK w \in TokensIn(e, text, ColumnTypmod(e)) : Store(e, w, origin[d])
  BY <1>1
<1>3. /\ cell[d] # Nothing /\ column[e] # Nothing
      /\ UNCHANGED <<catalogVars, files, column, dump>>
  BY DEF CopyText, Empty
<1>4. /\ History(origin[d]) /\ ParseIds(text) \subseteq Seq(U32)
      /\ origin[d].safe => ParseIds(text) = {origin[d].ids}
  BY <1>3, TokensOutReads
<1>5. Kept(w, origin[d], column[e], rows[e], ranking[e])
  BY <1>3, <1>4, TokensInKept DEF DInv
<1> QED
  BY <1>2, <1>3, <1>5, StoreKeeps

\* Vocabularies that are reported alike pack alike.
LEMMA AlikePackAlike ==
  ASSUME IInv, NEW d \in Databases, NEW e \in Databases,
         column[d] # Nothing, column[e] # Nothing, InfosAgree(d, e),
         NEW r \in rows[d], r.name = column[d]
  PROVE  \E s \in rows[e] :
           /\ s.name = column[e] /\ s.id = r.id /\ s.size = r.size
           /\ CodecOf(s.compression, s.width) = CodecOf(r.compression, r.width)
           /\ ranking[e][s.id] = ranking[d][r.id]
<1>1. /\ column[d] \in Names /\ domain[d][column[d]] # Nothing
      /\ column[e] \in Names /\ domain[e][column[e]] # Nothing
  BY DEF IInv, TableInv
<1>2. PICK q \in rows[d] : q \in Row /\ q.name = column[d] /\ Info(d, column[d]) = {Line(d, q)}
  BY <1>1, InfoFound DEF IInv
<1>3. PICK s \in rows[e] : s \in Row /\ s.name = column[e] /\ Info(e, column[e]) = {Line(e, s)}
  BY <1>1, InfoFound DEF IInv
<1>4. q = r
  BY <1>2 DEF IInv, CatalogInv, Sound
<1>5. Line(d, r) = Line(e, s)
  BY <1>2, <1>3, <1>4 DEF InfosAgree
<1>6. /\ r.id = s.id /\ r.size = s.size /\ r.width = s.width
      /\ CompressionName(CompressionCode(r.compression)) =
           CompressionName(CompressionCode(s.compression))
      /\ DescribeTable(d, r.id) = DescribeTable(e, r.id)
  BY <1>5 DEF Line
<1>7. r.compression = s.compression
  BY <1>2, <1>3, <1>4, <1>6 DEF CompressionName, CompressionCode, Row
<1>8. ranking[d][r.id] = ranking[e][r.id]
  BY <1>6, SameTable
<1> QED
  BY <1>3, <1>6, <1>7, <1>8

LEMMA CopyBinaryKeeps ==
  ASSUME IInv, DInv, NEW d \in Databases, NEW e \in Databases, CopyBinary(d, e)
  PROVE  DInv'
<1> DEFINE o == [origin[d] EXCEPT !.safe = @ /\ InfosAgree(d, e)]
<1>1. PICK bytes \in TokensSend(cell[d]) :
        \E w \in TokensRecv(bytes, ColumnTypmod(e)) : Store(e, w, o)
  BY DEF CopyBinary
<1>2. PICK w \in TokensRecv(bytes, ColumnTypmod(e)) : Store(e, w, o)
  BY <1>1
<1>3. /\ cell[d] # Nothing /\ column[e] # Nothing
      /\ UNCHANGED <<catalogVars, files, column, dump>>
  BY DEF CopyBinary, Empty
<1>4. w = cell[d]
  BY <1>1, <1>2 DEF TokensSend, TokensRecv, Validate
<1>5. Kept(w, origin[d], column[d], rows[d], ranking[d]) /\ column[d] # Nothing
  BY <1>3, <1>4 DEF DInv, ValuesInv, IInv, TableInv
<1>6. /\ DOMAIN o = {"ids", "safe"} /\ o.ids = origin[d].ids
      /\ o.safe = (origin[d].safe /\ InfosAgree(d, e))
  <2> DEFINE alike == InfosAgree(d, e)
             was == origin[d]
  <2>1. DOMAIN was = {"ids", "safe"}
    BY <1>5 DEF Kept, History
  <2>2. o = [x \in DOMAIN was |-> IF x = "safe" THEN was.safe /\ alike ELSE was[x]]
    BY <2>1, SMT
  <2> HIDE DEF alike, was, o
  <2>3. DOMAIN o = {"ids", "safe"} /\ o.ids = was.ids /\ o.safe = (was.safe /\ alike)
    BY <2>1, <2>2, SMT
  <2> QED
    BY <2>3 DEF alike, was
<1> HIDE DEF o
<1>7. History(o)
  BY <1>5, <1>6 DEF Kept, History
<1>8. ASSUME o.safe
      PROVE  \E s \in rows[e] : s.name = column[e] /\ Made(w, o.ids, s, ranking[e][s.id])
  <2>1. origin[d].safe /\ InfosAgree(d, e)
    BY <1>6, <1>8
  <2>2. PICK r \in rows[d] : r.name = column[d] /\ Made(w, o.ids, r, ranking[d][r.id])
    BY <1>5, <1>6, <2>1 DEF Kept
  <2>3. PICK s \in rows[e] :
          /\ s.name = column[e] /\ s.id = r.id /\ s.size = r.size
          /\ CodecOf(s.compression, s.width) = CodecOf(r.compression, r.width)
          /\ ranking[e][s.id] = ranking[d][r.id]
    BY <1>3, <1>5, <2>1, <2>2, AlikePackAlike
  <2>4. Made(w, o.ids, s, ranking[e][s.id])
    BY <2>2, <2>3 DEF Made
  <2> QED
    BY <2>3, <2>4
<1>9. Kept(w, o, column[e], rows[e], ranking[e])
  BY <1>5, <1>7, <1>8 DEF Kept
<1> QED
  BY <1>2, <1>3, <1>9, StoreKeeps

LEMMA DumpKeeps ==
  ASSUME IInv, DInv, NEW d \in Databases, cell[d] # Nothing, Dump(d)
  PROVE  DInv'
<1>1. UNCHANGED <<rows, domain, ranking, mapping, column, cell, origin>>
  BY DEF Dump, catalogVars, files, table
<1>2. FilesInv' /\ ValuesInv'
  BY <1>1 DEF DInv, FilesInv, ValuesInv
<1> DEFINE names == {n \in Names : domain[d][n] # Nothing}
           rendered == [n \in names |-> TypmodOut(d, domain[d][n])]
<1>3. PICK text \in TokensOut(d, cell[d]) :
        dump' = [from |-> d, into |-> d, stage |-> "taken", rows |-> rows[d],
                 domains |-> rendered, column |-> column[d], text |-> text,
                 value |-> cell[d], origin |-> origin[d], got |-> Nothing, tries |-> 0]
  BY DEF Dump
<1>4. column[d] # Nothing /\ column[d] \in DOMAIN rendered
  BY DEF IInv, TableInv
<1>5. /\ History(origin[d]) /\ ParseIds(text) \subseteq Seq(U32)
      /\ origin[d].safe => ParseIds(text) = {origin[d].ids}
  BY TokensOutReads
<1>6. \E r \in rows[d] :
        /\ r.name = column[d]
        /\ origin[d].safe /\ cell[d].codec # "freq" => Made(cell[d], origin[d].ids, r, Nothing)
  <2>1. CASE origin[d].safe
    <3>1. PICK r \in rows[d] :
            r.name = column[d] /\ Made(cell[d], origin[d].ids, r, ranking[d][r.id])
      BY <2>1 DEF DInv, ValuesInv, Kept
    <3>2. cell[d].codec # "freq" => Made(cell[d], origin[d].ids, r, Nothing)
      BY <3>1, MadeKept
    <3> QED
      BY <3>1, <3>2
  <2>2. CASE ~origin[d].safe
    BY <1>4, <2>2, ColumnRow
  <2> QED
    BY <2>1, <2>2
<1> HIDE DEF rendered
<1>7. /\ DOMAIN dump' = {"from", "into", "stage", "rows", "domains", "column", "text", "value",
                         "origin", "got", "tries"}
      /\ dump'.stage = "taken" /\ dump'.rows = rows[d] /\ dump'.domains = rendered
      /\ dump'.column = column[d] /\ dump'.text = text /\ dump'.value = cell[d]
      /\ dump'.origin = origin[d] /\ dump'.tries = 0
  BY <1>3
<1>8. DumpTextInv'
  BY <1>4, <1>5, <1>6, <1>7 DEF DumpTextInv, History
<1>9. RestoreInv'
  BY <1>7 DEF RestoreInv, CatalogRestored
<1> QED
  BY <1>2, <1>8, <1>9 DEF DInv

\* A restore changes no field of the dump that DumpTextInv is about.
LEMMA DumpTextKept ==
  ASSUME DumpTextInv, dump # Nothing, DOMAIN dump' = DOMAIN dump,
         dump'.rows = dump.rows, dump'.domains = dump.domains, dump'.column = dump.column,
         dump'.text = dump.text, dump'.value = dump.value, dump'.origin = dump.origin
  PROVE  DumpTextInv'
BY DEF DumpTextInv, History

LEMMA FieldsFit ==
  ASSUME NEW i \in Int, 0 <= i, i <= 65535, NEW c \in Int, 0 <= c, c <= 1,
         NEW w \in Int, 0 <= w, w <= 3
  PROVE  i + c * 65536 + w * 1048576 \in Nat /\ i + c * 65536 + w * 1048576 < 8388608
BY SMTT(20)

\* A typmod is a number of 23 bits, so that a domain that is made is there.
LEMMA TypmodFits == \A r \in Row : Pack(FieldsOf(r)) \in Nat /\ Pack(FieldsOf(r)) < 8388608
<1> SUFFICES ASSUME NEW r \in Row
             PROVE  Pack(FieldsOf(r)) \in Nat /\ Pack(FieldsOf(r)) < 8388608
  BY SMTT(20)
<1> DEFINE i == r.id
           c == CompressionCode(r.compression)
           w == r.width
<1>1. Pack(FieldsOf(r)) = i + c * 65536 + w * 1048576
  BY SMTT(20) DEF Pack, FieldsOf
<1>2. i \in Ids /\ w \in 1..3
  BY DEF Row
<1>3. c \in Int /\ 0 <= c /\ c <= 1
  BY DEF CompressionCode
<1> HIDE DEF i, c, w
<1>4. i \in Int /\ 0 <= i /\ i <= 65535 /\ w \in Int /\ 0 <= w /\ w <= 3
  BY <1>2, IdsInRange, SMTT(20)
<1> QED
  BY <1>1, <1>3, <1>4, FieldsFit, SMTT(20)

LEMMA TypmodThere == \A r \in Row : Pack(FieldsOf(r)) # Nothing
BY TypmodFits, ExchangeAssumption, SMTT(20)

LEMMA RestoreSchemaKeeps ==
  ASSUME IInv, DInv, dump # Nothing, NEW e \in Databases, RestoreSchema(e)
  PROVE  DInv'
<1> DEFINE typmods(n) == IF n \in DOMAIN dump.domains THEN TypmodIn(e, dump.domains[n]) ELSE {}
           new(n) == IF domain[e][n] # Nothing \/ typmods(n) = {} THEN domain[e][n]
                     ELSE CHOOSE t \in typmods(n) : TRUE
           name == dump.column
<1>1. /\ dump.stage = "taken" \/ (dump.stage = "restored" /\ e = dump.into)
      /\ dump.tries < 2 /\ column[e] = Nothing
      /\ domain' = [domain EXCEPT ![e] = [n \in Names |-> new(n)]]
      /\ column' = [column EXCEPT ![e] = IF domain'[e][name] = Nothing THEN Nothing ELSE name]
      /\ UNCHANGED <<rows, ranking, mapping, cell, origin>>
  BY SMT DEF RestoreSchema, files
<1>2. FilesInv'
  BY <1>1 DEF DInv, FilesInv
<1>3. ValuesInv'
  <2>1. \A x \in Databases : cell[x] # Nothing => x # e /\ column'[x] = column[x]
    BY <1>1 DEF IInv, TableInv
  <2> QED
    BY <1>1, <2>1, ValuesFrame DEF DInv
<1>4. /\ DOMAIN dump = {"from", "into", "stage", "rows", "domains", "column", "text", "value",
                        "origin", "got", "tries"}
      /\ name # Nothing /\ name \in DOMAIN dump.domains
  BY DEF DInv, DumpTextInv
<1>5. /\ DOMAIN dump' = DOMAIN dump /\ dump'.rows = dump.rows /\ dump'.domains = dump.domains
      /\ dump'.column = name /\ dump'.text = dump.text /\ dump'.value = dump.value
      /\ dump'.origin = dump.origin
      /\ dump'.stage = "schema" /\ dump'.tries = dump.tries + 1 /\ dump'.into = e
  <2>1. dump' = [dump EXCEPT !.into = e, !.stage = "schema", !.tries = @ + 1]
    BY SMT DEF RestoreSchema
  <2> QED
    BY <1>4, <2>1, SMT
<1>6. DumpTextInv'
  BY <1>5, DumpTextKept DEF DInv
<1>7. /\ dump.tries \in 0..2 /\ (dump.stage = "taken" => dump.tries = 0)
      /\ dump.stage = "restored" => rows[dump.into] # {}
  BY DEF DInv, RestoreInv
<1>8. dump'.tries \in 0..2 /\ (dump'.tries = 2 => rows[e] # {})
  BY <1>1, <1>5, <1>7
<1>9. ASSUME rows[e] = dump.rows
      PROVE  column'[e] = name
  <2>1. PICK r \in rows[e] : r.name = name
    BY <1>9 DEF DInv, DumpTextInv
  <2>2. name \in Names /\ dump.domains[name] = name
    BY <1>4 DEF IInv, DumpInv
  <2>3. typmods(name) = TypmodIn(e, name)
    BY <1>4, <2>2
  <2>4. Sound(rows[e]) /\ r \in Row
    BY DEF IInv, CatalogInv, Sound
  <2>5. typmods(name) = {Pack(FieldsOf(r))}
    BY <2>1, <2>3, <2>4, RowFound DEF TypmodIn
  <2>6. new(name) # Nothing
    <3> HIDE DEF typmods
    <3>1. CASE domain[e][name] # Nothing
      BY <3>1
    <3>2. CASE domain[e][name] = Nothing
      BY <2>4, <2>5, <3>2, TypmodThere
    <3> QED
      BY <3>1, <3>2
  <2> HIDE DEF new
  <2>7. domain'[e][name] = new(name)
    BY <1>1, <2>2 DEF IInv, CatalogInv
  <2> QED
    BY <1>1, <2>6, <2>7 DEF IInv, TableInv
<1>10. RestoreInv'
  <2>1. rows'[e] = rows[e] /\ dump'.rows = dump.rows /\ dump'.into = e
    BY <1>1, <1>5
  <2>2. ~CatalogRestored'
    BY <1>5 DEF CatalogRestored
  <2> HIDE DEF name
  <2> QED
    BY <1>5, <1>8, <1>9, <2>1, <2>2 DEF RestoreInv
<1> QED
  BY <1>2, <1>3, <1>6, <1>10 DEF DInv

\* Run once more, a restore gives the value of a raw vocabulary back.
LEMMA SecondGives ==
  ASSUME IInv, DInv, dump # Nothing, RestoreData, CatalogRestored', dump'.tries = 2
  PROVE  dump'.got = dump.value
<1> DEFINE e == dump.into
           all == IF \E r \in rows[e], s \in dump.rows : r.id = s.id \/ r.name = s.name
                    THEN rows[e] ELSE rows[e] \cup dump.rows
           typmod == ColumnTypmod(e)
           ids == dump.origin.ids
<1>1. /\ dump.stage = "schema" /\ rows' = [rows EXCEPT ![e] = all]
      /\ IF column[e] # Nothing /\ TokensIn(e, dump.text, typmod) # {}
           THEN \E w \in TokensIn(e, dump.text, typmod) :
                  dump' = [dump EXCEPT !.stage = "restored", !.got = w]
           ELSE dump' = [dump EXCEPT !.stage = "restored"]
  BY DEF RestoreData
<1>2. e \in Databases
  BY DEF IInv, DumpInv
<1>3. DOMAIN dump = {"from", "into", "stage", "rows", "domains", "column", "text", "value",
                     "origin", "got", "tries"}
  BY DEF DInv, DumpTextInv
<1>4. /\ dump'.into = e /\ dump'.rows = dump.rows /\ dump'.value = dump.value
      /\ dump'.origin = dump.origin /\ dump'.tries = dump.tries
  BY <1>1, <1>3
<1>5. dump.tries = 2 /\ all = dump.rows /\ dump.value.codec # "freq" /\ dump.origin.safe
  BY <1>1, <1>2, <1>4 DEF CatalogRestored, IInv, CatalogInv
<1>6. rows[e] # {}
  BY <1>5 DEF DInv, RestoreInv
<1>7. rows[e] = dump.rows
  BY <1>5, <1>6
<1>8. column[e] = dump.column /\ column[e] # Nothing
  BY <1>1, <1>5, <1>7 DEF DInv, RestoreInv, DumpTextInv
<1>9. PICK r \in rows[e] : r.name = column[e] /\ Made(dump.value, ids, r, Nothing)
  BY <1>5, <1>7, <1>8 DEF DInv, DumpTextInv
<1>10. ids \in Seq(U32) /\ ParseIds(dump.text) = {ids} /\ FilesInv
  BY <1>5 DEF DInv, DumpTextInv, History
<1>11. /\ r \in Row
       /\ EncodeFor(e, ids, typmod) =
            Encode(ids, r.id, r.size, CodecOf(r.compression, r.width), ranking[e][r.id])
  BY <1>2, <1>8, <1>9, <1>10, RowEncodes
<1>12. Made(dump.value, ids, r, ranking[e][r.id])
  BY <1>5, <1>9, MadeKept
<1>13. EncodeFor(e, ids, typmod) = {dump.value}
  <2> DEFINE ranks == ranking[e][r.id]
             packed == Encode(ids, r.id, r.size, CodecOf(r.compression, r.width), ranks)
             value == dump.value
  <2>1. EncodeFor(e, ids, typmod) = packed
    BY <1>11
  <2>2. r \in Row /\ Made(value, ids, r, ranks)
    BY <1>11, <1>12
  <2> HIDE DEF ranks, ids, value
  <2>3. packed = {value}
    BY <2>2, MadeOnly
  <2> QED
    BY <2>1, <2>3 DEF value
<1> HIDE DEF typmod, ids
<1>14. TokensIn(e, dump.text, typmod) = {dump.value}
  BY <1>10, <1>13 DEF TokensIn
<1> HIDE DEF e
<1> QED
  BY <1>1, <1>3, <1>8, <1>14

LEMMA RestoreDataKeeps ==
  ASSUME IInv, DInv, dump # Nothing, RestoreData
  PROVE  DInv'
<1> DEFINE e == dump.into
           all == IF \E r \in rows[e], s \in dump.rows : r.id = s.id \/ r.name = s.name
                    THEN rows[e] ELSE rows[e] \cup dump.rows
<1>1. /\ dump.stage = "schema" /\ cell[e] = Nothing
      /\ rows' = [rows EXCEPT ![e] = all]
      /\ UNCHANGED <<domain, ranking, mapping, column>>
  BY DEF RestoreData, files
<1>2. e \in Databases
  BY DEF IInv, DumpInv
<1>3. \/ /\ column[e] # Nothing
         /\ \E w \in TokensIn(e, dump.text, ColumnTypmod(e)) :
              /\ Store(e, w, dump.origin)
              /\ dump' = [dump EXCEPT !.stage = "restored", !.got = w]
      \/ UNCHANGED <<cell, origin>> /\ dump' = [dump EXCEPT !.stage = "restored"]
  BY DEF RestoreData
<1>4. \E r \in dump.rows : r.name = dump.column
  BY DEF DInv, DumpTextInv
<1>5. rows[e] \subseteq all /\ all # {}
  BY <1>4
<1>6. \A x \in Databases : rows'[x] = IF x = e THEN all ELSE rows[x]
  BY <1>1 DEF IInv, CatalogInv
<1>7. \A x \in Databases : rows[x] \subseteq rows'[x]
  BY <1>5, <1>6
<1>8. DOMAIN dump = {"from", "into", "stage", "rows", "domains", "column", "text", "value",
                     "origin", "got", "tries"}
  BY DEF DInv, DumpTextInv
<1>9. /\ DOMAIN dump' = DOMAIN dump /\ dump'.rows = dump.rows /\ dump'.domains = dump.domains
      /\ dump'.column = dump.column /\ dump'.text = dump.text /\ dump'.value = dump.value
      /\ dump'.origin = dump.origin
      /\ dump'.stage = "restored" /\ dump'.tries = dump.tries /\ dump'.into = e
  BY <1>3, <1>8
<1> HIDE DEF all
<1>10. FilesInv'
  BY <1>1 DEF DInv, FilesInv
<1>11. ValuesInv'
  <2>1. ASSUME NEW w, NEW o, w # Nothing => Kept(w, o, column[e], rows[e], ranking[e]),
               Store(e, w, o)
        PROVE  ValuesInv'
    <3>1. w # Nothing => Kept(w, o, column[e], rows'[e], ranking[e])
      <4>1. rows[e] \subseteq rows'[e]
        BY <1>2, <1>7
      <4> QED
        BY <2>1, <4>1, KeptGrows
    <3>2. cell' = [cell EXCEPT ![e] = w] /\ origin' = [origin EXCEPT ![e] = o]
      BY <2>1 DEF Store
    <3>3. /\ cell = [x \in Databases |-> cell[x]] /\ origin = [x \in Databases |-> origin[x]]
      BY DEF IInv, TableInv, DInv, ValuesInv
    <3>4. /\ \A x \in Databases : cell'[x] = IF x = e THEN w ELSE cell[x]
          /\ \A x \in Databases : origin'[x] = IF x = e THEN o ELSE origin[x]
          /\ origin' = [x \in Databases |-> origin'[x]]
      BY <3>2, <3>3
    <3>5. ASSUME NEW x \in Databases, cell'[x] # Nothing
          PROVE  Kept(cell'[x], origin'[x], column[x], rows'[x], ranking[x])
      <4>1. CASE x = e
        BY <3>1, <3>4, <3>5, <4>1
      <4>2. CASE x # e
        <5>1. Kept(cell[x], origin[x], column[x], rows[x], ranking[x])
          BY <3>4, <3>5, <4>2 DEF DInv, ValuesInv
        <5>2. rows'[x] = rows[x]
          BY <1>6, <4>2
        <5> QED
          BY <3>4, <4>2, <5>1, <5>2
      <4> QED
        BY <4>1, <4>2
    <3> QED
      BY <1>1, <3>4, <3>5 DEF ValuesInv
  <2>2. ASSUME UNCHANGED <<cell, origin>>
        PROVE  ValuesInv'
    BY <1>1, <1>7, <2>2, ValuesFrame DEF DInv
  <2>3. ASSUME column[e] # Nothing, NEW w \in TokensIn(e, dump.text, ColumnTypmod(e))
        PROVE  Kept(w, dump.origin, column[e], rows[e], ranking[e])
    <3>1. /\ History(dump.origin) /\ ParseIds(dump.text) \subseteq Seq(U32) /\ FilesInv
          /\ dump.origin.safe => ParseIds(dump.text) = {dump.origin.ids}
      BY DEF DInv, DumpTextInv
    <3> QED
      BY <1>2, <2>3, <3>1, TokensInKept
  <2> HIDE DEF e
  <2> QED
    BY <1>3, <2>1, <2>2, <2>3
<1>12. DumpTextInv'
  BY <1>9, DumpTextKept DEF DInv
<1>13. RestoreInv'
  <2>1. rows'[e] # {}
    BY <1>2, <1>5, <1>6
  <2>2. CatalogRestored' /\ dump'.tries = 2 => dump'.got = dump'.value
    BY <1>9, SecondGives
  <2>3. dump.tries \in 0..2
    BY DEF DInv, RestoreInv
  <2> HIDE DEF e
  <2> QED
    BY <1>9, <2>1, <2>2, <2>3 DEF RestoreInv
<1> QED
  BY <1>10, <1>11, <1>12, <1>13 DEF DInv

-----------------------------------------------------------------------------
(* The theorems.                                                            *)

\* What the properties below rest on: catalogs with unique ids and names, domains made from
\* their rows, columns of a domain that is there, and values of their column's vocabulary.
THEOREM Inductive == Spec => []IInv
<1>1. Init => IInv
  BY DEF Init, IInv, CatalogInv, TableInv, DumpInv, Sound
<1>2. IInv /\ [Next]_vars => IInv'
  <2> SUFFICES ASSUME IInv, [Next]_vars
               PROVE  IInv'
    OBVIOUS
  <2>1. CASE UNCHANGED <<catalogVars, table, dump>>
    <3>1. UNCHANGED <<rows, domain, column, cell, dump>>
      BY <2>1 DEF catalogVars, table
    <3>2. CatalogInv'
      BY <3>1 DEF IInv, CatalogInv
    <3>3. TableInv'
      BY <3>1 DEF IInv, TableInv, ColumnTypmod, Uniform
    <3>4. DumpInv'
      BY <3>1 DEF IInv, DumpInv
    <3> QED
      BY <3>2, <3>3, <3>4 DEF IInv
  <2>2. ASSUME NEW d \in Databases, NEW name \in Names, NEW id \in Ids, NEW decl \in Declared,
               CreateVocabulary(d, name, id, decl)
        PROVE  IInv'
    BY <2>2, CreateVocabularyInv
  <2>3. ASSUME NEW d \in Databases, NEW name \in Names, NEW ids \in Corpora, Train(d, name, ids)
        PROVE  IInv'
    BY <2>1, <2>3 DEF Train
  <2>4. ASSUME NEW d \in Databases, NEW name \in Names, NEW m \in Mappings, LoadMapping(d, name, m)
        PROVE  IInv'
    BY <2>1, <2>4 DEF LoadMapping
  <2>5. ASSUME NEW d \in Databases, NEW name \in Names, CreateTable(d, name)
        PROVE  IInv'
    BY <2>5, CreateTableInv
  <2>6. ASSUME NEW d \in Databases, NEW ids \in Lists, Insert(d, ids)
        PROVE  IInv'
    <3>1. PICK w \in TokensIn(d, RenderIds(ids), ColumnTypmod(d)) :
            Store(d, w, [ids |-> ids, safe |-> TRUE])
      BY <2>6 DEF Insert
    <3>2. column[d] # Nothing /\ UNCHANGED <<catalogVars, column, dump>>
      BY <2>6 DEF Insert, Empty
    <3> QED
      BY <3>1, <3>2, TokensInUniform, StoreInv
  <2>7. ASSUME NEW d \in Databases, NEW e \in Databases, CopyText(d, e)
        PROVE  IInv'
    <3>1. PICK text \in TokensOut(d, cell[d]) :
            \E w \in TokensIn(e, text, ColumnTypmod(e)) : Store(e, w, origin[d])
      BY <2>7 DEF CopyText
    <3>2. column[e] # Nothing /\ UNCHANGED <<catalogVars, column, dump>>
      BY <2>7 DEF CopyText, Empty
    <3> QED
      BY <3>1, <3>2, TokensInUniform, StoreInv
  <2>8. ASSUME NEW d \in Databases, NEW e \in Databases, CopyBinary(d, e)
        PROVE  IInv'
    <3>1. PICK bytes \in TokensSend(cell[d]) :
            \E w \in TokensRecv(bytes, ColumnTypmod(e)) :
              Store(e, w, [origin[d] EXCEPT !.safe = @ /\ InfosAgree(d, e)])
      BY <2>8 DEF CopyBinary
    <3>2. column[e] # Nothing /\ UNCHANGED <<catalogVars, column, dump>>
      BY <2>8 DEF CopyBinary, Empty
    <3> QED
      BY <3>1, <3>2, TokensRecvUniform, StoreInv
  <2>9. ASSUME NEW d \in Databases, Delete(d)
        PROVE  IInv'
    BY <2>9, StoreInv DEF Delete
  <2>10. ASSUME NEW d \in Databases, cell[d] # Nothing, Dump(d)
         PROVE  IInv'
    BY <2>10, DumpTakenInv
  <2>11. ASSUME dump # Nothing, RestoreData
         PROVE  IInv'
    BY <2>11, RestoreDataInv
  <2>12. ASSUME dump # Nothing, NEW e \in Databases, RestoreSchema(e)
         PROVE  IInv'
    BY <2>12, RestoreSchemaInv
  <2>13. CASE UNCHANGED vars
    BY <2>1, <2>13 DEF vars
  <2> QED
    BY <2>2, <2>3, <2>4, <2>5, <2>6, <2>7, <2>8, <2>9, <2>10, <2>11, <2>12, <2>13 DEF Next
<1> QED
  BY <1>1, <1>2, PTL DEF Spec

\* typmod.rs:3-10: whatever is created, dumped and restored, a domain's typmod unpacks to the
\* one row with the domain's name and is rendered as that name.
THEOREM TypmodsNameRowsHolds == Spec => []TypmodsNameRows
<1>1. IInv => TypmodsNameRows
  BY CatalogNames DEF IInv
<1> QED
  BY <1>1, Inductive, PTL

\* vocabulary.rs:389-391: vocabularies that vocabulary_info reports alike read every stored
\* value alike, for all catalogs, rankings and mappings.
THEOREM DigestsSufficeHolds == Spec => []DigestsSuffice
<1>1. IInv => DigestsSuffice
  BY InfosDecide DEF IInv
<1> QED
  BY <1>1, Inductive, PTL

\* What a value that came by safe ways and a dump of it hold: the value is what its column's
\* row packs the ids it was written with as, and a dump reads back as them.
THEOREM ValuesKept == Spec => []DInv
<1>1. Init => DInv
  BY DEF Init, DInv, FilesInv, ValuesInv, DumpTextInv, RestoreInv
<1>2. IInv /\ DInv /\ [Next]_vars => DInv'
  <2> SUFFICES ASSUME IInv, DInv, [Next]_vars
               PROVE  DInv'
    OBVIOUS
  <2>1. ASSUME NEW d \in Databases, NEW name \in Names, NEW id \in Ids, NEW decl \in Declared,
               CreateVocabulary(d, name, id, decl)
        PROVE  DInv'
    BY <2>1, CreateVocabularyKeeps
  <2>2. ASSUME NEW d \in Databases, NEW name \in Names, NEW ids \in Corpora, Train(d, name, ids)
        PROVE  DInv'
    BY <2>2, TrainKeeps
  <2>3. ASSUME NEW d \in Databases, NEW name \in Names, NEW m \in Mappings, LoadMapping(d, name, m)
        PROVE  DInv'
    BY <2>3, LoadMappingKeeps
  <2>4. ASSUME NEW d \in Databases, NEW name \in Names, CreateTable(d, name)
        PROVE  DInv'
    BY <2>4, CreateTableKeeps
  <2>5. ASSUME NEW d \in Databases, NEW ids \in Lists, Insert(d, ids)
        PROVE  DInv'
    BY <2>5, InsertKeeps
  <2>6. ASSUME NEW d \in Databases, NEW e \in Databases, CopyText(d, e)
        PROVE  DInv'
    BY <2>6, CopyTextKeeps
  <2>7. ASSUME NEW d \in Databases, NEW e \in Databases, CopyBinary(d, e)
        PROVE  DInv'
    BY <2>7, CopyBinaryKeeps
  <2>8. ASSUME NEW d \in Databases, Delete(d)
        PROVE  DInv'
    BY <2>8, StoreKeeps DEF Delete
  <2>9. ASSUME NEW d \in Databases, cell[d] # Nothing, Dump(d)
        PROVE  DInv'
    BY <2>9, DumpKeeps
  <2>10. ASSUME dump # Nothing, RestoreData
         PROVE  DInv'
    BY <2>10, RestoreDataKeeps
  <2>11. ASSUME dump # Nothing, NEW e \in Databases, RestoreSchema(e)
         PROVE  DInv'
    BY <2>11, RestoreSchemaKeeps
  <2>12. CASE UNCHANGED vars
    <3>1. UNCHANGED <<rows, ranking, mapping, column, cell, origin, dump>>
      BY <2>12 DEF vars, catalogVars, files, table
    <3>2. FilesInv' /\ ValuesInv'
      BY <3>1 DEF DInv, FilesInv, ValuesInv
    <3>3. DumpTextInv' /\ RestoreInv'
      BY <3>1, RestoreFrame DEF DInv
    <3> QED
      BY <3>2, <3>3 DEF DInv
  <2> QED
    BY <2>1, <2>2, <2>3, <2>4, <2>5, <2>6, <2>7, <2>8, <2>9, <2>10, <2>11, <2>12 DEF Next
<1> QED
  BY <1>1, <1>2, Inductive, PTL DEF Spec

\* tokens.rs:3-5 and 40-43: through any number of databases, whatever is trained, loaded or
\* restored, a value that came by safe ways only has the ids it was written with.
THEOREM SafeKeepsIdsHolds == Spec => []SafeKeepsIds
<1>1. IInv /\ DInv => SafeKeepsIds
  BY KeptReads DEF SafeKeepsIds, Filled
<1> QED
  BY <1>1, Inductive, ValuesKept, PTL

\* typmod.rs:76-88: where the catalog is there before the domains are, a restore brings back
\* the value of a raw vocabulary's column byte for byte.
THEOREM SecondRestoreWorksHolds == Spec => []SecondRestoreWorks
<1>1. DInv => SecondRestoreWorks
  BY DEF DInv, RestoreInv, SecondRestoreWorks
<1> QED
  BY <1>1, ValuesKept, PTL

\* Type correctness, for any number of databases, ids and names.
THEOREM TypeCorrect == Spec => []TypeOK
<1>1. IInv /\ DInv => TypeOK
  <2> SUFFICES ASSUME IInv, DInv
               PROVE  TypeOK
    OBVIOUS
  <2>1. rows \in [Databases -> SUBSET Row]
    BY DEF IInv, CatalogInv, Sound
  <2>2. ASSUME NEW d \in Databases, NEW n \in Names, domain[d][n] # Nothing
        PROVE  \E r \in Row : domain[d][n] = Pack(FieldsOf(r))
    BY <2>2 DEF IInv, CatalogInv, Sound
  <2>3. \A d \in Databases, id \in Ids :
          /\ ranking[d][id] # Nothing => IsTable(ranking[d][id])
          /\ mapping[d][id] \in Mappings \cup {Nothing}
    BY DEF DInv, FilesInv
  <2>4. column \in [Databases -> Names \cup {Nothing}]
    BY DEF IInv, TableInv
  <2>5. \A d \in Filled : column[d] # Nothing /\ IsValue(cell[d])
    BY DEF Filled, IInv, TableInv, DInv, ValuesInv, Kept
  <2>6. dump # Nothing => dump.stage \in {"taken", "schema", "restored"}
    BY DEF DInv, RestoreInv
  <2> QED
    <3>1. \A d \in Databases, n \in Names : domain[d][n] # Nothing =>
            domain[d][n] \in Nat /\ domain[d][n] < 8388608
      BY <2>2, TypmodFits, SMTT(20)
    <3>2. rows \in [Databases -> SUBSET Row] /\ column \in [Databases -> Names \cup {Nothing}]
      BY <2>1, <2>4, SMTT(20)
    <3> QED
      BY <2>3, <2>5, <2>6, <3>1, <3>2, SMTT(20) DEF TypeOK
<1> QED
  BY <1>1, Inductive, ValuesKept, PTL

=============================================================================
