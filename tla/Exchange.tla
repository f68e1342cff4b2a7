------------------------------- MODULE Exchange -------------------------------
(***************************************************************************)
(* Databases that exchange values: each has its catalog of vocabularies    *)
(* (ext/src/vocabulary.rs), its domains with their packed typmods          *)
(* (ext/src/typmod.rs), its artefact directory and one table with one      *)
(* column.  Values travel as text, as binary, or in a dump.  The header of *)
(* a value names its vocabulary by id alone, and an id means what the      *)
(* catalog and the directory of the database that reads it say.            *)
(*                                                                         *)
(* A digest stands for the bytes it is of.  pg_dump and its restore are    *)
(* external: domains and tables come before the rows of any table, those   *)
(* of the catalog included, and a statement that raises is skipped.        *)
(***************************************************************************)
EXTENDS TokenValue

CONSTANTS
  Databases,
  Ids,        \* vocabulary ids
  Names,      \* vocabulary names
  Declared,   \* the sizes and compressions a vocabulary is declared with
  Corpora,    \* the id lists a training query may return
  Mappings,   \* mapping[i]: the text of id i - 1, or Nothing
  Lists       \* the id lists that are inserted

ASSUME WidthsAssumption == WidthsFit
ASSUME ExchangeAssumption ==
  /\ Nothing \notin Int
  /\ Ids \subseteq {id \in Nat : 0 < id /\ id < 65536}
  /\ Declared \subseteq [size : VocabSizes, compression : {"raw", "freq"}]
  /\ Corpora \subseteq Seq(0..MaxI32) \ {<<>>} /\ Lists \subseteq Seq(U32)

VARIABLES
  rows,      \* rows[d]: the rows of pgtoken.vocabulary
  domain,    \* domain[d][n]: the typmod of the domain tokens.n, or Nothing
  ranking,   \* ranking[d][id]: the ranking file, or Nothing
  mapping,   \* mapping[d][id]: the mapping file, or Nothing
  column,    \* column[d]: the domain of the table's column, or Nothing: no table
  cell,      \* cell[d]: the value in it, or Nothing
  origin,    \* history: the ids cell[d] was written with, and whether it was only moved safely
  dump       \* the dump that was taken, with how far its restore is, or Nothing

catalogVars == <<rows, domain>>
files == <<ranking, mapping>>
table == <<column, cell, origin>>
vars == <<catalogVars, files, table, dump>>

Init ==
  /\ rows = [d \in Databases |-> {}]
  /\ domain = [d \in Databases |-> [n \in Names |-> Nothing]]
  /\ ranking = [d \in Databases |-> [id \in Ids |-> Nothing]]
  /\ mapping = [d \in Databases |-> [id \in Ids |-> Nothing]]
  /\ column = [d \in Databases |-> Nothing]
  /\ cell = [d \in Databases |-> Nothing]
  /\ origin = [d \in Databases |-> Nothing]
  /\ dump = Nothing

-----------------------------------------------------------------------------
(* Typmods: the id in bits 0-15, the compression in 16-19 (65536 is 2^16),  *)
(* the width in 20-22 (1048576 is 2^20).                                    *)

CompressionCode(name) == IF name = "freq" THEN 1 ELSE 0
CompressionName(code) == IF code = 1 THEN "freq" ELSE "raw"

\* Mutant of Pack: the width next to the id, the compression above it.
PackSwapped(v) == v.id + v.width * 65536 + v.compression * 1048576

\* pack: the fields do not overlap, so that | is +.
Pack(v) == v.id + v.compression * 65536 + v.width * 1048576

\* unpack
Unpack(typmod) ==
  [id |-> typmod % 65536,
   compression |-> (typmod \div 65536) % 16,
   width |-> (typmod \div 1048576) % 8]

-----------------------------------------------------------------------------
(* The catalog of a database.                                               *)

LookupByName(d, name) ==
  {[id |-> r.id, compression |-> CompressionCode(r.compression), width |-> r.width] :
     r \in {r \in rows[d] : r.name = name}}

NameForId(d, id) == {r.name : r \in {r \in rows[d] : r.id = id}}
VocabSizeFor(d, id) == {r.size : r \in {r \in rows[d] : r.id = id}}

\* tokens_typmod_in
TypmodIn(d, name) == {Pack(v) : v \in LookupByName(d, name)}

\* Mutant of TypmodOut: always the id.
TypmodOutId(d, typmod) == Unpack(typmod).id

\* tokens_typmod_out: the name, or the id where the catalog has no row for it.
TypmodOut(d, typmod) ==
  LET id == Unpack(typmod).id IN
  IF NameForId(d, id) = {} THEN id ELSE CHOOSE name \in NameForId(d, id) : TRUE

\* describe_table and describe_map: the entries and the digest of a file, none without one.
DescribeTable(d, id) ==
  IF ranking[d][id] = Nothing THEN {} ELSE {<<K(ranking[d][id]), ranking[d][id]>>}

DescribeMap(d, id) ==
  LET m == mapping[d][id] IN
  IF m = Nothing THEN {} ELSE {<<Cardinality({i \in DOMAIN m : m[i] # Nothing}), m>>}

\* Mutants of Info: the mapping is not reported; the ranking is reported without its digest.
InfoNoMap(d, name) ==
  UNION {{<<v.id, size, CompressionName(v.compression), v.width, DescribeTable(d, v.id)>> :
            size \in VocabSizeFor(d, v.id)} : v \in LookupByName(d, name)}

InfoNoRankDigest(d, name) ==
  UNION {{<<v.id, size, CompressionName(v.compression), v.width,
            {t[1] : t \in DescribeTable(d, v.id)}, DescribeMap(d, v.id)>> :
            size \in VocabSizeFor(d, v.id)} : v \in LookupByName(d, name)}

\* vocabulary_info
Info(d, name) ==
  UNION {{<<v.id, size, CompressionName(v.compression), v.width,
            DescribeTable(d, v.id), DescribeMap(d, v.id)>> :
            size \in VocabSizeFor(d, v.id)} : v \in LookupByName(d, name)}

-----------------------------------------------------------------------------
(* The functions of the type, run in a database.                            *)

CodecFor(typmod) ==
  CodecOf(CompressionName(Unpack(typmod).compression), Unpack(typmod).width)

TableOf(d, id) == IF id \in Ids THEN ranking[d][id] ELSE Nothing

DecodeValue(d, w) == Decode(w, TableOf(d, w.vocab))

EncodeFor(d, ids, typmod) ==
  LET v == Unpack(typmod).id IN
  UNION {Encode(ids, v, size, CodecFor(typmod), TableOf(d, v)) : size \in VocabSizeFor(d, v)}

\* tokens_in under the typmod of a column, and tokens_out.
TokensIn(d, text, typmod) == UNION {EncodeFor(d, ids, typmod) : ids \in ParseIds(text)}
TokensOut(d, w) == {RenderIds(ids) : ids \in UNION {DecodeValue(d, u) : u \in Validate(w)}}

\* tokens_send hands over the bytes; tokens_recv compares their header with the typmod.
TokensSend(w) == Validate(w)
TokensRecv(w, typmod) ==
  IF w.vocab = Unpack(typmod).id /\ w.codec = CodecFor(typmod) THEN Validate(w) ELSE {}

\* pgtoken.text: the texts of the ids, if the mapping has them all.  How their bytes join is
\* Detok's.
Text(d, w) ==
  LET m == IF w.vocab \in Ids THEN mapping[d][w.vocab] ELSE Nothing IN
  IF m = Nothing THEN {}
  ELSE {[i \in DOMAIN ids |-> m[ids[i] + 1]] :
          ids \in {ids \in UNION {DecodeValue(d, u) : u \in Validate(w)} :
                     \A i \in DOMAIN ids : ids[i] < Len(m) /\ m[ids[i] + 1] # Nothing}}

ColumnTypmod(d) == domain[d][column[d]]

-----------------------------------------------------------------------------
(* Vocabularies and their artefacts.                                        *)

\* create_vocabulary under an id nobody has used, with its domain; Vocabulary has how the id
\* is found.  One vocabulary is created in each database, a restore may bring more.
CreateVocabulary(d, name, id, decl) ==
  /\ rows[d] = {}
  /\ ranking[d][id] = Nothing /\ mapping[d][id] = Nothing
  /\ domain[d][name] = Nothing
  /\ LET row == [id |-> id, name |-> name, size |-> decl.size, compression |-> decl.compression,
                 width |-> WidthFor(decl.size)] IN
     /\ rows' = [rows EXCEPT ![d] = {row}]
     /\ domain' = [domain EXCEPT ![d][name] =
          Pack([id |-> id, compression |-> CompressionCode(row.compression), width |-> row.width])]
  /\ UNCHANGED <<files, table, dump>>

\* pgtoken.train without a cap, once.
Train(d, name, ids) ==
  /\ \E v \in LookupByName(d, name) :
       /\ ranking[d][v.id] = Nothing
       /\ ranking' = [ranking EXCEPT ![d][v.id] = TrainTable(ids, Len(ids))]
  /\ UNCHANGED <<catalogVars, mapping, table, dump>>

\* pgtoken.load_mapping, once; the map has an entry for every id of the vocabulary.
LoadMapping(d, name, m) ==
  /\ \E v \in LookupByName(d, name) :
       /\ mapping[d][v.id] = Nothing
       /\ Len(m) \in VocabSizeFor(d, v.id)
       /\ mapping' = [mapping EXCEPT ![d][v.id] = m]
  /\ UNCHANGED <<catalogVars, ranking, table, dump>>

-----------------------------------------------------------------------------
(* The table.                                                               *)

\* CREATE TABLE with a column of the domain.
CreateTable(d, name) ==
  /\ column[d] = Nothing
  /\ domain[d][name] # Nothing
  /\ column' = [column EXCEPT ![d] = name]
  /\ UNCHANGED <<catalogVars, files, cell, origin, dump>>

Empty(d) == column[d] # Nothing /\ cell[d] = Nothing

Store(d, w, o) ==
  /\ cell' = [cell EXCEPT ![d] = w]
  /\ origin' = [origin EXCEPT ![d] = o]

Insert(d, ids) ==
  /\ Empty(d)
  /\ \E w \in TokensIn(d, RenderIds(ids), ColumnTypmod(d)) :
       Store(d, w, [ids |-> ids, safe |-> TRUE])
  /\ UNCHANGED <<catalogVars, files, column, dump>>

\* COPY TO in one database, COPY FROM in another, as text.
CopyText(d, e) ==
  /\ cell[d] # Nothing /\ Empty(e)
  /\ \E text \in TokensOut(d, cell[d]) : \E w \in TokensIn(e, text, ColumnTypmod(e)) :
       Store(e, w, origin[d])
  /\ UNCHANGED <<catalogVars, files, column, dump>>

\* The two vocabularies are reported alike.
InfosAgree(d, e) == Info(d, column[d]) = Info(e, column[e])

\* The same as binary: safe if the user compared the vocabularies first.
CopyBinary(d, e) ==
  /\ cell[d] # Nothing /\ Empty(e)
  /\ \E bytes \in TokensSend(cell[d]) : \E w \in TokensRecv(bytes, ColumnTypmod(e)) :
       Store(e, w, [origin[d] EXCEPT !.safe = @ /\ InfosAgree(d, e)])
  /\ UNCHANGED <<catalogVars, files, column, dump>>

Delete(d) ==
  /\ cell[d] # Nothing
  /\ Store(d, Nothing, Nothing)
  /\ UNCHANGED <<catalogVars, files, column, dump>>

-----------------------------------------------------------------------------
(* pg_dump: the catalog's rows (pg_extension_config_dump), the domains with *)
(* their typmods rendered, the table and its value as text.                 *)

Dump(d) ==
  /\ dump = Nothing
  /\ \E text \in TokensOut(d, cell[d]) :
       dump' = [from |-> d, into |-> d, stage |-> "taken",
                rows |-> rows[d],
                domains |-> [n \in {n \in Names : domain[d][n] # Nothing} |->
                               TypmodOut(d, domain[d][n])],
                column |-> column[d], text |-> text,
                value |-> cell[d], origin |-> origin[d], got |-> Nothing, tries |-> 0]
  /\ UNCHANGED <<catalogVars, files, table>>

\* CREATE DOMAIN for each domain that is not there, whose typmod is read anew, then CREATE
\* TABLE.  A restore that left no table may be run once more.
RestoreSchema(e) ==
  /\ dump.stage = "taken" \/ (dump.stage = "restored" /\ e = dump.into)
  /\ dump.tries < 2
  /\ e # dump.from /\ column[e] = Nothing
  /\ LET typmods(n) == IF n \in DOMAIN dump.domains THEN TypmodIn(e, dump.domains[n]) ELSE {} IN
     domain' = [domain EXCEPT ![e] =
       [n \in Names |-> IF domain[e][n] # Nothing \/ typmods(n) = {} THEN domain[e][n]
                        ELSE CHOOSE t \in typmods(n) : TRUE]]
  /\ column' = [column EXCEPT ![e] =
       IF domain'[e][dump.column] = Nothing THEN Nothing ELSE dump.column]
  /\ dump' = [dump EXCEPT !.into = e, !.stage = "schema", !.tries = @ + 1]
  /\ UNCHANGED <<rows, files, cell, origin>>

\* COPY of the catalog's rows, all or none, then of the table's, if there is a table; nobody
\* has written to it yet.
RestoreData ==
  LET e == dump.into
      clash == \E r \in rows[e], s \in dump.rows : r.id = s.id \/ r.name = s.name
      all == IF clash THEN rows[e] ELSE rows[e] \cup dump.rows IN
  /\ dump.stage = "schema" /\ cell[e] = Nothing
  /\ rows' = [rows EXCEPT ![e] = all]
  /\ IF column[e] # Nothing /\ TokensIn(e, dump.text, ColumnTypmod(e)) # {}
     THEN \E w \in TokensIn(e, dump.text, ColumnTypmod(e)) :
            /\ Store(e, w, dump.origin)
            /\ dump' = [dump EXCEPT !.stage = "restored", !.got = w]
     ELSE /\ dump' = [dump EXCEPT !.stage = "restored"]
          /\ UNCHANGED <<cell, origin>>
  /\ UNCHANGED <<domain, files, column>>

Next ==
  \/ \E d \in Databases, name \in Names :
       \/ \E id \in Ids, decl \in Declared : CreateVocabulary(d, name, id, decl)
       \/ \E ids \in Corpora : Train(d, name, ids)
       \/ \E m \in Mappings : LoadMapping(d, name, m)
       \/ CreateTable(d, name)
  \/ \E d \in Databases, ids \in Lists : Insert(d, ids)
  \/ \E d, e \in Databases : CopyText(d, e) \/ CopyBinary(d, e)
  \/ \E d \in Databases : cell[d] # Nothing /\ (Delete(d) \/ Dump(d))
  \/ dump # Nothing /\ (RestoreData \/ \E e \in Databases : RestoreSchema(e))

Spec == Init /\ [][Next]_vars

-----------------------------------------------------------------------------
(* Properties.                                                              *)

Filled == {d \in Databases : cell[d] # Nothing}

Row == [id : Ids, name : Names, size : VocabSizes, compression : {"raw", "freq"}, width : 1..3]

TypeOK ==
  /\ rows \in [Databases -> SUBSET Row]
  /\ \A d \in Databases, n \in Names : domain[d][n] # Nothing => domain[d][n] \in Nat /\ domain[d][n] < 8388608
  /\ \A d \in Databases, id \in Ids :
       /\ ranking[d][id] # Nothing => IsTable(ranking[d][id])
       /\ mapping[d][id] \in Mappings \cup {Nothing}
  /\ column \in [Databases -> Names \cup {Nothing}]
  /\ \A d \in Filled : column[d] # Nothing /\ IsValue(cell[d])
  /\ dump # Nothing => dump.stage \in {"taken", "schema", "restored"}

\* typmod.rs:3-10: every domain's typmod unpacks to the three fields of the one row with the
\* domain's name, and its id leads back to that name, whichever of create_vocabulary and a
\* restore made the domain and brought the row.
TypmodsNameRows ==
  \A d \in Databases, n \in Names :
    domain[d][n] # Nothing =>
      LET v == Unpack(domain[d][n]) IN
      LookupByName(d, n) = {v} /\ TypmodOut(d, domain[d][n]) = n /\ NameForId(d, v.id) = {n}

\* vocabulary.rs:389-391, "the way two machines check they hold the same vocabulary": where
\* vocabulary_info reports the same of the vocabularies of two columns, a stored value of one
\* is received by the other unchanged, and has the same ids and the same text there.
DigestsSuffice ==
  \A d \in Filled, e \in Databases :
    column[e] # Nothing /\ InfosAgree(d, e) =>
      /\ TokensRecv(cell[d], ColumnTypmod(e)) = {cell[d]}
      /\ DecodeValue(e, cell[d]) = DecodeValue(d, cell[d])
      /\ Text(e, cell[d]) = Text(d, cell[d])

\* tokens.rs:3-5 and 40-43: through any chain of databases a value keeps the ids it was
\* written with, as text, as a restored dump, or as binary between vocabularies that were
\* reported alike at the time, whatever is trained, loaded or restored afterwards.
SafeKeepsIds ==
  \A d \in Filled : origin[d].safe => DecodeValue(d, cell[d]) = {origin[d].ids}

\* A restore into a database that now has the dumped catalog, of a raw vocabulary's column and
\* of a value that only came by safe ways: a binary copy between vocabularies that differ may
\* have stored an id past the declared size, which the text of a dump is refused for.
CatalogRestored ==
  /\ dump.stage = "restored" /\ rows[dump.into] = dump.rows
  /\ dump.value.codec # "freq" /\ dump.origin.safe

\* typmod.rs:76-88: a typmod is dumped in a form that a restored database reads back: where
\* the catalog's rows are there before the domains are, as they are when a restore is run a
\* second time, the value of a raw vocabulary's column is restored byte for byte.
SecondRestoreWorks ==
  dump # Nothing => (CatalogRestored /\ dump.tries = 2 => dump.got = dump.value)

\* tokens.rs:3-4, "pg_dump round-trips to byte-identical values", and vocabulary.rs:96, "Rows
\* must survive pg_dump": where a restore has brought back the catalog's rows, it has brought
\* back the value of a raw vocabulary's column.
DumpRestores ==
  dump # Nothing => (CatalogRestored => dump.got = dump.value)

=============================================================================
