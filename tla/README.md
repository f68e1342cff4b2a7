# pgtoken in TLA+

This directory is a verification development of pgtoken: a PostgreSQL extension that stores
sequences of token ids compressed (`ext/`, Rust with pgrx) on top of a library of codecs and
tables (`core/`). It holds TLA+ modules translated from the code, configurations that check them
with TLC on small instances, and proofs about them for all instances that the TLA+ proof system
(`tlapm`) checks. `PROJECT.json` maps every definition to the lines it stands for.

## 1. The system

pgtoken runs inside PostgreSQL: one process (backend) per session, many sessions at once, no
threads of its own and no shared memory of its own. What the backends share is the catalog table
`pgtoken.vocabulary` (transactional), the domains in schema `tokens` (transactional), and the
directory `pgtoken.table_dir` with its artefact files (not transactional). What each backend has for
itself is the current value of `table_dir` and two caches of parsed artefacts.

| Component | State | Operations | Module |
|---|---|---|---|
| `table_dir` setting (`lib.rs`, `registry.rs`) | `postgresql.conf`, the value each backend runs with | edit, SIGHUP, `require_dir`, `table_path`, `map_path` | `TableDir` |
| mapping artefact `<id>.tnmap` (`mapping.rs`, `registry.rs`) | file, temporary files, `MAP_CACHE` | `load_mapping`, `write_map`, `byte_map` | `MappingFile`, `WriteOnceStore` |
| ranking artefact `<id>.tntt` (`lib.rs`, `registry.rs`) | file, `CACHE` | `train`, `write_table`, `rank_table` | `RankingFile` |
| vocabulary catalog (`vocabulary.rs`) | rows, domains, transactions | `create_vocabulary`, `next_free_id`, `drop_vocabulary` | `Vocabulary` |
| rank table (`core/tables.rs`) | `token_of_rank`, `rank_of` | `train`, `rank`, `token`, bytes | `RankTable`; its bytes in `Detok` |
| value format (`core/header.rs`, `value.rs`, `codec/`) | none | `encode`, `decode`, `recode`, `Header::parse` | `ValueCodec`; as headers and integers in `TokenValue` |
| type `pgtoken.tokens` (`tokens.rs`, `casts.rs`) | the columns | IN, OUT, RECEIVE, SEND, length coercion, casts | `TokensType` over `TokenValue` and `TokenText` |
| typmods and dumps (`typmod.rs`, `vocabulary.rs`) | domains and their typmods, catalog rows in a dump | `typmod_in`, `typmod_out`, `pack`, `unpack`, COPY between databases, pg_dump | `Exchange` over `TokenValue` |
| byte map, detokenizer (`core/tables.rs`, `detok.rs`) | offsets, blob | `ByteMap::build`, `to_bytes`, `from_bytes`, `get`, `to_text` | `Detok` |
| inspection (`lib.rs`, `vocabulary.rs`) | none | `token_count`, `describe`, `vocabulary_info` | `ValueCodec!Describe`, `Exchange!Info` |
| Python client (`benchmarks/pgtoken_client.py`) | none | second encoder and decoder, second reader of rankings | `ValueCodec`, `Detok!ClientLoad` |
| `scripts/load_mapping.py`, benchmarks, examples, build | none | I/O, measurement | left out |

### How they interact

`create_vocabulary` chooses an id, asks the registry whether artefact files of that id exist, and
inserts a row and a domain in the caller's transaction. `train` and `load_mapping` resolve a name to
an id through the catalog, run a query, and write a file at once, whatever becomes of the
transaction. A column's typmod packs id, compression and width; every write of a value goes through
one of the functions of `tokens.rs`, which need the catalog for the size, and the ranking for
compression `freq`. Reads go through `rank_table` or `byte_map`, which look in the backend's cache,
keyed by the path, and fill it from the file. Functions are declared IMMUTABLE, so PostgreSQL may
keep what they return in indexes: an artefact that ever changed would make stored data wrong.

### What is hard, and what makes each part correct

- **Files outside transactions, shared without locks.** `exists()` and the write are separate
  system calls with an arbitrary query in between; failed calls, dead processes and a loss of power
  fall between any two. Correct: a file at its final name is whole, is never replaced, and is what
  everybody was told (mappings). For rankings, which are written in place, less holds: see below.
- **Caches that are never invalidated.** Correct as long as a path names one artefact for ever.
- **A setting that reaches sessions one by one.** Correct: caches keyed by path stay true; what two
  sessions answer meanwhile is not the same.
- **Ids handed out in transactions, used for files outside of them.** Correct: a vocabulary reads
  only what it ordered itself, and ids and names are reserved until the extension is dropped.
- **Many ways into a column.** Text input, COPY, casts, binary input, moves and alterations
  differ in what they check. Correct: a typed column is uniform, ids survive, an assignment never
  changes a vocabulary, dumps restore.
- **An id that means what the reader's database says.** A value names its vocabulary by a number,
  a typmod packs that number, and a dump or a COPY takes both to a database with its own catalog,
  rankings and mappings. Correct: a typmod leads back to the name it was written as, a dump
  restores, and comparing digests is enough to exchange bytes.
- **Bytes read back by somebody else.** Values are written by the extension and by clients, travel,
  and are indexed and compared as bytes. Correct: one list is one string of bytes whoever writes it,
  and a value that lost or gained bytes is refused.
- **Text cut anywhere.** Tokens split characters and documents are split between tokens. Correct: a
  text is whole characters, and what is dropped never goes unnoticed.
- **Numbers at their limits.** `id + k` in 32 bits, the width derived from `vocab_size - 1`, id
  65535, a 4 GiB blob.

PROJECT.json lists each of these at its line under `hazards`, with the properties that would catch
it, or a note where none does.

## 2. The modules and the code

### TableDir

`conf` is the value in the configuration, `dirOf[b]` the one backend `b` runs with. `EditConf` is an
administrator's edit, `Reload(b)` a backend acting on the signal. A backend handles SIGHUP between
two statements, so the modules that extend this one allow `Reload` only when `b` is idle. An unset
directory is `NoDir`, and `HasDir` is `require_dir`.

### MappingFile

`load_mapping` is split at its system calls: `LoadMapping` (checks), `BuildMap` (the query),
`CreateTemp`, `WriteTemp`, `SyncTemp`, `LinkMap` or `LinkTaken`, `UnlinkTemp` and the answer. The
error paths are actions of their own (`TempCollides`, `QueryFails`, `StageFails`, `LinkFails`,
`UnlinkFails`), with the removal of the temporary the code does on each. `byte_map` is `ServeCached`
and `ReadMap`. An inode is the bytes written (a whole mapping, or `Short`) and whether they were
flushed; the temporary name and the final name are two links to it. What is in a mapping is left
open: it is a model value.

- `Crash`: PostgreSQL restarts all backends after one dies. Caches and statements in progress are
  gone, all files stay.
- `PowerLoss`: an unflushed inode comes back `Short`; entries of the directory that are not
  `durable` may be gone, any subset of them, because the code flushes the file and not the
  directory. A removed temporary does not come back.
- A statement that is refused before it has changed anything is no action.

`WriteOnceStore` is what `registry.rs:17-35` promises of artefacts: `Put` writes a key once, `Learn`
remembers it, `Forget` is a new process, `Lose` a loss of power, after which nobody remembers what
is gone. `MappingFile!Abstract` maps the bytes at each path to the
store and `mapCache` to the views.

### RankingFile

`train` is `Train` (its own check), `RankIds` (the query), `CheckTable` (`write_table`'s `exists()`),
`OpenTable` (`std::fs::write` truncates) and `WriteTable`. A reader maps the file (`MapTable`) and
parses the map in a second step (`ParseTable`), where it sees the bytes the file holds by then;
if the file has been truncated meanwhile the process dies (`ReaderDies`) and the server restarts.
Content is a ranking, `Empty`, `Partial` or `Torn` (bytes of two rankings). A write over content
that is already there yields its own bytes, or a torn file where the older was longer (`Over`).
`raced` notes the paths where two trains were past `write_table`'s check at once; the code's own
comment concedes that race, and the properties say what holds outside it.

### Vocabulary

`create_vocabulary` is `Create` (the statement's snapshot: name lookup and `max(id)`), `TakeWanted`
or `TakeNextFree` (the artefact check), `Insert` (row and domain) and `Refuse`. The sessions run
READ COMMITTED transactions. An INSERT waits for another open transaction that holds its id or name,
fails if that commits and goes on if it rolls back. Each database has a catalog, the directory is
one for all. An artefact is known by the incarnation of the vocabulary that ordered it. Writing an
artefact is one step here; MappingFile and RankingFile have its steps. `DropExtension` and
`RemoveOrphan` (a file removed by hand, as the error message advises) are there because the
artefact check exists for them. `raced` notes the paths where a file was written while some
`create_vocabulary` had looked for it and not yet inserted its row (`Checked`): the state in which
the orphan check is stale. `ever` keeps every row committed, across drops of the extension, and
`lost` those that went with one; no guard reads either.

The restore of the catalog by pg_dump is in Exchange. Not modelled: `TRUNCATE` and direct writes by
a superuser to the catalog.

### RankTable

A ranking is its sequence `token_of_rank`. `TrainTable` sorts by descending count and ascending id
and cuts at the cap; `Rank` is a ranked token's place or `id + K`, `RankFits` the checked addition;
`Token` is the inverse. `IsTable` is what `from_bytes` accepts.

### TokenValue

What the SQL functions see of a value: `[vocab, codec, packed, form]`, the header and the integers
the payload packs. The bytes are left out, except for what tells payloads apart: `exact` as
`encode` writes it, `loose` (other bytes that decode alike), `broken`. A function that may raise is
the set of what it returns, empty if it raises. The module has the widths and codecs, `Validate`,
`Decode`, `Encode`, `EncodeUnresolved` and equality, which is of bytes; the casts to and from
`int[]`, where an id above `i32::MAX` comes out negative (`AsI32`). `WidthsFit` is how the largest
ids of one, two and three bytes, of an i32 and of a u32 are ordered.

### TokenText

The text form. A text is the sequence of its words (a brace, a comma, a blank, a number with its
sign, anything else); `ParseIds` trims and splits it as `parse_ids` does, so that two numbers without
a comma, a trailing comma or a missing brace are refused where the code refuses them, and `RenderIds`
is `render_ids`.

### TokensType

One cell per column, which holds what was last written. `Vocabularies`, their sizes and compressions
are constants; a typmod is the vocabulary it names.

| Action | Path in the code |
|---|---|
| `InsertLiteral` | `tokens_in` with typmod -1, then the length coercion |
| `CopyText` | `tokens_in` with the column's typmod (how pg_dump restores) |
| `InsertArray` | `tokens_from_int4array` on what a client wrote |
| `InsertFromArray` | `tokens_to_int4array` of another column, then `tokens_from_int4array` |
| `CopyBinary` | `tokens_recv`: `check_against_typmod`, `validate`, nothing after |
| `InsertBytes` | `tokens_recv_bytes`, then the length coercion |
| `InsertSelect` | another column's value, by assignment or explicit cast |
| `AlterType` | ALTER TABLE ... TYPE, without or with USING |
| `Train` | `pgtoken.train`, once per vocabulary |

`Coerce` is PostgreSQL's rule that a typmod of -1 (a bare column) calls no coercion. `origin` is a
history variable: the ids the writer gave, the vocabulary they were resolved under, and whether any
path has checked the ids one by one (the binary paths do not). `Written` says what ids the writer of
a text meant, without the parser. The output functions change nothing and appear in `Restores`.

### ValueCodec

One value at a time, as a header and a payload of bytes. `ValueEncode` and `ValueDecode` are
`value::encode` and `value::decode` with the codecs under them (`EncodeRaw`, `DecodeRaw`, `EncodeFreq`,
`DecodeFreq`); `ClientEncode` and `ClientDecode` are the functions of `pgtoken_client.py`, translated
apart: its lengths come from three comparisons, its decoder gathers four bytes at a time from padded
data, its additions wrap, its header check is shorter. Streamvbyte itself is a crate and is modelled
from its format. The one value is made by either side (`Make`), decoded and encoded anew by either
under any codec (`Recode`), and then changed once in its length or count (`ChangeLength`) or
elsewhere (`ChangeContent`). `ids` remembers the list it was made from. `Describe` is `describe` and
`token_count`, which decode nothing.

### Detok

What is in a file of `table_dir`, and the way from it to text. `Fetch` and `LoadMapping` are
`load_mapping`'s loop and end, `Build` and `Refused` are `ByteMap::build`, `Accepted` and `FromBytes`
are `from_bytes`, and `ToText` is `to_text`. `Train`, `RankToBytes` and `RankFromBytes` are the same
for a ranking, and `ClientLoad` is the client's own reader of it. A file is its envelope (magic,
version and reserved bytes: `sound`, `foreign` or `reserved`), its kind, the size in its header and
its payload. `Damage` changes a cell, the length or a field of the header of the file before a
backend reads it. A document grows token by token and is cut once into two values. A byte stands for
its class in UTF-8: the opening of a character with 0, 1 or 2 continuation bytes to follow, a
continuation byte, or a byte no text has. Which code points three or four bytes may spell is left
out: `from_utf8` reports those as wrong bytes, and so does the class that occurs in no text.

### Exchange

Databases with a catalog (`rows`), domains with packed typmods (`domain`), files (`ranking`,
`mapping`) and one table of one column and one value each. `Pack` and `Unpack` are the arithmetic of
`typmod.rs`; `TypmodIn` and `TypmodOut` need the catalog's rows. `CreateVocabulary`, `Train`,
`LoadMapping`, `CreateTable`, `Insert` and `Delete` build a database; `CopyText` and `CopyBinary`
carry a value from one into the other. `Info` is `vocabulary_info`, in which a digest stands for the
bytes it is of. `origin` remembers the ids a value was written with and whether it has only been
moved `safe`ly: as text, in a dump, or as bytes between columns whose `Info` was the same at the
time.

`Dump`, `RestoreSchema` and `RestoreData` are pg_dump and the replay of its output, which are
external. What is taken from the repository is what a dump holds (`pg_extension_config_dump`, the
typmods as `tokens_typmod_out` renders them, the values as text). What is taken from PostgreSQL is
the order: domains and tables come before the rows of any table, the catalog's among them; a
statement that raises is skipped, and a restore can be run again.

Creation here is one step under any id nobody has used, once in each database; how the id is found
is Vocabulary's. Values here are typed and well formed, since TokensType has all ways into a column.

## 3. What the runs check

| Run | Properties | What is in it |
|---|---|---|
| `mapping_safety` | TypeOK, NeverShort, CacheCoherent, TempIsOurs, AckedIsStored, OneMappingServed, WriteOnce, ImplementsWriteOnce | 2 backends, 2 directories and unset, 2 mappings, one move, one fault, one loss of power; 988,000 states up to symmetry |
| `mapping_live` | EventuallyLoaded | one move, one fault, one loss of power, one stamp, so that a stale temporary does collide |
| `mapping_repoint` | SessionsAgree (violated) | README.md:191-192 of the repository: two sessions do disagree between a SIGHUP's arrival at the one and at the other |
| `ranking_safety` | TypeOK, RankingStays, NoReaderDies, FileIsFinal | 2 trainers who also read, 2 directories, 3 rankings of two sizes, one move, fault and loss; 1.5 million states |
| `vocabulary_safety` | TypeOK, OrphansStayOrphans, ReservedWhileInstalled | 2 creators who also load, read and drop, both kinds of files, 2 vocabularies, 2 rollbacks, crashes or drops of the extension, a move to unset, a removed file; 786,000 states up to symmetry |
| `vocabulary_race` | AnswersAreOwn (violated) | 2 creators, one rollback: the orphan check is stale when the INSERT stops waiting |
| `vocabulary_databases` | AnswersAreOwn (violated) | 2 databases, no faults |
| `tokens_paths` | TypeOK, ColumnUniform, Lossless, VocabularyKept, CheckedDumpRestores, UnresolvedRepairable, EqualityIsById | 2 columns, vocabularies of raw8, raw16 and freq, 11 texts, 5 arrays, 9 client values; 78,000 states up to symmetry |
| `codec_bytes` | TypeOK, RoundTrip, Canonical, LengthGuarded, CountHonest, ClientFollows | lists of up to 3 of 10 ids, 4 codecs, a vocabulary and none; 155,000 states |
| `detok_bytes` | TypeOK, ArtefactIsKept, NeverOutOfRange, WholeCharacters, ChunkBoundaries, RankingAgrees | up to 3 rows over 3 ids, 2 corpora under 3 caps, one damage, documents of up to 3 tokens; 1.1 million states |
| `exchange_safety` | TypeOK, TypmodsNameRows, DigestsSuffice, SafeKeepsIds, SecondRestoreWorks | 2 databases, 2 ids, 2 names, a raw and a freq declaration, 2 rankings, 3 mappings, 2 lists, one dump restored up to twice; 455,000 states up to symmetry |
| `exchange_restore` | DumpRestores (violated) | the same instance: a dump's domains come before the catalog rows they need |

**Bounds and why they suffice.** Two backends are the smallest race, and every race in this code
is between two calls on one path: the steps of a third are the second's again. Two directories and
`NoDir` are needed for a path to be left and come back to; the temporaries, links and caches of
different paths do not touch, so one id per directory is enough for the file runs, and the proofs
hold for any number. Two mappings tell the winner's from the loser's. One fault, one move and one
loss each place a failure at every step, in every order with the others. Rankings come in two sizes,
because a file written over by a shorter one is torn and by one of its own size is not. Two
vocabularies are one whose creation fails and one that takes its id.

The modules of data are scaled. In `TokensType` a byte holds 0..1, two 0..3, three 0..7, an i32 ends
at 15 and a u32 at 31, so that the lists have ids on both sides of each limit, a client's freq value
holds an id that `int[]` turns negative, and `id + K` does overflow; sizes 2 and 3 sit just at and
just past the width limit. The columns are alike and permuted; vocabularies are numbers and are
not. The texts are of every kind `parse_ids` tells apart, with one for each way
it refuses. In `ValueCodec` a byte is 4 bits and a control byte holds
as many two-bit codes as fit, 2; lists go up to 3, so that a last control byte is full, or not, and
follows another; the ids are on both sides of each power of the base, as ids and as the integers
that K = 3 makes of them. Counts go to 4, one above the longest list, and damage writes 0, 1 and
all ones. In `Detok` a byte and a u32 hold 0..4, so that three rows do exceed the largest blob, and
three tokens of two bytes open, continue and end a character in different tokens; a header's size
ranges over all cells, so it is too small, too large and wrapped. In `Exchange` two databases, ids
and names let vocabularies share an id, a name, both or neither; two rankings of one length differ in
their digest only, and so do two mappings of one size. A database creates one vocabulary of its own
and gets a second by a restore, which is where catalogs clash.

**Deadlock** is checked in every run. No state is without a step: idle backends reconnect, a value
is made or deleted, a column is emptied.

**Fairness** (`MappingFile!FairSpec`, for `mapping_live` only). Weak fairness of `Advance(b)`: a
statement under way runs on. Of `TakeUp(b)`: an idle backend acts on a signal. Of `Load(b)`: a client
whose vocabulary has no mapping tries again; `registry.rs:216-219` calls the state a failure leaves
one that "load_mapping can simply be run again from". None for faults, moves, reads or reconnects.
The property asks for a mapping only once the administrator has settled on a directory.

**What does not hold, and where the code is at odds with its words.** The four violation runs have
each a finding in PROJECT.json. The properties of the passing runs name further limits among their
hypotheses, and are false without them:

- Two trains that pass `write_table`'s check together: the later ranking replaces the earlier
  (`raced` in `RankingStays` and `NoReaderDies`). The comment at registry.rs:182-184 concedes it.
- A loss of power. A ranking is never flushed (`losses = 0` in `RankingStays`); a mapping is, but its
  directory is not, so its entry may go and a second load may differ (`losses = 0` in
  `OneMappingServed`, the exception in `WriteOnce`).
- A moved directory. `existing_artefact` sees no orphan while the directory is unset, gives the id
  out, and the directory comes back (`moves = 0` in `OrphansStayOrphans`).
- "Reserved forever" (README.md:171 of the repository) ends with a `DROP` of the extension. From then
  on ids and names are given again, as vocabulary.rs:271-277 says, and all that keeps an id back is a
  file under it: `ReservedWhileInstalled`, with `moves = 0` and `removals = 0` for that last part.
- An orphan removed by hand lives on in a backend's cache (`removals = 0` there).
- A header names its vocabulary by id alone. A binary COPY between databases whose vocabularies share
  an id and differ in anything else changes ids or texts (`safe` in `SafeKeepsIds`), and nobody is
  told; `DigestsSuffice` is the comparison that vocabulary.rs:389-391 offers.
- A dump's domains are created before the catalog's rows are there (`DumpRestores`, violated). Run
  again, the restore succeeds for raw vocabularies; a freq value needs its ranking file as well,
  which no dump has (`CatalogRestored` asks for a raw one).
- A value whose character is cut at its end has a text, the one after it has none. detok.rs:58-59
  speaks of the first only; `ChunkBoundaries` says both.
- The client's header check looks at less than `Header::parse`, although pgtoken_client.py:153 says
  it "validates like the extension does"; `ClientFollows` is about values the extension decodes. Its
  `RankTable.load` looks at less than `from_bytes` too (`RankingAgrees` is about accepted files).
- Ids nobody checked. A binary COPY stores an id outside its vocabulary, whose text dump is then
  refused; `CheckedDumpRestores` is about checked ids, tokens.rs:3-5 says it of all.
- Freq values nobody here encoded. A client may frame integers that `encode` would never write; they
  decode, and compare unequal to what the same ids encode to. `Canonical` is about values written by
  `encode` or by the client library, `EqualityIsById` about values whose ids were checked.
- An id too large to be shifted. The extension refuses it; the client wraps and writes another id
  (`RankFits` in `Writable`).
- A ranking of nothing. `train` with `max_ranks` 0 writes one and `from_bytes` accepts it. The
  extension packs every id shifted by 0; the client's lookup in it raises, and `Canonical` says that it
  writes no id there. It reads what the extension wrote.
- A freq value of count 0 decodes to the empty list whatever its payload (`LengthGuarded` says so).

## 4. What is proved

All from the constants' named assumptions, for any number of backends, directories, ids, columns,
values, faults and losses.

**MappingFileProofs.** The invariants are not inductive one by one. That a file at the final name
is whole rests on what its call had linked, so on the temporary being that call's own (`TempIsOurs`)
and flushed before the link (`SyncedAtLink`), which rest on the shape of a call in progress
(`OpShape`); `AckedIsStored` rests on the call that won finding its own mapping (`WonIsStored`).
The inductive invariant is

    IInv == TypeOK /\ OpShape /\ TempIsOurs /\ SyncedAtLink /\ NeverShort
            /\ WonIsStored /\ CacheCoherent /\ AckedIsStored

`StepInv` has one lemma per action. From it: `TypeCorrect`, `NeverShortHolds`, `TempIsOursHolds`,
`CacheCoherentHolds`, `AckedIsStoredHolds`, and `WriteOnceHolds`, an action property.
`OneMappingServedHolds` needs one more invariant, `ServedIsStored` (every answer came from the file
that is still there); that no directory moved and no power was lost are hypotheses inside the
property, as it is false without them. `Refinement` shows with no such hypothesis that each step is
a `Put`, a `Learn`, a `Forget`, a `Lose` or a stutter of `WriteOnceStore`, and `ReadersAgreeHolds`
that no two backends remember two mappings for one path.

**OperatorProofs** is about the operators of `RankTable`, `TokenValue` and `TokenText`, for all
arguments, and holds the general lemmas the other modules cite: induction and a least element for
sets of naturals, the places of a finite ordered set. `RankSeparates`: a packed integer is below K
exactly for ranked tokens. From it `RankRoundTrip` (every accepted id is read back), `RankInjective`,
and `TokenRoundTrip` for the integers that `rank` can return. `TrainTableSorted` and
`TrainTableIsTable`: training ranks each token at most once, by count and then by id, whatever the corpus
and the cap. `ParseAccepts`: a text that is accepted is, but for its blanks, how `render_ids` writes the list it
stands for; `RenderParses`: what is rendered is read back.

**RankingFileProofs.** Rankings are written in place, so less holds than for mappings, and only of
paths where no two trains raced. The inductive invariant is

    IInv == TypeOK /\ OpShape /\ OneWriter /\ WriterSees /\ ReaderSees

An unraced path has at most one writer; that writer sees no file until it opens it and an empty file
until it has written; and no reader has mapped a file that is absent or empty. `OneWriter` needs
`WriterSees`, as the check that lets a second train pass finds a file only then. From it `TypeCorrect`,
`NoReaderDiesHolds`, and `FileIsFinalHolds`, an action property. `RankingStaysHolds` adds that, while
no power is lost, what a backend has cached is what the file holds (`CacheSees`), and that without a
move every backend looks at one directory (`SettingStays`). It rests on `ContentAssumption`: no
file, a broken file and a ranking are different things.

**VocabularyProofs.** `ReservedWhileInstalledHolds`: whatever databases, sessions, interleavings, aborts
and crashes, a committed vocabulary keeps its row, and nobody else has its id or its name, until the
extension is dropped; after that its id is not given again while a file it ordered is left in a
directory nobody disturbs. For the first part the invariant is over the committed rows of a database
together with those of its open transactions (`AllRows`): the unique indexes keep a new row apart
from the first, the wait for other transactions from the second, a commit moves rows from one to the
other, and only a drop of the extension takes any away (`Shape`). For the second it says that a call
about to insert an id, and a row that has one, find no file of a lost vocabulary there
(`LostAreGone`): the call has looked (`FilesAtHome`, `DirsAgree`), and every file written since is of
a vocabulary that is not lost (`IncsApart`). It needs that no file is no vocabulary's
(`AbsentAssumption`). `TypeCorrect` needs that the calls under way still have a creation each to
spend (`Budget`), and so that there are finitely many backends (`BackendsAssumption`, PostgreSQL's
`max_connections`). `OrphansStayOrphansHolds` rests on what lies between the artefact check and the
INSERT: as long as nobody has moved the directory or removed a file, every backend runs with the same
directory (`DirsAgree`), a cache holds what its file holds (`CachesAgree`), a file under the id of a
row, committed or not, is that row's own (`FilesAreOwn`), and a call about to insert has no file under
its id (`FreshAtInsert`), each unless the path was raced. It is stated for one database: with two,
`AnswersAreOwn` is violated in the run `vocabulary_databases`, and so would this be.

**TokensTypeProofs.** All seven properties of the run, for all statements, texts, arrays and client
values. The invariant says of every stored value that it is well-formed and, once its ids have been
checked, that it is exactly what encoding those ids yields for the vocabulary it names or unresolved
(`CellsSound`); that a trained ranking is a table with no more ranks than there are int4 ids (`Tables`);
and `ColumnUniform` and `VocabularyKept`. `TypeCorrect`, `LosslessHolds`,
`CheckedDumpRestoresHolds`, `UnresolvedRepairableHolds` and `EqualityIsByIdHolds` follow from it with
`RankRoundTrip` and `RenderParses`. Under each action lies what its path returns: `TextSound`, `ArraySound`,
`CastSound` and `ClientSound` for soundness, `CoerceKeeps` for the vocabulary, `EncodedStays` for a
training that comes after the value. That `Lossless` holds for any ids rests on the widths being
ordered (`WidthsAssumption`) and on the kinds of the inputs (`ListsAssumption`).

**ExchangeProofs.** All five properties of `exchange_safety`, for any databases, names, ids, rankings and
mappings. The invariant has two layers. `IInv == CatalogInv /\ TableInv /\ DumpInv`: every domain's
typmod packs the row of its name, every stored value is uniform with its column, and a dump holds rows
that satisfy the catalog's constraints. `UnpackPack` shows that the three fields of a typmod come back
from its 32 bits; it needs the ids to be the 16-bit numbers without 0 that the catalog admits
(`ExchangeAssumption`). `InfosDecide` shows that databases whose `vocabulary_info` agrees have the same
table, the same mapping and the same packing, hence take each other's values: `TypmodsNameRowsHolds`,
`DigestsSufficeHolds`. Over it, `ValuesKept` is the invariance of `DInv`: a ranking file is a table
(`FilesInv`); a stored value whose history is safe is what its vocabulary packs its ids as
(`ValuesInv`); the text of a dump parses to those ids, and the dumped value is what its row packs them
as where no ranking is needed (`DumpTextInv`); and how far a restore has come (`RestoreInv`). From it
`TypeCorrect`, `SafeKeepsIdsHolds` and `SecondRestoreWorksHolds`.

The proof of `SecondRestoreWorks` found that it needs the value dumped to have been moved safely. With
three databases it fails without that: a list that fits the larger of two vocabularies of one id is
copied as bytes to the smaller, dumped from there, and its text is refused by the restore, twice. The
run has two databases and could not show it. The property now says so.

**DetokProofs.** All six properties of `detok_bytes`, for every vocabulary size, all entries, corpora and
caps. The invariant is

    FInv == TypeOK /\ Written /\ TableFromFile /\ MapFromFile

An undamaged file is the image of rows that `build` took, or of the ranking trained; what a backend
holds was parsed from the file as it is. `RankingAgreesHolds`: whatever damage a ranking file has
suffered, one the extension accepts ranks no token twice and is read alike by the client.
`NeverOutOfRangeHolds`: whatever damage a mapping has suffered, no accepted one leads outside its blob,
which follows along the offsets from each not exceeding the next. `ArtefactIsKeptHolds`: the bytes of
each id come back as they were given, since the offsets are the lengths of the joined pieces.
`WholeCharactersHolds` and `ChunkBoundariesHolds` are about `from_utf8` over any bytes and any cut,
damaged mappings included: `WholeTo` says of the bytes up to a position that they are whole
characters, by position and without recursion, `FromUtf8Splits` that the decoder stops exactly where
that ends.

**ValueCodecProofs.** All six properties of `codec_bytes`, for any number of codes in a control byte,
any ranking, lists of any length and any payload. The invariant is that an undamaged value is `Written`:
its length is what its count implies and, where every id of the list it was made from has a rank, it
is `Standard`, the one value of that list under its codec and vocabulary. Three results carry it.
`WritersAgree`: the extension and the client both write the standard value, although the one looks
for the least sufficient length and the other counts comparisons, the one checks its addition and
the other wraps. `StandardReads`: both read it as the list, since digits give their number again
(`OfDigitsOf`, `DigitOf`), the codes of the control bytes are found where they were put (`ControlReads`)
and each integer begins at the sum of the lengths before it (`StartIsUpto`). `Follows`: of any value,
damaged or framed by hand, what the extension decodes is what the client decodes, because no integer
of a complete payload reaches into the client's zeros (`WithinData`). `LengthGuardedHolds` adds that a
payload is complete for one count and one length at most: cutting it leaves the control bytes and so
the lengths they give (`NotResized`), and fewer integers take strictly fewer bytes (`FewerAreShorter`).

The proof of `Canonical` found the ranking of nothing (section 3), which the run's ranking of three
tokens could not show.

**How sequences and recursion are proved about.** The library's induction theorems take an operator as
a parameter, which the provers at hand cannot instantiate. `NatSetInduction` says the same of a set of
naturals, and follows from `Least`, the existence of a least element. A function given by recursion
on numbers is a CHOOSE; it can be unfolded once some function satisfies its equation, and that is an
induction on how far it goes (`JoinsExist` for `FlattenSeq`, `States` for `from_utf8`, `RunExists` for
powers, sums and digits).

**Assumptions.** They are the named ones of the modules that declare the constants, and say what the
code guarantees of its inputs: ids and caps are naturals, ids read from int4 columns are at most
`i32::MAX`, a training's corpus is not empty, the widths are ordered, a placeholder (`Nothing`,
`Absent`, `NoDir`, `None`) is none of the values it stands beside.

**Only model-checked**: `EventuallyLoaded`, as liveness is beyond the prover.

## 5. Plan

Order: what loses data first, then what misreads it, then what is arithmetic.

1. Done, models: TableDir; MappingFile with its abstract store; RankingFile; Vocabulary; RankTable;
   TokenValue, TokensType and Exchange over it; ValueCodec with the client and `describe`; Detok
   with the bytes of mapping and ranking files.
2. Done, proofs: those of section 4.
3. Next, proofs: a refinement of RankingFile to `WriteOnceStore` while nothing races or fails.
4. Considered and left: a composition of Vocabulary and MappingFile. What it would add, a create
   that falls between a load's check and its link, is in Vocabulary already as `raced`.
5. Not planned: detokenization quality, benchmark scripts, CI, performance claims.

## 6. Running it

    tlc -config MappingFile_safety.cfg MCMappingFile      # likewise for the other .cfg files
    tlapm MappingFileProofs.tla                           # and the other modules named *Proofs

A `.cfg` is named after the module it configures; the `MC` module of that name gives its constants.
The operators called mutants in the modules are altered forms of the definition right after them: each
names a slip the code could have made, and substituting it makes the property that PROJECT.json
pairs it with fail.
