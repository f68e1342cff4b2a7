------------------------------ MODULE Vocabulary ------------------------------
(***************************************************************************)
(* The vocabulary catalog (ext/src/vocabulary.rs): create_vocabulary,      *)
(* next_free_id, drop_vocabulary and the artefact check they lean on, run  *)
(* in READ COMMITTED transactions by concurrent sessions of several        *)
(* databases.  Each database has a catalog of its own; the artefact        *)
(* directory is one for the cluster.  The rows are transactional, the      *)
(* artefact files are not.                                                 *)
(*                                                                         *)
(* An artefact is known by the vocabulary that ordered it: every           *)
(* vocabulary ever inserted has an incarnation number of its own.  How a   *)
(* file is written is MappingFile's and RankingFile's concern; here it     *)
(* appears in one step.                                                    *)
(***************************************************************************)
EXTENDS TableDir, FiniteSets, FiniteSetsExt

CONSTANTS
  Databases,     \* the databases that have the extension
  DbOf,          \* DbOf[b]: the database backend b is connected to
  Creators,      \* the backends that call create_vocabulary
  Names,         \* vocabulary names
  Kinds,         \* the kinds of artefact: <id>.tntt and <id>.tnmap
  Absent,        \* no file, no cache entry
  MaxCreates,    \* bound on vocabularies inserted
  MaxUndos,      \* bound on aborts, crashes and drops of the extension
  MaxRemovals    \* bound on artefact files removed by hand

ASSUME IdsAssumption == Ids \subseteq Nat \ {0} /\ IsFiniteSet(Ids)
ASSUME DbAssumption == DbOf \in [Backends -> Databases] /\ Creators \subseteq Backends
\* max_connections
ASSUME BackendsAssumption == IsFiniteSet(Backends)
\* A file that is not there is no vocabulary's.
ASSUME AbsentAssumption == Absent \notin Nat
ASSUME VocabularyBounds == MaxCreates \in Nat /\ MaxUndos \in Nat /\ MaxRemovals \in Nat

VARIABLES
  catalog,    \* catalog[db]: the committed rows of pgtoken.vocabulary
  domains,    \* domains[db]: the names with a committed domain in schema tokens
  tx,         \* tx[b]: what backend b's open transaction has done
  op,         \* op[b]: how far backend b's create_vocabulary has come
  artefact,   \* artefact[p][k]: the incarnation that ordered that file, or Absent
  cache,      \* CACHE and MAP_CACHE of each backend
  ever,       \* history: every row ever committed, per database
  lost,       \* history: those of them that went with a drop of the extension
  raced,      \* history: the paths written behind a create_vocabulary that had checked them
  born, undos, removals

history == <<ever, lost, raced>>
counters == <<born, undos, removals>>
vars == <<dirVars, catalog, domains, tx, op, artefact, cache, history, counters>>

Incarnations == 1..MaxCreates
Row == [id : Ids, name : Names, inc : Incarnations]

\* A transaction that has done nothing, and a backend that is between statements.
NoTx == [rows |-> {}, made |-> {}, gone |-> {}]
NoOp == [step |-> "idle", name |-> Absent, id |-> 0, start |-> 0, auto |-> FALSE]

NoArtefacts == [p \in Paths |-> [k \in Kinds |-> Absent]]

Artefacts == [Paths -> [Kinds -> Incarnations \cup {Absent}]]

TypeOK ==
  /\ DirTypeOK
  /\ catalog \in [Databases -> SUBSET Row]
  /\ domains \in [Databases -> SUBSET Names]
  /\ tx \in [Backends -> [rows : SUBSET Row, made : SUBSET Names, gone : SUBSET Names]]
  /\ op \in [Backends -> [step : {"idle", "choose", "insert"}, name : Names \cup {Absent},
                          id : Ids \cup {0}, start : Nat, auto : BOOLEAN]]
  /\ artefact \in Artefacts
  /\ cache \in [Backends -> Artefacts]
  /\ ever \in [Databases -> SUBSET Row]
  /\ lost \in [Databases -> SUBSET Row]
  /\ raced \subseteq Paths
  /\ born \in 0..MaxCreates
  /\ undos \in 0..MaxUndos
  /\ removals \in 0..MaxRemovals

Init ==
  /\ DirInit
  /\ catalog = [db \in Databases |-> {}]
  /\ domains = [db \in Databases |-> {}]
  /\ tx = [b \in Backends |-> NoTx]
  /\ op = [b \in Backends |-> NoOp]
  /\ artefact = NoArtefacts
  /\ cache = [b \in Backends |-> NoArtefacts]
  /\ ever = [db \in Databases |-> {}]
  /\ lost = [db \in Databases |-> {}]
  /\ raced = {}
  /\ born = 0 /\ undos = 0 /\ removals = 0

Idle(b) == op[b].step = "idle"

\* What a statement of backend b reads: the committed rows and those of its transaction.
VisibleRows(b) == catalog[DbOf[b]] \cup tx[b].rows

\* domain_exists
VisibleDomains(b) == (domains[DbOf[b]] \cup tx[b].made) \ tx[b].gone

\* Mutant of ExistingArtefact: an id counts as taken only when all its files are there.
AllArtefactsExist(b, id) ==
  HasDir(b) /\ \A k \in Kinds : artefact[PathFor(b, id)][k] # Absent

\* existing_artefact: any artefact file for id in the directory b runs with; none is seen
\* while the setting is unset.
ExistingArtefact(b, id) ==
  HasDir(b) /\ \E k \in Kinds : artefact[PathFor(b, id)][k] # Absent

Peers(b) == {c \in Backends \ {b} : DbOf[c] = DbOf[b]}

Rows(b) == tx[b].rows

-----------------------------------------------------------------------------
(* create_vocabulary: the name lookup and max(id) read the statement's      *)
(* snapshot, the artefact check reads the directory when it gets there, the *)
(* INSERT meets the unique indexes last.                                    *)

Create(b, n, want) ==
  /\ Idle(b)
  /\ born + Cardinality({c \in Backends : ~Idle(c)}) < MaxCreates
  /\ \A r \in VisibleRows(b) : r.name # n
  /\ op' = [op EXCEPT ![b] =
              [step |-> "choose", name |-> n, id |-> want, auto |-> want = 0,
               start |-> Max({0} \cup {r.id : r \in VisibleRows(b)}) + 1]]
  /\ UNCHANGED <<dirVars, catalog, domains, tx, artefact, cache, history, counters>>

\* An explicit id whose artefact files are not there yet.
TakeWanted(b) ==
  /\ op[b].step = "choose" /\ ~op[b].auto
  /\ ~ExistingArtefact(b, op[b].id)
  /\ op' = [op EXCEPT ![b].step = "insert"]
  /\ UNCHANGED <<dirVars, catalog, domains, tx, artefact, cache, history, counters>>

\* Mutant of FreeIds: the loop runs one past the last id.
FreeIdsPastEnd(b) == {i \in Ids \cup {Max(Ids) + 1} : i >= op[b].start /\ ~(i \in Ids /\ ExistingArtefact(b, i))}

\* next_free_id: the first id from max(id) + 1 on that has no artefact file.
FreeIds(b) == {i \in Ids : i >= op[b].start /\ ~ExistingArtefact(b, i)}

TakeNextFree(b) ==
  /\ op[b].step = "choose" /\ op[b].auto
  /\ FreeIds(b) # {}
  /\ op' = [op EXCEPT ![b] = [@ EXCEPT !.step = "insert", !.id = Min(FreeIds(b))]]
  /\ UNCHANGED <<dirVars, catalog, domains, tx, artefact, cache, history, counters>>

\* Mutant of Clash: only the primary key is unique.
ClashById(r, b) == r.id = op[b].id

\* The unique indexes, on the id and on the name.
Clash(r, b) == r.id = op[b].id \/ r.name = op[b].name

\* An open transaction of another backend holds the id or the name b wants to insert.
Waits(b) == \E c \in Peers(b) : \E r \in Rows(c) : Clash(r, b)

\* The INSERT waits for any open transaction that holds its id or name, fails if either is
\* committed, and is followed by the domain in the same transaction.
Insert(b) ==
  /\ op[b].step = "insert"
  /\ ~Waits(b)
  /\ \A r \in VisibleRows(b) : ~Clash(r, b)
  /\ born' = born + 1
  /\ LET row == [id |-> op[b].id, name |-> op[b].name, inc |-> born + 1] IN
     tx' = [tx EXCEPT ![b] =
              [rows |-> @.rows \cup {row}, made |-> @.made \cup {row.name}, gone |-> @.gone]]
  /\ op' = [op EXCEPT ![b] = NoOp]
  /\ UNCHANGED <<dirVars, catalog, domains, artefact, cache, history, undos, removals>>

\* drop_vocabulary: the domain goes, the row stays.
Drop(b, n) ==
  /\ Idle(b)
  /\ \E r \in VisibleRows(b) : r.name = n
  /\ n \in VisibleDomains(b)
  /\ \A c \in Peers(b) : n \notin tx[c].gone
  /\ tx' = [tx EXCEPT ![b].gone = @ \cup {n}]
  /\ UNCHANGED <<dirVars, catalog, domains, op, artefact, cache, history, counters>>

-----------------------------------------------------------------------------
(* Transactions, artefacts and readers.                                     *)

\* The rows, the domains made and the domains dropped become everybody's.
Commit(b) ==
  LET db == DbOf[b] IN
  /\ Idle(b)
  /\ tx[b] # NoTx
  /\ catalog' = [catalog EXCEPT ![db] = @ \cup Rows(b)]
  /\ ever' = [ever EXCEPT ![db] = @ \cup Rows(b)]
  /\ domains' = [domains EXCEPT ![db] = (@ \cup tx[b].made) \ tx[b].gone]
  /\ tx' = [tx EXCEPT ![b] = NoTx]
  /\ UNCHANGED <<dirVars, op, artefact, cache, lost, raced, counters>>

\* The transaction is undone.  Files it had written stay.
Rollback(b) ==
  /\ tx' = [tx EXCEPT ![b] = NoTx]
  /\ op' = [op EXCEPT ![b] = NoOp]
  /\ UNCHANGED <<dirVars, catalog, domains, artefact, cache, history, born, removals>>

\* create_vocabulary fails: the wanted id has an artefact file, no id is free, the row
\* violates a unique index, or the wait for another transaction is a deadlock or is
\* cancelled.
Refuse(b) ==
  /\ \/ op[b].step = "choose" /\ ~op[b].auto /\ ExistingArtefact(b, op[b].id)
     \/ op[b].step = "choose" /\ op[b].auto /\ FreeIds(b) = {}
     \/ op[b].step = "insert" /\ \E r \in VisibleRows(b) : Clash(r, b)
     \/ op[b].step = "insert" /\ Waits(b)
  /\ Rollback(b)
  /\ UNCHANGED undos

Undo == undos < MaxUndos /\ undos' = undos + 1

\* ROLLBACK, or an error of any statement that changed nothing else.
Abort(b) ==
  /\ Undo
  /\ tx[b] # NoTx \/ ~Idle(b)
  /\ Rollback(b)

\* A create_vocabulary is past its check of p and has not inserted its row.
Checked(p) == \E c \in Creators : op[c].step = "insert" /\ PathFor(c, op[c].id) = p

\* train or load_mapping, to the end: it resolves the name, refuses an existing file and
\* writes its own, outside the transaction.
Load(b, n, k) ==
  /\ Idle(b)
  /\ HasDir(b)
  /\ \E r \in VisibleRows(b) :
       /\ r.name = n
       /\ artefact[PathFor(b, r.id)][k] = Absent
       /\ artefact' = [artefact EXCEPT ![PathFor(b, r.id)][k] = r.inc]
       /\ raced' = IF Checked(PathFor(b, r.id)) THEN raced \cup {PathFor(b, r.id)} ELSE raced
  /\ UNCHANGED <<dirVars, catalog, domains, tx, op, cache, ever, lost, counters>>

\* rank_table or byte_map, on a value of a vocabulary b can see, not yet cached.
Read(b, id, k) ==
  /\ Idle(b)
  /\ HasDir(b)
  /\ \E r \in VisibleRows(b) : r.id = id
  /\ cache[b][PathFor(b, id)][k] = Absent
  /\ artefact[PathFor(b, id)][k] # Absent
  /\ cache' = [cache EXCEPT ![b][PathFor(b, id)][k] = artefact[PathFor(b, id)][k]]
  /\ UNCHANGED <<dirVars, catalog, domains, tx, op, artefact, history, counters>>

\* DROP EXTENSION ... CASCADE and CREATE EXTENSION: the catalog starts over.
DropExtension(db) ==
  /\ Undo
  /\ catalog[db] # {}
  /\ \A b \in Backends : DbOf[b] = db => tx[b] = NoTx /\ Idle(b)
  /\ catalog' = [catalog EXCEPT ![db] = {}]
  /\ lost' = [lost EXCEPT ![db] = @ \cup catalog[db]]
  /\ domains' = [domains EXCEPT ![db] = {}]
  /\ UNCHANGED <<dirVars, tx, op, artefact, cache, ever, raced, born, removals>>

\* What the error of create_vocabulary advises: "remove the file if nothing references it".
RemoveOrphan(p) ==
  /\ removals < MaxRemovals
  /\ removals' = removals + 1
  /\ \E k \in Kinds : artefact[p][k] # Absent
  /\ \A db \in Databases : \A r \in catalog[db] : r.id # p[2]
  /\ \A b \in Backends : \A r \in Rows(b) : r.id # p[2]
  /\ artefact' = [artefact EXCEPT ![p] = [k \in Kinds |-> Absent]]
  /\ UNCHANGED <<dirVars, catalog, domains, tx, op, cache, history, born, undos>>

Reconnect(b) ==
  /\ Idle(b) /\ tx[b] = NoTx
  /\ cache' = [cache EXCEPT ![b] = NoArtefacts]
  /\ dirOf' = [dirOf EXCEPT ![b] = conf]
  /\ UNCHANGED <<conf, moves, catalog, domains, tx, op, artefact, history, counters>>

\* Every transaction is undone and every backend starts afresh; the files stay.
Crash ==
  /\ Undo
  /\ tx' = [b \in Backends |-> NoTx]
  /\ op' = [b \in Backends |-> NoOp]
  /\ cache' = [b \in Backends |-> NoArtefacts]
  /\ ReloadAll
  /\ UNCHANGED <<catalog, domains, artefact, history, born, removals>>

Move == EditConf /\ UNCHANGED <<catalog, domains, tx, op, artefact, cache, history, counters>>

TakeUp(b) ==
  /\ Idle(b)
  /\ Reload(b)
  /\ UNCHANGED <<catalog, domains, tx, op, artefact, cache, history, counters>>

CreateStep(b) ==
  \/ \E n \in Names, want \in Ids \cup {0} : Create(b, n, want)
  \/ TakeWanted(b)
  \/ TakeNextFree(b)
  \/ Insert(b)
  \/ Refuse(b)

Next ==
  \/ \E b \in Creators : CreateStep(b)
  \/ \E b \in Backends :
       \/ \E n \in Names : Drop(b, n) \/ \E k \in Kinds : Load(b, n, k)
       \/ \E id \in Ids, k \in Kinds : Read(b, id, k)
       \/ Commit(b) \/ Abort(b) \/ Reconnect(b) \/ TakeUp(b)
  \/ \E db \in Databases : DropExtension(db)
  \/ \E p \in Paths : RemoveOrphan(p)
  \/ Move
  \/ Crash

Spec == Init /\ [][Next]_vars

-----------------------------------------------------------------------------
(* Properties.                                                              *)

\* What a reader in backend b gets for vocabulary id: the cached artefact, or the file's.
Answer(b, id, k) ==
  LET p == PathFor(b, id) IN
  IF ~HasDir(b) THEN Absent ELSE IF cache[b][p][k] # Absent THEN cache[b][p][k] ELSE artefact[p][k]

\* registry.rs:30-35 and vocabulary.rs:271-282: no vocabulary adopts an artefact it never
\* ordered.  Whatever a backend reads for a vocabulary it can see, that vocabulary loaded.
AnswersAreOwn ==
  \A b \in Backends, k \in Kinds : \A r \in VisibleRows(b) :
    Answer(b, r.id, k) \in {Absent, r.inc}

\* The same within its limits: one database, a directory that stays, files nobody removes,
\* and no file written behind a create_vocabulary that had already looked for it.
OrphansStayOrphans ==
  moves = 0 /\ removals = 0 =>
    \A b \in Backends, k \in Kinds : \A r \in VisibleRows(b) :
      PathFor(b, r.id) \notin raced => Answer(b, r.id, k) \in {Absent, r.inc}

\* README, "a vocabulary's name and id are reserved forever, even after its domain is dropped",
\* and vocabulary.rs:303-304, which is until the extension is dropped: while it is installed a
\* committed vocabulary keeps its row, and no other vocabulary, committed or under way in any
\* transaction, has its id or its name.  After a DROP of the extension (vocabulary.rs:271-277)
\* an id can be given again, but none under which a file of its former vocabulary is left.
ReservedWhileInstalled ==
  \A db \in Databases :
    LET lasting == ever[db] \ lost[db]
        rows == lasting \cup UNION {Rows(b) : b \in {c \in Backends : DbOf[c] = db}} IN
    /\ lasting \subseteq catalog[db]
    /\ \A r, s \in rows : r.id = s.id \/ r.name = s.name => r = s
    /\ moves = 0 /\ removals = 0 =>
         \A former \in lost[db], r \in rows, p \in Paths, k \in Kinds :
           former.id = r.id /\ p[2] = r.id => artefact[p][k] # former.inc

=============================================================================
