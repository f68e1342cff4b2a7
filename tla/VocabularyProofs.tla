--------------------------- MODULE VocabularyProofs ---------------------------
(***************************************************************************)
(* Proofs about Vocabulary for every set of databases, backends, names and *)
(* ids and every bound: the catalog reserves a name and an id until the    *)
(* extension is dropped, through any interleaving of open transactions,    *)
(* and from then on an id whose files are left is not given again; every   *)
(* variable has its type; and with one database no vocabulary adopts       *)
(* another's artefact.                                                     *)
(***************************************************************************)
EXTENDS Vocabulary, FiniteSetTheorems, TLAPS

\* Every set of naturals has a least one.
LEMMA Lowest ==
  ASSUME NEW T, T \subseteq Nat, T # {}
  PROVE  \E m \in T : \A n \in T : m <= n
<1>1. PICK m \in T : \A n \in T : <<n, m>> \notin OpToRel(<, Nat)
  BY NatLessThanWellFounded, WFMin
<1>2. \A n \in T : ~(n < m)
  BY <1>1 DEF OpToRel
<1> QED
  BY <1>2

\* Sets of naturals with n + 1 elements, and those among them that have a greatest one.
SizedSets(n) == {T \in SUBSET Nat : IsFiniteSet(T) /\ Cardinality(T) = n + 1}

Bounded(T) == \E m \in T : \A n \in T : n <= m

\* Every finite set of naturals has a greatest one: the least size of a set without one is
\* neither 1 nor more.
LEMMA Highest ==
  ASSUME NEW S, S \subseteq Nat, S # {}, IsFiniteSet(S)
  PROVE  \E m \in S : \A n \in S : n <= m
<1> DEFINE Bad == {n \in Nat : \E T \in SizedSets(n) : ~Bounded(T)}
<1>1. Bad = {}
  <2> SUFFICES ASSUME Bad # {} PROVE FALSE
    OBVIOUS
  <2>1. PICK n \in Bad : \A m \in Bad : n <= m
    BY Lowest
  <2>2. PICK T \in SizedSets(n) : ~Bounded(T)
    BY <2>1
  <2>3. T \subseteq Nat /\ IsFiniteSet(T) /\ Cardinality(T) = n + 1 /\ n \in Nat
    BY <2>1 DEF SizedSets
  <2>4. T # {}
    <3>1. Cardinality({}) = 0
      BY FS_EmptySet
    <3> QED
      BY <2>3, <3>1
  <2>5. PICK x \in T : IsFiniteSet(T \ {x}) /\ Cardinality(T \ {x}) = n
    <3>1. PICK x \in T : TRUE
      BY <2>4
    <3>2. IsFiniteSet(T \ {x}) /\ Cardinality(T \ {x}) = Cardinality(T) - 1
      BY <2>3, <3>1, FS_RemoveElement
    <3>3. \A c \in Nat : c = n + 1 => c - 1 = n
      BY <2>3
    <3>4. Cardinality(T) \in Nat
      BY <2>3, FS_CardinalityType
    <3> QED
      BY <2>3, <3>1, <3>2, <3>3, <3>4
  <2>6. CASE n = 0
    <3>1. T \ {x} = {}
      BY <2>5, <2>6, FS_EmptySet
    <3> QED
      BY <2>2, <2>3, <2>5, <3>1 DEF Bounded
  <2>7. CASE n # 0
    <3>1. n - 1 \in Nat /\ n - 1 \notin Bad
      BY <2>1, <2>3, <2>7
    <3>2. T \ {x} \in SizedSets(n - 1)
      BY <2>3, <2>5 DEF SizedSets
    <3>3. Bounded(T \ {x})
      BY <3>1, <3>2
    <3>4. PICK m \in T \ {x} : \A y \in T \ {x} : y <= m
      BY <3>3 DEF Bounded
    <3>5. CASE x <= m
      BY <2>2, <3>4, <3>5 DEF Bounded
    <3>6. CASE ~(x <= m)
      <4>1. \A y \in T : y <= x
        BY <2>3, <2>5, <3>4, <3>6
      <4> QED
        BY <2>2, <2>5, <4>1 DEF Bounded
    <3> QED
      BY <3>5, <3>6
  <2> QED
    BY <2>6, <2>7
<1>2. Cardinality(S) \in Nat /\ Cardinality(S) # 0
  BY FS_CardinalityType, FS_EmptySet
<1>3. S \in SizedSets(Cardinality(S) - 1) /\ Cardinality(S) - 1 \in Nat
  BY <1>2 DEF SizedSets
<1> QED
  BY <1>1, <1>3 DEF Bounded

\* The rows of a database, committed or inserted by an open transaction.
AllRows(db) == catalog[db] \cup UNION {Rows(b) : b \in {c \in Backends : DbOf[c] = db}}

\* No two rows share an id or a name.
Distinct(rows) == \A r, s \in rows : r.id = s.id \/ r.name = s.name => r = s

\* Each backend has a transaction, with rows; each database has a catalog, which has every row
\* it ever had but those that went with the extension.
Shape ==
  /\ DOMAIN catalog = Databases /\ DOMAIN ever = Databases /\ DOMAIN lost = Databases
  /\ \A db \in Databases : ever[db] \subseteq catalog[db] \cup lost[db]
  /\ DOMAIN tx = Backends
  /\ \A b \in Backends : tx[b] = [rows |-> tx[b].rows, made |-> tx[b].made, gone |-> tx[b].gone]

RowsDistinct == \A db \in Databases : Distinct(AllRows(db))

IInv == Shape /\ RowsDistinct

\* A database with no more rows than it had has no two alike.
LEMMA FewerRows ==
  ASSUME RowsDistinct, \A db \in Databases : AllRows(db)' \subseteq AllRows(db)
  PROVE  RowsDistinct'
BY DEF RowsDistinct, Distinct

\* As long as neither the catalog nor what the transactions inserted grows.
LEMMA RowsShrink ==
  ASSUME \A db \in Databases : catalog'[db] \subseteq catalog[db],
         \A b \in Backends : Rows(b)' \subseteq Rows(b)
  PROVE  \A db \in Databases : AllRows(db)' \subseteq AllRows(db)
BY DEF AllRows

LEMMA NoNewRows ==
  ASSUME RowsDistinct,
         \A db \in Databases : catalog'[db] \subseteq catalog[db],
         \A b \in Backends : Rows(b)' \subseteq Rows(b)
  PROVE  RowsDistinct'
BY RowsShrink, FewerRows

LEMMA InitInv == Init => IInv
BY DEF Init, IInv, Shape, RowsDistinct, Distinct, AllRows, Rows, NoTx

\* vocabulary.rs:303-304: the unique indexes admit a row that clashes with none of the visible
\* ones, and the wait for the other transactions with none of theirs.
LEMMA StepInsert ==
  ASSUME IInv, NEW b \in Backends, Insert(b)
  PROVE  IInv'
<1> DEFINE row == [id |-> op[b].id, name |-> op[b].name, inc |-> born + 1]
<1>1. tx' = [tx EXCEPT ![b] =
               [rows |-> @.rows \cup {row}, made |-> @.made \cup {row.name}, gone |-> @.gone]]
  BY DEF Insert
<1>2. Shape'
  <2>1. DOMAIN tx' = Backends
    BY <1>1 DEF IInv, Shape
  <2>2. \A c \in Backends : tx'[c] = [rows |-> tx'[c].rows, made |-> tx'[c].made, gone |-> tx'[c].gone]
    BY <1>1 DEF IInv, Shape
  <2>3. catalog' = catalog /\ ever' = ever /\ lost' = lost
    BY DEF Insert, history
  <2> QED
    BY <2>1, <2>2, <2>3 DEF IInv, Shape
<1>3. Rows(b)' = Rows(b) \cup {row} /\ \A c \in Backends \ {b} : Rows(c)' = Rows(c)
  BY <1>1 DEF Rows, IInv, Shape
<1>4. \A db \in Databases : AllRows(db)' = IF db = DbOf[b] THEN AllRows(db) \cup {row} ELSE AllRows(db)
  BY <1>3 DEF AllRows, Insert
<1>5. \A r \in AllRows(DbOf[b]) : r.id # row.id /\ r.name # row.name
  BY DEF AllRows, Insert, Waits, Peers, Clash, VisibleRows, Rows
<1>6. RowsDistinct'
  BY <1>4, <1>5 DEF RowsDistinct, Distinct, IInv
<1> QED
  BY <1>2, <1>6 DEF IInv

\* A commit moves a transaction's rows to the catalog: the database has the rows it had.
LEMMA CommitRows ==
  ASSUME IInv, NEW b \in Backends, Commit(b)
  PROVE  \A db \in Databases : AllRows(db)' \subseteq AllRows(db)
<1>1. \A db \in Databases :
        catalog'[db] = IF db = DbOf[b] THEN catalog[db] \cup Rows(b) ELSE catalog[db]
  BY DbAssumption DEF Commit, IInv, Shape
<1>2. Rows(b)' = {} /\ \A c \in Backends \ {b} : Rows(c)' = Rows(c)
  BY DEF Commit, IInv, Shape, Rows, NoTx
<1> SUFFICES ASSUME NEW db \in Databases
             PROVE  AllRows(db)' \subseteq AllRows(db)
  OBVIOUS
<1>3. \A c \in Backends : Rows(c)' \subseteq Rows(c)
  BY <1>2
<1>4. catalog'[db] \subseteq AllRows(db)
  BY <1>1 DEF AllRows
<1>5. \A c \in Backends : DbOf[c] = db => Rows(c) \subseteq AllRows(db)
  BY DEF AllRows
<1>6. \A x \in AllRows(db)' :
        x \in catalog'[db] \/ \E c \in Backends : DbOf[c] = db /\ x \in Rows(c)'
  BY DEF AllRows
<1> QED
  BY <1>3, <1>4, <1>5, <1>6

LEMMA StepCommit ==
  ASSUME IInv, NEW b \in Backends, Commit(b)
  PROVE  IInv'
<1>1. /\ DOMAIN catalog' = Databases /\ DOMAIN ever' = Databases /\ lost' = lost
      /\ \A db \in Databases : ever'[db] \subseteq catalog'[db] \cup lost'[db]
  BY DbAssumption DEF Commit, IInv, Shape
<1>2. DOMAIN tx' = Backends /\ \A c \in Backends : tx'[c] = IF c = b THEN NoTx ELSE tx[c]
  BY DEF Commit, IInv, Shape
<1>3. Shape'
  BY <1>1, <1>2 DEF IInv, Shape, NoTx
<1> QED
  BY <1>3, CommitRows, FewerRows DEF IInv

\* An undone transaction leaves fewer rows.
LEMMA StepRollback ==
  ASSUME IInv, NEW b \in Backends, Rollback(b)
  PROVE  IInv'
<1>1. Shape'
  BY DEF Rollback, history, IInv, Shape, NoTx
<1>2. \A c \in Backends : Rows(c)' \subseteq Rows(c)
  BY DEF Rollback, IInv, Shape, Rows, NoTx
<1>3. catalog' = catalog
  BY DEF Rollback
<1> QED
  BY <1>1, <1>2, <1>3, NoNewRows DEF IInv

LEMMA StepDrop ==
  ASSUME IInv, NEW b \in Backends, NEW n \in Names, Drop(b, n)
  PROVE  IInv'
<1>1. Shape'
  BY DEF Drop, history, IInv, Shape
<1>2. \A c \in Backends : Rows(c)' \subseteq Rows(c)
  BY DEF Drop, IInv, Shape, Rows
<1>3. catalog' = catalog
  BY DEF Drop
<1> QED
  BY <1>1, <1>2, <1>3, NoNewRows DEF IInv

LEMMA StepDropExtension ==
  ASSUME IInv, NEW db \in Databases, DropExtension(db)
  PROVE  IInv'
<1>1. Shape'
  BY DEF DropExtension, IInv, Shape
<1>2. \A d \in Databases : catalog'[d] \subseteq catalog[d]
  BY DEF DropExtension, IInv, Shape
<1>3. \A c \in Backends : Rows(c)' \subseteq Rows(c)
  BY DEF DropExtension, Rows
<1> QED
  BY <1>1, <1>2, <1>3, NoNewRows DEF IInv

LEMMA StepCrash ==
  ASSUME IInv, Crash
  PROVE  IInv'
<1>1. Shape'
  BY DEF Crash, history, IInv, Shape, NoTx
<1>2. \A c \in Backends : Rows(c)' \subseteq Rows(c)
  BY DEF Crash, Rows, NoTx
<1>3. catalog' = catalog
  BY DEF Crash
<1> QED
  BY <1>1, <1>2, <1>3, NoNewRows DEF IInv

\* Every other step leaves catalog and transactions alone.
LEMMA StepQuiet ==
  ASSUME IInv, UNCHANGED <<catalog, tx, ever, lost>>
  PROVE  IInv'
BY DEF IInv, Shape, RowsDistinct, Distinct, AllRows, Rows

LEMMA StepInv == IInv /\ [Next]_vars => IInv'
<1> SUFFICES ASSUME IInv, [Next]_vars
             PROVE  IInv'
  OBVIOUS
<1>1. ASSUME NEW b \in Creators, CreateStep(b)
      PROVE  IInv'
  <2> b \in Backends
    BY DbAssumption
  <2>1. CASE \E n \in Names, want \in Ids \cup {0} : Create(b, n, want)
    BY <2>1, StepQuiet DEF Create, history
  <2>2. CASE TakeWanted(b)
    BY <2>2, StepQuiet DEF TakeWanted, history
  <2>3. CASE TakeNextFree(b)
    BY <2>3, StepQuiet DEF TakeNextFree, history
  <2>4. CASE Insert(b)
    BY <2>4, StepInsert
  <2>5. CASE Refuse(b)
    BY <2>5, StepRollback DEF Refuse
  <2> QED
    BY <1>1, <2>1, <2>2, <2>3, <2>4, <2>5 DEF CreateStep
<1>2. ASSUME NEW b \in Backends, NEW n \in Names, Drop(b, n)
      PROVE  IInv'
  BY <1>2, StepDrop
<1>3. ASSUME NEW b \in Backends, NEW n \in Names, NEW k \in Kinds, Load(b, n, k)
      PROVE  IInv'
  BY <1>3, StepQuiet DEF Load
<1>4. ASSUME NEW b \in Backends, NEW id \in Ids, NEW k \in Kinds, Read(b, id, k)
      PROVE  IInv'
  BY <1>4, StepQuiet DEF Read, history
<1>5. ASSUME NEW b \in Backends, Commit(b)
      PROVE  IInv'
  BY <1>5, StepCommit
<1>6. ASSUME NEW b \in Backends, Abort(b)
      PROVE  IInv'
  BY <1>6, StepRollback DEF Abort
<1>7. ASSUME NEW b \in Backends, Reconnect(b)
      PROVE  IInv'
  BY <1>7, StepQuiet DEF Reconnect, history
<1>8. ASSUME NEW b \in Backends, TakeUp(b)
      PROVE  IInv'
  BY <1>8, StepQuiet DEF TakeUp, history
<1>9. ASSUME NEW db \in Databases, DropExtension(db)
      PROVE  IInv'
  BY <1>9, StepDropExtension
<1>10. ASSUME NEW p \in Paths, RemoveOrphan(p)
       PROVE  IInv'
  BY <1>10, StepQuiet DEF RemoveOrphan, history
<1>11. CASE Move
  BY <1>11, StepQuiet DEF Move, history
<1>12. CASE Crash
  BY <1>12, StepCrash
<1>13. CASE UNCHANGED vars
  BY <1>13, StepQuiet DEF vars, history
<1> QED
  BY <1>1, <1>2, <1>3, <1>4, <1>5, <1>6, <1>7, <1>8, <1>9, <1>10, <1>11, <1>12, <1>13 DEF Next

\* The inductive invariant holds in every reachable state.
THEOREM Inductive == Spec => []IInv
BY InitInv, StepInv, PTL DEF Spec

-----------------------------------------------------------------------------
(* The state has its type: the ids create_vocabulary settles on are ids, and *)
(* no more vocabularies are inserted than calls were let through.            *)

Busy == {c \in Backends : ~Idle(c)}

\* Each call under way inserts at most one vocabulary.
Budget == born + Cardinality(Busy) <= MaxCreates

\* A backend inside create_vocabulary is a creator with a name, and with an id once the
\* caller gave one or next_free_id found one.
OpsSound ==
  \A c \in Backends : ~Idle(c) =>
    /\ c \in Creators
    /\ op[c].name \in Names
    /\ op[c].step = "insert" \/ ~op[c].auto => op[c].id \in Ids

TInv == TypeOK /\ OpsSound /\ Budget

\* A backend that turns busy adds one to them, one that turns idle takes one away.
LEMMA BusyFinite == IsFiniteSet(Busy) /\ Cardinality(Busy) \in Nat
BY BackendsAssumption, FS_Subset, FS_CardinalityType DEF Busy

LEMMA TurnsBusy ==
  ASSUME NEW b \in Backends, Busy' = Busy \cup {b}, b \notin Busy
  PROVE  Cardinality(Busy') = Cardinality(Busy) + 1
BY BusyFinite, FS_AddElement

LEMMA TurnsIdle ==
  ASSUME NEW b \in Backends, Busy' = Busy \ {b}, b \in Busy
  PROVE  Cardinality(Busy') = Cardinality(Busy) - 1
BY BusyFinite, FS_RemoveElement

LEMMA FewerBusy ==
  ASSUME Busy' \subseteq Busy
  PROVE  Cardinality(Busy') <= Cardinality(Busy) /\ Cardinality(Busy') \in Nat
BY BusyFinite, FS_Subset, FS_CardinalityType

LEMMA InitType == Init => TInv
<1> SUFFICES ASSUME Init PROVE TInv
  OBVIOUS
<1>1. Busy = {}
  BY DEF Init, Busy, Idle, NoOp
<1>2. Budget
  BY <1>1, FS_EmptySet, VocabularyBounds DEF Init, Budget
<1>3. OpsSound
  BY DEF Init, OpsSound, Idle, NoOp
<1>4. NoArtefacts \in Artefacts
  BY DEF NoArtefacts, Artefacts
<1>5. NoOp \in [step : {"idle", "choose", "insert"}, name : Names \cup {Absent},
                id : Ids \cup {0}, start : Nat, auto : BOOLEAN]
  BY DEF NoOp
<1>6. NoTx \in [rows : SUBSET Row, made : SUBSET Names, gone : SUBSET Names]
  BY DEF NoTx
<1>7. TypeOK
  BY <1>4, <1>5, <1>6, VocabularyBounds, MaxMovesAssumption
     DEF Init, TypeOK, DirInit, DirTypeOK
<1> QED
  BY <1>2, <1>3, <1>7 DEF TInv

\* The types of one backend's transaction and call.
Txs == [rows : SUBSET Row, made : SUBSET Names, gone : SUBSET Names]

Ops == [step : {"idle", "choose", "insert"}, name : Names \cup {Absent},
        id : Ids \cup {0}, start : Nat, auto : BOOLEAN]

LEMMA NothingTyped == NoTx \in Txs /\ NoOp \in Ops /\ NoArtefacts \in Artefacts
BY DEF Txs, Ops, Artefacts, NoTx, NoOp, NoArtefacts

\* The rows a backend sees are rows.
LEMMA VisibleTyped ==
  ASSUME TypeOK, NEW b \in Backends
  PROVE  VisibleRows(b) \subseteq Row /\ VisibleDomains(b) \subseteq Names
BY DbAssumption DEF TypeOK, VisibleRows, VisibleDomains

\* vocabulary.rs:284: the search starts above the greatest id in the catalog.
LEMMA StartTyped ==
  ASSUME TypeOK, NEW b \in Backends
  PROVE  Max({0} \cup {r.id : r \in VisibleRows(b)}) + 1 \in Nat
<1> DEFINE ids == {0} \cup {r.id : r \in VisibleRows(b)}
<1>1. ids \subseteq {0} \cup Ids
  BY VisibleTyped DEF Row
<1>2. IsFiniteSet({0} \cup Ids)
  BY IdsAssumption, FS_AddElement
<1>0. ids # {}
  OBVIOUS
<1> HIDE DEF ids
<1>3. IsFiniteSet(ids) /\ ids \subseteq Nat
  <2>1. {0} \cup Ids \subseteq Nat
    BY IdsAssumption
  <2> QED
    BY <1>1, <1>2, <2>1, FS_Subset
<1>4. PICK m \in ids : \A n \in ids : n <= m
  BY <1>0, <1>3, Highest
<1>5. \A n \in ids : m >= n
  BY <1>3, <1>4
<1>6. Max(ids) \in ids
  BY <1>5 DEF Max
<1>7. \A n \in Nat : n + 1 \in Nat
  OBVIOUS
<1>8. Max(ids) + 1 \in Nat
  BY <1>3, <1>6, <1>7
<1> QED
  BY <1>8 DEF ids

\* next_free_id answers with one of the free ids.
LEMMA NextFreeIsFree ==
  ASSUME NEW b \in Backends, FreeIds(b) # {}
  PROVE  Min(FreeIds(b)) \in FreeIds(b)
<1>1. FreeIds(b) \subseteq Nat
  BY IdsAssumption DEF FreeIds
<1>2. \E m \in FreeIds(b) : \A n \in FreeIds(b) : m <= n
  BY <1>1, Lowest
<1> QED
  BY <1>1, <1>2 DEF Min

\* What the steps of a call that is under way leave alone.
LEMMA OpOnly ==
  ASSUME TInv, NEW b \in Backends, NEW o \in Ops,
         op' = [op EXCEPT ![b] = o],
         o.step # "idle", b \in Creators, o.name \in Names,
         o.step = "insert" \/ ~o.auto => o.id \in Ids,
         UNCHANGED <<dirVars, catalog, domains, tx, artefact, cache, history, counters>>
  PROVE  TypeOK' /\ OpsSound' /\ Busy' = Busy \cup {b}
<1>1. op' \in [Backends -> Ops] /\ \A c \in Backends : op'[c] = IF c = b THEN o ELSE op[c]
  BY DEF TInv, TypeOK, Ops
<1>2. TypeOK'
  BY <1>1 DEF TInv, TypeOK, DirTypeOK, dirVars, history, counters, Ops
<1>3. OpsSound'
  BY <1>1 DEF TInv, OpsSound, Idle
<1>4. Busy' = Busy \cup {b}
  BY <1>1 DEF Busy, Idle
<1> QED
  BY <1>2, <1>3, <1>4

LEMMA TypeCreate ==
  ASSUME TInv, NEW b \in Creators, NEW n \in Names, NEW want \in Ids \cup {0}, Create(b, n, want)
  PROVE  TInv'
<1> DEFINE o == [step |-> "choose", name |-> n, id |-> want, auto |-> want = 0,
                 start |-> Max({0} \cup {r.id : r \in VisibleRows(b)}) + 1]
<1>1. b \in Backends
  BY DbAssumption
<1>2. o \in Ops
  BY <1>1, StartTyped DEF Ops, TInv
<1>3. op' = [op EXCEPT ![b] = o]
  BY DEF Create
<1>4. o.step # "idle" /\ o.name \in Names /\ (o.step = "insert" \/ ~o.auto => o.id \in Ids)
  OBVIOUS
<1>5. UNCHANGED <<dirVars, catalog, domains, tx, artefact, cache, history, counters>>
  BY DEF Create
<1> HIDE DEF o
<1>6. TypeOK' /\ OpsSound' /\ Busy' = Busy \cup {b}
  BY <1>1, <1>2, <1>3, <1>4, <1>5, OpOnly
<1>7. b \notin Busy /\ born + Cardinality(Busy) < MaxCreates /\ born' = born
  BY DEF Create, Busy, counters
<1>8. Cardinality(Busy') = Cardinality(Busy) + 1
  BY <1>1, <1>6, <1>7, TurnsBusy
<1>9. Budget'
  BY <1>7, <1>8, BusyFinite, VocabularyBounds DEF Budget, TInv, TypeOK
<1> QED
  BY <1>6, <1>9 DEF TInv

\* A call that has its id settled.
LEMMA TypeSettle ==
  ASSUME TInv, NEW b \in Creators, op[b].step = "choose",
         NEW o \in Ops, o.step = "insert", o.name = op[b].name, o.id \in Ids,
         op' = [op EXCEPT ![b] = o],
         UNCHANGED <<dirVars, catalog, domains, tx, artefact, cache, history, counters>>
  PROVE  TInv'
<1>1. b \in Backends /\ b \in Busy
  BY DbAssumption DEF Busy, Idle
<1>2. o.name \in Names
  BY <1>1 DEF TInv, OpsSound, Busy
<1>3. TypeOK' /\ OpsSound' /\ Busy' = Busy \cup {b}
  BY <1>1, <1>2, OpOnly
<1>4. Busy' = Busy /\ born' = born
  BY <1>1, <1>3 DEF counters
<1> QED
  BY <1>3, <1>4 DEF TInv, Budget

LEMMA TypeTakeWanted ==
  ASSUME TInv, NEW b \in Creators, TakeWanted(b)
  PROVE  TInv'
<1> DEFINE o == [op[b] EXCEPT !.step = "insert"]
<1>1. b \in Backends
  BY DbAssumption
<1>2. op[b] \in Ops /\ op[b].id \in Ids
  BY <1>1 DEF TInv, TypeOK, Ops, OpsSound, Idle, TakeWanted
<1>3. op' = [op EXCEPT ![b] = o]
  BY SMT DEF TakeWanted
<1>4. o \in Ops /\ o.step = "insert" /\ o.name = op[b].name /\ o.id \in Ids
  BY <1>2 DEF Ops
<1> HIDE DEF o
<1> QED
  BY <1>3, <1>4, TypeSettle DEF TakeWanted

LEMMA TypeTakeNextFree ==
  ASSUME TInv, NEW b \in Creators, TakeNextFree(b)
  PROVE  TInv'
<1> DEFINE i == Min(FreeIds(b))
           o == [op[b] EXCEPT !.step = "insert", !.id = i]
<1>1. b \in Backends
  BY DbAssumption
<1>2. i \in Ids
  BY <1>1, NextFreeIsFree DEF FreeIds, TakeNextFree
<1>3. op' = [op EXCEPT ![b] = o]
  BY SMT DEF TakeNextFree
<1> HIDE DEF i
<1>4. op[b] \in Ops
  BY <1>1 DEF TInv, TypeOK, Ops
<1>5. o \in Ops /\ o.step = "insert" /\ o.name = op[b].name /\ o.id \in Ids
  BY <1>2, <1>4 DEF Ops
<1> HIDE DEF o
<1> QED
  BY <1>3, <1>5, TypeSettle DEF TakeNextFree

\* Steps that end a backend's call, or end none.
LEMMA Ended ==
  ASSUME TInv, NEW S, op' = [c \in Backends |-> IF c \in S THEN NoOp ELSE op[c]]
  PROVE  OpsSound' /\ Busy' = Busy \ S /\ op' \in [Backends -> Ops]
<1>1. OpsSound'
  BY DEF TInv, OpsSound, Idle, NoOp
<1>2. Busy' = Busy \ S
  BY DEF Busy, Idle, NoOp
<1>3. op' \in [Backends -> Ops]
  BY NothingTyped DEF TInv, TypeOK, Ops
<1> QED
  BY <1>1, <1>2, <1>3

LEMMA SameBudget ==
  ASSUME TInv, Busy' \subseteq Busy, born' = born
  PROVE  Budget'
BY FewerBusy, BusyFinite, VocabularyBounds DEF TInv, Budget, TypeOK

LEMMA TypeInsert ==
  ASSUME TInv, NEW b \in Creators, Insert(b)
  PROVE  TInv'
<1> DEFINE row == [id |-> op[b].id, name |-> op[b].name, inc |-> born + 1]
<1>1. b \in Backends /\ b \in Busy
  BY DbAssumption DEF Busy, Idle, Insert
<1>2. op' = [c \in Backends |-> IF c \in {b} THEN NoOp ELSE op[c]]
  BY <1>1 DEF Insert, TInv, TypeOK
<1>3. OpsSound' /\ Busy' = Busy \ {b} /\ op' \in [Backends -> Ops]
  BY <1>2, Ended
<1>4. Cardinality(Busy') = Cardinality(Busy) - 1
  BY <1>1, <1>3, TurnsIdle
<1>5. born' = born + 1 /\ born \in Nat
  BY DEF Insert, TInv, TypeOK
<1>6. Budget'
  BY <1>4, <1>5, BusyFinite, VocabularyBounds DEF TInv, Budget
<1>7. Cardinality(Busy') \in Nat
  BY <1>1, <1>3, FewerBusy
<1>8. born + 1 \in 1..MaxCreates
  BY <1>5, <1>6, <1>7, VocabularyBounds DEF Budget
<1>9. row \in Row
  BY <1>1, <1>8 DEF TInv, OpsSound, Busy, Insert, Row, Incarnations
<1>10. tx' \in [Backends -> Txs]
  <2>1. tx \in [Backends -> Txs]
    BY DEF TInv, TypeOK, Txs
  <2>2. tx' = [tx EXCEPT ![b] = [rows |-> tx[b].rows \cup {row},
                                 made |-> tx[b].made \cup {row.name}, gone |-> tx[b].gone]]
    BY SMT DEF Insert
  <2>3. row.name \in Names
    BY <1>9 DEF Row
  <2> QED
    BY <1>1, <1>9, <2>1, <2>2, <2>3 DEF Txs
<1>11. TypeOK'
  BY <1>3, <1>5, <1>8, <1>10
     DEF Insert, TInv, TypeOK, DirTypeOK, dirVars, history, counters, Ops, Txs
<1> QED
  BY <1>3, <1>6, <1>11 DEF TInv

\* Steps that start and end no call and insert nothing.
LEMMA CallsAlone ==
  ASSUME TInv, UNCHANGED <<op, born>>, TypeOK'
  PROVE  TInv'
<1>1. OpsSound' /\ Busy' = Busy
  BY DEF TInv, OpsSound, Busy, Idle
<1> QED
  BY <1>1, SameBudget DEF TInv

LEMMA TypeDrop ==
  ASSUME TInv, NEW b \in Backends, NEW n \in Names, Drop(b, n)
  PROVE  TInv'
<1>1. tx' \in [Backends -> Txs]
  <2>1. tx \in [Backends -> Txs]
    BY DEF TInv, TypeOK, Txs
  <2>2. tx' = [tx EXCEPT ![b] = [tx[b] EXCEPT !.gone = tx[b].gone \cup {n}]]
    BY SMT DEF Drop
  <2> QED
    BY <2>1, <2>2 DEF Txs
<1>2. TypeOK'
  BY <1>1 DEF Drop, TInv, TypeOK, DirTypeOK, dirVars, history, counters, Txs
<1> QED
  BY <1>2, CallsAlone DEF Drop, counters

LEMMA TypeCommit ==
  ASSUME TInv, NEW b \in Backends, Commit(b)
  PROVE  TInv'
<1> DEFINE db == DbOf[b]
<1>1. db \in Databases
  BY DbAssumption
<1>2. tx[b].rows \subseteq Row /\ tx[b].made \subseteq Names
  BY DEF TInv, TypeOK
<1>3. catalog' \in [Databases -> SUBSET Row]
  BY <1>1, <1>2 DEF Commit, TInv, TypeOK, Rows
<1>4. ever' \in [Databases -> SUBSET Row] /\ lost' \in [Databases -> SUBSET Row]
  BY <1>1, <1>2 DEF Commit, TInv, TypeOK, Rows
<1>5. domains' \in [Databases -> SUBSET Names]
  BY <1>1, <1>2 DEF Commit, TInv, TypeOK
<1>6. tx' \in [Backends -> Txs]
  BY NothingTyped DEF Commit, TInv, TypeOK, Txs
<1>7. TypeOK'
  BY <1>3, <1>4, <1>5, <1>6 DEF Commit, TInv, TypeOK, DirTypeOK, dirVars, counters, Txs
<1> QED
  BY <1>7, CallsAlone DEF Commit, counters

\* The end of a transaction that is undone.
LEMMA TypeRollback ==
  ASSUME TInv, NEW b \in Backends, Rollback(b), undos' \in 0..MaxUndos
  PROVE  TInv'
<1>1. op' = [c \in Backends |-> IF c \in {b} THEN NoOp ELSE op[c]]
  BY DEF Rollback, TInv, TypeOK
<1>2. OpsSound' /\ Busy' = Busy \ {b} /\ op' \in [Backends -> Ops]
  BY <1>1, Ended
<1>3. tx' \in [Backends -> Txs]
  BY NothingTyped DEF Rollback, TInv, TypeOK, Txs
<1>4. TypeOK'
  BY <1>2, <1>3 DEF Rollback, TInv, TypeOK, DirTypeOK, dirVars, history, Ops, Txs
<1>5. Budget'
  BY <1>2, SameBudget DEF Rollback
<1> QED
  BY <1>2, <1>4, <1>5 DEF TInv

LEMMA TypeUndo ==
  ASSUME TInv, Undo
  PROVE  undos' \in 0..MaxUndos
BY VocabularyBounds DEF Undo, TInv, TypeOK

LEMMA TypeLoad ==
  ASSUME TInv, NEW b \in Backends, NEW n \in Names, NEW k \in Kinds, Load(b, n, k)
  PROVE  TInv'
<1>1. PICK r \in VisibleRows(b) :
        /\ artefact' = [artefact EXCEPT ![PathFor(b, r.id)][k] = r.inc]
        /\ raced' = IF Checked(PathFor(b, r.id)) THEN raced \cup {PathFor(b, r.id)} ELSE raced
  BY DEF Load
<1>2. r.id \in Ids /\ r.inc \in Incarnations
  BY VisibleTyped DEF TInv, Row
<1>3. PathFor(b, r.id) \in Paths
  BY <1>2 DEF Load, HasDir, PathFor, Paths, Setting, TInv, TypeOK, DirTypeOK
<1>4. artefact' \in Artefacts
  BY <1>1, <1>2, <1>3 DEF TInv, TypeOK, Artefacts
<1>5. raced' \subseteq Paths
  BY <1>1, <1>3 DEF TInv, TypeOK
<1>6. TypeOK'
  BY <1>4, <1>5 DEF Load, TInv, TypeOK, DirTypeOK, dirVars, counters
<1> QED
  BY <1>6, CallsAlone DEF Load, counters

LEMMA TypeRead ==
  ASSUME TInv, NEW b \in Backends, NEW id \in Ids, NEW k \in Kinds, Read(b, id, k)
  PROVE  TInv'
<1>1. PathFor(b, id) \in Paths
  BY DEF Read, HasDir, PathFor, Paths, Setting, TInv, TypeOK, DirTypeOK
<1>2. artefact[PathFor(b, id)][k] \in Incarnations \cup {Absent}
  BY <1>1 DEF TInv, TypeOK, Artefacts
<1>3. cache' = [cache EXCEPT ![b] = [cache[b] EXCEPT ![PathFor(b, id)] =
                  [cache[b][PathFor(b, id)] EXCEPT ![k] = artefact[PathFor(b, id)][k]]]]
  BY SMT DEF Read
<1>4. cache' \in [Backends -> Artefacts]
  BY <1>1, <1>2, <1>3 DEF TInv, TypeOK, Artefacts
<1>5. TypeOK'
  BY <1>4 DEF Read, TInv, TypeOK, DirTypeOK, dirVars, history, counters
<1> QED
  BY <1>5, CallsAlone DEF Read, counters

LEMMA TypeDropExtension ==
  ASSUME TInv, NEW db \in Databases, DropExtension(db)
  PROVE  TInv'
<1>1. TypeOK'
  BY TypeUndo DEF DropExtension, TInv, TypeOK, DirTypeOK, dirVars
<1> QED
  BY <1>1, CallsAlone DEF DropExtension

LEMMA TypeRemoveOrphan ==
  ASSUME TInv, NEW p \in Paths, RemoveOrphan(p)
  PROVE  TInv'
<1>1. artefact' \in Artefacts
  BY DEF RemoveOrphan, TInv, TypeOK, Artefacts
<1>2. removals' \in 0..MaxRemovals
  BY VocabularyBounds DEF RemoveOrphan, TInv, TypeOK
<1>3. TypeOK'
  BY <1>1, <1>2 DEF RemoveOrphan, TInv, TypeOK, DirTypeOK, dirVars, history
<1> QED
  BY <1>3, CallsAlone DEF RemoveOrphan

LEMMA TypeReconnect ==
  ASSUME TInv, NEW b \in Backends, Reconnect(b)
  PROVE  TInv'
<1>1. TypeOK'
  BY NothingTyped DEF Reconnect, TInv, TypeOK, DirTypeOK, history, counters
<1> QED
  BY <1>1, CallsAlone DEF Reconnect, counters

LEMMA TypeCrash ==
  ASSUME TInv, Crash
  PROVE  TInv'
<1>1. op' = [c \in Backends |-> IF c \in Backends THEN NoOp ELSE op[c]]
  BY DEF Crash
<1>2. OpsSound' /\ Busy' = Busy \ Backends /\ op' \in [Backends -> Ops]
  BY <1>1, Ended
<1>3. tx' \in [Backends -> Txs] /\ cache' \in [Backends -> Artefacts]
  BY NothingTyped DEF Crash
<1>4. DirTypeOK'
  BY DEF Crash, ReloadAll, TInv, TypeOK, DirTypeOK
<1>5. TypeOK'
  BY <1>2, <1>3, <1>4, TypeUndo DEF Crash, TInv, TypeOK, history, Ops, Txs
<1>6. Budget'
  BY <1>2, SameBudget DEF Crash
<1> QED
  BY <1>2, <1>5, <1>6 DEF TInv

LEMMA TypeMove ==
  ASSUME TInv, Move
  PROVE  TInv'
<1>1. DirTypeOK'
  BY MaxMovesAssumption DEF Move, EditConf, TInv, TypeOK, DirTypeOK
<1>2. TypeOK'
  BY <1>1 DEF Move, TInv, TypeOK, history, counters
<1> QED
  BY <1>2, CallsAlone DEF Move, counters

LEMMA TypeTakeUp ==
  ASSUME TInv, NEW b \in Backends, TakeUp(b)
  PROVE  TInv'
<1>1. DirTypeOK'
  BY DEF TakeUp, Reload, TInv, TypeOK, DirTypeOK
<1>2. TypeOK'
  BY <1>1 DEF TakeUp, TInv, TypeOK, history, counters
<1> QED
  BY <1>2, CallsAlone DEF TakeUp, counters

LEMMA StepType == TInv /\ [Next]_vars => TInv'
<1> SUFFICES ASSUME TInv, [Next]_vars
             PROVE  TInv'
  OBVIOUS
<1>1. ASSUME NEW b \in Creators, CreateStep(b)
      PROVE  TInv'
  <2> b \in Backends
    BY DbAssumption
  <2>1. CASE Refuse(b)
    <3>1. undos' \in 0..MaxUndos
      BY <2>1 DEF Refuse, TInv, TypeOK
    <3> QED
      BY <2>1, <3>1, TypeRollback DEF Refuse
  <2> QED
    BY <1>1, <2>1, TypeCreate, TypeTakeWanted, TypeTakeNextFree, TypeInsert DEF CreateStep
<1>2. ASSUME NEW b \in Backends, Abort(b)
      PROVE  TInv'
  BY <1>2, TypeUndo, TypeRollback DEF Abort
<1>3. CASE UNCHANGED vars
  <2>1. TypeOK'
    BY <1>3 DEF vars, dirVars, history, counters, TInv, TypeOK, DirTypeOK
  <2> QED
    BY <1>3, <2>1, CallsAlone DEF vars, counters
<1> QED
  BY <1>1, <1>2, <1>3, TypeDrop, TypeLoad, TypeRead, TypeCommit, TypeReconnect, TypeTakeUp,
     TypeDropExtension, TypeRemoveOrphan, TypeMove, TypeCrash DEF Next

\* So do the types and what they rest on.
THEOREM TypeInvariant == Spec => []TInv
BY InitType, StepType, PTL DEF Spec

\* Every variable has its type: in particular an id that next_free_id settles on is one, and
\* the search has a first candidate, whatever ids the visible rows have.
THEOREM TypeCorrect == Spec => []TypeOK
<1>1. TInv => TypeOK
  BY DEF TInv
<1> QED
  BY <1>1, TypeInvariant, PTL

-----------------------------------------------------------------------------
(* The limits within which no vocabulary adopts another's artefact: one      *)
(* database, and from then on a directory that stays, files nobody removes   *)
(* and no file written behind a create_vocabulary that had looked for it.    *)

\* AnswersAreOwn fails as soon as two databases share the directory.
OneDatabase == \A d, e \in Databases : d = e

\* Nobody has moved the directory or removed a file.
Undisturbed == moves = 0 /\ removals = 0

\* The path of an id in the directory of the cluster.
Home(id) == <<conf, id>>

\* Every backend runs with the setting in postgresql.conf.
DirsAgree == \A b \in Backends : dirOf[b] = conf

\* What a backend has cached is what the file has.
CachesAgree ==
  \A b \in Backends, p \in Paths, k \in Kinds : cache[b][p][k] \in {Absent, artefact[p][k]}

\* An artefact file of a vocabulary, committed or not, is the vocabulary's own.
FilesAreOwn ==
  \A db \in Databases : \A r \in AllRows(db), k \in Kinds :
    Home(r.id) \notin raced => artefact[Home(r.id)][k] \in {Absent, r.inc}

\* A create_vocabulary that is about to insert has no artefact files under its id.
FreshAtInsert ==
  \A b \in Backends, k \in Kinds :
    op[b].step = "insert" /\ Home(op[b].id) \notin raced => artefact[Home(op[b].id)][k] = Absent

OInv ==
  Undisturbed =>
    /\ DirsAgree
    /\ CachesAgree
    /\ conf # NoDir => FilesAreOwn /\ FreshAtInsert

LEMMA InitOwn == Init => OInv
BY DEF Init, DirInit, OInv, DirsAgree, CachesAgree, FilesAreOwn, FreshAtInsert, NoArtefacts, NoOp, AllRows,
       Rows, NoTx, Paths, Home

\* No new rows, no call newly about to insert, no file, cache or directory touched.
LEMMA OwnFrame ==
  ASSUME OInv,
         UNCHANGED <<dirVars, artefact, cache, raced, removals>>,
         \A db \in Databases : AllRows(db)' \subseteq AllRows(db),
         \A b \in Backends : op'[b].step = "insert" => op'[b] = op[b]
  PROVE  OInv'
<1> SUFFICES ASSUME Undisturbed' PROVE OInv!2'
  BY DEF OInv
<1>1. Undisturbed /\ DirsAgree /\ CachesAgree
  BY DEF OInv, Undisturbed, dirVars
<1>2. DirsAgree' /\ CachesAgree'
  BY <1>1 DEF DirsAgree, CachesAgree, dirVars, Paths
<1>3. ASSUME conf # NoDir PROVE FilesAreOwn' /\ FreshAtInsert'
  <2>1. FilesAreOwn /\ FreshAtInsert
    BY <1>1, <1>3 DEF OInv
  <2>2. FilesAreOwn'
    BY <2>1 DEF FilesAreOwn, Home, dirVars
  <2>3. FreshAtInsert'
    BY <2>1 DEF FreshAtInsert, Home, dirVars
  <2> QED
    BY <2>2, <2>3
<1> QED
  BY <1>2, <1>3 DEF dirVars

\* The rows are those that there were as long as catalog and transactions are left alone.
LEMMA RowsAlone ==
  ASSUME UNCHANGED <<catalog, tx>>
  PROVE  \A db \in Databases : AllRows(db)' = AllRows(db)
BY DEF AllRows, Rows

LEMMA OwnCreate ==
  ASSUME TInv, OInv, NEW b \in Backends, NEW n \in Names, NEW want \in Ids \cup {0},
         Create(b, n, want)
  PROVE  OInv'
<1>1. \A c \in Backends : op'[c].step = "insert" => op'[c] = op[c]
  BY DEF Create, TInv, TypeOK
<1> QED
  BY <1>1, RowsAlone, OwnFrame DEF Create, history, counters

\* vocabulary.rs:271-282 and 284-299: a call gets to its INSERT with an id that has no artefact.
LEMMA OwnSettle ==
  ASSUME TInv, OInv, NEW b \in Backends, op'[b].id \in Ids,
         \A c \in Backends \ {b} : op'[c] = op[c],
         ~ExistingArtefact(b, op'[b].id),
         UNCHANGED <<dirVars, catalog, domains, tx, artefact, cache, history, counters>>
  PROVE  OInv'
<1> SUFFICES ASSUME Undisturbed' PROVE OInv!2'
  BY DEF OInv
<1>1. /\ Undisturbed /\ DirsAgree /\ CachesAgree
      /\ conf # NoDir => FilesAreOwn /\ FreshAtInsert
  BY DEF OInv, Undisturbed, dirVars, counters
<1>2. DirsAgree' /\ CachesAgree'
  BY <1>1 DEF DirsAgree, CachesAgree, dirVars, Paths
<1>3. ASSUME conf # NoDir PROVE FilesAreOwn' /\ FreshAtInsert'
  <2>1. FilesAreOwn'
    BY <1>1, <1>3, RowsAlone DEF FilesAreOwn, Home, dirVars, history
  <2>2. dirOf[b] = conf
    BY <1>1 DEF DirsAgree
  <2>3. \A k \in Kinds : artefact[Home(op'[b].id)][k] = Absent
    BY <1>3, <2>2 DEF ExistingArtefact, HasDir, PathFor, Home
  <2>4. FreshAtInsert'
    BY <1>1, <1>3, <2>3 DEF FreshAtInsert, Home, dirVars, history
  <2> QED
    BY <2>1, <2>4
<1> QED
  BY <1>2, <1>3 DEF dirVars

LEMMA OwnTakeWanted ==
  ASSUME TInv, OInv, NEW b \in Creators, TakeWanted(b)
  PROVE  OInv'
<1>1. b \in Backends
  BY DbAssumption
<1>2. op[b] \in Ops /\ op[b].id \in Ids
  BY <1>1 DEF TInv, TypeOK, Ops, OpsSound, Idle, TakeWanted
<1>3. op'[b].id = op[b].id /\ \A c \in Backends \ {b} : op'[c] = op[c]
  BY <1>1, <1>2 DEF TakeWanted, TInv, TypeOK, Ops
<1> QED
  BY <1>1, <1>2, <1>3, OwnSettle DEF TakeWanted

LEMMA OwnTakeNextFree ==
  ASSUME TInv, OInv, NEW b \in Creators, TakeNextFree(b)
  PROVE  OInv'
<1> DEFINE i == Min(FreeIds(b))
<1>1. b \in Backends
  BY DbAssumption
<1>2. i \in Ids /\ ~ExistingArtefact(b, i)
  BY <1>1, NextFreeIsFree DEF FreeIds, TakeNextFree
<1>3. op' = [op EXCEPT ![b] = [op[b] EXCEPT !.step = "insert", !.id = i]]
  BY SMT DEF TakeNextFree
<1> HIDE DEF i
<1>4. op'[b].id = i /\ \A c \in Backends \ {b} : op'[c] = op[c]
  BY <1>1, <1>3 DEF TInv, TypeOK
<1> QED
  BY <1>1, <1>2, <1>4, OwnSettle DEF TakeNextFree

\* The new row's id has no artefact, or a raced one.
LEMMA OwnInsert ==
  ASSUME TInv, OInv, NEW b \in Backends, Insert(b)
  PROVE  OInv'
<1> DEFINE row == [id |-> op[b].id, name |-> op[b].name, inc |-> born + 1]
<1> SUFFICES ASSUME Undisturbed' PROVE OInv!2'
  BY DEF OInv
<1>1. /\ Undisturbed /\ DirsAgree /\ CachesAgree
      /\ conf # NoDir => FilesAreOwn /\ FreshAtInsert
  BY DEF OInv, Undisturbed, Insert, dirVars
<1>2. DirsAgree' /\ CachesAgree'
  BY <1>1 DEF Insert, DirsAgree, CachesAgree, dirVars, Paths
<1>3. ASSUME NEW db \in Databases
      PROVE  AllRows(db)' \subseteq AllRows(db) \cup {row}
  <2>1. tx' = [tx EXCEPT ![b] = [rows |-> tx[b].rows \cup {row},
                                 made |-> tx[b].made \cup {row.name}, gone |-> tx[b].gone]]
    BY SMT DEF Insert
  <2>2. \A c \in Backends : Rows(c)' \subseteq Rows(c) \cup {row}
    BY <2>1 DEF Rows, TInv, TypeOK
  <2>3. \A x \in AllRows(db)' :
          x \in catalog'[db] \/ \E c \in Backends : DbOf[c] = db /\ x \in Rows(c)'
    BY DEF AllRows
  <2>4. \A c \in Backends : DbOf[c] = db => Rows(c) \subseteq AllRows(db)
    BY DEF AllRows
  <2>5. catalog'[db] \subseteq AllRows(db)
    BY DEF AllRows, Insert
  <2> QED
    BY <2>2, <2>3, <2>4, <2>5
<1>4. ASSUME conf # NoDir PROVE FilesAreOwn' /\ FreshAtInsert'
  <2>1. \A k \in Kinds : Home(row.id) \notin raced => artefact[Home(row.id)][k] = Absent
    BY <1>1, <1>4 DEF FreshAtInsert, Insert
  <2> HIDE DEF row
  <2>2. FilesAreOwn'
    BY <1>1, <1>3, <1>4, <2>1 DEF FilesAreOwn, Insert, Home, dirVars, history
  <2>3. \A c \in Backends : op'[c].step = "insert" => op'[c] = op[c]
    BY DEF Insert, TInv, TypeOK, NoOp
  <2>4. FreshAtInsert'
    BY <1>1, <1>4, <2>3 DEF FreshAtInsert, Insert, Home, dirVars, history
  <2> QED
    BY <2>2, <2>4
<1> QED
  BY <1>2, <1>4 DEF Insert, dirVars

LEMMA OwnDrop ==
  ASSUME TInv, OInv, NEW b \in Backends, NEW n \in Names, Drop(b, n)
  PROVE  OInv'
<1>1. \A c \in Backends : Rows(c)' \subseteq Rows(c)
  BY DEF Drop, Rows, TInv, TypeOK
<1>2. \A db \in Databases : AllRows(db)' \subseteq AllRows(db)
  BY <1>1, RowsShrink DEF Drop
<1> QED
  BY <1>2, OwnFrame DEF Drop, history, counters

LEMMA OwnCommit ==
  ASSUME IInv, OInv, NEW b \in Backends, Commit(b)
  PROVE  OInv'
BY CommitRows, OwnFrame DEF Commit, counters

LEMMA OwnRollback ==
  ASSUME TInv, OInv, NEW b \in Backends, Rollback(b)
  PROVE  OInv'
<1>1. \A c \in Backends : Rows(c)' \subseteq Rows(c)
  BY DEF Rollback, Rows, NoTx, TInv, TypeOK
<1>2. \A db \in Databases : AllRows(db)' \subseteq AllRows(db)
  BY <1>1, RowsShrink DEF Rollback
<1>3. \A c \in Backends : op'[c].step = "insert" => op'[c] = op[c]
  BY DEF Rollback, TInv, TypeOK, NoOp
<1> QED
  BY <1>2, <1>3, OwnFrame DEF Rollback, history

\* registry.rs:30-35: the file is its vocabulary's, and no other row has its id; a call that is
\* about to insert that id finds its path marked.
LEMMA OwnLoad ==
  ASSUME OneDatabase, TInv, IInv, OInv, NEW b \in Backends, NEW n \in Names, NEW k \in Kinds,
         Load(b, n, k)
  PROVE  OInv'
<1>1. PICK r \in VisibleRows(b) :
        /\ artefact[PathFor(b, r.id)][k] = Absent
        /\ artefact' = [artefact EXCEPT ![PathFor(b, r.id)][k] = r.inc]
        /\ raced' = IF Checked(PathFor(b, r.id)) THEN raced \cup {PathFor(b, r.id)} ELSE raced
  BY DEF Load
<1> SUFFICES ASSUME Undisturbed' PROVE OInv!2'
  BY DEF OInv
<1>2. /\ Undisturbed /\ DirsAgree /\ CachesAgree
      /\ conf # NoDir => FilesAreOwn /\ FreshAtInsert
  BY DEF OInv, Undisturbed, Load, dirVars, counters
<1>3. conf # NoDir /\ PathFor(b, r.id) = Home(r.id)
  BY <1>2 DEF Load, HasDir, DirsAgree, PathFor, Home
<1>4. Home(r.id) \in Paths
  BY <1>3, VisibleTyped DEF Home, Paths, Setting, Row, TInv, TypeOK, DirTypeOK
<1>5. /\ artefact'[Home(r.id)][k] = r.inc
      /\ \A j \in Kinds \ {k} : artefact'[Home(r.id)][j] = artefact[Home(r.id)][j]
      /\ \A p \in Paths \ {Home(r.id)} : artefact'[p] = artefact[p]
  BY <1>1, <1>3, <1>4 DEF TInv, TypeOK, Artefacts
<1>6. raced \subseteq raced' /\ (Checked(Home(r.id)) => Home(r.id) \in raced')
  BY <1>1, <1>3
<1>7. UNCHANGED <<conf, dirOf, cache, catalog, tx, op>>
  BY DEF Load, dirVars
<1>8. DirsAgree'
  BY <1>2, <1>7 DEF DirsAgree
<1>9. CachesAgree'
  <2> SUFFICES ASSUME NEW c \in Backends, NEW p \in Paths, NEW j \in Kinds
               PROVE  cache[c][p][j] \in {Absent, artefact'[p][j]}
    BY <1>7 DEF CachesAgree, Paths
  <2>1. cache[c][p][j] \in {Absent, artefact[p][j]}
    BY <1>2 DEF CachesAgree
  <2>2. artefact[Home(r.id)][k] = Absent
    BY <1>1, <1>3
  <2> QED
    BY <1>5, <2>1, <2>2
<1>10. FilesAreOwn'
  <2> SUFFICES ASSUME NEW db \in Databases, NEW s \in AllRows(db), NEW j \in Kinds,
                      Home(s.id) \notin raced'
               PROVE  artefact'[Home(s.id)][j] \in {Absent, s.inc}
    BY <1>7, RowsAlone DEF FilesAreOwn, Home
  <2>1. artefact[Home(s.id)][j] \in {Absent, s.inc}
    BY <1>2, <1>3, <1>6 DEF FilesAreOwn
  <2>2. CASE s.id = r.id
    <3>1. r \in AllRows(DbOf[b]) /\ DbOf[b] = db
      BY DbAssumption DEF VisibleRows, AllRows, Rows, OneDatabase
    <3>2. s = r
      BY <2>2, <3>1 DEF IInv, RowsDistinct, Distinct
    <3> QED
      BY <1>5, <2>1, <3>2
  <2>3. CASE s.id # r.id
    <3>1. s \in Row
      BY DbAssumption DEF AllRows, Rows, TInv, TypeOK
    <3>2. Home(s.id) \in Paths \ {Home(r.id)}
      BY <1>3, <2>3, <3>1 DEF Home, Paths, Row, TInv, TypeOK, DirTypeOK, Setting
    <3> QED
      BY <1>5, <2>1, <3>2
  <2> QED
    BY <2>2, <2>3
<1>11. FreshAtInsert'
  <2> SUFFICES ASSUME NEW c \in Backends, NEW j \in Kinds, op[c].step = "insert",
                      Home(op[c].id) \notin raced'
               PROVE  artefact'[Home(op[c].id)][j] = Absent
    BY <1>7 DEF FreshAtInsert, Home
  <2>1. artefact[Home(op[c].id)][j] = Absent
    BY <1>2, <1>3, <1>6 DEF FreshAtInsert
  <2>2. c \in Creators /\ op[c].id \in Ids
    BY DEF TInv, OpsSound, Idle
  <2>3. op[c].id # r.id
    <3> SUFFICES ASSUME op[c].id = r.id PROVE FALSE
      OBVIOUS
    <3>1. PathFor(c, op[c].id) = Home(r.id)
      BY <1>2 DEF PathFor, Home, DirsAgree
    <3> QED
      BY <1>6, <2>2, <3>1 DEF Checked
  <2>4. Home(op[c].id) \in Paths \ {Home(r.id)}
    BY <1>3, <2>2, <2>3 DEF Home, Paths, TInv, TypeOK, DirTypeOK, Setting
  <2> QED
    BY <1>5, <2>1, <2>4
<1> QED
  BY <1>8, <1>9, <1>10, <1>11

LEMMA OwnRead ==
  ASSUME TInv, OInv, NEW b \in Backends, NEW id \in Ids, NEW k \in Kinds, Read(b, id, k)
  PROVE  OInv'
<1> SUFFICES ASSUME Undisturbed' PROVE OInv!2'
  BY DEF OInv
<1>1. /\ Undisturbed /\ DirsAgree /\ CachesAgree
      /\ conf # NoDir => FilesAreOwn /\ FreshAtInsert
  BY DEF OInv, Undisturbed, Read, dirVars, counters
<1>2. UNCHANGED <<conf, dirOf, artefact, catalog, tx, op, raced>>
  BY DEF Read, dirVars, history
<1>3. cache' = [cache EXCEPT ![b] = [cache[b] EXCEPT ![PathFor(b, id)] =
                  [cache[b][PathFor(b, id)] EXCEPT ![k] = artefact[PathFor(b, id)][k]]]]
  BY SMT DEF Read
<1>4. \A c \in Backends, p \in Paths, j \in Kinds :
        cache'[c][p][j] \in {cache[c][p][j], artefact[p][j]}
  <2>1. PathFor(b, id) \in Paths
    BY DEF Read, HasDir, PathFor, Paths, Setting, TInv, TypeOK, DirTypeOK
  <2> QED
    BY <1>3, <2>1 DEF TInv, TypeOK, Artefacts
<1>5. CachesAgree'
  BY <1>1, <1>2, <1>4 DEF CachesAgree, Paths
<1>6. DirsAgree'
  BY <1>1, <1>2 DEF DirsAgree
<1>7. ASSUME conf # NoDir PROVE FilesAreOwn' /\ FreshAtInsert'
  <2>1. FilesAreOwn'
    BY <1>1, <1>2, <1>7, RowsAlone DEF FilesAreOwn, Home
  <2>2. FreshAtInsert'
    BY <1>1, <1>2, <1>7 DEF FreshAtInsert, Home
  <2> QED
    BY <2>1, <2>2
<1> QED
  BY <1>2, <1>5, <1>6, <1>7

LEMMA OwnDropExtension ==
  ASSUME TInv, OInv, NEW db \in Databases, DropExtension(db)
  PROVE  OInv'
<1>1. \A d \in Databases : catalog'[d] \subseteq catalog[d]
  BY DEF DropExtension, TInv, TypeOK
<1>2. \A d \in Databases : AllRows(d)' \subseteq AllRows(d)
  BY <1>1, RowsShrink DEF DropExtension, Rows
<1> QED
  BY <1>2, OwnFrame DEF DropExtension

\* A backend that starts afresh has the setting of the moment and nothing cached.
LEMMA OwnFresh ==
  ASSUME TInv, OInv, UNCHANGED <<conf, moves, artefact, raced, removals>>,
         \A db \in Databases : AllRows(db)' \subseteq AllRows(db),
         \A c \in Backends : op'[c].step = "insert" => op'[c] = op[c],
         \A c \in Backends : dirOf'[c] \in {dirOf[c], conf},
         \A c \in Backends : cache'[c] \in {cache[c], NoArtefacts}
  PROVE  OInv'
<1> SUFFICES ASSUME Undisturbed' PROVE OInv!2'
  BY DEF OInv
<1>1. Undisturbed /\ DirsAgree /\ CachesAgree
  BY DEF OInv, Undisturbed
<1>2. DirsAgree'
  BY <1>1 DEF DirsAgree
<1>3. CachesAgree'
  BY <1>1 DEF CachesAgree, NoArtefacts, Paths
<1>4. ASSUME conf # NoDir PROVE FilesAreOwn' /\ FreshAtInsert'
  <2>1. FilesAreOwn /\ FreshAtInsert
    BY <1>1, <1>4 DEF OInv
  <2>2. FilesAreOwn'
    BY <2>1 DEF FilesAreOwn, Home
  <2>3. FreshAtInsert'
    BY <2>1 DEF FreshAtInsert, Home
  <2> QED
    BY <2>2, <2>3
<1> QED
  BY <1>2, <1>3, <1>4

LEMMA OwnReconnect ==
  ASSUME TInv, OInv, NEW b \in Backends, Reconnect(b)
  PROVE  OInv'
<1>1. \A c \in Backends : dirOf'[c] \in {dirOf[c], conf} /\ cache'[c] \in {cache[c], NoArtefacts}
  BY DEF Reconnect, TInv, TypeOK, DirTypeOK
<1> QED
  BY <1>1, RowsAlone, OwnFresh DEF Reconnect, history, counters

LEMMA OwnCrash ==
  ASSUME TInv, OInv, Crash
  PROVE  OInv'
<1>1. \A c \in Backends : dirOf'[c] \in {dirOf[c], conf} /\ cache'[c] \in {cache[c], NoArtefacts}
  BY DEF Crash, ReloadAll
<1>2. \A c \in Backends : Rows(c)' \subseteq Rows(c)
  BY DEF Crash, Rows, NoTx
<1>3. \A db \in Databases : AllRows(db)' \subseteq AllRows(db)
  BY <1>2, RowsShrink DEF Crash
<1>4. \A c \in Backends : op'[c].step = "insert" => op'[c] = op[c]
  BY DEF Crash, NoOp
<1> QED
  BY <1>1, <1>3, <1>4, OwnFresh DEF Crash, ReloadAll, history

LEMMA OwnTakeUp ==
  ASSUME TInv, OInv, NEW b \in Backends, TakeUp(b)
  PROVE  OInv'
<1>1. \A c \in Backends : dirOf'[c] \in {dirOf[c], conf}
  BY DEF TakeUp, Reload, TInv, TypeOK, DirTypeOK
<1> QED
  BY <1>1, RowsAlone, OwnFresh DEF TakeUp, Reload, history, counters

LEMMA OwnMove ==
  ASSUME TInv, Move
  PROVE  OInv'
BY DEF Move, EditConf, OInv, Undisturbed, TInv, TypeOK, DirTypeOK

LEMMA OwnRemoveOrphan ==
  ASSUME TInv, NEW p \in Paths, RemoveOrphan(p)
  PROVE  OInv'
BY DEF RemoveOrphan, OInv, Undisturbed, TInv, TypeOK

LEMMA StepOwn ==
  ASSUME OneDatabase
  PROVE  TInv /\ IInv /\ OInv /\ [Next]_vars => OInv'
<1> SUFFICES ASSUME TInv, IInv, OInv, [Next]_vars
             PROVE  OInv'
  OBVIOUS
<1>1. ASSUME NEW b \in Creators, CreateStep(b)
      PROVE  OInv'
  <2> b \in Backends
    BY DbAssumption
  <2> QED
    BY <1>1, OwnCreate, OwnTakeWanted, OwnTakeNextFree, OwnInsert, OwnRollback DEF CreateStep, Refuse
<1>2. ASSUME NEW b \in Backends, NEW n \in Names, NEW k \in Kinds, Load(b, n, k)
      PROVE  OInv'
  BY <1>2, OwnLoad
<1>3. ASSUME NEW b \in Backends, Abort(b)
      PROVE  OInv'
  BY <1>3, OwnRollback DEF Abort
<1>4. CASE UNCHANGED vars
  BY <1>4, RowsAlone, OwnFrame DEF vars, history, counters
<1> QED
  BY <1>1, <1>2, <1>3, <1>4, OwnDrop, OwnRead, OwnCommit, OwnReconnect, OwnTakeUp, OwnDropExtension,
     OwnRemoveOrphan, OwnMove, OwnCrash DEF Next

\* registry.rs:30-35 and vocabulary.rs:271-282: with one database, a directory that stays and
\* files nobody removes, no backend ever reads, cached or from the file, an artefact that another
\* vocabulary ordered, unless the file was written behind a create_vocabulary that had already
\* looked for it; for any interleaving of sessions, aborts, crashes and drops of the extension.
THEOREM OrphansStayOrphansHolds ==
  ASSUME OneDatabase
  PROVE  Spec => []OrphansStayOrphans
<1>1. TInv /\ OInv => OrphansStayOrphans
  <2> SUFFICES ASSUME TInv, OInv, Undisturbed, NEW b \in Backends, NEW k \in Kinds,
                      NEW r \in VisibleRows(b), PathFor(b, r.id) \notin raced
               PROVE  Answer(b, r.id, k) \in {Absent, r.inc}
    BY DEF OrphansStayOrphans, Undisturbed
  <2>1. CASE HasDir(b)
    <3>1. conf # NoDir /\ PathFor(b, r.id) = Home(r.id) /\ CachesAgree /\ FilesAreOwn
      BY <2>1 DEF OInv, DirsAgree, HasDir, PathFor, Home
    <3>2. Home(r.id) \in Paths
      BY <3>1, VisibleTyped DEF Home, Paths, Setting, Row, TInv, TypeOK, DirTypeOK
    <3>3. cache[b][Home(r.id)][k] \in {Absent, artefact[Home(r.id)][k]}
      BY <3>1, <3>2 DEF CachesAgree
    <3>4. r \in AllRows(DbOf[b]) /\ DbOf[b] \in Databases
      BY DbAssumption DEF VisibleRows, AllRows, Rows
    <3>5. artefact[Home(r.id)][k] \in {Absent, r.inc}
      BY <3>1, <3>4 DEF FilesAreOwn
    <3> QED
      BY <3>1, <3>3, <3>5 DEF Answer
  <2>2. CASE ~HasDir(b)
    BY <2>2 DEF Answer
  <2> QED
    BY <2>1, <2>2
<1>2. Spec => []OInv
  BY InitOwn, StepOwn, Inductive, TypeInvariant, PTL DEF Spec
<1> QED
  BY <1>1, <1>2, TypeInvariant, PTL

-----------------------------------------------------------------------------
(* The reservation of ids and names.  It ends with a DROP of the extension;  *)
(* what lasts is that an id is not given again as long as a file of its      *)
(* former vocabulary is left, for any number of databases.                   *)

\* Of two databases no vocabulary is the same, none that is lost is in a catalog or in a
\* transaction, and the next one inserted is new.
IncsApart ==
  /\ \A d, e \in Databases : \A r \in AllRows(d), s \in AllRows(e) : r.inc = s.inc => d = e
  /\ \A d, e \in Databases : \A r \in lost[d], s \in AllRows(e) : r.inc # s.inc
  /\ \A d \in Databases : \A r \in AllRows(d) \cup lost[d] : r.inc <= born

\* Files are where the setting points.
FilesAtHome == \A p \in Paths, k \in Kinds : p[1] # conf => artefact[p][k] = Absent

\* No file in any directory under the id of r is r's.
NoneLeft(r) == \A p \in Paths, k \in Kinds : p[2] = r.id => artefact[p][k] # r.inc

\* An id that is given, or about to be, has no file of a vocabulary that was lost.
LostAreGone ==
  \A db \in Databases : \A former \in lost[db] :
    /\ \A r \in AllRows(db) : r.id = former.id => NoneLeft(former)
    /\ \A b \in Backends :
         DbOf[b] = db /\ op[b].step = "insert" /\ op[b].id = former.id => NoneLeft(former)

LInv == IncsApart /\ (Undisturbed => DirsAgree /\ FilesAtHome /\ LostAreGone)

LEMMA InitLost == Init => LInv
<1> SUFFICES ASSUME Init PROVE LInv
  OBVIOUS
<1>1. \A db \in Databases : AllRows(db) = {} /\ lost[db] = {}
  BY DEF Init, AllRows, Rows, NoTx
<1>2. IncsApart /\ LostAreGone
  BY <1>1 DEF IncsApart, LostAreGone
<1>3. DirsAgree /\ FilesAtHome
  BY DEF Init, DirInit, DirsAgree, FilesAtHome, NoArtefacts
<1> QED
  BY <1>2, <1>3 DEF LInv

\* The rows a transaction loses and the calls that end make the invariant no harder.
LEMMA ApartFrame ==
  ASSUME IncsApart, UNCHANGED <<lost, born>>,
         \A db \in Databases : AllRows(db)' \subseteq AllRows(db)
  PROVE  IncsApart'
BY DEF IncsApart

LEMMA GoneFrame ==
  ASSUME LostAreGone, UNCHANGED <<lost, artefact>>,
         \A db \in Databases : AllRows(db)' \subseteq AllRows(db),
         \A b \in Backends : op'[b].step = "insert" => op'[b] = op[b]
  PROVE  LostAreGone'
<1>1. \A r : NoneLeft(r)' = NoneLeft(r)
  BY DEF NoneLeft, Paths
<1> QED
  BY <1>1 DEF LostAreGone

LEMMA LostFrame ==
  ASSUME LInv, UNCHANGED <<conf, moves, removals, lost, born, artefact>>,
         \A db \in Databases : AllRows(db)' \subseteq AllRows(db),
         \A b \in Backends : op'[b].step = "insert" => op'[b] = op[b],
         \A b \in Backends : dirOf'[b] \in {dirOf[b], conf}
  PROVE  LInv'
<1>1. IncsApart'
  BY ApartFrame DEF LInv
<1>2. ASSUME Undisturbed'
      PROVE  DirsAgree' /\ FilesAtHome' /\ LostAreGone'
  <2>1. DirsAgree /\ FilesAtHome /\ LostAreGone
    BY <1>2 DEF LInv, Undisturbed
  <2>2. DirsAgree'
    BY <2>1 DEF DirsAgree
  <2>3. FilesAtHome'
    BY <2>1 DEF FilesAtHome, Paths
  <2>4. LostAreGone'
    BY <2>1, GoneFrame
  <2> QED
    BY <2>2, <2>3, <2>4
<1> QED
  BY <1>1, <1>2 DEF LInv

\* vocabulary.rs:211-216 and 284-299: the call that settles on an id has seen no file there.
LEMMA LostSettle ==
  ASSUME TInv, LInv, NEW b \in Backends, op'[b].id \in Ids,
         \A c \in Backends \ {b} : op'[c] = op[c],
         ~ExistingArtefact(b, op'[b].id),
         UNCHANGED <<dirVars, catalog, domains, tx, artefact, cache, history, counters>>
  PROVE  LInv'
<1>1. UNCHANGED <<conf, dirOf, moves, removals, lost, born, artefact>>
  BY DEF dirVars, history, counters
<1>2. IncsApart'
  BY <1>1, RowsAlone, ApartFrame DEF LInv
<1>3. ASSUME Undisturbed'
      PROVE  DirsAgree' /\ FilesAtHome' /\ LostAreGone'
  <2>1. DirsAgree /\ FilesAtHome /\ LostAreGone
    BY <1>1, <1>3 DEF LInv, Undisturbed
  <2>2. DirsAgree' /\ FilesAtHome'
    BY <1>1, <2>1 DEF DirsAgree, FilesAtHome, Paths
  <2>3. \A p \in Paths, k \in Kinds : p[2] = op'[b].id => artefact[p][k] = Absent
    <3> SUFFICES ASSUME NEW p \in Paths, NEW k \in Kinds, p[2] = op'[b].id, p[1] = conf
                 PROVE  artefact[p][k] = Absent
      BY <2>1 DEF FilesAtHome
    <3>1. HasDir(b) /\ PathFor(b, op'[b].id) = p
      BY <2>1, NoDirAssumption DEF DirsAgree, HasDir, PathFor, Paths
    <3> QED
      BY <3>1 DEF ExistingArtefact
  <2>4. \A r \in Row : r.inc # Absent
    BY AbsentAssumption, VocabularyBounds DEF Row, Incarnations
  <2>5. \A r \in Row : r.id = op'[b].id => NoneLeft(r)
    BY <2>3, <2>4 DEF NoneLeft
  <2>6. \A db \in Databases : lost[db] \subseteq Row
    BY DEF TInv, TypeOK
  <2>7. \A r : NoneLeft(r)' = NoneLeft(r)
    BY <1>1 DEF NoneLeft, Paths
  <2>8. LostAreGone'
    BY <1>1, <2>1, <2>5, <2>6, <2>7, RowsAlone DEF LostAreGone
  <2> QED
    BY <2>2, <2>8
<1> QED
  BY <1>2, <1>3 DEF LInv

LEMMA LostCreate ==
  ASSUME TInv, LInv, NEW b \in Backends, NEW n \in Names, NEW want \in Ids \cup {0},
         Create(b, n, want)
  PROVE  LInv'
<1>1. \A c \in Backends : op'[c].step = "insert" => op'[c] = op[c]
  BY DEF Create, TInv, TypeOK
<1> QED
  BY <1>1, RowsAlone, LostFrame DEF Create, dirVars, history, counters

LEMMA LostTakeWanted ==
  ASSUME TInv, LInv, NEW b \in Creators, TakeWanted(b)
  PROVE  LInv'
<1>1. b \in Backends
  BY DbAssumption
<1>2. op[b] \in Ops /\ op[b].id \in Ids
  BY <1>1 DEF TInv, TypeOK, Ops, OpsSound, Idle, TakeWanted
<1>3. op'[b].id = op[b].id /\ \A c \in Backends \ {b} : op'[c] = op[c]
  BY <1>1, <1>2 DEF TakeWanted, TInv, TypeOK, Ops
<1> QED
  BY <1>1, <1>2, <1>3, LostSettle DEF TakeWanted

LEMMA LostTakeNextFree ==
  ASSUME TInv, LInv, NEW b \in Creators, TakeNextFree(b)
  PROVE  LInv'
<1> DEFINE i == Min(FreeIds(b))
<1>1. b \in Backends
  BY DbAssumption
<1>2. i \in Ids /\ ~ExistingArtefact(b, i)
  BY <1>1, NextFreeIsFree DEF FreeIds, TakeNextFree
<1>3. op' = [op EXCEPT ![b] = [op[b] EXCEPT !.step = "insert", !.id = i]]
  BY SMT DEF TakeNextFree
<1> HIDE DEF i
<1>4. op'[b].id = i /\ \A c \in Backends \ {b} : op'[c] = op[c]
  BY <1>1, <1>3 DEF TInv, TypeOK
<1> QED
  BY <1>1, <1>2, <1>4, LostSettle DEF TakeNextFree

\* The new row has an incarnation no other has, and an id under which no lost vocabulary has
\* a file.
LEMMA LostInsert ==
  ASSUME TInv, LInv, NEW b \in Backends, Insert(b)
  PROVE  LInv'
<1> DEFINE row == [id |-> op[b].id, name |-> op[b].name, inc |-> born + 1]
<1>1. UNCHANGED <<conf, dirOf, moves, removals, lost, artefact, catalog>> /\ born' = born + 1
  BY DEF Insert, dirVars, history
<1>2. ASSUME NEW db \in Databases
      PROVE  AllRows(db)' \subseteq AllRows(db) \cup {r \in {row} : db = DbOf[b]}
  <2>1. tx' = [tx EXCEPT ![b] = [rows |-> tx[b].rows \cup {row},
                                 made |-> tx[b].made \cup {row.name}, gone |-> tx[b].gone]]
    BY SMT DEF Insert
  <2>2. Rows(b)' \subseteq Rows(b) \cup {row} /\ \A c \in Backends \ {b} : Rows(c)' = Rows(c)
    BY <2>1 DEF Rows, TInv, TypeOK
  <2>3. \A x \in AllRows(db)' :
          x \in catalog'[db] \/ \E c \in Backends : DbOf[c] = db /\ x \in Rows(c)'
    BY DEF AllRows
  <2>4. \A c \in Backends : DbOf[c] = db => Rows(c) \subseteq AllRows(db)
    BY DEF AllRows
  <2>5. catalog'[db] \subseteq AllRows(db)
    BY <1>1 DEF AllRows
  <2> HIDE DEF row
  <2> QED
    BY <2>2, <2>3, <2>4, <2>5
<1>3. row.inc = born + 1 /\ row.id = op[b].id
  OBVIOUS
<1> HIDE DEF row
<1>4. born \in Nat /\ \A d \in Databases : \A r \in AllRows(d) \cup lost[d] : r.inc \in Nat
  BY DbAssumption, VocabularyBounds DEF TInv, TypeOK, Row, Incarnations, AllRows, Rows
<1>5. IncsApart'
  <2>1. IncsApart
    BY DEF LInv
  <2>2. \A d \in Databases : \A r \in AllRows(d) \cup lost[d] : r.inc <= born /\ r.inc # row.inc
    BY <1>3, <1>4, <2>1 DEF IncsApart
  <2>3. \A d, e \in Databases : \A r \in AllRows(d)', s \in AllRows(e)' : r.inc = s.inc => d = e
    BY <1>2, <2>1, <2>2 DEF IncsApart
  <2>4. \A d, e \in Databases : \A r \in lost'[d], s \in AllRows(e)' : r.inc # s.inc
    BY <1>1, <1>2, <2>1, <2>2 DEF IncsApart
  <2>5. \A d \in Databases : \A r \in AllRows(d)' \cup lost'[d] : r.inc <= born'
    <3> SUFFICES ASSUME NEW d \in Databases, NEW r \in AllRows(d)' \cup lost'[d]
                 PROVE  r.inc <= born'
      OBVIOUS
    <3>1. r \in AllRows(d) \cup lost[d] \/ r = row
      BY <1>1, <1>2
    <3> QED
      BY <1>1, <1>3, <1>4, <2>2, <3>1
  <2> QED
    BY <2>3, <2>4, <2>5 DEF IncsApart
<1>6. ASSUME Undisturbed'
      PROVE  DirsAgree' /\ FilesAtHome' /\ LostAreGone'
  <2>1. DirsAgree /\ FilesAtHome /\ LostAreGone
    BY <1>1, <1>6 DEF LInv, Undisturbed
  <2>2. DirsAgree' /\ FilesAtHome'
    BY <1>1, <2>1 DEF DirsAgree, FilesAtHome, Paths
  <2>3. \A r : NoneLeft(r)' = NoneLeft(r)
    BY <1>1 DEF NoneLeft, Paths
  <2>4. \A c \in Backends : op'[c].step = "insert" => op'[c] = op[c]
    BY DEF Insert, TInv, TypeOK, NoOp
  <2>5. \A former \in lost[DbOf[b]] : former.id = row.id => NoneLeft(former)
    BY <1>3, <2>1, DbAssumption DEF LostAreGone, Insert
  <2>6. LostAreGone'
    BY <1>1, <1>2, <2>1, <2>3, <2>4, <2>5 DEF LostAreGone
  <2> QED
    BY <2>2, <2>6
<1> QED
  BY <1>5, <1>6 DEF LInv

LEMMA LostDrop ==
  ASSUME TInv, LInv, NEW b \in Backends, NEW n \in Names, Drop(b, n)
  PROVE  LInv'
<1>1. \A c \in Backends : Rows(c)' \subseteq Rows(c)
  BY DEF Drop, Rows, TInv, TypeOK
<1>2. \A db \in Databases : AllRows(db)' \subseteq AllRows(db)
  BY <1>1, RowsShrink DEF Drop
<1> QED
  BY <1>2, LostFrame DEF Drop, dirVars, history, counters

LEMMA LostCommit ==
  ASSUME IInv, LInv, NEW b \in Backends, Commit(b)
  PROVE  LInv'
BY CommitRows, LostFrame DEF Commit, dirVars, counters

LEMMA LostRollback ==
  ASSUME TInv, LInv, NEW b \in Backends, Rollback(b)
  PROVE  LInv'
<1>1. \A c \in Backends : Rows(c)' \subseteq Rows(c)
  BY DEF Rollback, Rows, NoTx, TInv, TypeOK
<1>2. \A db \in Databases : AllRows(db)' \subseteq AllRows(db)
  BY <1>1, RowsShrink DEF Rollback
<1>3. \A c \in Backends : op'[c].step = "insert" => op'[c] = op[c]
  BY DEF Rollback, TInv, TypeOK, NoOp
<1> QED
  BY <1>2, <1>3, LostFrame DEF Rollback, dirVars, history

\* The file written is of a vocabulary that is there.
LEMMA LostLoad ==
  ASSUME TInv, LInv, NEW b \in Backends, NEW n \in Names, NEW k \in Kinds, Load(b, n, k)
  PROVE  LInv'
<1>1. PICK r \in VisibleRows(b) : artefact' = [artefact EXCEPT ![PathFor(b, r.id)][k] = r.inc]
  BY DEF Load
<1>2. UNCHANGED <<conf, dirOf, moves, removals, lost, born, catalog, tx, op>>
  BY DEF Load, dirVars, counters
<1>3. IncsApart'
  BY <1>2, RowsAlone, ApartFrame DEF LInv
<1>4. ASSUME Undisturbed'
      PROVE  DirsAgree' /\ FilesAtHome' /\ LostAreGone'
  <2>1. DirsAgree /\ FilesAtHome /\ LostAreGone
    BY <1>2, <1>4 DEF LInv, Undisturbed
  <2>2. DirsAgree'
    BY <1>2, <2>1 DEF DirsAgree
  <2>3. PathFor(b, r.id) \in Paths /\ PathFor(b, r.id)[1] = conf
    BY <2>1, VisibleTyped
       DEF Load, HasDir, PathFor, Paths, Setting, Row, DirsAgree, TInv, TypeOK, DirTypeOK
  <2>4. \A p \in Paths, j \in Kinds :
          \/ artefact'[p][j] = artefact[p][j]
          \/ p = PathFor(b, r.id) /\ artefact'[p][j] = r.inc
    BY <1>1, <2>3 DEF TInv, TypeOK, Artefacts
  <2>5. FilesAtHome'
    BY <1>2, <2>1, <2>3, <2>4 DEF FilesAtHome, Paths
  <2>6. r \in AllRows(DbOf[b]) /\ DbOf[b] \in Databases
    BY DbAssumption DEF VisibleRows, AllRows, Rows
  <2>7. \A db \in Databases : \A former \in lost[db] : former.inc # r.inc
    BY <2>6 DEF LInv, IncsApart
  <2>8. \A db \in Databases : \A former \in lost[db] : NoneLeft(former) => NoneLeft(former)'
    BY <2>4, <2>7 DEF NoneLeft, Paths
  <2>9. LostAreGone'
    BY <1>2, <2>1, <2>8, RowsAlone DEF LostAreGone
  <2> QED
    BY <2>2, <2>5, <2>9
<1> QED
  BY <1>3, <1>4 DEF LInv

LEMMA LostRead ==
  ASSUME LInv, NEW b \in Backends, NEW id \in Ids, NEW k \in Kinds, Read(b, id, k)
  PROVE  LInv'
BY RowsAlone, LostFrame DEF Read, dirVars, history, counters

\* vocabulary.rs:271-277: the whole catalog is lost at once, with no call under way.
LEMMA LostDropExtension ==
  ASSUME TInv, LInv, NEW db \in Databases, DropExtension(db)
  PROVE  LInv'
<1>1. /\ UNCHANGED <<conf, dirOf, moves, removals, born, tx, op, artefact>>
      /\ catalog' = [catalog EXCEPT ![db] = {}]
      /\ lost' = [lost EXCEPT ![db] = lost[db] \cup catalog[db]]
  BY SMT DEF DropExtension, dirVars
<1>2. \A d \in Databases : catalog'[d] \subseteq catalog[d]
  BY <1>1 DEF TInv, TypeOK
<1>3. \A d \in Databases : AllRows(d)' \subseteq AllRows(d)
  BY <1>1, <1>2, RowsShrink DEF Rows
<1>4. AllRows(db)' = {}
  <2>1. catalog'[db] = {}
    BY <1>1 DEF TInv, TypeOK
  <2>2. \A c \in Backends : DbOf[c] = db => Rows(c)' = {}
    BY <1>1 DEF DropExtension, Rows, NoTx
  <2> QED
    BY <2>1, <2>2 DEF AllRows
<1>5. /\ \A d \in Databases \ {db} : lost'[d] = lost[d]
      /\ lost'[db] \subseteq lost[db] \cup AllRows(db)
  BY <1>1 DEF AllRows, TInv, TypeOK
<1>6. IncsApart'
  <2>1. IncsApart
    BY DEF LInv
  <2>2. \A d, e \in Databases : \A r \in AllRows(d)', s \in AllRows(e)' : r.inc = s.inc => d = e
    BY <1>3, <2>1 DEF IncsApart
  <2>3. \A d, e \in Databases : \A r \in lost'[d], s \in AllRows(e)' : r.inc # s.inc
    <3> SUFFICES ASSUME NEW d \in Databases, NEW e \in Databases,
                        NEW r \in lost'[d], NEW s \in AllRows(e)'
                 PROVE  r.inc # s.inc
      OBVIOUS
    <3>1. e # db /\ s \in AllRows(e)
      BY <1>3, <1>4
    <3>2. r \in lost[d] \/ (d = db /\ r \in AllRows(db))
      BY <1>5
    <3> QED
      BY <2>1, <3>1, <3>2 DEF IncsApart
  <2>4. \A d \in Databases : \A r \in AllRows(d)' \cup lost'[d] : r.inc <= born'
    BY <1>1, <1>3, <1>5, <2>1 DEF IncsApart
  <2> QED
    BY <2>2, <2>3, <2>4 DEF IncsApart
<1>7. ASSUME Undisturbed'
      PROVE  DirsAgree' /\ FilesAtHome' /\ LostAreGone'
  <2>1. DirsAgree /\ FilesAtHome /\ LostAreGone
    BY <1>1, <1>7 DEF LInv, Undisturbed
  <2>2. DirsAgree' /\ FilesAtHome'
    BY <1>1, <2>1 DEF DirsAgree, FilesAtHome, Paths
  <2>3. \A r : NoneLeft(r)' = NoneLeft(r)
    BY <1>1 DEF NoneLeft, Paths
  <2>4. \A c \in Backends : DbOf[c] = db => op'[c].step # "insert"
    BY <1>1 DEF DropExtension, Idle
  <2>5. LostAreGone'
    <3> SUFFICES ASSUME NEW d \in Databases, NEW former \in lost'[d]
                 PROVE  /\ \A r \in AllRows(d)' : r.id = former.id => NoneLeft(former)
                        /\ \A c \in Backends : DbOf[c] = d /\ op'[c].step = "insert"
                             /\ op'[c].id = former.id => NoneLeft(former)
      BY <2>3 DEF LostAreGone
    <3>1. CASE d = db
      BY <1>4, <2>4, <3>1
    <3>2. CASE d # db
      BY <1>1, <1>3, <1>5, <2>1, <3>2 DEF LostAreGone
    <3> QED
      BY <3>1, <3>2
  <2> QED
    BY <2>2, <2>5
<1> QED
  BY <1>6, <1>7 DEF LInv

LEMMA LostReconnect ==
  ASSUME TInv, LInv, NEW b \in Backends, Reconnect(b)
  PROVE  LInv'
<1>1. \A c \in Backends : dirOf'[c] \in {dirOf[c], conf}
  BY DEF Reconnect, TInv, TypeOK, DirTypeOK
<1> QED
  BY <1>1, RowsAlone, LostFrame DEF Reconnect, history, counters

LEMMA LostCrash ==
  ASSUME LInv, Crash
  PROVE  LInv'
<1>1. \A c \in Backends : dirOf'[c] \in {dirOf[c], conf}
  BY DEF Crash, ReloadAll
<1>2. \A c \in Backends : Rows(c)' \subseteq Rows(c)
  BY DEF Crash, Rows, NoTx
<1>3. \A db \in Databases : AllRows(db)' \subseteq AllRows(db)
  BY <1>2, RowsShrink DEF Crash
<1>4. \A c \in Backends : op'[c].step = "insert" => op'[c] = op[c]
  BY DEF Crash, NoOp
<1> QED
  BY <1>1, <1>3, <1>4, LostFrame DEF Crash, ReloadAll, history

LEMMA LostTakeUp ==
  ASSUME TInv, LInv, NEW b \in Backends, TakeUp(b)
  PROVE  LInv'
<1>1. \A c \in Backends : dirOf'[c] \in {dirOf[c], conf}
  BY DEF TakeUp, Reload, TInv, TypeOK, DirTypeOK
<1> QED
  BY <1>1, RowsAlone, LostFrame DEF TakeUp, Reload, history, counters

\* A step that disturbs the directory leaves the rows alone.
LEMMA LostDisturbed ==
  ASSUME LInv, ~Undisturbed', UNCHANGED <<catalog, tx, lost, born>>
  PROVE  LInv'
BY RowsAlone, ApartFrame DEF LInv

LEMMA LostMove ==
  ASSUME TInv, LInv, Move
  PROVE  LInv'
<1>1. ~Undisturbed'
  BY DEF Move, EditConf, Undisturbed, TInv, TypeOK, DirTypeOK
<1> QED
  BY <1>1, LostDisturbed DEF Move, history, counters

LEMMA LostRemoveOrphan ==
  ASSUME TInv, LInv, NEW p \in Paths, RemoveOrphan(p)
  PROVE  LInv'
<1>1. ~Undisturbed'
  BY DEF RemoveOrphan, Undisturbed, TInv, TypeOK
<1> QED
  BY <1>1, LostDisturbed DEF RemoveOrphan, history

LEMMA StepLost == TInv /\ IInv /\ LInv /\ [Next]_vars => LInv'
<1> SUFFICES ASSUME TInv, IInv, LInv, [Next]_vars
             PROVE  LInv'
  OBVIOUS
<1>1. ASSUME NEW b \in Creators, CreateStep(b)
      PROVE  LInv'
  <2> b \in Backends
    BY DbAssumption
  <2> QED
    BY <1>1, LostCreate, LostTakeWanted, LostTakeNextFree, LostInsert, LostRollback
       DEF CreateStep, Refuse
<1>2. ASSUME NEW b \in Backends, Abort(b)
      PROVE  LInv'
  BY <1>2, LostRollback DEF Abort
<1>3. CASE UNCHANGED vars
  BY <1>3, RowsAlone, LostFrame DEF vars, dirVars, history, counters
<1> QED
  BY <1>1, <1>2, <1>3, LostDrop, LostLoad, LostRead, LostCommit, LostReconnect, LostTakeUp,
     LostDropExtension, LostRemoveOrphan, LostMove, LostCrash DEF Next

\* README, "a vocabulary's name and id are reserved forever", as far as it goes: for any number
\* of sessions and databases, any interleaving of their transactions, and any aborts and crashes,
\* a committed vocabulary keeps its row, and its name and id to itself, until the extension is
\* dropped; and from then on, in a directory nobody disturbs, no vocabulary gets its id while a
\* file it ordered is left there (vocabulary.rs:271-277).
THEOREM ReservedWhileInstalledHolds == Spec => []ReservedWhileInstalled
<1>1. ASSUME IInv, LInv, NEW db \in Databases
      PROVE  LET lasting == ever[db] \ lost[db]
                 rows == lasting \cup UNION {Rows(b) : b \in {c \in Backends : DbOf[c] = db}} IN
             /\ lasting \subseteq catalog[db]
             /\ Distinct(rows)
             /\ Undisturbed => \A former \in lost[db], r \in rows : former.id = r.id => NoneLeft(former)
  <2> DEFINE lasting == ever[db] \ lost[db]
             rows == lasting \cup UNION {Rows(b) : b \in {c \in Backends : DbOf[c] = db}}
  <2>1. lasting \subseteq catalog[db]
    BY <1>1 DEF IInv, Shape
  <2>2. rows \subseteq AllRows(db)
    BY <2>1 DEF AllRows
  <2> HIDE DEF rows
  <2>3. Distinct(rows)
    BY <1>1, <2>2 DEF IInv, RowsDistinct, Distinct
  <2>4. Undisturbed => \A former \in lost[db], r \in rows : former.id = r.id => NoneLeft(former)
    BY <1>1, <2>2 DEF LInv, LostAreGone
  <2> QED
    BY <2>1, <2>3, <2>4 DEF rows
<1>3. IInv /\ LInv => ReservedWhileInstalled
  BY <1>1 DEF ReservedWhileInstalled, Distinct, Undisturbed, NoneLeft
<1>2. Spec => []LInv
  BY InitLost, StepLost, Inductive, TypeInvariant, PTL DEF Spec
<1> QED
  BY <1>2, <1>3, Inductive, PTL

=============================================================================
