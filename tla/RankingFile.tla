----------------------------- MODULE RankingFile -----------------------------
(***************************************************************************)
(* The ranking artefact <id>.tntt: pgtoken.train (ext/src/lib.rs),         *)
(* write_table and rank_table (ext/src/registry.rs).  Where a mapping is   *)
(* staged and linked, a ranking is created at its final name by            *)
(* std::fs::write, which opens and truncates first and writes after, with  *)
(* no flush; and a reader parses the file through a memory map.            *)
(*                                                                         *)
(* A ranking is an opaque value with a size.  Its header states its length *)
(* (4 bytes per rank), so a file of any other length does not parse.       *)
(***************************************************************************)
EXTENDS TableDir

CONSTANTS
  Trainers,   \* the backends that call train
  Rankings,   \* the rankings a training query may yield
  Size,       \* Size[r]: the bytes of ranking r
  Absent,     \* no file, no cache entry
  Empty,      \* a file that was just truncated
  Partial,    \* a proper prefix of a ranking
  Torn,       \* bytes of two rankings, of a length neither header states
  MaxFaults,  \* bound on failing statements, failing writes and crashes
  MaxLosses   \* bound on losses of power

ASSUME TrainersAssumption == Trainers \subseteq Backends
ASSUME SizeAssumption == Size \in [Rankings -> Nat \ {0}]
ASSUME TableBounds == MaxFaults \in Nat /\ MaxLosses \in Nat

VARIABLES
  tableFile,  \* tableFile[p]: what <dir>/<id>.tntt holds, or Absent
  settled,    \* the paths whose file has reached the disk
  op,         \* op[b]: the train or the read backend b is in
  cache,      \* CACHE of each backend, keyed by path
  used,       \* history: the rankings rank_table ever answered with, per id
  raced,      \* history: the paths where two trains were past their check at once
  faults, losses

history == <<used, raced>>
vars == <<dirVars, tableFile, settled, op, cache, history, faults, losses>>

Broken == {Empty, Partial, Torn}

\* A ranking, a file that is none, and no file are told apart.
ASSUME ContentAssumption ==
  /\ Absent \notin Rankings \cup Broken
  /\ Broken \cap Rankings = {}
  /\ Empty \notin {Partial, Torn}

Content == Rankings \cup Broken \cup {Absent}

Op == [step : {"idle", "query", "check", "open", "write", "parse"},
       path : Paths \cup {Absent}, ranking : Rankings \cup {Absent}, seen : Content]

NoOp == [step |-> "idle", path |-> Absent, ranking |-> Absent, seen |-> Absent]

NoCache == [p \in Paths |-> Absent]

TypeOK ==
  /\ DirTypeOK
  /\ tableFile \in [Paths -> Content]
  /\ settled \subseteq Paths
  /\ op \in [Backends -> Op]
  /\ cache \in [Backends -> [Paths -> Rankings \cup {Absent}]]
  /\ used \in [Ids -> SUBSET Rankings]
  /\ raced \subseteq Paths
  /\ faults \in 0..MaxFaults
  /\ losses \in 0..MaxLosses

Init ==
  /\ DirInit
  /\ tableFile = [p \in Paths |-> Absent]
  /\ settled = {}
  /\ op = [b \in Backends |-> NoOp]
  /\ cache = [b \in Backends |-> NoCache]
  /\ used = [id \in Ids |-> {}]
  /\ raced = {}
  /\ faults = 0
  /\ losses = 0

Become(b, o) == op' = [op EXCEPT ![b] = o]

-----------------------------------------------------------------------------
(* train and write_table.                                                   *)

\* Mutant of TableExists: the bare relative name is looked for, in the data directory.
ExistsElsewhere(p) == FALSE

\* path.exists(), asked by train and again by write_table.
TableExists(p) == tableFile[p] # Absent

\* train's own check, before its query.
Train(b, id) ==
  /\ op[b].step = "idle"
  /\ HasDir(b)
  /\ ~TableExists(PathFor(b, id))
  /\ Become(b, [NoOp EXCEPT !.step = "query", !.path = PathFor(b, id)])
  /\ UNCHANGED <<dirVars, tableFile, settled, cache, history, faults, losses>>

\* The query ran and its ids yielded a ranking.
RankIds(b, r) ==
  /\ op[b].step = "query"
  /\ Become(b, [op[b] EXCEPT !.step = "check", !.ranking = r])
  /\ UNCHANGED <<dirVars, tableFile, settled, cache, history, faults, losses>>

\* The backends past write_table's check at p.
Writers(p) == {b \in Backends : op[b].path = p /\ op[b].step \in {"open", "write"}}

\* Backend b is past the check; if another is too, the two race.
Pass(b) ==
  /\ Become(b, [op[b] EXCEPT !.step = "open"])
  /\ raced' = IF Writers(op[b].path) = {} THEN raced ELSE raced \cup {op[b].path}

\* Mutant of CheckTable: write_table relies on train's check.
SkipCheck(b) ==
  /\ op[b].step = "check"
  /\ Pass(b)
  /\ UNCHANGED <<dirVars, tableFile, settled, cache, used, faults, losses>>

\* write_table's exists(): the first of two system calls.
CheckTable(b) ==
  /\ op[b].step = "check"
  /\ IF TableExists(op[b].path) THEN Become(b, NoOp) /\ UNCHANGED raced ELSE Pass(b)
  /\ UNCHANGED <<dirVars, tableFile, settled, cache, used, faults, losses>>

\* std::fs::write opens with create and truncate, whatever is there by now.
OpenTable(b) ==
  /\ op[b].step = "open"
  /\ tableFile' = [tableFile EXCEPT ![op[b].path] = Empty]
  /\ settled' = settled \ {op[b].path}
  /\ Become(b, [op[b] EXCEPT !.step = "write"])
  /\ UNCHANGED <<dirVars, cache, history, faults, losses>>

\* What a file holding c may hold once r has been written from its start.
Over(c, r) ==
  IF c = Empty \/ (c \in Rankings /\ Size[c] <= Size[r]) THEN {r}
  ELSE IF c \in Rankings THEN {Torn}
  ELSE {r, Torn}

WriteTable(b) ==
  /\ op[b].step = "write"
  /\ \E c \in Over(tableFile[op[b].path], op[b].ranking) :
       tableFile' = [tableFile EXCEPT ![op[b].path] = c]
  /\ settled' = settled \ {op[b].path}
  /\ Become(b, NoOp)
  /\ UNCHANGED <<dirVars, cache, history, faults, losses>>

-----------------------------------------------------------------------------
(* rank_table.                                                              *)

ServeCached(b, id) ==
  /\ op[b].step = "idle"
  /\ HasDir(b)
  /\ cache[b][PathFor(b, id)] # Absent
  /\ used' = [used EXCEPT ![id] = @ \cup {cache[b][PathFor(b, id)]}]
  /\ UNCHANGED <<dirVars, tableFile, settled, op, cache, raced, faults, losses>>

\* A miss maps the file at the length it has now.  An empty file cannot be mapped.
MapTable(b, id) ==
  LET p == PathFor(b, id) IN
  /\ op[b].step = "idle"
  /\ HasDir(b)
  /\ cache[b][p] = Absent
  /\ tableFile[p] \notin {Absent, Empty}
  /\ Become(b, [NoOp EXCEPT !.step = "parse", !.path = p, !.seen = tableFile[p]])
  /\ UNCHANGED <<dirVars, tableFile, settled, cache, history, faults, losses>>

\* Mutant of Parses: the length in the header is not compared with the file's.
ParsesAnything(b) == tableFile[op[b].path] # Absent

\* The bytes parsed are those the file holds at this moment, cut at the mapped length.
Parses(b) ==
  LET c == tableFile[op[b].path] IN
  /\ c \in Rankings
  /\ op[b].seen \in Rankings
  /\ Size[c] = Size[op[b].seen]

ParseTable(b) ==
  LET p == op[b].path IN
  /\ op[b].step = "parse"
  /\ tableFile[p] # Empty
  /\ IF Parses(b)
     THEN /\ cache' = [cache EXCEPT ![b][p] = tableFile[p]]
          /\ used' = [used EXCEPT ![p[2]] = @ \cup {tableFile[p]}]
     ELSE UNCHANGED <<cache, used>>
  /\ Become(b, NoOp)
  /\ UNCHANGED <<dirVars, tableFile, settled, raced, faults, losses>>

\* All backends start afresh after the death of one; the files stay.
Restart ==
  /\ op' = [b \in Backends |-> NoOp]
  /\ cache' = [b \in Backends |-> NoCache]
  /\ ReloadAll

\* The map reaches past the end of a file truncated under it: the process dies of SIGBUS.
ReaderDies(b) ==
  /\ op[b].step = "parse"
  /\ tableFile[op[b].path] = Empty
  /\ Restart
  /\ UNCHANGED <<tableFile, settled, history, faults, losses>>

Reconnect(b) ==
  /\ op[b].step = "idle"
  /\ cache' = [cache EXCEPT ![b] = NoCache]
  /\ dirOf' = [dirOf EXCEPT ![b] = conf]
  /\ UNCHANGED <<conf, moves, tableFile, settled, op, history, faults, losses>>

Move == EditConf /\ UNCHANGED <<tableFile, settled, op, cache, history, faults, losses>>

TakeUp(b) ==
  /\ op[b].step = "idle"
  /\ Reload(b)
  /\ UNCHANGED <<tableFile, settled, op, cache, history, faults, losses>>

-----------------------------------------------------------------------------
(* Faults.                                                                  *)

Fault == faults < MaxFaults /\ faults' = faults + 1

QueryFails(b) ==
  /\ Fault
  /\ op[b].step = "query"
  /\ Become(b, NoOp)
  /\ UNCHANGED <<dirVars, tableFile, settled, cache, history, losses>>

\* ENOSPC or an I/O error in the write.  Nothing removes what was written so far.
WriteFails(b) ==
  /\ Fault
  /\ op[b].step = "write"
  /\ \E c \in IF tableFile[op[b].path] = Empty THEN {Empty, Partial}
              ELSE {tableFile[op[b].path], Torn} :
       tableFile' = [tableFile EXCEPT ![op[b].path] = c]
  /\ Become(b, NoOp)
  /\ UNCHANGED <<dirVars, settled, cache, history, losses>>

Crash ==
  /\ Fault
  /\ Restart
  /\ UNCHANGED <<tableFile, settled, history, losses>>

\* Neither the file nor its directory is ever flushed: until the system has written them
\* back, a loss of power may take the file, its bytes or neither.
PowerLoss ==
  /\ losses < MaxLosses
  /\ losses' = losses + 1
  /\ \E left \in [Paths -> {Absent, Empty, Partial, "kept"}] :
       /\ \A p \in Paths : p \in settled \/ tableFile[p] \notin Rankings => left[p] = "kept"
       /\ tableFile' = [p \in Paths |-> IF left[p] = "kept" THEN tableFile[p] ELSE left[p]]
  /\ settled' = {p \in Paths : tableFile'[p] # Absent}
  /\ Restart
  /\ UNCHANGED <<history, faults>>

-----------------------------------------------------------------------------
TrainStep(b) ==
  \/ \E id \in Ids : Train(b, id)
  \/ \E r \in Rankings : RankIds(b, r)
  \/ CheckTable(b)
  \/ OpenTable(b)
  \/ WriteTable(b)
  \/ QueryFails(b)
  \/ WriteFails(b)

ReadStep(b) ==
  \/ \E id \in Ids : ServeCached(b, id) \/ MapTable(b, id)
  \/ ParseTable(b)
  \/ ReaderDies(b)

Next ==
  \/ \E b \in Trainers : TrainStep(b)
  \/ \E b \in Backends : ReadStep(b) \/ Reconnect(b) \/ TakeUp(b)
  \/ Move
  \/ Crash
  \/ PowerLoss

Spec == Init /\ [][Next]_vars

-----------------------------------------------------------------------------
(* Properties.                                                              *)

\* registry.rs:176-178, "a vocabulary_id is a permanent name for a specific table, because
\* stored values reference it": what was once encoded against is what the file still holds,
\* through failing writes and crashes.  The exceptions are named: two trains that raced past
\* write_table's check, a loss of power before the bytes were written back, and a setting
\* that moved.
RankingStays ==
  \A id \in Ids : \A r \in used[id] :
    conf # NoDir /\ moves = 0 /\ losses = 0 /\ <<conf, id>> \notin raced
      => tableFile[<<conf, id>>] = r

\* registry.rs:126-128, "which is why artefact files are write-once": outside a race of two
\* trains, no file is truncated while a backend parses its map.
NoReaderDies ==
  \A b \in Backends :
    op[b].step = "parse" /\ op[b].path \notin raced => tableFile[op[b].path] # Empty

\* registry.rs:174-186: how far the race of two trains reaches, and what a failed write
\* leaves.  A file, whole or broken, is changed by the call that is writing it; by another
\* train only while one of those that raced past the check is left; and by a loss of power.
FileIsFinal ==
  [][\A p \in Paths :
       \/ tableFile[p] = Absent
       \/ \E b \in Writers(p) : op[b].step = "write"
       \/ p \in raced /\ Writers(p) # {}
       \/ tableFile'[p] = tableFile[p]
       \/ losses' # losses]_vars

=============================================================================
