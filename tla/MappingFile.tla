----------------------------- MODULE MappingFile -----------------------------
(***************************************************************************)
(* The mapping artefact <id>.tnmap: pgtoken.load_mapping                   *)
(* (ext/src/mapping.rs), write_map and byte_map (ext/src/registry.rs) run  *)
(* by concurrent backends over one file system, with failing statements,   *)
(* failing system calls, crashes of the server and losses of power.        *)
(*                                                                         *)
(* A mapping is an opaque value: what its bytes say is ByteMap's concern.  *)
(* An inode holds a whole mapping or a proper prefix of one (Short), and   *)
(* is on disk or only in the page cache.  A temporary file and the final   *)
(* name are two links to one inode; nothing writes to it after the link.   *)
(***************************************************************************)
EXTENDS TableDir

CONSTANTS
  Mappings,   \* the mappings a load_mapping query may build
  Short,      \* the content of a file whose bytes are incomplete
  Absent,     \* no file, no cache entry
  Stamps,     \* the clock readings that stamp temporary names
  MaxFaults,  \* bound on failing statements, failing calls and crashes
  MaxLosses   \* bound on losses of power

VARIABLES
  mapFile,    \* mapFile[p]: the inode at <dir>/<id>.tnmap, or Absent
  durable,    \* the paths whose directory entry has reached the disk
  temp,       \* temp[t]: the inode at the temporary name t, or Absent
  op,         \* op[b]: how far backend b's load_mapping has come
  mapCache,   \* MAP_CACHE of each backend, keyed by path
  served,     \* history: the mappings byte_map ever answered with, per id
  acked,      \* history: the mappings load_mapping reported as loaded, per path
  faults,     \* faults so far (bounds the model)
  losses      \* losses of power so far (bounds the model)

fsVars == <<mapFile, durable, temp>>
history == <<served, acked>>
vars == <<dirVars, fsVars, op, mapCache, history, faults, losses>>

Inode == [bytes : Mappings \cup {Short}, synced : BOOLEAN]

\* ".<id>.tnmap.<pid>.<nanos>.tmp" in the artefact's own directory.
TempNames == Paths \X Backends \X Stamps

Steps == {"idle", "query", "create", "write", "sync", "link", "unlink"}

Op == [step : Steps, path : Paths \cup {Absent},
       map : Mappings \cup {Absent}, stamp : Stamps \cup {Absent}, won : BOOLEAN]

NoOp == [step |-> "idle", path |-> Absent, map |-> Absent, stamp |-> Absent, won |-> FALSE]

ASSUME ContentAssumption ==
  /\ Short \notin Mappings
  /\ Absent \notin Mappings \cup {Short} \cup Inode \cup Paths \cup Stamps
ASSUME FaultBounds == MaxFaults \in Nat /\ MaxLosses \in Nat

EmptyCaches == [b \in Backends |-> [p \in Paths |-> Absent]]

TypeOK ==
  /\ DirTypeOK
  /\ mapFile \in [Paths -> Inode \cup {Absent}]
  /\ durable \subseteq Paths
  /\ temp \in [TempNames -> Inode \cup {Absent}]
  /\ op \in [Backends -> Op]
  /\ mapCache \in [Backends -> [Paths -> Mappings \cup {Absent}]]
  /\ served \in [Ids -> SUBSET Mappings]
  /\ acked \in [Paths -> SUBSET Mappings]
  /\ faults \in 0..MaxFaults
  /\ losses \in 0..MaxLosses

Init ==
  /\ DirInit
  /\ mapFile = [p \in Paths |-> Absent]
  /\ durable = {}
  /\ temp = [t \in TempNames |-> Absent]
  /\ op = [b \in Backends |-> NoOp]
  /\ mapCache = EmptyCaches
  /\ served = [id \in Ids |-> {}]
  /\ acked = [p \in Paths |-> {}]
  /\ faults = 0
  /\ losses = 0

TempOf(b) == <<op[b].path, b, op[b].stamp>>

Goto(b, step) == op' = [op EXCEPT ![b].step = step]

-----------------------------------------------------------------------------
(* load_mapping and write_map, one step per system call.  A statement that  *)
(* is refused before it changes anything leaves no trace and is no action.  *)

\* The checks of load_mapping before its query: a directory, and no mapping yet.
LoadMapping(b, id) ==
  /\ op[b].step = "idle"
  /\ HasDir(b)
  /\ mapFile[PathFor(b, id)] = Absent
  /\ op' = [op EXCEPT ![b] = [NoOp EXCEPT !.step = "query", !.path = PathFor(b, id)]]
  /\ UNCHANGED <<dirVars, fsVars, mapCache, history, faults, losses>>

\* Mutant of BuildMap: an empty result is let through, and no mapping was built.
BuildNothing(b, m) ==
  /\ op[b].step = "query"
  /\ op' = [op EXCEPT ![b].step = "create", ![b].map = Absent]
  /\ UNCHANGED <<dirVars, fsVars, mapCache, history, faults, losses>>

\* The query ran and its rows built a mapping.
BuildMap(b, m) ==
  /\ op[b].step = "query"
  /\ op' = [op EXCEPT ![b].step = "create", ![b].map = m]
  /\ UNCHANGED <<dirVars, fsVars, mapCache, history, faults, losses>>

\* create_new at the stamped name.
CreateTemp(b, s) ==
  LET t == <<op[b].path, b, s>> IN
  /\ op[b].step = "create"
  /\ temp[t] = Absent
  /\ temp' = [temp EXCEPT ![t] = [bytes |-> Short, synced |-> FALSE]]
  /\ op' = [op EXCEPT ![b].step = "write", ![b].stamp = s]
  /\ UNCHANGED <<dirVars, mapFile, durable, mapCache, history, faults, losses>>

\* Mutant of TempCollides: the error path leaves the file that was in the way.
CollideAndKeep(b, s) ==
  /\ op[b].step = "create"
  /\ temp[<<op[b].path, b, s>>] # Absent
  /\ op' = [op EXCEPT ![b] = NoOp]
  /\ UNCHANGED <<dirVars, fsVars, mapCache, history, faults, losses>>

\* create_new finds the name taken: an error, and the error path removes the file there.
TempCollides(b, s) ==
  LET t == <<op[b].path, b, s>> IN
  /\ op[b].step = "create"
  /\ temp[t] # Absent
  /\ temp' = [temp EXCEPT ![t] = Absent]
  /\ op' = [op EXCEPT ![b] = NoOp]
  /\ UNCHANGED <<dirVars, mapFile, durable, mapCache, history, faults, losses>>

\* Mutant of WriteTemp: sync_all is left out.
WriteUnsynced(b) ==
  /\ op[b].step = "write"
  /\ temp' = [temp EXCEPT ![TempOf(b)] = [bytes |-> op[b].map, synced |-> FALSE]]
  /\ Goto(b, "link")
  /\ UNCHANGED <<dirVars, mapFile, durable, mapCache, history, faults, losses>>

\* write_all of the whole mapping.
WriteTemp(b) ==
  /\ op[b].step = "write"
  /\ temp' = [temp EXCEPT ![TempOf(b)] = [bytes |-> op[b].map, synced |-> FALSE]]
  /\ Goto(b, "sync")
  /\ UNCHANGED <<dirVars, mapFile, durable, mapCache, history, faults, losses>>

\* sync_all.
SyncTemp(b) ==
  /\ op[b].step = "sync"
  /\ temp' = [temp EXCEPT ![TempOf(b)].synced = TRUE]
  /\ Goto(b, "link")
  /\ UNCHANGED <<dirVars, mapFile, durable, mapCache, history, faults, losses>>

\* Mutant of LinkMap: rename in place of hard_link, which replaces what is there.
RenameMap(b) ==
  /\ op[b].step = "link"
  /\ mapFile' = [mapFile EXCEPT ![op[b].path] = temp[TempOf(b)]]
  /\ op' = [op EXCEPT ![b].step = "unlink", ![b].won = TRUE]
  /\ UNCHANGED <<dirVars, durable, temp, mapCache, history, faults, losses>>

\* hard_link gives the inode its final name, which was free.
LinkMap(b) ==
  /\ op[b].step = "link"
  /\ mapFile[op[b].path] = Absent
  /\ mapFile' = [mapFile EXCEPT ![op[b].path] = temp[TempOf(b)]]
  /\ op' = [op EXCEPT ![b].step = "unlink", ![b].won = TRUE]
  /\ UNCHANGED <<dirVars, durable, temp, mapCache, history, faults, losses>>

\* Mutants of LinkTaken: a taken name counts as success; the cleanup removes the final
\* name in place of the temporary one.
LinkTakenWins(b) ==
  /\ op[b].step = "link"
  /\ mapFile[op[b].path] # Absent
  /\ op' = [op EXCEPT ![b].step = "unlink", ![b].won = TRUE]
  /\ UNCHANGED <<dirVars, fsVars, mapCache, history, faults, losses>>

LinkTakenRemoves(b) ==
  /\ op[b].step = "link"
  /\ mapFile[op[b].path] # Absent
  /\ mapFile' = [mapFile EXCEPT ![op[b].path] = Absent]
  /\ Goto(b, "unlink")
  /\ UNCHANGED <<dirVars, durable, temp, mapCache, history, faults, losses>>

\* hard_link fails with AlreadyExists: another load_mapping was first.
LinkTaken(b) ==
  /\ op[b].step = "link"
  /\ mapFile[op[b].path] # Absent
  /\ Goto(b, "unlink")
  /\ UNCHANGED <<dirVars, fsVars, mapCache, history, faults, losses>>

\* load_mapping returns: a success if its link was made, an error if not.
Answer(b) ==
  /\ acked' = IF op[b].won THEN [acked EXCEPT ![op[b].path] = @ \cup {op[b].map}] ELSE acked
  /\ op' = [op EXCEPT ![b] = NoOp]
  /\ UNCHANGED <<dirVars, mapFile, durable, mapCache, served, losses>>

\* Mutant of UnlinkTemp: every temporary of the vocabulary is swept away.
SweepTemps(b) ==
  /\ op[b].step = "unlink"
  /\ temp' = [t \in TempNames |-> IF t[1] = op[b].path THEN Absent ELSE temp[t]]
  /\ Answer(b)
  /\ UNCHANGED faults

\* The temporary name goes whichever way the link went.
UnlinkTemp(b) ==
  /\ op[b].step = "unlink"
  /\ temp' = [temp EXCEPT ![TempOf(b)] = Absent]
  /\ Answer(b)
  /\ UNCHANGED faults

-----------------------------------------------------------------------------
(* byte_map, and what ends or replaces a backend.                           *)

\* A cache hit answers from the first read, whatever the file holds now.
ServeCached(b, id) ==
  /\ op[b].step = "idle"
  /\ HasDir(b)
  /\ mapCache[b][PathFor(b, id)] # Absent
  /\ served' = [served EXCEPT ![id] = @ \cup {mapCache[b][PathFor(b, id)]}]
  /\ UNCHANGED <<dirVars, fsVars, op, mapCache, acked, faults, losses>>

\* Mutant of ReadMap: the cache is keyed by the bare id, so a hit may be another directory's.
ReadById(b, id) ==
  LET p == PathFor(b, id) IN
  /\ op[b].step = "idle"
  /\ HasDir(b)
  /\ mapCache[b][p] = Absent
  /\ mapFile[p] # Absent
  /\ mapCache' = [mapCache EXCEPT ![b] =
                     [q \in Paths |-> IF q[2] = id THEN mapFile[p].bytes ELSE @[q]]]
  /\ served' = [served EXCEPT ![id] = @ \cup {mapFile[p].bytes}]
  /\ UNCHANGED <<dirVars, fsVars, op, acked, faults, losses>>

\* A miss opens, parses and caches the file.  An absent or short file is an answer
\* or an error that is not cached, so neither is an action.
ReadMap(b, id) ==
  LET p == PathFor(b, id) IN
  /\ op[b].step = "idle"
  /\ HasDir(b)
  /\ mapCache[b][p] = Absent
  /\ mapFile[p] # Absent
  /\ mapFile[p].bytes # Short
  /\ mapCache' = [mapCache EXCEPT ![b][p] = mapFile[p].bytes]
  /\ served' = [served EXCEPT ![id] = @ \cup {mapFile[p].bytes}]
  /\ UNCHANGED <<dirVars, fsVars, op, acked, faults, losses>>

\* A session ends and a new one takes its process slot.
Reconnect(b) ==
  /\ op[b].step = "idle"
  /\ mapCache' = [mapCache EXCEPT ![b] = [p \in Paths |-> Absent]]
  /\ dirOf' = [dirOf EXCEPT ![b] = conf]
  /\ UNCHANGED <<conf, moves, fsVars, op, history, faults, losses>>

Move == EditConf /\ UNCHANGED <<fsVars, op, mapCache, history, faults, losses>>

\* SIGHUP is acted on between statements only.
TakeUp(b) ==
  /\ op[b].step = "idle"
  /\ Reload(b)
  /\ UNCHANGED <<fsVars, op, mapCache, history, faults, losses>>

-----------------------------------------------------------------------------
(* Faults.                                                                  *)

Fault == faults < MaxFaults /\ faults' = faults + 1

\* The query raises, is cancelled, or returns rows no mapping can be built from.
QueryFails(b) ==
  /\ Fault
  /\ op[b].step = "query"
  /\ op' = [op EXCEPT ![b] = NoOp]
  /\ UNCHANGED <<dirVars, fsVars, mapCache, history, losses>>

\* ENOSPC or an I/O error while the temporary file is written or flushed.
StageFails(b) ==
  /\ Fault
  /\ op[b].step \in {"write", "sync"}
  /\ temp' = [temp EXCEPT ![TempOf(b)] = Absent]
  /\ op' = [op EXCEPT ![b] = NoOp]
  /\ UNCHANGED <<dirVars, mapFile, durable, mapCache, history, losses>>

\* hard_link fails for any reason but a taken name.
LinkFails(b) ==
  /\ Fault
  /\ op[b].step = "link"
  /\ Goto(b, "unlink")
  /\ UNCHANGED <<dirVars, fsVars, mapCache, history, losses>>

\* The result of the last remove_file is ignored: the temporary may stay behind.
UnlinkFails(b) ==
  /\ Fault
  /\ op[b].step = "unlink"
  /\ Answer(b)
  /\ UNCHANGED temp

\* One backend dies and the postmaster restarts them all.  The files stay.
Crash ==
  /\ Fault
  /\ op' = [b \in Backends |-> NoOp]
  /\ mapCache' = EmptyCaches
  /\ ReloadAll
  /\ UNCHANGED <<fsVars, history, losses>>

\* An inode that was never flushed comes back incomplete.
AfterLoss(i) == IF i = Absent \/ i.synced THEN i ELSE [i EXCEPT !.bytes = Short]

\* The machine stops.  Directories are never fsync'd, so any entry that is not yet on
\* disk may be gone; whatever comes back is on disk from then on.
PowerLoss ==
  /\ losses < MaxLosses
  /\ losses' = losses + 1
  /\ \E gone \in SUBSET {p \in Paths \ durable : mapFile[p] # Absent} :
       /\ mapFile' = [p \in Paths |-> IF p \in gone THEN Absent ELSE AfterLoss(mapFile[p])]
       /\ durable' = {p \in Paths \ gone : mapFile[p] # Absent}
  /\ \E gone \in SUBSET {t \in TempNames : temp[t] # Absent} :
       temp' = [t \in TempNames |-> IF t \in gone THEN Absent ELSE AfterLoss(temp[t])]
  /\ op' = [b \in Backends |-> NoOp]
  /\ mapCache' = EmptyCaches
  /\ ReloadAll
  /\ UNCHANGED <<history, faults>>

-----------------------------------------------------------------------------
\* A step of the load_mapping statement backend b is executing.
Advance(b) ==
  \/ \E m \in Mappings : BuildMap(b, m)
  \/ \E s \in Stamps : CreateTemp(b, s) \/ TempCollides(b, s)
  \/ WriteTemp(b)
  \/ SyncTemp(b)
  \/ LinkMap(b)
  \/ LinkTaken(b)
  \/ UnlinkTemp(b)

Load(b) == \E id \in Ids : LoadMapping(b, id)

Read(b) == \E id \in Ids : ServeCached(b, id) \/ ReadMap(b, id)

Fails(b) == QueryFails(b) \/ StageFails(b) \/ LinkFails(b) \/ UnlinkFails(b)

Next ==
  \/ \E b \in Backends : Load(b) \/ Advance(b) \/ Read(b) \/ Fails(b)
  \/ \E b \in Backends : Reconnect(b) \/ TakeUp(b)
  \/ Move
  \/ Crash
  \/ PowerLoss

Spec == Init /\ [][Next]_vars

\* A statement under way runs on, an idle backend acts on a signal, and a client repeats
\* a load_mapping that left no mapping ("a state load_mapping can simply be run again
\* from").
FairSpec ==
  /\ Spec
  /\ \A b \in Backends : WF_vars(Advance(b)) /\ WF_vars(Load(b)) /\ WF_vars(TakeUp(b))

-----------------------------------------------------------------------------
(* The abstract store: the bytes at each path and the caches.               *)

Stored == [p \in Paths |-> IF mapFile[p] = Absent THEN Absent ELSE mapFile[p].bytes]

Abstract == INSTANCE WriteOnceStore
  WITH Readers <- Backends, Keys <- Paths, Values <- Mappings, Nothing <- Absent,
       store <- Stored, view <- mapCache

-----------------------------------------------------------------------------
(* Properties.                                                              *)

\* registry.rs:30-35: the file system and the caches of all the backends behave as a store
\* that takes one value per path and no more, and loses one only with the machine's power.
ImplementsWriteOnce == Abstract!Spec

\* registry.rs:213-216, "<id>.tnmap never exists while short": whatever fails, and
\* whatever a loss of power discards, a file at the final name is a whole mapping
\* whose bytes are on disk.
NeverShort ==
  \A p \in Paths : mapFile[p] # Absent => mapFile[p].bytes # Short /\ mapFile[p].synced

\* registry.rs:208-211, "write-once": no step puts a second mapping at a path or takes
\* one away, except a loss of power, which may take an entry that is not on disk.
WriteOnce ==
  [][\A p \in Paths :
       mapFile[p] # Absent =>
         \/ mapFile'[p] = mapFile[p]
         \/ mapFile'[p] = Absent /\ losses' # losses /\ p \notin durable]_vars

\* registry.rs:210-211, "two concurrent load_mapping calls cannot both win": at most one
\* mapping is ever reported as loaded at a path, and it is the one the file holds.
AckedIsStored ==
  losses = 0 =>
    \A p \in Paths : \A m \in acked[p] : mapFile[p] # Absent /\ mapFile[p].bytes = m

\* registry.rs:17-27, the cache contract: what a backend has cached is what the file at
\* that path still holds, so no two backends disagree about one path.
CacheCoherent ==
  \A b \in Backends, p \in Paths :
    mapCache[b][p] # Absent => mapFile[p] # Absent /\ mapFile[p].bytes = mapCache[b][p]

\* mapping.rs:21-22, what lets pgtoken.text be IMMUTABLE: over the life of the cluster, in
\* every backend, the text of a value is made with one and the same mapping, while the
\* directory is not moved and the machine keeps its power.
OneMappingServed ==
  losses = 0 /\ moves = 0 => \A id \in Ids : \A m, n \in served[id] : m = n

\* What byte_map answers backend b now for id: the cached mapping, or the file's.
AnswerNow(b, id) ==
  LET p == PathFor(b, id) IN
  IF ~HasDir(b) THEN Absent ELSE IF mapCache[b][p] # Absent THEN mapCache[b][p] ELSE Stored[p]

\* README.md, "two sessions can never decode the same value differently": two backends
\* that both have an answer for a vocabulary have the same one.
SessionsAgree ==
  \A b, c \in Backends, id \in Ids :
    AnswerNow(b, id) # Absent /\ AnswerNow(c, id) # Absent => AnswerNow(b, id) = AnswerNow(c, id)

\* registry.rs:225-227, pid and clock in the temporary name: while a load_mapping is
\* between its create and its link, its temporary file is there and holds what that very
\* call wrote, whatever other backends stage, remove or left behind.
TempIsOurs ==
  \A b \in Backends :
    op[b].step \in {"write", "sync", "link"} =>
      /\ temp[TempOf(b)] # Absent
      /\ temp[TempOf(b)].bytes = IF op[b].step = "write" THEN Short ELSE op[b].map

\* registry.rs:216-219: faults that come to an end never wedge a vocabulary.  Once the
\* administrator has settled on a directory, retried load_mapping calls leave a mapping
\* there for good, whatever temporaries earlier crashes left, whatever a loss of power
\* took and whatever directory a backend started in.
EventuallyLoaded ==
  \A id \in Ids, d \in Dirs : <>[](conf = d) => <>[](mapFile[<<d, id>>] # Absent)

-----------------------------------------------------------------------------
(* The inductive invariant behind the safety properties.                    *)

\* A load_mapping past its checks knows its path, past its query its mapping, past its
\* create its stamp, and it has won only after its link.
OpShape ==
  \A b \in Backends :
    /\ op[b].step # "idle" => op[b].path \in Paths
    /\ op[b].step \notin {"idle", "query"} => op[b].map \in Mappings
    /\ op[b].step \notin {"idle", "query", "create"} => op[b].stamp \in Stamps
    /\ op[b].won => op[b].step = "unlink"

\* The temporary file is flushed before it is linked.
SyncedAtLink == \A b \in Backends : op[b].step = "link" => temp[TempOf(b)].synced

\* The call that made the link finds its own mapping at the path.
WonIsStored ==
  \A b \in Backends :
    op[b].won => mapFile[op[b].path] # Absent /\ mapFile[op[b].path].bytes = op[b].map

IInv ==
  /\ TypeOK
  /\ OpShape
  /\ TempIsOurs
  /\ SyncedAtLink
  /\ NeverShort
  /\ WonIsStored
  /\ CacheCoherent
  /\ AckedIsStored

\* While neither the setting moves nor the power fails, every answer ever given came
\* from the file that is still there.
ServedIsStored ==
  losses = 0 /\ moves = 0 =>
    /\ \A b \in Backends : dirOf[b] = conf
    /\ \A id \in Ids : \A m \in served[id] :
         conf # NoDir /\ mapFile[<<conf, id>>] # Absent /\ mapFile[<<conf, id>>].bytes = m

=============================================================================
