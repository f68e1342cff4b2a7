-------------------------- MODULE MappingFileProofs --------------------------
(***************************************************************************)
(* Proofs about MappingFile for every set of backends, directories, ids,   *)
(* mappings and stamps and every bound on moves, faults and losses.        *)
(***************************************************************************)
EXTENDS MappingFile, TLAPS

(***************************************************************************)
(* Type correctness.                                                       *)
(***************************************************************************)

\* The records load_mapping moves through are of type Op.
LEMMA NoOpIsOp == NoOp \in Op
  BY DEF NoOp, Op, Steps

LEMMA StepOfOp ==
  ASSUME NEW o \in Op, NEW s \in Steps
  PROVE  [o EXCEPT !.step = s] \in Op
  BY DEF Op

LEMMA GotoType ==
  ASSUME TypeOK, NEW b \in Backends, NEW s \in Steps, Goto(b, s)
  PROVE  op' \in [Backends -> Op]
<1>1. [op[b] EXCEPT !.step = s] \in Op
  BY StepOfOp DEF TypeOK
<1> QED
  BY <1>1 DEF Goto, TypeOK

LEMMA TempNameType ==
  ASSUME NEW b \in Backends, OpShape, op[b].step \notin {"idle", "query", "create"}
  PROVE  op[b].path \in Paths /\ op[b].map \in Mappings /\ TempOf(b) \in TempNames
  BY DEF OpShape, TempOf, TempNames

LEMMA LoadType ==
  ASSUME TypeOK, NEW b \in Backends, NEW id \in Ids, LoadMapping(b, id)
  PROVE  TypeOK'
<1>1. PathFor(b, id) \in Paths
  BY DEF LoadMapping, TypeOK, DirTypeOK, PathFor, HasDir, Setting, Paths
<1>2. [NoOp EXCEPT !.step = "query", !.path = PathFor(b, id)] \in Op
  BY <1>1 DEF NoOp, Op, Steps
<1>3. op' \in [Backends -> Op]
  BY <1>2 DEF LoadMapping, TypeOK
<1> QED
  BY <1>3 DEF LoadMapping, TypeOK, DirTypeOK, dirVars, fsVars, history

LEMMA BuildType ==
  ASSUME TypeOK, NEW b \in Backends, NEW m \in Mappings, BuildMap(b, m)
  PROVE  TypeOK'
<1>2. [op[b] EXCEPT !.step = "create", !.map = m] \in Op
  BY DEF TypeOK, Op, Steps
<1>3. op' \in [Backends -> Op]
  BY <1>2 DEF BuildMap, TypeOK
<1> QED
  BY <1>3 DEF BuildMap, TypeOK, DirTypeOK, dirVars, fsVars, history

LEMMA CreateType ==
  ASSUME TypeOK, NEW b \in Backends, NEW s \in Stamps, CreateTemp(b, s)
  PROVE  TypeOK'
<1>2. [op[b] EXCEPT !.step = "write", !.stamp = s] \in Op
  BY DEF TypeOK, Op, Steps
<1>3. op' \in [Backends -> Op]
  BY <1>2 DEF CreateTemp, TypeOK
<1>4. temp' \in [TempNames -> Inode \cup {Absent}]
  BY DEF CreateTemp, TypeOK, Inode
<1> QED
  BY <1>3, <1>4 DEF CreateTemp, TypeOK, DirTypeOK, dirVars, history

LEMMA CollideType ==
  ASSUME TypeOK, NEW b \in Backends, NEW s \in Stamps, TempCollides(b, s)
  PROVE  TypeOK'
<1>1. op' \in [Backends -> Op]
  BY NoOpIsOp DEF TempCollides, TypeOK
<1> QED
  BY <1>1 DEF TempCollides, TypeOK, DirTypeOK, dirVars, history

LEMMA WriteType ==
  ASSUME TypeOK, OpShape, NEW b \in Backends, WriteTemp(b)
  PROVE  TypeOK'
<1>1. op' \in [Backends -> Op]
  BY GotoType DEF WriteTemp, Steps
<1>2. [bytes |-> op[b].map, synced |-> FALSE] \in Inode
  BY TempNameType DEF WriteTemp, Inode
<1>3. temp' \in [TempNames -> Inode \cup {Absent}]
  BY <1>2 DEF WriteTemp, TypeOK
<1> QED
  BY <1>1, <1>3 DEF WriteTemp, TypeOK, DirTypeOK, dirVars, history

LEMMA SyncType ==
  ASSUME TypeOK, OpShape, TempIsOurs, NEW b \in Backends, SyncTemp(b)
  PROVE  TypeOK'
<1>1. op' \in [Backends -> Op]
  BY GotoType DEF SyncTemp, Steps
<1>2. temp[TempOf(b)] \in Inode
  BY TempNameType DEF SyncTemp, TempIsOurs, TypeOK
<1>3. [temp[TempOf(b)] EXCEPT !.synced = TRUE] \in Inode
  BY <1>2 DEF Inode
<1>4. temp' \in [TempNames -> Inode \cup {Absent}]
  BY <1>3 DEF SyncTemp, TypeOK
<1> QED
  BY <1>1, <1>4 DEF SyncTemp, TypeOK, DirTypeOK, dirVars, history

LEMMA LinkType ==
  ASSUME TypeOK, OpShape, NEW b \in Backends, LinkMap(b)
  PROVE  TypeOK'
<1>1. [op[b] EXCEPT !.step = "unlink", !.won = TRUE] \in Op
  BY DEF TypeOK, Op, Steps
<1>2. op' \in [Backends -> Op]
  BY <1>1 DEF LinkMap, TypeOK
<1>3. mapFile' \in [Paths -> Inode \cup {Absent}]
  BY TempNameType DEF LinkMap, TypeOK
<1> QED
  BY <1>2, <1>3 DEF LinkMap, TypeOK, DirTypeOK, dirVars, history

LEMMA AnswerType ==
  ASSUME TypeOK, OpShape, NEW b \in Backends, op[b].step = "unlink", Answer(b),
         temp' \in [TempNames -> Inode \cup {Absent}], faults' \in 0..MaxFaults
  PROVE  TypeOK'
<1>1. op' \in [Backends -> Op]
  BY NoOpIsOp DEF Answer, TypeOK
<1>2. acked' \in [Paths -> SUBSET Mappings]
  BY TempNameType DEF Answer, TypeOK
<1> QED
  BY <1>1, <1>2 DEF Answer, TypeOK, DirTypeOK, dirVars

LEMMA ReadType ==
  ASSUME TypeOK, NEW b \in Backends, Read(b)
  PROVE  TypeOK'
<1>1. PICK id \in Ids : ServeCached(b, id) \/ ReadMap(b, id)
  BY DEF Read
<1>2. PathFor(b, id) \in Paths
  BY <1>1 DEF ServeCached, ReadMap, TypeOK, DirTypeOK, PathFor, HasDir, Setting, Paths
<1>3. CASE ServeCached(b, id)
  BY <1>2, <1>3 DEF ServeCached, TypeOK, DirTypeOK, dirVars, fsVars
<1>4. CASE ReadMap(b, id)
  <2>1. mapFile[PathFor(b, id)].bytes \in Mappings
    BY <1>2, <1>4 DEF ReadMap, TypeOK, Inode
  <2> QED
    BY <1>2, <1>4, <2>1 DEF ReadMap, TypeOK, DirTypeOK, dirVars, fsVars
<1> QED
  BY <1>1, <1>3, <1>4

LEMMA FailsType ==
  ASSUME TypeOK, OpShape, NEW b \in Backends, Fails(b)
  PROVE  TypeOK'
<1>1. faults' \in 0..MaxFaults
  BY FaultBounds DEF Fails, QueryFails, StageFails, LinkFails, UnlinkFails, Fault, TypeOK
<1>2. CASE UnlinkFails(b)
  BY <1>1, <1>2, AnswerType DEF UnlinkFails, TypeOK
<1>3. CASE QueryFails(b) \/ StageFails(b)
  <2>1. op' \in [Backends -> Op]
    BY <1>3, NoOpIsOp DEF QueryFails, StageFails, TypeOK
  <2> QED
    BY <1>1, <1>3, <2>1 DEF QueryFails, StageFails, TypeOK, DirTypeOK, dirVars, fsVars, history
<1>4. CASE LinkFails(b)
  <2>1. op' \in [Backends -> Op]
    BY <1>4, GotoType DEF LinkFails, Steps
  <2> QED
    BY <1>1, <1>4, <2>1 DEF LinkFails, TypeOK, DirTypeOK, dirVars, fsVars, history
<1> QED
  BY <1>2, <1>3, <1>4 DEF Fails

LEMMA RestartType ==
  ASSUME TypeOK, op' = [b \in Backends |-> NoOp], mapCache' = EmptyCaches, ReloadAll
  PROVE  /\ op' \in [Backends -> Op]
         /\ mapCache' \in [Backends -> [Paths -> Mappings \cup {Absent}]]
         /\ DirTypeOK'
  BY NoOpIsOp DEF TypeOK, DirTypeOK, EmptyCaches, ReloadAll

LEMMA CrashType == ASSUME TypeOK, Crash PROVE TypeOK'
<1>1. faults' \in 0..MaxFaults
  BY FaultBounds DEF Crash, Fault, TypeOK
<1> QED
  BY <1>1, RestartType DEF Crash, TypeOK, fsVars, history

LEMMA AfterLossType ==
  ASSUME NEW i \in Inode \cup {Absent}
  PROVE  /\ AfterLoss(i) \in Inode \cup {Absent}
         /\ i = Absent <=> AfterLoss(i) = Absent
  BY ContentAssumption DEF AfterLoss, Inode

LEMMA PowerLossType == ASSUME TypeOK, PowerLoss PROVE TypeOK'
<1>1. losses' \in 0..MaxLosses
  BY FaultBounds DEF PowerLoss, TypeOK
<1>2. mapFile' \in [Paths -> Inode \cup {Absent}] /\ durable' \subseteq Paths
  BY AfterLossType DEF PowerLoss, TypeOK
<1>3. temp' \in [TempNames -> Inode \cup {Absent}]
  BY AfterLossType DEF PowerLoss, TypeOK
<1> QED
  BY <1>1, <1>2, <1>3, RestartType DEF PowerLoss, TypeOK, history

LEMMA SettingType ==
  ASSUME TypeOK, Move \/ \E b \in Backends : Reconnect(b) \/ TakeUp(b)
  PROVE  TypeOK'
<1>1. CASE \E b \in Backends : Reconnect(b)
  BY <1>1 DEF Reconnect, TypeOK, DirTypeOK, fsVars, history
<1>2. CASE \E b \in Backends : TakeUp(b)
  BY <1>2 DEF TakeUp, Reload, TypeOK, DirTypeOK, fsVars, history
<1>3. CASE Move
  BY <1>3, MaxMovesAssumption DEF Move, EditConf, TypeOK, DirTypeOK, fsVars, history
<1> QED
  BY <1>1, <1>2, <1>3

(***************************************************************************)
(* The inductive invariant, action by action.                              *)
(***************************************************************************)

\* What a step of backend b's own record does to the parts of IInv that speak of op.
LEMMA OpOnly ==
  ASSUME IInv, NEW b \in Backends, op' \in [Backends -> Op],
         \A c \in Backends \ {b} : op'[c] = op[c],
         op'[b].step \in {"idle", "query", "create"}, ~op'[b].won,
         op'[b].step # "idle" => op'[b].path \in Paths,
         op'[b].step = "create" => op'[b].map \in Mappings,
         UNCHANGED mapFile,
         \A c \in Backends \ {b} :
           op[c].step \in {"write", "sync", "link"} => temp'[TempOf(c)] = temp[TempOf(c)]
  PROVE  OpShape' /\ TempIsOurs' /\ SyncedAtLink' /\ WonIsStored'
<1>1. \A c \in Backends \ {b} : TempOf(c)' = TempOf(c)
  BY DEF TempOf
<1>2. OpShape'
  BY DEF IInv, OpShape
<1>3. TempIsOurs' /\ SyncedAtLink'
  BY <1>1 DEF IInv, TempIsOurs, SyncedAtLink
<1>4. WonIsStored'
  BY DEF IInv, WonIsStored
<1> QED
  BY <1>2, <1>3, <1>4

LEMMA ShortNotAbsent == [bytes |-> Short, synced |-> FALSE] # Absent
<1>1. [bytes |-> Short, synced |-> FALSE] \in Inode
  BY DEF Inode
<1> QED
  BY <1>1, ContentAssumption

LEMMA LoadInv ==
  ASSUME IInv, NEW b \in Backends, Load(b)
  PROVE  IInv'
<1>1. PICK id \in Ids : LoadMapping(b, id)
  BY DEF Load
<1>2. TypeOK'
  BY <1>1, LoadType DEF IInv
<1>3. op'[b] = [NoOp EXCEPT !.step = "query", !.path = PathFor(b, id)]
  BY <1>1 DEF LoadMapping, IInv, TypeOK
<1>4. PathFor(b, id) \in Paths
  BY <1>1 DEF LoadMapping, IInv, TypeOK, DirTypeOK, PathFor, HasDir, Setting, Paths
<1>5. OpShape' /\ TempIsOurs' /\ SyncedAtLink' /\ WonIsStored'
  BY <1>1, <1>2, <1>3, <1>4, OpOnly DEF LoadMapping, NoOp, fsVars, IInv, TypeOK
<1> QED
  BY <1>1, <1>2, <1>5
  DEF IInv, LoadMapping, fsVars, history, NeverShort, CacheCoherent, AckedIsStored

LEMMA BuildInv ==
  ASSUME IInv, NEW b \in Backends, NEW m \in Mappings, BuildMap(b, m)
  PROVE  IInv'
<1>1. TypeOK'
  BY BuildType DEF IInv
<1>2. op'[b] = [op[b] EXCEPT !.step = "create", !.map = m]
  BY DEF BuildMap, IInv, TypeOK
<1>3. op[b] \in Op /\ op[b].path \in Paths /\ ~op[b].won
  BY DEF BuildMap, IInv, TypeOK, OpShape
<1>4. /\ op'[b].step = "create" /\ op'[b].map = m
      /\ op'[b].path = op[b].path /\ op'[b].won = op[b].won
  BY <1>2, <1>3 DEF Op
<1>5. OpShape' /\ TempIsOurs' /\ SyncedAtLink' /\ WonIsStored'
  BY <1>1, <1>3, <1>4, OpOnly DEF BuildMap, fsVars, IInv, TypeOK
<1> QED
  BY <1>1, <1>5 DEF IInv, BuildMap, fsVars, history, NeverShort, CacheCoherent, AckedIsStored

LEMMA CollideInv ==
  ASSUME IInv, NEW b \in Backends, NEW s \in Stamps, TempCollides(b, s)
  PROVE  IInv'
<1>1. TypeOK'
  BY CollideType DEF IInv
<1>2. op'[b] = NoOp
  BY DEF TempCollides, IInv, TypeOK
<1>3. ASSUME NEW c \in Backends \ {b}, op[c].step \in {"write", "sync", "link"}
      PROVE  temp'[TempOf(c)] = temp[TempOf(c)]
  BY <1>3, TempNameType DEF TempCollides, IInv, TypeOK, TempOf
<1>4. OpShape' /\ TempIsOurs' /\ SyncedAtLink' /\ WonIsStored'
  BY <1>1, <1>2, <1>3, OpOnly DEF TempCollides, NoOp, IInv, TypeOK
<1> QED
  BY <1>1, <1>4 DEF IInv, TempCollides, history, NeverShort, CacheCoherent, AckedIsStored

LEMMA CreateInv ==
  ASSUME IInv, NEW b \in Backends, NEW s \in Stamps, CreateTemp(b, s)
  PROVE  IInv'
<1>1. TypeOK'
  BY CreateType DEF IInv
<1>2. op'[b] = [op[b] EXCEPT !.step = "write", !.stamp = s]
  BY DEF CreateTemp, IInv, TypeOK
<1>3. op[b] \in Op /\ op[b].path \in Paths /\ op[b].map \in Mappings /\ ~op[b].won
  BY DEF CreateTemp, IInv, TypeOK, OpShape
<1>4. /\ op'[b].step = "write" /\ op'[b].stamp = s
      /\ op'[b].path = op[b].path /\ op'[b].map = op[b].map /\ op'[b].won = op[b].won
  BY <1>2, <1>3 DEF Op
<1>5. \A c \in Backends \ {b} : op'[c] = op[c] /\ TempOf(c)' = TempOf(c)
  BY DEF CreateTemp, IInv, TypeOK, TempOf
<1>6. OpShape'
  BY <1>3, <1>4, <1>5 DEF IInv, OpShape
<1>7. TempOf(b)' = <<op[b].path, b, s>> /\ TempOf(b)' \in TempNames
  BY <1>3, <1>4 DEF TempOf, TempNames
<1>8. temp'[TempOf(b)'] = [bytes |-> Short, synced |-> FALSE]
  BY <1>7 DEF CreateTemp, IInv, TypeOK
<1>9. \A c \in Backends \ {b} :
        op[c].step \in {"write", "sync", "link"} => temp'[TempOf(c)] = temp[TempOf(c)]
  BY TempNameType DEF CreateTemp, IInv, TypeOK, TempOf
<1>10. [bytes |-> Short, synced |-> FALSE] # Absent
  BY ShortNotAbsent
<1>11. TempIsOurs' /\ SyncedAtLink'
  BY <1>4, <1>5, <1>7, <1>8, <1>9, <1>10 DEF IInv, TempIsOurs, SyncedAtLink
<1>12. ~op'[b].won
  BY <1>3, <1>4
<1>13. WonIsStored'
  BY <1>5, <1>12 DEF CreateTemp, IInv, WonIsStored
<1> QED
  BY <1>1, <1>6, <1>11, <1>13
  DEF IInv, CreateTemp, history, NeverShort, CacheCoherent, AckedIsStored

\* A step of backend b that moves only its record and its own temporary leaves every other
\* backend's load_mapping as it was.
LEMMA OthersKeep ==
  ASSUME IInv, NEW b \in Backends,
         op[b].step \notin {"idle", "query", "create"},
         \A c \in Backends \ {b} : op'[c] = op[c],
         \A t \in TempNames \ {TempOf(b)} : temp'[t] = temp[t]
  PROVE  \A c \in Backends \ {b} :
           /\ TempOf(c)' = TempOf(c)
           /\ op[c].step \in {"write", "sync", "link"} => temp'[TempOf(c)] = temp[TempOf(c)]
  BY TempNameType DEF IInv, TempOf

LEMMA GotoFields ==
  ASSUME IInv, NEW b \in Backends, NEW s \in Steps, Goto(b, s)
  PROVE  /\ op'[b].step = s /\ op'[b].path = op[b].path /\ op'[b].map = op[b].map
         /\ op'[b].stamp = op[b].stamp /\ op'[b].won = op[b].won
         /\ TempOf(b)' = TempOf(b)
         /\ \A c \in Backends \ {b} : op'[c] = op[c]
<1>1. op[b] \in Op /\ op'[b] = [op[b] EXCEPT !.step = s]
  BY DEF Goto, IInv, TypeOK
<1>2. /\ op'[b].step = s /\ op'[b].path = op[b].path /\ op'[b].map = op[b].map
      /\ op'[b].stamp = op[b].stamp /\ op'[b].won = op[b].won
  BY <1>1 DEF Op
<1> QED
  BY <1>2 DEF Goto, IInv, TypeOK, TempOf

LEMMA WriteInv ==
  ASSUME IInv, NEW b \in Backends, WriteTemp(b)
  PROVE  IInv'
<1>1. TypeOK'
  BY WriteType DEF IInv
<1>2. /\ op[b].step = "write" /\ op[b].path \in Paths /\ op[b].map \in Mappings
      /\ op[b].stamp \in Stamps /\ ~op[b].won /\ TempOf(b) \in TempNames
  BY TempNameType DEF WriteTemp, IInv, OpShape
<1>3. /\ op'[b].step = "sync" /\ op'[b].path = op[b].path /\ op'[b].map = op[b].map
      /\ op'[b].stamp = op[b].stamp /\ op'[b].won = op[b].won /\ TempOf(b)' = TempOf(b)
      /\ \A c \in Backends \ {b} : op'[c] = op[c]
  BY GotoFields DEF WriteTemp, Steps
<1>4. temp'[TempOf(b)] = [bytes |-> op[b].map, synced |-> FALSE]
  BY <1>2 DEF WriteTemp, IInv, TypeOK
<1>5. [bytes |-> op[b].map, synced |-> FALSE] # Absent
  <2>1. [bytes |-> op[b].map, synced |-> FALSE] \in Inode
    BY <1>2 DEF Inode
  <2> QED
    BY <2>1, ContentAssumption
<1>6. \A c \in Backends \ {b} :
        /\ TempOf(c)' = TempOf(c)
        /\ op[c].step \in {"write", "sync", "link"} => temp'[TempOf(c)] = temp[TempOf(c)]
  BY <1>2, <1>3, OthersKeep DEF WriteTemp, IInv, TypeOK
<1>7. OpShape'
  BY <1>2, <1>3 DEF IInv, OpShape
<1>8. TempIsOurs' /\ SyncedAtLink'
  BY <1>3, <1>4, <1>5, <1>6 DEF IInv, TempIsOurs, SyncedAtLink
<1>9. ~op'[b].won
  BY <1>2, <1>3
<1>10. WonIsStored'
  BY <1>3, <1>9 DEF WriteTemp, IInv, WonIsStored
<1> QED
  BY <1>1, <1>7, <1>8, <1>10
  DEF IInv, WriteTemp, history, NeverShort, CacheCoherent, AckedIsStored

LEMMA SyncInv ==
  ASSUME IInv, NEW b \in Backends, SyncTemp(b)
  PROVE  IInv'
<1>1. TypeOK'
  BY SyncType DEF IInv
<1>2. /\ op[b].step = "sync" /\ op[b].path \in Paths /\ op[b].map \in Mappings
      /\ op[b].stamp \in Stamps /\ ~op[b].won /\ TempOf(b) \in TempNames
  BY TempNameType DEF SyncTemp, IInv, OpShape
<1>3. /\ op'[b].step = "link" /\ op'[b].path = op[b].path /\ op'[b].map = op[b].map
      /\ op'[b].stamp = op[b].stamp /\ op'[b].won = op[b].won /\ TempOf(b)' = TempOf(b)
      /\ \A c \in Backends \ {b} : op'[c] = op[c]
  BY GotoFields DEF SyncTemp, Steps
<1>4. temp[TempOf(b)] \in Inode /\ temp[TempOf(b)].bytes = op[b].map
  BY <1>2 DEF IInv, TypeOK, TempIsOurs
<1>5. temp'[TempOf(b)] = [temp[TempOf(b)] EXCEPT !.synced = TRUE]
  BY <1>2 DEF SyncTemp, IInv, TypeOK
<1>6. /\ temp'[TempOf(b)] # Absent /\ temp'[TempOf(b)].bytes = op[b].map
      /\ temp'[TempOf(b)].synced
  <2>1. temp'[TempOf(b)] \in Inode
    BY <1>4, <1>5 DEF Inode
  <2> QED
    BY <1>4, <1>5, <2>1, ContentAssumption DEF Inode
<1>7. \A c \in Backends \ {b} :
        /\ TempOf(c)' = TempOf(c)
        /\ op[c].step \in {"write", "sync", "link"} => temp'[TempOf(c)] = temp[TempOf(c)]
  BY <1>2, <1>3, OthersKeep DEF SyncTemp, IInv, TypeOK
<1>8. OpShape'
  BY <1>2, <1>3 DEF IInv, OpShape
<1>9. TempIsOurs' /\ SyncedAtLink'
  BY <1>3, <1>6, <1>7 DEF IInv, TempIsOurs, SyncedAtLink
<1>10. ~op'[b].won
  BY <1>2, <1>3
<1>11. WonIsStored'
  BY <1>3, <1>10 DEF SyncTemp, IInv, WonIsStored
<1> QED
  BY <1>1, <1>8, <1>9, <1>11
  DEF IInv, SyncTemp, history, NeverShort, CacheCoherent, AckedIsStored

\* The link: the only step that gives a path a mapping, and it gives it a whole one.
LEMMA LinkInv ==
  ASSUME IInv, NEW b \in Backends, LinkMap(b)
  PROVE  IInv'
<1>1. TypeOK'
  BY LinkType DEF IInv
<1>2. /\ op[b].step = "link" /\ op[b].path \in Paths /\ op[b].map \in Mappings
      /\ op[b].stamp \in Stamps /\ op[b] \in Op
  BY TempNameType DEF LinkMap, IInv, OpShape, TypeOK
<1>3. op'[b] = [op[b] EXCEPT !.step = "unlink", !.won = TRUE]
  BY DEF LinkMap, IInv, TypeOK
<1>4. /\ op'[b].step = "unlink" /\ op'[b].path = op[b].path /\ op'[b].map = op[b].map
      /\ op'[b].stamp = op[b].stamp
  BY <1>2, <1>3 DEF Op
<1>5. \A c \in Backends \ {b} : op'[c] = op[c] /\ TempOf(c)' = TempOf(c)
  BY DEF LinkMap, IInv, TypeOK, TempOf
<1>6. /\ temp[TempOf(b)] # Absent /\ temp[TempOf(b)].bytes = op[b].map
      /\ temp[TempOf(b)].synced
  BY <1>2 DEF IInv, TempIsOurs, SyncedAtLink
<1>7. /\ mapFile[op[b].path] = Absent
      /\ mapFile'[op[b].path] = temp[TempOf(b)]
      /\ \A p \in Paths \ {op[b].path} : mapFile'[p] = mapFile[p]
  BY <1>2 DEF LinkMap, IInv, TypeOK
<1>8. OpShape'
  BY <1>2, <1>4, <1>5 DEF IInv, OpShape
<1>9. TempIsOurs' /\ SyncedAtLink'
  BY <1>4, <1>5 DEF LinkMap, IInv, TempIsOurs, SyncedAtLink
<1>10. NeverShort'
  BY <1>2, <1>6, <1>7, ContentAssumption DEF IInv, NeverShort
<1>11. WonIsStored'
  BY <1>2, <1>4, <1>5, <1>6, <1>7 DEF IInv, WonIsStored, OpShape
<1>12. CacheCoherent'
  BY <1>7 DEF LinkMap, IInv, CacheCoherent
<1>13. AckedIsStored'
  BY <1>7 DEF LinkMap, IInv, AckedIsStored, history
<1> QED
  BY <1>1, <1>8, <1>9, <1>10, <1>11, <1>12, <1>13 DEF IInv

\* hard_link failed, whatever the reason: nothing but the record moves.
LEMMA LinkLostInv ==
  ASSUME IInv, TypeOK', NEW b \in Backends, op[b].step = "link", Goto(b, "unlink"),
         UNCHANGED <<fsVars, mapCache, history, losses>>
  PROVE  IInv'
<1>1. /\ op[b].path \in Paths /\ op[b].map \in Mappings
      /\ op[b].stamp \in Stamps /\ ~op[b].won
  BY TempNameType DEF IInv, OpShape
<1>2. /\ op'[b].step = "unlink" /\ op'[b].path = op[b].path /\ op'[b].map = op[b].map
      /\ op'[b].stamp = op[b].stamp /\ op'[b].won = op[b].won /\ TempOf(b)' = TempOf(b)
      /\ \A c \in Backends \ {b} : op'[c] = op[c]
  BY GotoFields DEF Steps
<1>3. \A c \in Backends \ {b} : TempOf(c)' = TempOf(c)
  BY <1>2 DEF TempOf
<1>4. OpShape' /\ TempIsOurs' /\ SyncedAtLink'
  BY <1>1, <1>2, <1>3 DEF IInv, OpShape, TempIsOurs, SyncedAtLink, fsVars
<1>5. ~op'[b].won
  BY <1>1, <1>2
<1>6. WonIsStored'
  BY <1>2, <1>5 DEF IInv, WonIsStored, fsVars
<1> QED
  BY <1>4, <1>6 DEF IInv, fsVars, history, NeverShort, CacheCoherent, AckedIsStored

\* A load_mapping that ends in an error before its link.
LEMMA AbortInv ==
  ASSUME IInv, TypeOK', NEW b \in Backends, op[b].step # "idle",
         op' = [op EXCEPT ![b] = NoOp],
         \/ temp' = temp
         \/ op[b].step \in {"write", "sync"} /\ temp' = [temp EXCEPT ![TempOf(b)] = Absent],
         UNCHANGED <<mapFile, mapCache, history, losses>>
  PROVE  IInv'
<1>1. op'[b] = NoOp /\ \A c \in Backends \ {b} : op'[c] = op[c]
  BY DEF IInv, TypeOK
<1>2. ASSUME NEW c \in Backends \ {b}, op[c].step \in {"write", "sync", "link"}
      PROVE  temp'[TempOf(c)] = temp[TempOf(c)]
  BY <1>2, TempNameType DEF IInv, TypeOK, TempOf
<1>3. OpShape' /\ TempIsOurs' /\ SyncedAtLink' /\ WonIsStored'
  BY <1>1, <1>2, OpOnly DEF NoOp, TypeOK
<1> QED
  BY <1>3 DEF IInv, history, NeverShort, CacheCoherent, AckedIsStored

\* load_mapping returns, whether or not its temporary could be removed.
LEMMA AnswerInv ==
  ASSUME IInv, TypeOK', NEW b \in Backends, op[b].step = "unlink", Answer(b),
         temp' = temp \/ temp' = [temp EXCEPT ![TempOf(b)] = Absent]
  PROVE  IInv'
<1>1. op'[b] = NoOp /\ \A c \in Backends \ {b} : op'[c] = op[c]
  BY DEF Answer, IInv, TypeOK
<1>2. ASSUME NEW c \in Backends \ {b}, op[c].step \in {"write", "sync", "link"}
      PROVE  temp'[TempOf(c)] = temp[TempOf(c)]
  BY <1>2, TempNameType DEF IInv, TypeOK, TempOf
<1>3. OpShape' /\ TempIsOurs' /\ SyncedAtLink' /\ WonIsStored'
  BY <1>1, <1>2, OpOnly DEF NoOp, TypeOK, Answer
<1>4. AckedIsStored'
  <2>1. CASE op[b].won
    BY <2>1, TempNameType DEF Answer, IInv, TypeOK, AckedIsStored, WonIsStored
  <2>2. CASE ~op[b].won
    BY <2>2 DEF Answer, IInv, AckedIsStored
  <2> QED
    BY <2>1, <2>2
<1> QED
  BY <1>3, <1>4 DEF IInv, Answer, NeverShort, CacheCoherent

LEMMA ReadInv ==
  ASSUME IInv, NEW b \in Backends, Read(b)
  PROVE  IInv'
<1>1. PICK id \in Ids : ServeCached(b, id) \/ ReadMap(b, id)
  BY DEF Read
<1>2. TypeOK'
  BY ReadType DEF IInv
<1>3. UNCHANGED <<mapFile, temp, op, acked, losses>>
  BY <1>1 DEF ServeCached, ReadMap, fsVars
<1>4. CacheCoherent'
  BY <1>1 DEF ServeCached, ReadMap, fsVars, IInv, CacheCoherent, TypeOK
<1> QED
  BY <1>2, <1>3, <1>4
  DEF IInv, OpShape, TempIsOurs, SyncedAtLink, WonIsStored, NeverShort, AckedIsStored, TempOf

LEMMA SettingInv ==
  ASSUME IInv, Move \/ \E b \in Backends : Reconnect(b) \/ TakeUp(b)
  PROVE  IInv'
<1>1. TypeOK'
  BY SettingType DEF IInv
<1>2. UNCHANGED <<mapFile, temp, op, acked, losses>>
  BY DEF Reconnect, TakeUp, Move, fsVars, history
<1>3. CacheCoherent'
  BY DEF Reconnect, TakeUp, Move, fsVars, IInv, CacheCoherent, TypeOK
<1> QED
  BY <1>1, <1>2, <1>3
  DEF IInv, OpShape, TempIsOurs, SyncedAtLink, WonIsStored, NeverShort, AckedIsStored, TempOf

\* With every backend idle and every cache empty, only the files can break the invariant.
LEMMA RestartInv ==
  ASSUME TypeOK', op' = [b \in Backends |-> NoOp], mapCache' = EmptyCaches
  PROVE  OpShape' /\ TempIsOurs' /\ SyncedAtLink' /\ WonIsStored' /\ CacheCoherent'
  BY DEF OpShape, TempIsOurs, SyncedAtLink, WonIsStored, CacheCoherent, EmptyCaches, NoOp

LEMMA CrashInv == ASSUME IInv, Crash PROVE IInv'
<1>1. TypeOK'
  BY CrashType DEF IInv
<1> QED
  BY <1>1, RestartInv DEF Crash, IInv, fsVars, history, NeverShort, AckedIsStored

LEMMA PowerLossInv == ASSUME IInv, PowerLoss PROVE IInv'
<1>1. TypeOK'
  BY PowerLossType DEF IInv
<1>2. ASSUME NEW p \in Paths PROVE mapFile'[p] \in {Absent, mapFile[p]}
  BY <1>2 DEF PowerLoss, AfterLoss, IInv, NeverShort
<1>3. NeverShort'
  BY <1>2 DEF IInv, NeverShort
<1>4. losses' # 0
  BY DEF PowerLoss, IInv, TypeOK
<1> QED
  BY <1>1, <1>3, <1>4, RestartInv DEF PowerLoss, IInv, AckedIsStored

LEMMA InitInv == Init => IInv
<1> SUFFICES ASSUME Init PROVE IInv
  OBVIOUS
<1>1. TypeOK
  BY NoOpIsOp, MaxMovesAssumption, FaultBounds
  DEF Init, TypeOK, DirInit, DirTypeOK, EmptyCaches
<1> QED
  BY <1>1 DEF Init, IInv, OpShape, TempIsOurs, SyncedAtLink, WonIsStored, NeverShort,
              CacheCoherent, AckedIsStored, EmptyCaches, NoOp

LEMMA StepInv == IInv /\ [Next]_vars => IInv'
<1> SUFFICES ASSUME IInv, [Next]_vars PROVE IInv'
  OBVIOUS
<1>1. ASSUME NEW b \in Backends, Advance(b) PROVE IInv'
  <2>1. CASE \E m \in Mappings : BuildMap(b, m)
    BY <2>1, BuildInv
  <2>2. CASE \E s \in Stamps : CreateTemp(b, s) \/ TempCollides(b, s)
    BY <2>2, CreateInv, CollideInv
  <2>3. CASE WriteTemp(b)
    BY <2>3, WriteInv
  <2>4. CASE SyncTemp(b)
    BY <2>4, SyncInv
  <2>5. CASE LinkMap(b)
    BY <2>5, LinkInv
  <2>6. CASE LinkTaken(b)
    <3>1. op' \in [Backends -> Op]
      BY <2>6, GotoType DEF LinkTaken, Steps, IInv
    <3>2. TypeOK'
      BY <2>6, <3>1 DEF LinkTaken, IInv, TypeOK, DirTypeOK, dirVars, fsVars, history
    <3> QED
      BY <2>6, <3>2, LinkLostInv DEF LinkTaken
  <2>7. CASE UnlinkTemp(b)
    <3>1. temp' \in [TempNames -> Inode \cup {Absent}] /\ faults' \in 0..MaxFaults
      BY <2>7 DEF UnlinkTemp, IInv, TypeOK
    <3>2. TypeOK'
      BY <2>7, <3>1, AnswerType DEF UnlinkTemp, IInv
    <3> QED
      BY <2>7, <3>2, AnswerInv DEF UnlinkTemp
  <2> QED
    BY <1>1, <2>1, <2>2, <2>3, <2>4, <2>5, <2>6, <2>7 DEF Advance
<1>2. ASSUME NEW b \in Backends, Fails(b) PROVE IInv'
  <2>1. TypeOK'
    BY <1>2, FailsType DEF IInv
  <2>2. CASE QueryFails(b)
    <3>1. op[b].step # "idle" /\ temp' = temp
      BY <2>2 DEF QueryFails, fsVars
    <3>2. /\ op' = [op EXCEPT ![b] = NoOp]
          /\ UNCHANGED <<mapFile, mapCache, history, losses>>
      BY <2>2 DEF QueryFails, fsVars
    <3> QED
      BY <2>1, <3>1, <3>2, AbortInv
  <2>3. CASE StageFails(b)
    <3>1. op[b].step # "idle" /\ op[b].step \in {"write", "sync"}
      BY <2>3 DEF StageFails
    <3>2. /\ op' = [op EXCEPT ![b] = NoOp]
          /\ temp' = [temp EXCEPT ![TempOf(b)] = Absent]
          /\ UNCHANGED <<mapFile, mapCache, history, losses>>
      BY <2>3 DEF StageFails
    <3> QED
      BY <2>1, <3>1, <3>2, AbortInv
  <2>4. CASE LinkFails(b)
    BY <2>1, <2>4, LinkLostInv DEF LinkFails
  <2>5. CASE UnlinkFails(b)
    BY <2>1, <2>5, AnswerInv DEF UnlinkFails
  <2> QED
    BY <1>2, <2>2, <2>3, <2>4, <2>5 DEF Fails
<1>3. ASSUME NEW b \in Backends, Load(b) \/ Read(b) \/ Reconnect(b) \/ TakeUp(b) PROVE IInv'
  BY <1>3, LoadInv, ReadInv, SettingInv
<1>4. CASE Move
  BY <1>4, SettingInv
<1>5. CASE UNCHANGED vars
  BY <1>5 DEF vars, dirVars, fsVars, history, IInv, TypeOK, DirTypeOK, OpShape, TempIsOurs,
              SyncedAtLink, WonIsStored, NeverShort, CacheCoherent, AckedIsStored, TempOf
<1> QED
  BY <1>1, <1>2, <1>3, <1>4, <1>5, CrashInv, PowerLossInv DEF Next

\* The inductive invariant holds in every reachable state.
THEOREM Inductive == Spec => []IInv
  BY InitInv, StepInv, PTL DEF Spec

(***************************************************************************)
(* What follows from it.                                                   *)
(***************************************************************************)

\* Every variable of load_mapping, write_map and byte_map keeps its type.
THEOREM TypeCorrect == Spec => []TypeOK
  BY Inductive, PTL DEF IInv

\* registry.rs:213-216: <id>.tnmap never exists while short, through any failing call, any
\* crash and any loss of power, however many backends load at once.
THEOREM NeverShortHolds == Spec => []NeverShort
  BY Inductive, PTL DEF IInv

\* registry.rs:225-227: no load_mapping loses its temporary file to another backend.
THEOREM TempIsOursHolds == Spec => []TempIsOurs
  BY Inductive, PTL DEF IInv

\* registry.rs:17-27: the caches of all the backends agree with the files.
THEOREM CacheCoherentHolds == Spec => []CacheCoherent
  BY Inductive, PTL DEF IInv

\* registry.rs:210-211: of concurrent load_mapping calls at most one reports success, and
\* the file holds what that one built.
THEOREM AckedIsStoredHolds == Spec => []AckedIsStored
  BY Inductive, PTL DEF IInv

\* A step takes a mapping away only with a loss of power, and never replaces one.
LEMMA StepWriteOnce ==
  ASSUME IInv, [Next]_vars, NEW p \in Paths, mapFile[p] # Absent
  PROVE  \/ mapFile'[p] = mapFile[p]
         \/ mapFile'[p] = Absent /\ losses' # losses /\ p \notin durable
<1>1. CASE PowerLoss
  BY <1>1 DEF PowerLoss, AfterLoss, IInv, NeverShort, TypeOK
<1>2. CASE \E b \in Backends : LinkMap(b)
  BY <1>2 DEF LinkMap, IInv, TypeOK
<1>3. CASE ~PowerLoss /\ ~\E b \in Backends : LinkMap(b)
  <2>1. UNCHANGED mapFile
    BY <1>3 DEF Next, vars, fsVars, Load, LoadMapping, Advance, BuildMap, CreateTemp, TempCollides,
                WriteTemp, SyncTemp, LinkTaken, UnlinkTemp, Answer, Read, ServeCached, ReadMap,
                Fails, QueryFails, StageFails, LinkFails, UnlinkFails, Reconnect, TakeUp, Move, Crash
  <2> QED
    BY <2>1
<1> QED
  BY <1>1, <1>2, <1>3

\* registry.rs:208-211: a mapping is write-once.
THEOREM WriteOnceHolds == Spec => WriteOnce
<1>1. IInv /\ [Next]_vars =>
        [\A p \in Paths :
           mapFile[p] # Absent =>
             \/ mapFile'[p] = mapFile[p]
             \/ mapFile'[p] = Absent /\ losses' # losses /\ p \notin durable]_vars
  BY StepWriteOnce
<1> QED
  BY <1>1, Inductive, PTL DEF Spec, WriteOnce

(***************************************************************************)
(* One mapping per vocabulary, while the setting stays and the power too.  *)
(***************************************************************************)
LEMMA StepServed ==
  ASSUME IInv, ServedIsStored, [Next]_vars
  PROVE  ServedIsStored'
<1> SUFFICES ASSUME losses' = 0, moves' = 0
             PROVE  /\ \A b \in Backends : dirOf'[b] = conf'
                    /\ \A id \in Ids : \A m \in served'[id] :
                         /\ conf' # NoDir
                         /\ mapFile'[<<conf', id>>] # Absent
                         /\ mapFile'[<<conf', id>>].bytes = m
  BY DEF ServedIsStored
<1>1. CASE PowerLoss
  BY <1>1 DEF PowerLoss, IInv, TypeOK
<1>2. CASE Move
  BY <1>2 DEF Move, EditConf, IInv, TypeOK, DirTypeOK
<1>3. CASE ~PowerLoss /\ ~Move
  <2>1. losses' = losses /\ moves' = moves /\ conf' = conf
    BY <1>3 DEF Next, vars, dirVars, fsVars, Load, LoadMapping, Advance, BuildMap, CreateTemp,
                TempCollides, WriteTemp, SyncTemp, LinkMap, LinkTaken, UnlinkTemp, Answer, Read,
                ServeCached, ReadMap, Fails, QueryFails, StageFails, LinkFails, UnlinkFails,
                Reconnect, TakeUp, Reload, ReloadAll, Crash
  <2>2. losses = 0 /\ moves = 0
    BY <2>1
  <2>3. \A b \in Backends : dirOf'[b] = conf
    BY <1>3, <2>2 DEF ServedIsStored, Next, vars, dirVars, fsVars, Load, LoadMapping, Advance,
                BuildMap, CreateTemp, TempCollides, WriteTemp, SyncTemp, LinkMap, LinkTaken,
                UnlinkTemp, Answer, Read, ServeCached, ReadMap, Fails, QueryFails, StageFails,
                LinkFails, UnlinkFails, Reconnect, TakeUp, Reload, ReloadAll, Crash, IInv, TypeOK,
                DirTypeOK
  <2>4. ASSUME NEW id \in Ids, conf # NoDir, mapFile[<<conf, id>>] # Absent
        PROVE  mapFile'[<<conf, id>>] = mapFile[<<conf, id>>]
    <3>1. <<conf, id>> \in Paths
      BY <2>4 DEF Paths, Setting, IInv, TypeOK, DirTypeOK
    <3> QED
      BY <2>1, <2>4, <3>1, StepWriteOnce
  <2>5. CASE \E b \in Backends : Read(b)
    <3>1. PICK b \in Backends, id \in Ids : ServeCached(b, id) \/ ReadMap(b, id)
      BY <2>5 DEF Read
    <3>2. PathFor(b, id) = <<conf, id>> /\ conf # NoDir /\ <<conf, id>> \in Paths
      BY <2>2, <3>1
      DEF ServedIsStored, PathFor, HasDir, ServeCached, ReadMap, Paths, Setting, IInv, TypeOK, DirTypeOK
    <3>3. PICK m : /\ served' = [served EXCEPT ![id] = @ \cup {m}]
                   /\ mapFile[<<conf, id>>] # Absent /\ mapFile[<<conf, id>>].bytes = m
      BY <3>1, <3>2 DEF ServeCached, ReadMap, IInv, CacheCoherent
    <3>4. mapFile' = mapFile
      BY <3>1 DEF ServeCached, ReadMap, fsVars
    <3> QED
      BY <2>1, <2>2, <2>3, <3>2, <3>3, <3>4 DEF ServedIsStored, IInv, TypeOK
  <2>6. CASE ~\E b \in Backends : Read(b)
    <3>1. served' = served
      BY <1>3, <2>6 DEF Next, vars, history, Load, LoadMapping, Advance, BuildMap, CreateTemp,
                TempCollides, WriteTemp, SyncTemp, LinkMap, LinkTaken, UnlinkTemp, Answer,
                Fails, QueryFails, StageFails, LinkFails, UnlinkFails, Reconnect, TakeUp, Crash
    <3> QED
      BY <2>1, <2>2, <2>3, <2>4, <3>1 DEF ServedIsStored
  <2> QED
    BY <2>5, <2>6
<1> QED
  BY <1>1, <1>2, <1>3

\* mapping.rs:21-22: while the directory stays and the disk keeps its entries, the text of a
\* vocabulary's values is made with one mapping, in every backend and through every crash.
THEOREM OneMappingServedHolds == Spec => []OneMappingServed
<1>1. Init => ServedIsStored
  BY DEF Init, DirInit, ServedIsStored
<1>2. ServedIsStored => OneMappingServed
  BY DEF ServedIsStored, OneMappingServed
<1> QED
  BY <1>1, <1>2, StepServed, Inductive, PTL DEF Spec

(***************************************************************************)
(* The write-once store.                                                   *)
(***************************************************************************)
LEMMA AbstractInit == Init => Abstract!Init
  BY DEF Init, Abstract!Init, Stored, EmptyCaches

LEMMA AbstractForget ==
  ASSUME IInv, UNCHANGED mapFile, NEW R \in SUBSET Backends,
         mapCache' = [b \in Backends |-> IF b \in R THEN [p \in Paths |-> Absent] ELSE mapCache[b]],
         UNCHANGED losses
  PROVE  Abstract!Next
<1>1. UNCHANGED Stored
  BY DEF Stored
<1>2. Abstract!Forget(R)
  BY <1>1 DEF Abstract!Forget
<1> QED
  BY <1>2 DEF Abstract!Next

LEMMA AbstractLose ==
  ASSUME IInv, PowerLoss
  PROVE  Abstract!Next
<1>1. PICK gone \in SUBSET Paths :
        mapFile' = [p \in Paths |-> IF p \in gone THEN Absent ELSE AfterLoss(mapFile[p])]
  BY DEF PowerLoss
<1>2. \A p \in Paths : AfterLoss(mapFile[p]) = mapFile[p]
  BY DEF AfterLoss, IInv, NeverShort
<1>3. Stored' = [p \in Paths |-> IF p \in gone THEN Absent ELSE Stored[p]]
  BY <1>1, <1>2 DEF Stored
<1>4. Abstract!Lose(gone)
  BY <1>3 DEF PowerLoss, EmptyCaches, Abstract!Lose
<1> QED
  BY <1>4 DEF Abstract!Next

LEMMA AbstractStep ==
  ASSUME IInv, [Next]_vars
  PROVE  [Abstract!Next]_(Abstract!storeVars)
<1>1. CASE \E b \in Backends : LinkMap(b)
  <2>1. PICK b \in Backends : LinkMap(b)
    BY <1>1
  <2> DEFINE p == op[b].path
             m == op[b].map
  <2>2. p \in Paths /\ m \in Mappings /\ op[b].step = "link"
    BY <2>1 DEF LinkMap, IInv, OpShape
  <2>3. temp[TempOf(b)] # Absent /\ temp[TempOf(b)].bytes = m
    BY <2>2 DEF IInv, TempIsOurs
  <2>4. Stored[p] = Absent /\ Stored' = [Stored EXCEPT ![p] = m] /\ UNCHANGED <<mapCache, losses>>
    BY <2>1, <2>2, <2>3 DEF LinkMap, Stored, IInv, TypeOK
  <2>5. Abstract!Put(p, m)
    BY <2>4 DEF Abstract!Put
  <2> QED
    BY <2>2, <2>5 DEF Abstract!Next
<1>2. CASE \E b \in Backends, id \in Ids : ReadMap(b, id)
  <2>1. PICK b \in Backends, id \in Ids : ReadMap(b, id)
    BY <1>2
  <2>2. PathFor(b, id) \in Paths
    BY <2>1 DEF ReadMap, PathFor, HasDir, Paths, Setting, IInv, TypeOK, DirTypeOK
  <2>3. Stored[PathFor(b, id)] = mapFile[PathFor(b, id)].bytes /\ UNCHANGED Stored
    BY <2>1, <2>2 DEF ReadMap, Stored, fsVars
  <2>4. mapFile[PathFor(b, id)].bytes # Absent
    BY <2>1, <2>2, ContentAssumption DEF ReadMap, IInv, TypeOK, Inode
  <2>5. Abstract!Learn(b, PathFor(b, id))
    BY <2>1, <2>3, <2>4 DEF ReadMap, Abstract!Learn
  <2> QED
    BY <2>2, <2>5 DEF Abstract!Next
<1>3. CASE Crash
  BY <1>3, AbstractForget DEF Crash, EmptyCaches, fsVars
<1>4. CASE \E b \in Backends : Reconnect(b)
  <2>1. PICK b \in Backends : Reconnect(b)
    BY <1>4
  <2>2. mapCache' = [c \in Backends |-> IF c \in {b} THEN [p \in Paths |-> Absent] ELSE mapCache[c]]
    BY <2>1 DEF Reconnect, IInv, TypeOK
  <2>3. UNCHANGED <<mapFile, losses>>
    BY <2>1 DEF Reconnect, fsVars
  <2> QED
    BY <2>2, <2>3, AbstractForget
<1>5. CASE PowerLoss
  BY <1>5, AbstractLose
<1>6. CASE ~ \/ \E b \in Backends : LinkMap(b) \/ Reconnect(b)
             \/ \E b \in Backends, id \in Ids : ReadMap(b, id)
             \/ Crash
             \/ PowerLoss
  <2>1. UNCHANGED <<mapFile, mapCache, losses>>
    BY <1>6 DEF Next, vars, fsVars, Load, LoadMapping, Advance, BuildMap, CreateTemp,
                TempCollides, WriteTemp, SyncTemp, LinkTaken, UnlinkTemp, Answer, Read, ServeCached,
                Fails, QueryFails, StageFails, LinkFails, UnlinkFails, TakeUp, Move
  <2>2. UNCHANGED Stored
    BY <2>1 DEF Stored
  <2> QED
    BY <2>1, <2>2 DEF Abstract!storeVars
<1> QED
  BY <1>1, <1>2, <1>3, <1>4, <1>5, <1>6

\* registry.rs:30-35: load_mapping and byte_map implement a store that takes one value per
\* path, whose readers keep to what they saw, and that only a loss of power takes from.
THEOREM Refinement == Spec => ImplementsWriteOnce
  BY AbstractInit, AbstractStep, Inductive, PTL DEF Spec, ImplementsWriteOnce, Abstract!Spec

\* registry.rs:24-27: no two backends ever remember two mappings for one path.
THEOREM ReadersAgreeHolds == Spec => []Abstract!ReadersAgree
<1>1. CacheCoherent => Abstract!ReadersAgree
  BY DEF CacheCoherent, Abstract!ReadersAgree
<1> QED
  BY <1>1, CacheCoherentHolds, PTL

=============================================================================
