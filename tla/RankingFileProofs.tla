-------------------------- MODULE RankingFileProofs --------------------------
(***************************************************************************)
(* Proofs about RankingFile for every set of backends, trainers,           *)
(* directories, ids and rankings and every bound on moves, faults and      *)
(* losses: what holds of a path where no two trains raced.                 *)
(***************************************************************************)
EXTENDS RankingFile, TLAPS

\* What train and rank_table carry from step to step.
OpShape ==
  \A b \in Backends :
    /\ op[b].step # "idle" => op[b].path \in Paths
    /\ op[b].step \in {"check", "open", "write"} => op[b].ranking \in Rankings

OneWriter == \A p \in Paths \ raced : \A b, c \in Writers(p) : b = c

\* Until the one writer opens it there is no file, then an empty one.
WriterSees ==
  \A p \in Paths \ raced : \A b \in Writers(p) :
    tableFile[p] = IF op[b].step = "open" THEN Absent ELSE Empty

ReaderSees ==
  \A b \in Backends :
    op[b].step = "parse" /\ op[b].path \notin raced => tableFile[op[b].path] \notin {Absent, Empty}

Files == OneWriter /\ WriterSees /\ ReaderSees

IInv == TypeOK /\ OpShape /\ Files

(***************************************************************************)
(* Type correctness.                                                       *)
(***************************************************************************)

LEMMA NoOpIsOp == NoOp \in Op
BY DEF NoOp, Op, Content

LEMMA PathForType ==
  ASSUME TypeOK, NEW b \in Backends, NEW id \in Ids, HasDir(b)
  PROVE  PathFor(b, id) \in Paths
BY DEF TypeOK, DirTypeOK, PathFor, HasDir, Setting, Paths

\* A statement of b goes on with o; nothing else of the shape changes.
LEMMA BecomeShape ==
  ASSUME TypeOK, OpShape, NEW b \in Backends, NEW o \in Op, Become(b, o),
         o.step # "idle" => o.path \in Paths,
         o.step \in {"check", "open", "write"} => o.ranking \in Rankings
  PROVE  op' \in [Backends -> Op] /\ OpShape'
<1>1. op' = [op EXCEPT ![b] = o]
  BY DEF Become
<1>2. op' \in [Backends -> Op]
  BY <1>1 DEF TypeOK
<1>3. \A c \in Backends : op'[c] = IF c = b THEN o ELSE op[c]
  BY <1>1 DEF TypeOK
<1>4. OpShape'
  BY <1>3 DEF OpShape
<1> QED
  BY <1>2, <1>4

LEMMA IdleShape ==
  ASSUME TypeOK, OpShape, NEW b \in Backends, Become(b, NoOp)
  PROVE  op' \in [Backends -> Op] /\ OpShape'
<1>1. NoOp \in Op /\ NoOp.step = "idle"
  BY NoOpIsOp DEF NoOp
<1> QED
  BY <1>1, BecomeShape

LEMMA RestartShape ==
  ASSUME TypeOK, Restart
  PROVE  /\ op' \in [Backends -> Op] /\ OpShape'
         /\ cache' \in [Backends -> [Paths -> Rankings \cup {Absent}]]
         /\ DirTypeOK'
<1>1. op' = [b \in Backends |-> NoOp] /\ NoOp.step = "idle"
  BY DEF Restart, NoOp
<1>2. op' \in [Backends -> Op] /\ OpShape'
  BY <1>1, NoOpIsOp DEF OpShape
<1>3. cache' \in [Backends -> [Paths -> Rankings \cup {Absent}]]
  BY DEF Restart, NoCache
<1>4. DirTypeOK'
  BY DEF Restart, ReloadAll, TypeOK, DirTypeOK
<1> QED
  BY <1>2, <1>3, <1>4

LEMMA StepShape ==
  ASSUME TypeOK, OpShape, [Next]_vars
  PROVE  TypeOK' /\ OpShape'
<1>1. CASE UNCHANGED vars
  BY <1>1 DEF vars, dirVars, history, TypeOK, DirTypeOK, OpShape
<1>2. ASSUME NEW b \in Trainers, NEW id \in Ids, Train(b, id)
      PROVE  TypeOK' /\ OpShape'
  <2>1. b \in Backends
    BY TrainersAssumption
  <2> DEFINE o == [NoOp EXCEPT !.step = "query", !.path = PathFor(b, id)]
  <2>2. PathFor(b, id) \in Paths
    BY <1>2, <2>1, PathForType DEF Train
  <2>3. o \in Op /\ o.path \in Paths /\ o.step = "query"
    BY <2>2 DEF NoOp, Op, Content
  <2>4. Become(b, o)
    BY <1>2 DEF Train
  <2> HIDE DEF o
  <2>5. op' \in [Backends -> Op] /\ OpShape'
    BY <2>1, <2>3, <2>4, BecomeShape
  <2> QED
    BY <1>2, <2>5 DEF Train, dirVars, history, TypeOK, DirTypeOK
<1>3. ASSUME NEW b \in Trainers, NEW r \in Rankings, RankIds(b, r)
      PROVE  TypeOK' /\ OpShape'
  <2>1. b \in Backends
    BY TrainersAssumption
  <2> DEFINE o == [op[b] EXCEPT !.step = "check", !.ranking = r]
  <2>2. op[b] \in Op /\ op[b].path \in Paths
    BY <1>3, <2>1 DEF RankIds, TypeOK, OpShape
  <2>3. o \in Op /\ o.path \in Paths /\ o.step = "check" /\ o.ranking \in Rankings
    BY <2>2 DEF Op
  <2>4. Become(b, o)
    BY <1>3 DEF RankIds
  <2> HIDE DEF o
  <2>5. op' \in [Backends -> Op] /\ OpShape'
    BY <2>1, <2>3, <2>4, BecomeShape
  <2> QED
    BY <1>3, <2>5 DEF RankIds, dirVars, history, TypeOK, DirTypeOK
<1>4. ASSUME NEW b \in Trainers, CheckTable(b)
      PROVE  TypeOK' /\ OpShape'
  <2>1. b \in Backends
    BY TrainersAssumption
  <2> DEFINE o == [op[b] EXCEPT !.step = "open"]
  <2>2. op[b] \in Op /\ op[b].path \in Paths /\ op[b].ranking \in Rankings
    BY <1>4, <2>1 DEF CheckTable, TypeOK, OpShape
  <2>3. o \in Op /\ o.path \in Paths /\ o.step = "open" /\ o.ranking \in Rankings
    BY <2>2 DEF Op
  <2>4. (Become(b, NoOp) /\ UNCHANGED raced) \/ (Become(b, o) /\ raced' \subseteq raced \cup {op[b].path})
    BY <1>4 DEF CheckTable, Pass
  <2> HIDE DEF o
  <2>5. op' \in [Backends -> Op] /\ OpShape'
    BY <2>1, <2>3, <2>4, BecomeShape, IdleShape
  <2>6. raced' \subseteq Paths
    BY <2>2, <2>4 DEF TypeOK
  <2> QED
    BY <1>4, <2>5, <2>6 DEF CheckTable, dirVars, TypeOK, DirTypeOK
<1>5. ASSUME NEW b \in Trainers, OpenTable(b)
      PROVE  TypeOK' /\ OpShape'
  <2>1. b \in Backends
    BY TrainersAssumption
  <2> DEFINE o == [op[b] EXCEPT !.step = "write"]
  <2>2. op[b] \in Op /\ op[b].path \in Paths /\ op[b].ranking \in Rankings
    BY <1>5, <2>1 DEF OpenTable, TypeOK, OpShape
  <2>3. o \in Op /\ o.path \in Paths /\ o.step = "write" /\ o.ranking \in Rankings
    BY <2>2 DEF Op
  <2>4. Become(b, o)
    BY <1>5 DEF OpenTable
  <2> HIDE DEF o
  <2>5. op' \in [Backends -> Op] /\ OpShape'
    BY <2>1, <2>3, <2>4, BecomeShape
  <2>6. tableFile' \in [Paths -> Content] /\ settled' \subseteq Paths
    BY <1>5 DEF OpenTable, TypeOK, Content, Broken
  <2> QED
    BY <1>5, <2>5, <2>6 DEF OpenTable, dirVars, history, TypeOK, DirTypeOK
<1>6. ASSUME NEW b \in Trainers, WriteTable(b)
      PROVE  TypeOK' /\ OpShape'
  <2>1. b \in Backends
    BY TrainersAssumption
  <2>2. op[b].ranking \in Rankings
    BY <1>6, <2>1 DEF WriteTable, OpShape
  <2>3. Over(tableFile[op[b].path], op[b].ranking) \subseteq Content
    BY <2>2 DEF Over, Content, Broken
  <2>4. tableFile' \in [Paths -> Content] /\ settled' \subseteq Paths
    BY <1>6, <2>3 DEF WriteTable, TypeOK
  <2>5. op' \in [Backends -> Op] /\ OpShape'
    BY <1>6, <2>1, IdleShape DEF WriteTable
  <2> QED
    BY <1>6, <2>4, <2>5 DEF WriteTable, dirVars, history, TypeOK, DirTypeOK
<1>7. ASSUME NEW b \in Trainers, QueryFails(b)
      PROVE  TypeOK' /\ OpShape'
  <2>1. b \in Backends
    BY TrainersAssumption
  <2>2. op' \in [Backends -> Op] /\ OpShape'
    BY <1>7, <2>1, IdleShape DEF QueryFails
  <2>3. faults' \in 0..MaxFaults
    BY <1>7, TableBounds DEF QueryFails, Fault, TypeOK
  <2> QED
    BY <1>7, <2>2, <2>3 DEF QueryFails, dirVars, history, TypeOK, DirTypeOK
<1>8. ASSUME NEW b \in Trainers, WriteFails(b)
      PROVE  TypeOK' /\ OpShape'
  <2>1. b \in Backends
    BY TrainersAssumption
  <2>2. op' \in [Backends -> Op] /\ OpShape'
    BY <1>8, <2>1, IdleShape DEF WriteFails
  <2>3. op[b].path \in Paths
    BY <1>8, <2>1 DEF WriteFails, OpShape
  <2>4. tableFile' \in [Paths -> Content]
    BY <1>8, <2>3 DEF WriteFails, TypeOK, Content, Broken
  <2>5. faults' \in 0..MaxFaults
    BY <1>8, TableBounds DEF WriteFails, Fault, TypeOK
  <2> QED
    BY <1>8, <2>2, <2>4, <2>5 DEF WriteFails, dirVars, history, TypeOK, DirTypeOK
<1>9. ASSUME NEW b \in Backends, NEW id \in Ids, ServeCached(b, id)
      PROVE  TypeOK' /\ OpShape'
  <2>1. cache[b][PathFor(b, id)] \in Rankings
    BY <1>9, PathForType DEF ServeCached, TypeOK
  <2>2. used' \in [Ids -> SUBSET Rankings]
    BY <1>9, <2>1 DEF ServeCached, TypeOK
  <2> QED
    BY <1>9, <2>2 DEF ServeCached, dirVars, TypeOK, DirTypeOK, OpShape
<1>10. ASSUME NEW b \in Backends, NEW id \in Ids, MapTable(b, id)
       PROVE  TypeOK' /\ OpShape'
  <2> DEFINE p == PathFor(b, id)
             o == [NoOp EXCEPT !.step = "parse", !.path = p, !.seen = tableFile[p]]
  <2>1. p \in Paths
    BY <1>10, PathForType DEF MapTable
  <2>2. o \in Op /\ o.path \in Paths /\ o.step = "parse"
    BY <2>1 DEF NoOp, Op, Content, TypeOK
  <2>3. Become(b, o)
    BY <1>10 DEF MapTable
  <2> HIDE DEF o
  <2>4. op' \in [Backends -> Op] /\ OpShape'
    BY <2>2, <2>3, BecomeShape
  <2> QED
    BY <1>10, <2>4 DEF MapTable, dirVars, history, TypeOK, DirTypeOK
<1>11. ASSUME NEW b \in Backends, ParseTable(b)
       PROVE  TypeOK' /\ OpShape'
  <2> DEFINE p == op[b].path
  <2>1. p \in Paths
    BY <1>11 DEF ParseTable, OpShape
  <2>2. p[2] \in Ids
    BY <2>1 DEF Paths
  <2>3. op' \in [Backends -> Op] /\ OpShape'
    BY <1>11, IdleShape DEF ParseTable
  <2>4. CASE Parses(b)
    <3>1. tableFile[p] \in Rankings
      BY <2>4 DEF Parses
    <3>2. cache' = [cache EXCEPT ![b][p] = tableFile[p]]
      BY <1>11, <2>4 DEF ParseTable
    <3>3. used' = [used EXCEPT ![p[2]] = @ \cup {tableFile[p]}]
      BY <1>11, <2>4 DEF ParseTable
    <3> HIDE DEF p
    <3>4. cache' \in [Backends -> [Paths -> Rankings \cup {Absent}]]
      BY <2>1, <3>1, <3>2 DEF TypeOK
    <3>5. used' \in [Ids -> SUBSET Rankings]
      BY <2>2, <3>1, <3>3 DEF TypeOK
    <3> QED
      BY <1>11, <2>3, <3>4, <3>5 DEF ParseTable, dirVars, TypeOK, DirTypeOK
  <2>5. CASE ~Parses(b)
    BY <1>11, <2>3, <2>5 DEF ParseTable, dirVars, TypeOK, DirTypeOK
  <2> QED
    BY <2>4, <2>5
<1>12. ASSUME NEW b \in Backends, ReaderDies(b)
       PROVE  TypeOK' /\ OpShape'
  BY <1>12, RestartShape DEF ReaderDies, history, TypeOK
<1>13. ASSUME NEW b \in Backends, Reconnect(b)
       PROVE  TypeOK' /\ OpShape'
  <2>1. cache' \in [Backends -> [Paths -> Rankings \cup {Absent}]]
    BY <1>13 DEF Reconnect, NoCache, TypeOK
  <2>2. DirTypeOK'
    BY <1>13 DEF Reconnect, TypeOK, DirTypeOK
  <2> QED
    BY <1>13, <2>1, <2>2 DEF Reconnect, history, TypeOK, OpShape
<1>14. ASSUME NEW b \in Backends, TakeUp(b)
       PROVE  TypeOK' /\ OpShape'
  <2>1. DirTypeOK'
    BY <1>14 DEF TakeUp, Reload, TypeOK, DirTypeOK
  <2> QED
    BY <1>14, <2>1 DEF TakeUp, history, TypeOK, OpShape
<1>15. CASE Move
  <2>1. DirTypeOK'
    BY <1>15, MaxMovesAssumption DEF Move, EditConf, TypeOK, DirTypeOK
  <2> QED
    BY <1>15, <2>1 DEF Move, history, TypeOK, OpShape
<1>16. CASE Crash
  <2>1. faults' \in 0..MaxFaults
    BY <1>16, TableBounds DEF Crash, Fault, TypeOK
  <2>2. Restart /\ UNCHANGED <<tableFile, settled, used, raced, losses>>
    BY <1>16 DEF Crash, history
  <2> QED
    BY <2>1, <2>2, RestartShape DEF TypeOK
<1>17. CASE PowerLoss
  <2>1. losses' \in 0..MaxLosses
    BY <1>17, TableBounds DEF PowerLoss, TypeOK
  <2>2. tableFile' \in [Paths -> Content] /\ settled' \subseteq Paths
    <3>1. PICK left \in [Paths -> {Absent, Empty, Partial, "kept"}] :
            tableFile' = [p \in Paths |-> IF left[p] = "kept" THEN tableFile[p] ELSE left[p]]
      BY <1>17 DEF PowerLoss
    <3> QED
      BY <1>17, <3>1 DEF PowerLoss, TypeOK, Content, Broken
  <2>3. Restart /\ UNCHANGED <<used, raced, faults>>
    BY <1>17 DEF PowerLoss, history
  <2> QED
    BY <2>1, <2>2, <2>3, RestartShape DEF TypeOK
<1> QED
  BY <1>1, <1>2, <1>3, <1>4, <1>5, <1>6, <1>7, <1>8, <1>9, <1>10, <1>11, <1>12, <1>13, <1>14,
     <1>15, <1>16, <1>17 DEF Next, TrainStep, ReadStep

(***************************************************************************)
(* One writer, and only behind an absent file.                             *)
(***************************************************************************)

LEMMA BecomeOne ==
  ASSUME TypeOK, NEW b \in Backends, NEW o, Become(b, o)
  PROVE  \A c \in Backends : op'[c] = IF c = b THEN o ELSE op[c]
BY DEF Become, TypeOK

\* b goes on to a step that does not write, and no file changes.
LEMMA FilesQuiet ==
  ASSUME TypeOK, Files, NEW b \in Backends, NEW o, Become(b, o),
         UNCHANGED <<tableFile, raced>>, o.step \notin {"open", "write"},
         o.step = "parse" => tableFile[o.path] \notin {Absent, Empty}
  PROVE  Files'
<1>1. \A c \in Backends : op'[c] = IF c = b THEN o ELSE op[c]
  BY BecomeOne
<1>2. \A p : Writers(p)' = Writers(p) \ {b}
  BY <1>1 DEF Writers
<1>3. OneWriter'
  BY <1>2 DEF Files, OneWriter
<1>4. WriterSees'
  <2> SUFFICES ASSUME NEW p \in Paths \ raced, NEW c \in Writers(p), c # b
               PROVE  tableFile[p] = IF op'[c].step = "open" THEN Absent ELSE Empty
    BY <1>2 DEF WriterSees
  <2>1. op'[c] = op[c]
    BY <1>1 DEF Writers
  <2> QED
    BY <2>1 DEF Files, WriterSees
<1>5. ReaderSees'
  BY <1>1 DEF Files, ReaderSees
<1> QED
  BY <1>3, <1>4, <1>5 DEF Files

LEMMA FilesRestart ==
  ASSUME Restart
  PROVE  Files'
<1>1. \A c \in Backends : op'[c].step = "idle"
  BY DEF Restart, NoOp
<1>2. \A p : Writers(p)' = {}
  BY <1>1 DEF Writers
<1> QED
  BY <1>1, <1>2 DEF Files, OneWriter, WriterSees, ReaderSees

\* b is past write_table's check, which saw no file.
LEMMA FilesPass ==
  ASSUME TypeOK, Files, NEW b \in Backends, op[b].step = "check", Pass(b),
         tableFile[op[b].path] = Absent, UNCHANGED tableFile
  PROVE  Files'
<1> DEFINE p == op[b].path
           o == [op[b] EXCEPT !.step = "open"]
<1>1. o.step = "open" /\ o.path = p
  BY DEF TypeOK, Op
<1>2. Become(b, o) /\ raced' = IF Writers(p) = {} THEN raced ELSE raced \cup {p}
  BY DEF Pass
<1> HIDE DEF o
<1>3. \A c \in Backends : op'[c] = IF c = b THEN o ELSE op[c]
  BY <1>2, BecomeOne
<1>4. raced \subseteq raced' /\ (p \notin raced' => Writers(p) = {})
  BY <1>2
<1>5. \A q : q # p => Writers(q)' = Writers(q)
  BY <1>1, <1>3 DEF Writers
<1>6. p \notin raced' => Writers(p)' = {b}
  BY <1>1, <1>3, <1>4 DEF Writers
<1>7. \A q \in Paths \ raced' : \A c \in Writers(q)' :
        (q # p /\ c \in Writers(q) /\ op'[c] = op[c]) \/ (q = p /\ c = b)
  BY <1>3, <1>5, <1>6 DEF Writers
<1>8. OneWriter'
  BY <1>4, <1>7 DEF Files, OneWriter
<1>9. WriterSees'
  <2> SUFFICES ASSUME NEW q \in Paths \ raced', NEW c \in Writers(q)'
               PROVE  tableFile[q] = IF op'[c].step = "open" THEN Absent ELSE Empty
    BY DEF WriterSees
  <2>1. CASE q = p /\ c = b
    BY <1>1, <1>3, <2>1
  <2>2. CASE q # p /\ c \in Writers(q) /\ op'[c] = op[c]
    BY <1>4, <2>2 DEF Files, WriterSees
  <2> QED
    BY <1>7, <2>1, <2>2
<1>10. ReaderSees'
  BY <1>1, <1>3, <1>4 DEF Files, ReaderSees
<1> QED
  BY <1>8, <1>9, <1>10 DEF Files

\* Where nothing raced, nobody parses a file that has a writer.
LEMMA NoReaderBesideWriter ==
  ASSUME Files, NEW b \in Backends, NEW c \in Backends, op[b].path \in Paths \ raced,
         op[b].step \in {"open", "write"}, op[c].step = "parse"
  PROVE  op[c].path # op[b].path
BY DEF Files, WriterSees, ReaderSees, Writers

LEMMA FilesOpen ==
  ASSUME TypeOK, OpShape, Files, NEW b \in Backends, OpenTable(b)
  PROVE  Files'
<1> DEFINE p == op[b].path
           o == [op[b] EXCEPT !.step = "write"]
<1>1. o.step = "write" /\ o.path = p /\ p \in Paths
  BY DEF OpenTable, OpShape, TypeOK, Op
<1>2. Become(b, o) /\ raced' = raced /\ op[b].step = "open"
  BY DEF OpenTable, history
<1>3. \A q \in Paths : tableFile'[q] = IF q = p THEN Empty ELSE tableFile[q]
  BY <1>1 DEF OpenTable, TypeOK
<1> HIDE DEF o
<1>4. \A c \in Backends : op'[c] = IF c = b THEN o ELSE op[c]
  BY <1>2, BecomeOne
<1>5. \A q : Writers(q)' = Writers(q)
  BY <1>1, <1>2, <1>4 DEF Writers
<1>6. b \in Writers(p)
  BY <1>2 DEF Writers
<1>7. OneWriter'
  BY <1>2, <1>5 DEF Files, OneWriter
<1>8. WriterSees'
  <2> SUFFICES ASSUME NEW q \in Paths \ raced, NEW c \in Writers(q)
               PROVE  tableFile'[q] = IF op'[c].step = "open" THEN Absent ELSE Empty
    BY <1>2, <1>5 DEF WriterSees
  <2>1. CASE q = p
    <3>1. c = b
      BY <1>6, <2>1 DEF Files, OneWriter
    <3> QED
      BY <1>1, <1>3, <1>4, <2>1, <3>1
  <2>2. CASE q # p
    <3>1. c # b /\ c \in Backends
      BY <2>2 DEF Writers
    <3> QED
      BY <1>3, <1>4, <2>2, <3>1 DEF Files, WriterSees
  <2> QED
    BY <2>1, <2>2
<1>9. ReaderSees'
  <2> SUFFICES ASSUME NEW c \in Backends, op'[c].step = "parse", op'[c].path \notin raced
               PROVE  tableFile'[op'[c].path] \notin {Absent, Empty}
    BY <1>2 DEF ReaderSees
  <2>1. c # b /\ op'[c] = op[c]
    BY <1>1, <1>4
  <2>2. op[c].path \in Paths /\ op[c].path # p
    BY <1>1, <1>2, <2>1, NoReaderBesideWriter DEF OpShape
  <2> QED
    BY <1>3, <2>1, <2>2 DEF Files, ReaderSees
<1> QED
  BY <1>7, <1>8, <1>9 DEF Files

\* The write ends, one way or the other.
LEMMA FilesWritten ==
  ASSUME TypeOK, OpShape, Files, NEW b \in Backends, op[b].step = "write", Become(b, NoOp),
         NEW c, tableFile' = [tableFile EXCEPT ![op[b].path] = c], UNCHANGED raced
  PROVE  Files'
<1> DEFINE p == op[b].path
<1>1. p \in Paths /\ b \in Writers(p)
  BY DEF OpShape, Writers
<1>2. \A q \in Paths : q # p => tableFile'[q] = tableFile[q]
  BY DEF TypeOK
<1>3. \A d \in Backends : op'[d] = IF d = b THEN NoOp ELSE op[d]
  BY BecomeOne
<1>4. \A q : Writers(q)' = Writers(q) \ {b}
  BY <1>3 DEF Writers, NoOp
<1>5. OneWriter'
  BY <1>4 DEF Files, OneWriter
<1>6. WriterSees'
  <2> SUFFICES ASSUME NEW q \in Paths \ raced, NEW d \in Writers(q), d # b
               PROVE  tableFile'[q] = IF op'[d].step = "open" THEN Absent ELSE Empty
    BY <1>4 DEF WriterSees
  <2>1. q # p
    BY <1>1 DEF Files, OneWriter
  <2>2. op'[d] = op[d]
    BY <1>3 DEF Writers
  <2> QED
    BY <1>2, <2>1, <2>2 DEF Files, WriterSees
<1>7. ReaderSees'
  <2> SUFFICES ASSUME NEW d \in Backends, op'[d].step = "parse", op'[d].path \notin raced
               PROVE  tableFile'[op'[d].path] \notin {Absent, Empty}
    BY DEF ReaderSees
  <2>1. d # b /\ op'[d] = op[d]
    BY <1>3 DEF NoOp
  <2>2. op[d].path \in Paths /\ op[d].path # p
    BY <1>1, <2>1, NoReaderBesideWriter DEF OpShape
  <2> QED
    BY <1>2, <2>1, <2>2 DEF Files, ReaderSees
<1> QED
  BY <1>5, <1>6, <1>7 DEF Files

LEMMA StepFiles ==
  ASSUME IInv, [Next]_vars
  PROVE  Files'
<1> USE DEF IInv
<1>1. CASE UNCHANGED <<tableFile, raced, op>>
  BY <1>1 DEF Files, OneWriter, WriterSees, ReaderSees, Writers
<1>2. ASSUME NEW b \in Trainers, NEW id \in Ids, Train(b, id)
      PROVE  Files'
  <2>1. b \in Backends
    BY TrainersAssumption
  <2> DEFINE o == [NoOp EXCEPT !.step = "query", !.path = PathFor(b, id)]
  <2>2. Become(b, o) /\ o.step = "query" /\ UNCHANGED <<tableFile, raced>>
    BY <1>2 DEF Train, NoOp, history
  <2> QED
    BY <2>1, <2>2, FilesQuiet
<1>3. ASSUME NEW b \in Trainers, NEW r \in Rankings, RankIds(b, r)
      PROVE  Files'
  <2>1. b \in Backends
    BY TrainersAssumption
  <2> DEFINE o == [op[b] EXCEPT !.step = "check", !.ranking = r]
  <2>2. Become(b, o) /\ o.step = "check" /\ UNCHANGED <<tableFile, raced>>
    BY <1>3, <2>1 DEF RankIds, TypeOK, Op, history
  <2> QED
    BY <2>1, <2>2, FilesQuiet
<1>4. ASSUME NEW b \in Backends, Become(b, NoOp), UNCHANGED <<tableFile, raced>>
      PROVE  Files'
  BY <1>4, FilesQuiet DEF NoOp
<1>5. ASSUME NEW b \in Trainers, CheckTable(b)
      PROVE  Files'
  <2>1. b \in Backends /\ UNCHANGED tableFile
    BY <1>5, TrainersAssumption DEF CheckTable
  <2>2. CASE TableExists(op[b].path)
    BY <1>4, <1>5, <2>1, <2>2 DEF CheckTable
  <2>3. CASE ~TableExists(op[b].path)
    BY <1>5, <2>1, <2>3, FilesPass DEF CheckTable, TableExists
  <2> QED
    BY <2>2, <2>3
<1>6. ASSUME NEW b \in Trainers, OpenTable(b)
      PROVE  Files'
  BY <1>6, FilesOpen, TrainersAssumption
<1>7. ASSUME NEW b \in Trainers, WriteTable(b)
      PROVE  Files'
  <2>1. PICK c : tableFile' = [tableFile EXCEPT ![op[b].path] = c]
    BY <1>7 DEF WriteTable
  <2> QED
    BY <1>7, <2>1, FilesWritten, TrainersAssumption DEF WriteTable, history
<1>8. ASSUME NEW b \in Trainers, QueryFails(b)
      PROVE  Files'
  BY <1>4, <1>8, TrainersAssumption DEF QueryFails, history
<1>9. ASSUME NEW b \in Trainers, WriteFails(b)
      PROVE  Files'
  <2>1. PICK c : tableFile' = [tableFile EXCEPT ![op[b].path] = c]
    BY <1>9 DEF WriteFails
  <2> QED
    BY <1>9, <2>1, FilesWritten, TrainersAssumption DEF WriteFails, history
<1>10. ASSUME NEW b \in Backends, NEW id \in Ids, MapTable(b, id)
       PROVE  Files'
  <2> DEFINE p == PathFor(b, id)
             o == [NoOp EXCEPT !.step = "parse", !.path = p, !.seen = tableFile[p]]
  <2>1. Become(b, o) /\ o.path = p /\ o.step = "parse" /\ tableFile[p] \notin {Absent, Empty}
    BY <1>10 DEF MapTable, NoOp
  <2>2. UNCHANGED <<tableFile, raced>>
    BY <1>10 DEF MapTable, history
  <2> QED
    BY <2>1, <2>2, FilesQuiet
<1>11. ASSUME NEW b \in Backends, ParseTable(b)
       PROVE  Files'
  BY <1>4, <1>11 DEF ParseTable
<1>12. CASE Restart
  BY <1>12, FilesRestart
<1>13. CASE \/ UNCHANGED vars
            \/ \E b \in Backends, id \in Ids : ServeCached(b, id)
            \/ \E b \in Backends : Reconnect(b) \/ TakeUp(b)
            \/ Move
  BY <1>1, <1>13 DEF vars, history, ServeCached, Reconnect, TakeUp, Move
<1>14. CASE Crash \/ PowerLoss \/ \E b \in Backends : ReaderDies(b)
  BY <1>12, <1>14 DEF Crash, PowerLoss, ReaderDies
<1> QED
  BY <1>2, <1>3, <1>5, <1>6, <1>7, <1>8, <1>9, <1>10, <1>11, <1>13, <1>14
     DEF Next, TrainStep, ReadStep

\* The inductive invariant holds in every reachable state.
THEOREM Inductive == Spec => []IInv
<1>1. Init => IInv
  <2> SUFFICES ASSUME Init
               PROVE  IInv
    OBVIOUS
  <2>1. TypeOK
    BY NoOpIsOp, MaxMovesAssumption, TableBounds
    DEF Init, DirInit, TypeOK, DirTypeOK, NoCache, Content
  <2>2. \A b \in Backends : op[b].step = "idle"
    BY DEF Init, NoOp
  <2>3. OpShape /\ \A p : Writers(p) = {}
    BY <2>2 DEF OpShape, Writers
  <2>4. Files
    BY <2>2, <2>3 DEF Files, OneWriter, WriterSees, ReaderSees
  <2> QED
    BY <2>1, <2>3, <2>4 DEF IInv
<1>2. IInv /\ [Next]_vars => IInv'
  BY StepShape, StepFiles DEF IInv
<1> QED
  BY <1>1, <1>2, PTL DEF Spec

\* The variables have their types in every reachable state.
THEOREM TypeCorrect == Spec => []TypeOK
<1>1. IInv => TypeOK
  BY DEF IInv
<1> QED
  BY <1>1, Inductive, PTL

\* registry.rs:126-128: outside a race of two trains no process dies of a file truncated under
\* its map, however many backends train, read and fail.
THEOREM NoReaderDiesHolds == Spec => []NoReaderDies
<1>1. IInv => NoReaderDies
  BY DEF IInv, Files, ReaderSees, NoReaderDies
<1> QED
  BY <1>1, Inductive, PTL

(***************************************************************************)
(* Who may change a file.                                                  *)
(***************************************************************************)

\* The property of FileIsFinal, of one step.
StepFinal ==
  \A p \in Paths :
    \/ tableFile[p] = Absent
    \/ \E b \in Writers(p) : op[b].step = "write"
    \/ p \in raced /\ Writers(p) # {}
    \/ tableFile'[p] = tableFile[p]
    \/ losses' # losses

LEMMA FinalStep ==
  ASSUME IInv, [Next]_vars
  PROVE  StepFinal
<1> USE DEF IInv
<1>1. CASE tableFile' = tableFile
  BY <1>1 DEF StepFinal
<1>2. ASSUME NEW b \in Backends, OpenTable(b)
      PROVE  StepFinal
  <2> SUFFICES ASSUME NEW p \in Paths, tableFile[p] # Absent, tableFile'[p] # tableFile[p]
               PROVE  p \in raced /\ Writers(p) # {}
    BY DEF StepFinal
  <2>1. p = op[b].path
    BY <1>2 DEF OpenTable, TypeOK
  <2>2. b \in Writers(p) /\ op[b].step = "open"
    BY <1>2, <2>1 DEF OpenTable, Writers
  <2> QED
    BY <2>2 DEF Files, WriterSees
<1>3. ASSUME NEW b \in Backends, WriteTable(b) \/ WriteFails(b)
      PROVE  StepFinal
  <2> SUFFICES ASSUME NEW p \in Paths, tableFile'[p] # tableFile[p]
               PROVE  \E d \in Writers(p) : op[d].step = "write"
    BY DEF StepFinal
  <2>1. op[b].step = "write" /\ \E c : tableFile' = [tableFile EXCEPT ![op[b].path] = c]
    BY <1>3 DEF WriteTable, WriteFails
  <2>2. p = op[b].path
    BY <2>1 DEF TypeOK
  <2> QED
    BY <2>1, <2>2 DEF Writers
<1>4. CASE PowerLoss
  <2>1. losses' = losses + 1 /\ losses \in Nat
    BY <1>4, TableBounds DEF PowerLoss, TypeOK
  <2> QED
    BY <2>1 DEF StepFinal
<1>5. ASSUME NEW b \in Trainers, TrainStep(b)
      PROVE  StepFinal
  <2>1. CASE OpenTable(b) \/ WriteTable(b) \/ WriteFails(b)
    BY <1>2, <1>3, <2>1, TrainersAssumption
  <2>2. CASE \/ \E id \in Ids : Train(b, id)
             \/ \E r \in Rankings : RankIds(b, r)
             \/ CheckTable(b) \/ QueryFails(b)
    BY <1>1, <2>2 DEF Train, RankIds, CheckTable, QueryFails
  <2> QED
    BY <1>5, <2>1, <2>2 DEF TrainStep
<1>6. ASSUME NEW b \in Backends, ReadStep(b) \/ Reconnect(b) \/ TakeUp(b)
      PROVE  StepFinal
  BY <1>1, <1>6 DEF ReadStep, ServeCached, MapTable, ParseTable, ReaderDies, Reconnect, TakeUp
<1>7. CASE Move \/ Crash \/ UNCHANGED vars
  BY <1>1, <1>7 DEF Move, Crash, vars
<1> QED
  BY <1>4, <1>5, <1>6, <1>7 DEF Next

\* registry.rs:174-186: a file that is there is changed only by the call that is writing it, by
\* trains that raced, and by a loss of power.
THEOREM FileIsFinalHolds == Spec => FileIsFinal
<1>1. IInv /\ [Next]_vars =>
        [\A p \in Paths :
           \/ tableFile[p] = Absent
           \/ \E b \in Writers(p) : op[b].step = "write"
           \/ p \in raced /\ Writers(p) # {}
           \/ tableFile'[p] = tableFile[p]
           \/ losses' # losses]_vars
  BY FinalStep DEF StepFinal
<1> QED
  BY <1>1, Inductive, PTL DEF Spec, FileIsFinal

(***************************************************************************)
(* What was encoded against stays.                                         *)
(***************************************************************************)

\* While the setting has not moved, statements and backends use it.
SettingStays ==
  moves = 0 =>
    \A b \in Backends :
      dirOf[b] = conf /\ (op[b].step = "parse" => op[b].path[1] = conf)

CacheSees ==
  losses = 0 =>
    \A b \in Backends, p \in Paths \ raced :
      cache[b][p] # Absent => tableFile[p] = cache[b][p]

LEMMA Counted ==
  ASSUME IInv, [Next]_vars
  PROVE  /\ raced \subseteq raced'
         /\ losses' = 0 => losses = 0
         /\ moves' = 0 => moves = 0 /\ conf' = conf
<1>1. raced \subseteq raced'
  BY DEF Next, TrainStep, ReadStep, Train, RankIds, CheckTable, Pass, OpenTable, WriteTable,
     QueryFails, WriteFails, ServeCached, MapTable, ParseTable, ReaderDies, Reconnect, TakeUp, Move,
     Crash, PowerLoss, vars, history
<1>2. losses \in Nat /\ moves \in Nat
  BY TableBounds, MaxMovesAssumption DEF IInv, TypeOK, DirTypeOK
<1>3. losses' = losses \/ losses' = losses + 1
  BY DEF Next, TrainStep, ReadStep, Train, RankIds, CheckTable, OpenTable, WriteTable,
     QueryFails, WriteFails, ServeCached, MapTable, ParseTable, ReaderDies, Reconnect, TakeUp, Move,
     Crash, PowerLoss, vars
<1>4. (moves' = moves /\ conf' = conf) \/ moves' = moves + 1
  BY DEF Next, TrainStep, ReadStep, Train, RankIds, CheckTable, OpenTable, WriteTable,
     QueryFails, WriteFails, ServeCached, MapTable, ParseTable, ReaderDies, Reconnect, TakeUp, Move,
     Crash, PowerLoss, Restart, EditConf, Reload, ReloadAll, vars, dirVars
<1> QED
  BY <1>1, <1>2, <1>3, <1>4

\* A ranking in place stays while nothing races at its path and no power is lost.
LEMMA RankKept ==
  ASSUME IInv, [Next]_vars, losses' = 0, NEW p \in Paths \ raced', tableFile[p] \in Rankings
  PROVE  tableFile'[p] = tableFile[p]
<1>1. p \notin raced /\ losses' = losses
  BY Counted
<1>2. tableFile[p] \notin {Absent, Empty}
  BY ContentAssumption DEF Broken
<1>3. StepFinal
  BY FinalStep
<1>4. \A b \in Writers(p) : op[b].step # "write"
  BY <1>1, <1>2 DEF IInv, Files, WriterSees
<1> QED
  BY <1>1, <1>2, <1>3, <1>4 DEF StepFinal

\* A statement that parses has just mapped its file, or did so before.
ParsesOwn ==
  \A c \in Backends :
    op'[c].step = "parse" => op'[c] = op[c] \/ \E id \in Ids : op'[c].path = PathFor(c, id)

LEMMA StepParses ==
  ASSUME IInv, [Next]_vars
  PROVE  ParsesOwn
<1> USE DEF IInv
<1>1. CASE UNCHANGED op
  BY <1>1 DEF ParsesOwn
<1>2. ASSUME NEW b \in Backends, NEW o, Become(b, o),
             o.step = "parse" => \E id \in Ids : o.path = PathFor(b, id)
      PROVE  ParsesOwn
  BY <1>2, BecomeOne DEF ParsesOwn
<1>3. ASSUME NEW b \in Backends, Become(b, NoOp)
      PROVE  ParsesOwn
  BY <1>2, <1>3 DEF NoOp
<1>4. ASSUME NEW b \in Trainers, TrainStep(b)
      PROVE  ParsesOwn
  <2>1. b \in Backends /\ op[b] \in Op
    BY TrainersAssumption DEF TypeOK
  <2>2. ASSUME NEW id \in Ids, Train(b, id)
        PROVE  ParsesOwn
    <3> DEFINE o == [NoOp EXCEPT !.step = "query", !.path = PathFor(b, id)]
    <3>1. Become(b, o) /\ o.step = "query"
      BY <2>2 DEF Train, NoOp
    <3> QED
      BY <1>2, <2>1, <3>1
  <2>3. ASSUME NEW r \in Rankings, RankIds(b, r)
        PROVE  ParsesOwn
    <3> DEFINE o == [op[b] EXCEPT !.step = "check", !.ranking = r]
    <3>1. Become(b, o) /\ o.step = "check"
      BY <2>1, <2>3 DEF RankIds, Op
    <3> QED
      BY <1>2, <2>1, <3>1
  <2>4. ASSUME NEW step \in {"open", "write"}, Become(b, [op[b] EXCEPT !.step = step])
        PROVE  ParsesOwn
    <3> DEFINE o == [op[b] EXCEPT !.step = step]
    <3>1. Become(b, o) /\ o.step = step
      BY <2>1, <2>4 DEF Op
    <3> QED
      BY <1>2, <2>1, <3>1
  <2>5. CASE CheckTable(b) \/ OpenTable(b)
    BY <1>3, <2>1, <2>4, <2>5 DEF CheckTable, Pass, OpenTable
  <2>6. CASE WriteTable(b) \/ QueryFails(b) \/ WriteFails(b)
    BY <1>3, <2>1, <2>6 DEF WriteTable, QueryFails, WriteFails
  <2> QED
    BY <1>4, <2>2, <2>3, <2>5, <2>6 DEF TrainStep
<1>5. ASSUME NEW b \in Backends, NEW id \in Ids, MapTable(b, id)
      PROVE  ParsesOwn
  <2> DEFINE o == [NoOp EXCEPT !.step = "parse", !.path = PathFor(b, id),
                               !.seen = tableFile[PathFor(b, id)]]
  <2>1. Become(b, o) /\ o.path = PathFor(b, id)
    BY <1>5 DEF MapTable, NoOp
  <2> QED
    BY <1>2, <2>1
<1>6. CASE Restart
  BY <1>6 DEF Restart, NoOp, ParsesOwn
<1>7. ASSUME NEW b \in Backends, ReadStep(b) \/ Reconnect(b) \/ TakeUp(b)
      PROVE  ParsesOwn
  BY <1>1, <1>3, <1>5, <1>6, <1>7 DEF ReadStep, ServeCached, ParseTable, ReaderDies, Reconnect, TakeUp
<1>8. CASE Move \/ Crash \/ PowerLoss \/ UNCHANGED vars
  BY <1>1, <1>6, <1>8 DEF Move, Crash, PowerLoss, vars
<1> QED
  BY <1>4, <1>7, <1>8 DEF Next

LEMMA StepSetting ==
  ASSUME IInv, SettingStays, [Next]_vars
  PROVE  SettingStays'
<1> SUFFICES ASSUME moves' = 0
             PROVE  \A b \in Backends :
                      dirOf'[b] = conf' /\ (op'[b].step = "parse" => op'[b].path[1] = conf')
  BY DEF SettingStays
<1>1. conf' = conf /\ moves = 0 /\ \A b \in Backends :
        dirOf[b] = conf /\ (op[b].step = "parse" => op[b].path[1] = conf)
  BY Counted DEF SettingStays
<1>2. \A b \in Backends : dirOf'[b] \in {dirOf[b], conf}
  BY DEF IInv, TypeOK, DirTypeOK, Next, TrainStep, ReadStep, Train, RankIds, CheckTable, OpenTable,
     WriteTable, QueryFails, WriteFails, ServeCached, MapTable, ParseTable, ReaderDies, Reconnect,
     TakeUp, Move, Crash, PowerLoss, Restart, EditConf, Reload, ReloadAll, vars, dirVars
<1>3. ParsesOwn
  BY StepParses
<1> QED
  BY <1>1, <1>2, <1>3 DEF PathFor, ParsesOwn

\* What a cache gains is what its file holds.
CacheOwn ==
  \A b \in Backends, p \in Paths :
    \/ cache'[b][p] \in {cache[b][p], Absent}
    \/ tableFile'[p] = tableFile[p] /\ cache'[b][p] = tableFile[p]

LEMMA StepCacheOwn ==
  ASSUME IInv, [Next]_vars
  PROVE  CacheOwn
<1> USE DEF IInv
<1>1. CASE UNCHANGED cache
  BY <1>1 DEF CacheOwn
<1>2. ASSUME NEW b \in Backends, ParseTable(b), Parses(b)
      PROVE  CacheOwn
  <2> DEFINE p == op[b].path
             c == tableFile[p]
  <2>1. cache' = [cache EXCEPT ![b][p] = c] /\ tableFile' = tableFile
    BY <1>2 DEF ParseTable
  <2> HIDE DEF c, p
  <2>2. \A d \in Backends, q \in Paths :
          cache'[d][q] = IF d = b /\ q = p THEN c ELSE cache[d][q]
    BY <2>1 DEF TypeOK
  <2> QED
    BY <2>1, <2>2 DEF CacheOwn, c
<1>3. ASSUME NEW b \in Backends, Reconnect(b)
      PROVE  CacheOwn
  BY <1>3 DEF Reconnect, NoCache, TypeOK, CacheOwn
<1>4. CASE Restart
  BY <1>4 DEF Restart, NoCache, CacheOwn
<1>5. ASSUME NEW b \in Trainers, TrainStep(b)
      PROVE  CacheOwn
  BY <1>1, <1>5 DEF TrainStep, Train, RankIds, CheckTable, OpenTable, WriteTable, QueryFails, WriteFails
<1>6. ASSUME NEW b \in Backends, ReadStep(b) \/ TakeUp(b)
      PROVE  CacheOwn
  <2>1. CASE ParseTable(b)
    BY <1>1, <1>2, <2>1 DEF ParseTable
  <2> QED
    BY <1>1, <1>4, <1>6, <2>1 DEF ReadStep, ServeCached, MapTable, ReaderDies, TakeUp
<1>7. CASE Move \/ Crash \/ PowerLoss \/ UNCHANGED vars
  BY <1>1, <1>4, <1>7 DEF Move, Crash, PowerLoss, vars
<1> QED
  BY <1>3, <1>5, <1>6, <1>7 DEF Next

LEMMA StepCache ==
  ASSUME IInv, CacheSees, [Next]_vars
  PROVE  CacheSees'
<1> SUFFICES ASSUME losses' = 0, NEW b \in Backends, NEW p \in Paths \ raced', cache'[b][p] # Absent
             PROVE  tableFile'[p] = cache'[b][p]
  BY DEF CacheSees
<1>1. p \in Paths \ raced /\ losses = 0
  BY Counted
<1>2. CASE cache'[b][p] = cache[b][p]
  <2>1. tableFile[p] = cache[b][p]
    BY <1>1, <1>2 DEF CacheSees
  <2>2. cache[b][p] \in Rankings
    BY <1>2 DEF IInv, TypeOK
  <2> QED
    BY <1>2, <2>1, <2>2, RankKept
<1>3. CASE tableFile'[p] = tableFile[p] /\ cache'[b][p] = tableFile[p]
  BY <1>3
<1> QED
  BY <1>2, <1>3, StepCacheOwn DEF CacheOwn

\* Every answer that is new came from the cache or the file of the backend's own directory.
UsedOwn ==
  \A id \in Ids : \A r \in used'[id] :
    \/ r \in used[id]
    \/ /\ tableFile' = tableFile
       /\ \E b \in Backends :
            \/ HasDir(b) /\ cache[b][PathFor(b, id)] = r
            \/ /\ op[b].step = "parse" /\ op[b].path[2] = id
               /\ tableFile[op[b].path] = r

LEMMA StepUsedOwn ==
  ASSUME IInv, [Next]_vars
  PROVE  UsedOwn
<1> USE DEF IInv
<1>1. CASE UNCHANGED used
  BY <1>1 DEF UsedOwn
<1>2. ASSUME NEW b \in Backends, NEW id \in Ids, ServeCached(b, id)
      PROVE  UsedOwn
  BY <1>2 DEF ServeCached, TypeOK, UsedOwn
<1>3. ASSUME NEW b \in Backends, ParseTable(b), Parses(b)
      PROVE  UsedOwn
  <2> DEFINE p == op[b].path
             c == tableFile[p]
  <2>1. used' = [used EXCEPT ![p[2]] = @ \cup {c}] /\ tableFile' = tableFile
    BY <1>3 DEF ParseTable
  <2>2. op[b].step = "parse"
    BY <1>3 DEF ParseTable
  <2> HIDE DEF c, p
  <2>3. \A id \in Ids : \A r \in used'[id] : r \in used[id] \/ (id = p[2] /\ r = c)
    BY <2>1 DEF TypeOK
  <2> QED
    BY <2>1, <2>2, <2>3 DEF UsedOwn, c, p
<1>4. ASSUME NEW b \in Trainers, TrainStep(b)
      PROVE  UsedOwn
  BY <1>1, <1>4 DEF TrainStep, Train, RankIds, CheckTable, OpenTable, WriteTable, QueryFails,
     WriteFails, history
<1>5. ASSUME NEW b \in Backends, ReadStep(b) \/ Reconnect(b) \/ TakeUp(b)
      PROVE  UsedOwn
  <2>1. CASE ParseTable(b)
    BY <1>1, <1>3, <2>1 DEF ParseTable
  <2> QED
    BY <1>1, <1>2, <1>5, <2>1 DEF ReadStep, MapTable, ReaderDies, Reconnect, TakeUp, history
<1>6. CASE Move \/ Crash \/ PowerLoss \/ UNCHANGED vars
  BY <1>1, <1>6 DEF Move, Crash, PowerLoss, vars, history
<1> QED
  BY <1>4, <1>5, <1>6 DEF Next

LEMMA StepStays ==
  ASSUME IInv, SettingStays, CacheSees, RankingStays, [Next]_vars
  PROVE  RankingStays'
<1> SUFFICES ASSUME NEW id \in Ids, NEW r \in used'[id], conf' # NoDir, moves' = 0, losses' = 0,
                    <<conf', id>> \notin raced'
             PROVE  tableFile'[<<conf', id>>] = r
  BY DEF RankingStays
<1> DEFINE p == <<conf, id>>
<1>1. conf' = conf /\ moves = 0 /\ losses = 0 /\ raced \subseteq raced'
  BY Counted
<1>2. p \in Paths \ raced' /\ p \in Paths \ raced
  BY <1>1 DEF IInv, TypeOK, DirTypeOK, Setting, Paths
<1>3. CASE r \in used[id]
  <2>1. tableFile[p] = r /\ r \in Rankings
    BY <1>1, <1>2, <1>3 DEF RankingStays, IInv, TypeOK
  <2> QED
    BY <1>1, <1>2, <2>1, RankKept
<1>4. ASSUME tableFile' = tableFile, NEW b \in Backends, HasDir(b), cache[b][PathFor(b, id)] = r
      PROVE  tableFile'[p] = r
  <2>1. PathFor(b, id) = p
    BY <1>1 DEF SettingStays, PathFor
  <2>2. r \in Rankings
    <3>1. used' \in [Ids -> SUBSET Rankings]
      BY StepShape DEF IInv, TypeOK
    <3> QED
      BY <3>1
  <2>3. r # Absent
    BY <2>2, ContentAssumption
  <2> QED
    BY <1>1, <1>2, <1>4, <2>1, <2>3 DEF CacheSees
<1>5. ASSUME tableFile' = tableFile, NEW b \in Backends, op[b].step = "parse",
             op[b].path[2] = id, tableFile[op[b].path] = r
      PROVE  tableFile'[p] = r
  <2>1. op[b].path \in Paths /\ op[b].path[1] = conf
    BY <1>1, <1>5 DEF SettingStays, IInv, OpShape
  <2>2. op[b].path = p
    BY <1>5, <2>1 DEF Paths
  <2> QED
    BY <1>5, <2>2
<1> QED
  BY <1>1, <1>3, <1>4, <1>5, StepUsedOwn DEF UsedOwn

\* registry.rs:176-178: with the setting in place, the power on and no two trains racing at its
\* path, a ranking values were encoded against is what the file holds for ever.
THEOREM RankingStaysHolds == Spec => []RankingStays
<1> DEFINE Stays == SettingStays /\ CacheSees /\ RankingStays
<1>1. Init => Stays
  BY DEF Init, DirInit, NoCache, NoOp, SettingStays, CacheSees, RankingStays
<1>2. IInv /\ Stays /\ [Next]_vars => Stays'
  BY StepSetting, StepCache, StepStays
<1>3. Stays => RankingStays
  OBVIOUS
<1> HIDE DEF Stays
<1> QED
  BY <1>1, <1>2, <1>3, Inductive, PTL DEF Spec

=============================================================================
