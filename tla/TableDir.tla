------------------------------ MODULE TableDir ------------------------------
(***************************************************************************)
(* The pgtoken.table_dir setting (ext/src/lib.rs, ext/src/registry.rs):    *)
(* where the artefact files of a vocabulary live, as every backend         *)
(* currently believes it.  The setting is SIGHUP-scoped, so no session can *)
(* change it, but each backend takes a new value up on its own, between    *)
(* two statements.                                                         *)
(***************************************************************************)
EXTENDS Naturals

CONSTANTS
  Backends,   \* the process ids of the server's backends
  Dirs,       \* the directories the setting may name
  NoDir,      \* the setting left unset
  Ids,        \* the vocabulary ids in use
  MaxMoves    \* bound on how often the administrator edits the setting

ASSUME NoDirAssumption == NoDir \notin Dirs
ASSUME MaxMovesAssumption == MaxMoves \in Nat

VARIABLES
  conf,       \* the value in postgresql.conf
  dirOf,      \* dirOf[b]: the value backend b runs with
  moves       \* edits so far (bounds the model)

dirVars == <<conf, dirOf, moves>>

Setting == Dirs \cup {NoDir}

\* One artefact file of each kind per directory and vocabulary id.
Paths == Dirs \X Ids

DirTypeOK ==
  /\ conf \in Setting
  /\ dirOf \in [Backends -> Setting]
  /\ moves \in 0..MaxMoves

DirInit ==
  /\ conf \in Setting
  /\ dirOf = [b \in Backends |-> conf]
  /\ moves = 0

\* require_dir: no question is asked about an artefact while the setting is unset.
HasDir(b) == dirOf[b] # NoDir

\* table_path and map_path, for a backend that has a directory.
PathFor(b, id) == <<dirOf[b], id>>

\* The administrator edits the setting and signals the server.
EditConf ==
  /\ moves < MaxMoves
  /\ \E d \in Setting \ {conf} : conf' = d
  /\ moves' = moves + 1
  /\ UNCHANGED dirOf

\* Backend b, between two statements, acts on the signal.
Reload(b) ==
  /\ dirOf[b] # conf
  /\ dirOf' = [dirOf EXCEPT ![b] = conf]
  /\ UNCHANGED <<conf, moves>>

\* Every backend is started afresh.
ReloadAll ==
  /\ dirOf' = [b \in Backends |-> conf]
  /\ UNCHANGED <<conf, moves>>

=============================================================================
