---- MODULE MCVocabulary ----
(* Instances of Vocabulary for TLC: one database, or one for each of two backends. *)
EXTENDS Vocabulary, TLC

CONSTANTS b1, b2, db1, db2, map, rank

OneDatabase == [b \in Backends |-> db1]
TwoDatabases == (b1 :> db1) @@ (b2 :> db2)

\* Sound with one database: no action tells backends, names or kinds apart.
Symmetry == Permutations(Backends) \cup Permutations(Names) \cup Permutations(Kinds)
====
