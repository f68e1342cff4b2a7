---- MODULE MCMappingFile ----
(* Instance of MappingFile for TLC. *)
EXTENDS MappingFile, TLC

Symmetry == Permutations(Backends) \cup Permutations(Mappings)
====
