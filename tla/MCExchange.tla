------------------------------ MODULE MCExchange ------------------------------
(***************************************************************************)
(* Two databases, two names and two ids, so that vocabularies can share a  *)
(* name, an id, both or neither; one raw8 and one freq declaration.        *)
(***************************************************************************)
EXTENDS Exchange

MCDeclared == {[size |-> 2, compression |-> "raw"], [size |-> 4, compression |-> "freq"]}

\* Rankings of the same length that rank different ids.
MCCorpora == {<<1, 0, 1>>, <<0, 3, 0>>}

\* Two mappings of two ids, and one of four that leaves one out.
MCMappings == {<<"a", "b">>, <<"b", "c">>, <<"a", "b", Nothing, "d">>}

MCLists == {<<1, 0>>, <<3>>}

Symmetry == Permutations(Databases) \cup Permutations(Names)

=============================================================================
