------------------------------ MODULE RankTable ------------------------------
(***************************************************************************)
(* The ranking behind the freq codec (core/src/tables.rs): training, the   *)
(* map from token ids to the integers that are packed, and back.           *)
(*                                                                         *)
(* A table is token_of_rank, the sequence of the ranked tokens; rank r is  *)
(* its element r + 1, since ranks count from 0.                            *)
(***************************************************************************)
EXTENDS Naturals, SequencesExt

CONSTANT MaxU32   \* u32::MAX, the largest id and the largest rank

ASSUME MaxU32Assumption == MaxU32 \in Nat

U32 == 0..MaxU32

K(table) == Len(table)

\* The keys of rank_of.
Ranked(table) == {table[i] : i \in 1..K(table)}

\* What from_bytes accepts: no token twice, as many as a u32 can count.
IsTable(table) ==
  /\ table \in Seq(U32)
  /\ K(table) \in U32
  /\ \A i, j \in 1..K(table) : table[i] = table[j] => i = j

-----------------------------------------------------------------------------
Occurrences(ids, x) == Cardinality({i \in 1..Len(ids) : ids[i] = x})

\* Descending by count, ties by ascending id.
Before(ids, x, y) ==
  \/ Occurrences(ids, x) > Occurrences(ids, y)
  \/ Occurrences(ids, x) = Occurrences(ids, y) /\ x < y

\* Mutant of TrainTable: the tokens in the order of the corpus, those seen twice ranked twice.
TrainTableRepeats(ids, cap) == SubSeq(ids, 1, IF cap < Len(ids) THEN cap ELSE Len(ids))

\* RankTable::train: the seen tokens in that order, of which the cap keeps the first; a cap
\* that is not below their number caps nothing.
TrainTable(ids, cap) ==
  LET seen == Range(ids)
      size == IF cap < Cardinality(seen) THEN cap ELSE Cardinality(seen) IN
  [r \in 1..size |-> CHOOSE x \in seen : Cardinality({y \in seen : Before(ids, y, x)}) = r - 1]

-----------------------------------------------------------------------------
\* Mutant of RankFits: wrapping in place of checked addition never refuses.
NeverRefused(table, id) == TRUE

\* checked_add: an unranked id whose integer does not fit a u32 is refused.
RankFits(table, id) == id \in Ranked(table) \/ id + K(table) <= MaxU32

\* Mutant of Rank: the fallback leaves the id as it is.
RankUnshifted(table, id) ==
  IF id \in Ranked(table) THEN (CHOOSE i \in 1..K(table) : table[i] = id) - 1 ELSE id

\* A ranked token becomes its rank, any other its id shifted past the ranks.
Rank(table, id) ==
  IF id \in Ranked(table) THEN (CHOOSE i \in 1..K(table) : table[i] = id) - 1 ELSE id + K(table)

\* A rank below k is a ranked token, any other is an id shifted past the ranks.
Token(table, rank) ==
  IF rank < K(table) THEN table[rank + 1] ELSE rank - K(table)

=============================================================================
