---- MODULE MCRankingFile ----
(* Instance of RankingFile for TLC: two rankings of one size and a longer one. *)
EXTENDS RankingFile, TLC

CONSTANTS ra, rb, rc

MCRankings == {ra, rb, rc}
MCSize == (ra :> 1) @@ (rb :> 1) @@ (rc :> 2)
====
