--------------------------- MODULE MCRankedStore ---------------------------
(* RankedStore with three players and reports that agree, contradict each  *)
(* other or are impossible (two winners).                                  *)
EXTENDS RankedStore, TLC

MCOutcome == {<<Win, Lose>>, <<Draw, Draw>>, <<NoContest, NoContest>>, <<Win, Win>>}
PlayerSymmetry == Permutations(Player) \cup Permutations(Session)
=============================================================================
