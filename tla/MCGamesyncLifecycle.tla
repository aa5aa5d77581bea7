------------------------- MODULE MCGamesyncLifecycle -------------------------
(* Two members of a room, interchangeable where no liveness is checked. *)
EXTENDS GamesyncLifecycle, TLC

MemberSymmetry == Permutations(Member)
=============================================================================
