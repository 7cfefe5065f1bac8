---------------------------- MODULE MCRepoStore ----------------------------
(***************************************************************************)
(* Small instances of RepoStore for TLC: two blocks of which one expires,  *)
(* sharing the minutes of a short clock.                                   *)
(***************************************************************************)
EXTENDS RepoStore, TLC

CONSTANTS t1, t2

MCExpiry == (2 :> 2)

MCSize == [b \in Blocks |-> 1]

TaskSymmetry == Permutations(Tasks)
=============================================================================
