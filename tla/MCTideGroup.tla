---------------------------- MODULE MCTideGroup ----------------------------
(* Instances of TideGroup for TLC.                                         *)
EXTENDS TideGroup, TLC

\* Tasks are interchangeable; for safety runs only.
TaskSymmetry == Permutations(Task)
=============================================================================
