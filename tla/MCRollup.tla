------------------------------ MODULE MCRollup ------------------------------
(***************************************************************************)
(* Rollup on instances TLC can enumerate.                                  *)
(***************************************************************************)
EXTENDS Rollup, TLC

Symmetry == Permutations(Monitors) \cup Permutations(Rollups)
=============================================================================
