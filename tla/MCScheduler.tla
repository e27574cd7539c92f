---------------------------- MODULE MCScheduler ----------------------------
(***************************************************************************)
(* Scheduler on instances TLC can enumerate.                               *)
(***************************************************************************)
EXTENDS Scheduler, TLC

Symmetry == Permutations(Monitors) \cup Permutations(Passes)
=============================================================================
