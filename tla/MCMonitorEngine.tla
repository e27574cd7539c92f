-------------------------- MODULE MCMonitorEngine --------------------------
(***************************************************************************)
(* MonitorEngine on instances TLC can enumerate.                           *)
(***************************************************************************)
EXTENDS MonitorEngine, TLC

Symmetry == Permutations(Workers) \cup Permutations(Requests)

EngineOps == {"pause", "resume", "delete", "check", "reconcile"}
AllOps    == MonitorOps \cup IncidentOps \cup ChannelOps
=============================================================================
