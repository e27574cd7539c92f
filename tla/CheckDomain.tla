---------------------------- MODULE CheckDomain ----------------------------
(***************************************************************************)
(* The decisions of the monitoring engine that are pure functions:         *)
(* apps/checks/domain.py and the query of apps/checks/selectors.py that    *)
(* says when the streak behind a transition began.                         *)
(*                                                                         *)
(* A check result row is [checked_at, success]; a table of them is a       *)
(* sequence in insertion order, so a row's index is its identity.  Time is *)
(* a natural number and 0 stands for NULL.                                 *)
(***************************************************************************)
EXTENDS Naturals, Sequences, FiniteSets

HealthStatus == {"NEW", "UP", "DOWN"}

Row == [checked_at : Nat \ {0}, success : BOOLEAN]

(***************************************************************************)
(* Fold one outcome into the two streak counters of monitor row m and      *)
(* decide whether the streak is long enough to move its health status.     *)
(***************************************************************************)
ApplyCheckOutcome(m, success) ==
  LET failures  == IF success THEN 0 ELSE m.consecutive_failures + 1
      successes == IF success THEN m.consecutive_successes + 1 ELSE 0
  IN  [m EXCEPT
        !.consecutive_failures  = failures,
        !.consecutive_successes = successes,
        !.health_status =
           IF success /\ successes >= m.success_threshold THEN "UP"
           ELSE IF ~success /\ failures >= m.failure_threshold THEN "DOWN"
           ELSE @]

ComputeNextCheckAt(now, interval) == now + interval

\* The rows with this outcome that were checked later than t.
RowsAfter(rows, success, t) ==
  {i \in DOMAIN rows : rows[i].success = success /\ rows[i].checked_at > t}

\* ORDER BY checked_at DESC LIMIT count: the instants of the rows with this
\* outcome that have fewer than count such rows after them.
LatestInstants(rows, success, count) ==
  {rows[i].checked_at : i \in
     {j \in DOMAIN rows :
        /\ rows[j].success = success
        /\ Cardinality(RowsAfter(rows, success, rows[j].checked_at)) < count}}

Earliest(instants) ==
  CHOOSE t \in instants : \A u \in instants : t <= u

\* streak_start_at(...) or checked_at, the way processor.py calls it.
StreakStart(rows, success, count, checked_at) ==
  LET latest == LatestInstants(rows, success, count)
  IN  IF latest = {} THEN checked_at ELSE Earliest(latest)
=============================================================================
