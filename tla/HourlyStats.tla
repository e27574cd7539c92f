---------------------------- MODULE HourlyStats ----------------------------
(***************************************************************************)
(* What an hour of checks, and a period of such hours, is summarised to:   *)
(* the pure functions of apps/checks/domain.py and apps/checks/stats.py    *)
(* that the rollup and the statistics endpoint are made of.                *)
(*                                                                         *)
(* A response time may be 0 ms; where there is none the figure is left at  *)
(* 0 and marked as such.  Python divides in floating point and rounds half *)
(* to even; for the sums that occur here that is the exact quotient so     *)
(* rounded.                                                                *)
(***************************************************************************)
EXTENDS Integers, FiniteSetsExt

Larger(a, b) == IF a >= b THEN a ELSE b
Smaller(a, b) == IF a <= b THEN a ELSE b

\* round(a / b)
RoundedQuotient(a, b) ==
  LET q == a \div b
      twice == 2 * (a % b)
  IN  IF twice > b \/ (twice = b /\ q % 2 = 1) THEN q + 1 ELSE q

\* Fault: the rank is one too high.
RankAbove(n) == Smaller(n, (95 * n + 99) \div 100 + 1)

\* min(n - 1, ceil(0.95 * n) - 1), counted from 1.
Rank95(n) == Smaller(n, (95 * n + 99) \div 100)

\* The k-th of the sorted response times of the checks.
NthSmallest(checks, k) ==
  CHOOSE v \in {c.response_time_ms : c \in checks} :
    /\ Cardinality({c \in checks : c.response_time_ms < v}) < k
    /\ k <= Cardinality({c \in checks : c.response_time_ms <= v})

TotalTime(checks) == MapThenSumSet(LAMBDA c : c.response_time_ms, checks)

\* compute_response_time_stats
ResponseTimeStats(checks) ==
  LET n == Cardinality(checks)
  IN  IF checks = {}
        THEN [avg |-> 0, minimum |-> 0, maximum |-> 0, p95 |-> 0]
        ELSE [avg     |-> RoundedQuotient(TotalTime(checks), n),
              minimum |-> NthSmallest(checks, 1),
              maximum |-> NthSmallest(checks, n),
              p95     |-> NthSmallest(checks, Rank95(n))]

\* Fault: an incident counts from its beginning, not from the hour's.
OverlapFromStart(w, hour_start, hour_end) ==
  Larger(0, (IF w.resolved_at = 0 THEN hour_end
                                  ELSE Smaller(w.resolved_at, hour_end))
            - w.started_at)

\* One window [started_at, resolved_at) clipped to the hour; an incident that
\* is still open covers it to its end.
Overlap(w, hour_start, hour_end) ==
  Larger(0, (IF w.resolved_at = 0 THEN hour_end
                                  ELSE Smaller(w.resolved_at, hour_end))
            - Larger(w.started_at, hour_start))

\* compute_downtime_seconds
DowntimeSeconds(windows, hour_start, hour_end) ==
  MapThenSumSet(LAMBDA w : Overlap(w, hour_start, hour_end), windows)

-----------------------------------------------------------------------------
(* Periods: rows are MonitorHourlyStat rows; row.timed says that the       *)
(* response-time columns, which are NULL together, are not                 *)

Total(rows)    == MapThenSumSet(LAMBDA row : row.checks_total, rows)
Failed(rows)   == MapThenSumSet(LAMBDA row : row.checks_failed, rows)
Downtime(rows) == MapThenSumSet(LAMBDA row : row.downtime_seconds, rows)

Weight(row) == row.checks_total - row.checks_failed

\* _weighted_average
WeightedAverage(rows, field_name) ==
  LET counted == {row \in rows : row.timed /\ Weight(row) > 0}
  IN  IF counted = {} THEN 0
      ELSE RoundedQuotient(
             MapThenSumSet(LAMBDA row : row[field_name] * Weight(row), counted),
             MapThenSumSet(Weight, counted))

\* summarize_period.  The ratio is kept as its two counts.
SummarizePeriod(rows) ==
  [checks_total           |-> Total(rows),
   checks_failed          |-> Failed(rows),
   avg_response_time_ms   |-> WeightedAverage(rows, "avg_response_ms"),
   p95_response_time_ms   |-> WeightedAverage(rows, "p95_response_ms"),
   total_downtime_seconds |-> Downtime(rows)]

\* build_series: one bucket for every day (or hour) that has a row, bucket
\* being the hours it is made of.
Buckets(rows, bucket) ==
  {{row \in rows : row.hour_start \div bucket = b} :
     b \in {row.hour_start \div bucket : row \in rows}}

Series(rows, bucket) ==
  {[hours                |-> {row.hour_start : row \in b},
    checks_total         |-> Total(b),
    checks_failed        |-> Failed(b),
    avg_response_time_ms |-> WeightedAverage(b, "avg_response_ms"),
    p95_response_time_ms |-> WeightedAverage(b, "p95_response_ms")]
     : b \in Buckets(rows, bucket)}
=============================================================================
