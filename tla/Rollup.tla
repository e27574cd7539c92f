------------------------------- MODULE Rollup -------------------------------
(***************************************************************************)
(* The raw history of checks, the hourly summaries made of it by           *)
(* apps.checks.tasks.rollup_hourly_stats, its deletion by                  *)
(* purge_old_check_results, and what the statistics endpoint computes.     *)
(*                                                                         *)
(* None of the two tasks runs in a transaction: every query is a step, and *)
(* checks, incidents, deletions and the other task come in between.        *)
(*                                                                         *)
(* Time is counted in ticks from 1; 0 stands for NULL.  An hour is named   *)
(* by its first tick.                                                      *)
(***************************************************************************)
EXTENDS HourlyStats

CONSTANTS
  Monitors,
  Rollups,      \* executions of rollup_hourly_stats, which may overlap
  Hour,         \* ticks in an hour
  Day,          \* hours in a day
  Retention,    \* MONITORING_RAW_RETENTION_DAYS, in ticks
  PurgeWindow,  \* how far back from there the purge looks, in ticks
  Period,       \* the span of the statistics endpoint, in ticks
  ResponseTimes,\* response times a check may have
  SampleSizes,  \* how many response times an hour may have
  MaxLag,       \* bound: ticks from the start of a check to its commit
  MaxResults,   \* bound: checks
  MaxPurges,    \* bound: executions of the purge
  MaxDeletes,   \* bound: monitors the user deletes
  MaxTime       \* bound: the last tick

ASSUME RollupAssumption ==
  /\ Hour \in Nat \ {0} /\ Day \in Nat \ {0} /\ Period \in Nat
  /\ ResponseTimes \subseteq Nat /\ SampleSizes \subseteq Nat \ {0}
  /\ MaxLag \in Nat /\ PurgeWindow \in Nat
  /\ Retention \in Nat /\ Retention >= Hour + MaxLag
  /\ MaxResults \in Nat /\ MaxPurges \in Nat
  /\ MaxDeletes \in Nat /\ MaxTime \in Nat \ {0}

VARIABLES
  now,        \* timezone.now()
  monitors,   \* the Monitor rows
  probe,      \* probe[m]: checked_at of the check under way, or 0
  results,    \* the CheckResult rows
  incidents,  \* the Incident rows
  stats,      \* the MonitorHourlyStat rows
  rollup,     \* what each rollup is doing
  purge,      \* the (monitor, hour) pairs the purge still has to go through
  ever,       \* history: every CheckResult ever committed
  late,       \* history: those committed after a rollup of their hour began
  restated,   \* history: (monitor, hour) whose incidents changed after that
  torn,       \* history: (monitor, hour) purged while being rolled up
  purges      \* executions of the purge so far

vars == <<now, monitors, probe, results, incidents, stats, rollup, purge, ever,
          late, restated, torn, purges>>

engine  == <<monitors, probe, results, incidents>>
history == <<ever, late, restated, torn, purges>>

Times == 1..MaxTime
Hours == {h \in 0..MaxTime : h % Hour = 0}
HourOf(t) == t - (t % Hour)

CheckResult ==
  [id : 1..MaxResults, monitor : Monitors, checked_at : Times,
   success : BOOLEAN, response_time_ms : ResponseTimes \cup {0}]

Incident ==
  [monitor : Monitors, started_at : Times, resolved_at : Times \cup {0}]

StatRow ==
  [monitor : Monitors, hour_start : Hours, checks_total : Nat,
   checks_failed : Nat, timed : BOOLEAN, avg_response_ms : Nat, min_response_ms : Nat,
   max_response_ms : Nat, p95_response_ms : Nat, downtime_seconds : Nat]

RollupState ==
  [pc : {"idle", "next", "times", "windows", "save", "over"},
   hour_start : Hours, todo : SUBSET Monitors,
   monitor : Monitors \cup {"none"}, checks : SUBSET CheckResult,
   successes : SUBSET CheckResult, windows : SUBSET Incident]

IdleRollup ==
  [pc |-> "idle", hour_start |-> 0, todo |-> {},
   monitor |-> "none", checks |-> {}, successes |-> {},
   windows |-> {}]

RollupOver == [IdleRollup EXCEPT !.pc = "over"]

TypeOK ==
  /\ now \in Times
  /\ monitors \subseteq Monitors
  /\ probe \in [Monitors -> Times \cup {0}]
  /\ results \subseteq CheckResult
  /\ incidents \subseteq Incident
  /\ stats \subseteq StatRow
  /\ \A s, r \in stats :
       s.monitor = r.monitor /\ s.hour_start = r.hour_start => s = r
  /\ rollup \in [Rollups -> RollupState]
  /\ purge \subseteq Monitors \X Hours
  /\ ever \subseteq CheckResult
  /\ late \subseteq 1..MaxResults
  /\ restated \subseteq Monitors \X Hours
  /\ torn \subseteq Monitors \X Hours
  /\ purges \in 0..MaxPurges

StatOf(m, h) == {s \in stats : s.monitor = m /\ s.hour_start = h}

Running(e) == rollup[e].pc \notin {"idle", "over"}

\* A rollup of this hour is under way, or has been through with m.
Begun(m, h) ==
  \/ StatOf(m, h) # {}
  \/ \E e \in Rollups : Running(e) /\ rollup[e].hour_start = h

InHour(r, m, h) == r.monitor = m /\ h <= r.checked_at /\ r.checked_at < h + Hour

Init ==
  /\ now = 1
  /\ monitors = Monitors
  /\ probe = [m \in Monitors |-> 0]
  /\ results = {} /\ incidents = {} /\ stats = {}
  /\ rollup = [e \in Rollups |-> IdleRollup]
  /\ purge = {} /\ ever = {} /\ late = {} /\ restated = {} /\ torn = {}
  /\ purges = 0

\* A check commits within MaxLag ticks of its start.
Tick ==
  /\ now < MaxTime
  /\ \A m \in Monitors : probe[m] # 0 => now < probe[m] + MaxLag
  /\ now' = now + 1
  /\ UNCHANGED <<engine, stats, rollup, purge, history>>

-----------------------------------------------------------------------------
(* The engine, as far as this part sees it                                 *)

BeginCheck(m) ==
  /\ m \in monitors /\ probe[m] = 0
  /\ Cardinality(ever)
       + Cardinality({n \in Monitors : probe[n] # 0}) < MaxResults
  /\ probe' = [probe EXCEPT ![m] = now]
  /\ UNCHANGED <<now, monitors, results, incidents, stats, rollup, purge,
                 history>>

\* The summaries of m that an outage beginning or ending at t should have
\* been part of, and that were begun without it.
Restated(m, t) == {<<m, h>> : h \in {g \in Hours : Begun(m, g) /\ t < g + Hour}}

\* The transition, if any, of the transaction that stores r: an outage begins
\* or ends at a check with the outcome of r, possibly well before r.
Transition(m, r) ==
  \/ UNCHANGED <<incidents, restated>>
  \/ \E t \in {q.checked_at : q \in {p \in results \cup {r} :
                                       p.monitor = m /\ p.success = r.success}} :
       /\ restated' = restated \cup Restated(m, t)
       /\ \/ /\ ~r.success
             /\ \A i \in incidents : i.monitor = m =>
                  i.resolved_at # 0 /\ i.resolved_at <= t
             /\ incidents' = incidents \cup
                  {[monitor |-> m, started_at |-> t, resolved_at |-> 0]}
          \/ \E i \in incidents :
               /\ r.success
               /\ i.monitor = m /\ i.resolved_at = 0 /\ i.started_at <= t
               /\ incidents' = (incidents \ {i}) \cup
                                 {[i EXCEPT !.resolved_at = t]}

\* process_check_result commits; nothing is stored for a monitor that is gone.
\* The response time of a failed check is read by nobody.
CommitCheck(m) ==
  /\ probe[m] # 0
  /\ probe' = [probe EXCEPT ![m] = 0]
  /\ IF m \notin monitors
       THEN UNCHANGED <<results, incidents, ever, late, restated>>
       ELSE \E success \in BOOLEAN, ms \in ResponseTimes :
              LET r == [id |-> Cardinality(ever) + 1, monitor |-> m,
                        checked_at |-> probe[m], success |-> success,
                        response_time_ms |-> IF success THEN ms ELSE 0]
              IN  /\ results' = results \cup {r}
                  /\ ever' = ever \cup {r}
                  /\ late' = IF /\ now >= HourOf(r.checked_at) + Hour
                                /\ Begun(m, HourOf(r.checked_at))
                               THEN late \cup {r.id} ELSE late
                  /\ Transition(m, r)
  /\ UNCHANGED <<now, monitors, stats, rollup, purge, torn, purges>>

\* The DELETE cascades.
DeleteMonitor(m) ==
  /\ m \in monitors
  /\ Cardinality(Monitors \ monitors) < MaxDeletes
  /\ monitors' = monitors \ {m}
  /\ results' = {r \in results : r.monitor # m}
  /\ incidents' = {i \in incidents : i.monitor # m}
  /\ stats' = {s \in stats : s.monitor # m}
  /\ UNCHANGED <<now, probe, rollup, purge, history>>

-----------------------------------------------------------------------------
(* rollup_hourly_stats                                                     *)

\* Fault: the hour that is still being written to as well.
HoursBegun == {h \in Hours : h <= HourOf(now)}

\* now.replace(minute=0, ...) - timedelta(hours=1), or an hour given by hand:
\* any that is over.
HoursToRollUp == {h \in Hours : h <= HourOf(now) - Hour}

\* The task begins, and lists the monitors with activity.
StartRollup(e) ==
  /\ rollup[e].pc = "idle"
  /\ \E h \in HoursToRollUp :
       LET active == {m \in monitors : \E r \in results : InHour(r, m, h)}
       IN  rollup' = [rollup EXCEPT ![e] =
             IF active = {} THEN RollupOver
             ELSE [IdleRollup EXCEPT !.pc = "next", !.hour_start = h,
                                     !.todo = active]]
  /\ UNCHANGED <<now, engine, stats, purge, history>>

InHourOf(e, m) == {r \in results : InHour(r, m, rollup[e].hour_start)}

\* totals: the two counts.
ReadTotals(e) ==
  /\ rollup[e].pc = "next"
  /\ \E m \in rollup[e].todo :
       rollup' = [rollup EXCEPT ![e].pc = "times", ![e].monitor = m,
                                ![e].todo = @ \ {m},
                                ![e].checks = InHourOf(e, m)]
  /\ UNCHANGED <<now, engine, stats, purge, history>>

\* response_times, read by a query of its own.
ReadResponseTimes(e) ==
  /\ rollup[e].pc = "times"
  /\ rollup' = [rollup EXCEPT ![e].pc = "windows",
       ![e].successes = {r \in InHourOf(e, rollup[e].monitor) : r.success}]
  /\ UNCHANGED <<now, engine, stats, purge, history>>

\* Fault: an incident that is still open is left out.
ResolvedWindows(m, start, end) ==
  {i \in incidents :
     i.monitor = m /\ i.started_at < end /\ i.resolved_at > start}

\* incident_windows_for_monitor
IncidentWindows(m, start, end) ==
  {i \in incidents :
     /\ i.monitor = m /\ i.started_at < end
     /\ i.resolved_at > start \/ i.resolved_at = 0}

ReadWindows(e) ==
  LET h == rollup[e].hour_start
  IN  /\ rollup[e].pc = "windows"
      /\ rollup' = [rollup EXCEPT ![e].pc = "save",
           ![e].windows = IncidentWindows(rollup[e].monitor, h, h + Hour)]
      /\ UNCHANGED <<now, engine, stats, purge, history>>

\* The row the execution e is about to write.
NewStat(e) ==
  LET x == rollup[e]
      times == ResponseTimeStats(x.successes)
  IN  [monitor |-> x.monitor, hour_start |-> x.hour_start,
       checks_total |-> Cardinality(x.checks),
       checks_failed |-> Cardinality({r \in x.checks : ~r.success}),
       timed |-> x.successes # {},
       avg_response_ms |-> times.avg, min_response_ms |-> times.minimum,
       max_response_ms |-> times.maximum, p95_response_ms |-> times.p95,
       downtime_seconds |->
         DowntimeSeconds(x.windows, x.hour_start, x.hour_start + Hour)]

\* The execution after monitor: the next one, or over.
Onwards(e) ==
  IF rollup[e].todo = {} THEN RollupOver
  ELSE [IdleRollup EXCEPT !.pc = "next", !.hour_start = rollup[e].hour_start,
                          !.todo = rollup[e].todo]

\* Fault: the row is added to the one that is there.
Added(e) == stats \cup {NewStat(e)}

\* Found by monitor and hour, and overwritten.
UpdatedOrCreated(e) ==
  (stats \ StatOf(rollup[e].monitor, rollup[e].hour_start)) \cup {NewStat(e)}

\* update_or_create.  The insertion of a row for a monitor that is gone fails,
\* and the exception ends the task.
SaveStat(e) ==
  LET x == rollup[e]
  IN  /\ x.pc = "save"
      /\ IF x.monitor \in monitors
           THEN /\ stats' = UpdatedOrCreated(e)
                /\ rollup' = [rollup EXCEPT ![e] = Onwards(e)]
           ELSE /\ UNCHANGED stats
                /\ rollup' = [rollup EXCEPT ![e] = RollupOver]
      /\ UNCHANGED <<now, engine, purge, history>>

\* The worker dies.
CrashRollup(e) ==
  /\ Running(e)
  /\ rollup' = [rollup EXCEPT ![e] = RollupOver]
  /\ UNCHANGED <<now, engine, stats, purge, history>>

-----------------------------------------------------------------------------
(* purge_old_check_results                                                 *)

\* Fault: by age alone, aggregated or not.
OldHours(cutoff) ==
  Monitors \X {h \in Hours : h >= cutoff - PurgeWindow /\ h < cutoff}

\* stats_to_purge
StatsToPurge(cutoff) ==
  {<<s.monitor, s.hour_start>> :
     s \in {q \in stats : /\ q.hour_start >= cutoff - PurgeWindow
                          /\ q.hour_start < cutoff}}

StartPurge ==
  /\ purge = {}
  /\ purges < MaxPurges
  /\ now >= Retention
  /\ purges' = purges + 1
  /\ purge' = StatsToPurge(now - Retention)
  /\ UNCHANGED <<now, engine, stats, rollup, ever, late, restated, torn>>

\* One statement for each row.  A purge whose worker dies goes no further.
PurgeHour(m, h) ==
  LET gone == {r \in results : InHour(r, m, h)}
  IN  /\ <<m, h>> \in purge
      /\ purge' = purge \ {<<m, h>>}
      /\ results' = results \ gone
      /\ torn' = IF \E e \in Rollups : Running(e) /\ rollup[e].hour_start = h
                   THEN torn \cup {<<m, h>>} ELSE torn
      /\ UNCHANGED <<now, monitors, probe, incidents, stats, rollup, ever,
                     late, restated, purges>>

-----------------------------------------------------------------------------
RollupNext(e) ==
  \/ StartRollup(e)
  \/ ReadTotals(e)
  \/ ReadResponseTimes(e)
  \/ ReadWindows(e)
  \/ SaveStat(e)
  \/ CrashRollup(e)

Next ==
  \/ Tick
  \/ \E m \in Monitors : BeginCheck(m) \/ CommitCheck(m) \/ DeleteMonitor(m)
  \/ \E e \in Rollups : RollupNext(e)
  \/ StartPurge
  \/ \E m \in Monitors, h \in Hours : PurgeHour(m, h)

Spec == Init /\ [][Next]_vars

-----------------------------------------------------------------------------
(* The statistics endpoint                                                 *)

\* Fault: one hour too many, the one that began before the period.
StatsInPeriodAndBefore(m) ==
  {s \in stats : /\ s.monitor = m
                 /\ s.hour_start + Hour >= now - Period /\ s.hour_start < now}

\* hour_start >= period_from, and < period_to (which the 24 h summary of the
\* monitor's own page leaves out: no row is ever in the future).
StatsInPeriod(m) ==
  {s \in stats :
     s.monitor = m /\ s.hour_start >= now - Period /\ s.hour_start < now}
-----------------------------------------------------------------------------
(* Properties                                                              *)

Checked(m, h) == {r \in ever : InHour(r, m, h)}
OnTime(m, h) == {r \in Checked(m, h) : r.id \notin late}
Successes(checks) == {r \in checks : r.success}

\* n / d rounded to the nearest integer, either way at one half.
Nearest(q, n, d) == 2 * (q * d - n) <= d /\ 2 * (n - q * d) <= d

\* v is the least of the response times that 95 % of them do not exceed.
Percentile95(v, checks) ==
  LET UpTo(w) == 100 * Cardinality({c \in checks : c.response_time_ms <= w})
      enough  == {w \in {c.response_time_ms : c \in checks} :
                    UpTo(w) >= 95 * Cardinality(checks)}
  IN  v \in enough /\ \A w \in enough : v <= w

\* n response times, in no order.
Sample(n) == {[id |-> i, response_time_ms |-> (7 * i) % 61] : i \in 1..n}

\* compute_response_time_stats (domain.py:90-114): the percentile is the least
\* response time that at least 95 % of the hour's do not exceed, for an hour of
\* one check and of two as for hours of twenty and more.  It is about samples
\* and not about the state, so the first state is enough to look at it in.
PercentileIsNearestRank ==
  ever = {} =>
    \A n \in SampleSizes :
      Percentile95(ResponseTimeStats(Sample(n)).p95, Sample(n))

\* The ticks of the hour in which m had an outage.
Covered(m, h) ==
  {t \in h..(h + Hour - 1) :
     \E i \in incidents : /\ i.monitor = m /\ i.started_at <= t
                          /\ i.resolved_at = 0 \/ t < i.resolved_at}

\* The counts and the response times of the row are those of checks.
Describes(s, checks) ==
  /\ s.checks_total = Cardinality(checks)
  /\ s.checks_failed = Cardinality(checks) - Cardinality(Successes(checks))
  /\ s.timed <=> Successes(checks) # {}
  /\ Successes(checks) # {} =>
       /\ Nearest(s.avg_response_ms, TotalTime(Successes(checks)),
                  Cardinality(Successes(checks)))
       /\ Percentile95(s.p95_response_ms, Successes(checks))
       /\ \A c \in Successes(checks) :
            c.response_time_ms \in s.min_response_ms..s.max_response_ms

\* MonitorHourlyStat (models.py:95-145): a row describes exactly the checks
\* begun in its hour, whatever overlapped, was repeated or was deleted since:
\* no other execution, crash or purge may spoil it.  Its downtime is the part
\* of the hour that incidents cover.  What no row can know is exempt: checks
\* that committed after the rollup of their hour began, outages dated back into
\* an hour after that, and an hour purged in the middle of being rolled up.
SummariesExact ==
  \A s \in stats :
    LET m == s.monitor
        h == s.hour_start
    IN  <<m, h>> \notin torn =>
          /\ s.checks_total \in
               Cardinality(OnTime(m, h))..Cardinality(Checked(m, h))
          /\ OnTime(m, h) = Checked(m, h) => Describes(s, Checked(m, h))
          /\ <<m, h>> \notin restated =>
               s.downtime_seconds = Cardinality(Covered(m, h))

\* purge_old_check_results (tasks.py:198-209): what it deletes unsummarised are
\* late checks, those that committed after a rollup of their hour had begun, and
\* nothing else.  It deletes old rows only, and of the checks that were on time
\* only those that the summary of their hour counted.  (The cascade of a
\* monitor's deletion is no purge; an hour purged while being rolled up again
\* was counted the first time.)
OnlyLateChecksAreLost ==
  [][\A r \in results \ results' :
       r.monitor \in monitors' =>
         /\ now - r.checked_at > Retention - Hour
         /\ \/ r.id \in late
            \/ \E s \in stats :
                 /\ s.monitor = r.monitor /\ s.hour_start = HourOf(r.checked_at)
                 /\ \/ <<s.monitor, s.hour_start>> \in torn
                    \/ s.checks_total >=
                         Cardinality(OnTime(s.monitor, s.hour_start))]_vars

\* stats.py and the stats action (views.py:264-305): what the endpoint reports
\* agrees with the checks themselves, which may be gone by then.  It counts no
\* check begun before the period, and every later one whose hour was rolled up
\* and did not begin before it; the average, rounded once for each hour and once
\* more, is at most one off the mean; the buckets add up to the summary.
StatisticsAgree ==
  \A m \in monitors :
    LET rows    == StatsInPeriod(m)
        hours   == {s.hour_start : s \in rows}
        checks  == UNION {Checked(m, h) : h \in hours}
        sum     == TotalTime(Successes(checks))
        n       == Cardinality(Successes(checks))
        summary == SummarizePeriod(rows)
        exact   == \A h \in hours : /\ OnTime(m, h) = Checked(m, h)
                                    /\ <<m, h>> \notin torn
    IN  /\ \A c \in checks : c.checked_at >= now - Period
        /\ \A c \in ever :
             c.monitor = m /\ c.checked_at - Hour >= now - Period =>
               c \in checks \/ StatOf(m, HourOf(c.checked_at)) = {}
        /\ exact =>
             /\ summary.checks_total = Cardinality(checks)
             /\ summary.checks_failed = Cardinality(checks) - n
             /\ n > 0 =>
                  summary.avg_response_time_ms * n \in (sum - n)..(sum + n)
        /\ \A bucket \in {Hour, Hour * Day} :
             LET series == Series(rows, bucket)
             IN  /\ UNION {b.hours : b \in series} = hours
                 /\ summary.checks_total =
                      MapThenSumSet(LAMBDA b : b.checks_total, series)
=============================================================================
