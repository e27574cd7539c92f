---------------------------- MODULE RollupProofs ----------------------------
(***************************************************************************)
(* Theorems about Rollup for every number of monitors, rollups and checks, *)
(* every length of the hour, of the retention and of the period.           *)
(***************************************************************************)
EXTENDS Rollup, HourlyStatsProofs

-----------------------------------------------------------------------------
(* Hours                                                                   *)

\* One multiple of d is within d of t.
LEMMA OneMultiple ==
  ASSUME NEW d \in Nat \ {0}, NEW t \in Nat, NEW a \in Int, NEW b \in Int,
         d * a <= t, t < d * a + d, d * b <= t, t < d * b + d
  PROVE  a = b
<1>1. ASSUME NEW x \in Int, NEW y \in Int, x < y, d * x <= t, t < d * x + d,
             d * y <= t
      PROVE  FALSE
  <2>1. PICK k \in Nat : y = x + 1 + k
    <3>1. y - x - 1 \in Nat /\ y = x + 1 + (y - x - 1)
      BY <1>1
    <3> QED BY <3>1
  <2>2. d * y = d * x + d + d * k
    BY <2>1
  <2>3. d * k \in Nat
    OBVIOUS
  <2>4. d * x \in Int
    OBVIOUS
  <2> QED BY <1>1, <2>2, <2>3, <2>4
<1> QED BY <1>1

\* Division with remainder.
LEMMA DivMod ==
  ASSUME NEW n \in Nat, NEW d \in Nat \ {0}
  PROVE  \E q, r \in Nat : /\ q = n \div d /\ r = n % d
                           /\ r < d /\ n = d * q + r
<1>1. PICK q, r : q = n \div d /\ r = n % d
  OBVIOUS
<1>2. q \in Nat /\ r \in Nat /\ r < d /\ n = d * q + r
  BY <1>1
<1> QED BY <1>1, <1>2

\* An instant is in one hour, the one that HourOf names.
LEMMA HourIsUnique ==
  ASSUME NEW t \in Nat
  PROVE  /\ HourOf(t) \in Nat /\ HourOf(t) % Hour = 0
         /\ HourOf(t) <= t /\ t < HourOf(t) + Hour
         /\ \A h \in Nat : h % Hour = 0 /\ h <= t /\ t < h + Hour => h = HourOf(t)
<1>1. Hour \in Nat \ {0}
  BY RollupAssumption DEF RollupAssumption
<1>3. PICK q, r \in Nat : /\ q = t \div Hour /\ r = t % Hour
                         /\ r < Hour /\ t = Hour * q + r
  BY <1>1, DivMod
<1>4. PICK p \in Nat : p = Hour * q
  BY <1>1
<1>5. HourOf(t) = p /\ p <= t /\ t < p + Hour
  BY <1>1, <1>3, <1>4 DEF HourOf
<1>6. p % Hour = 0
  <2>1. PICK k, s \in Nat : /\ k = p \div Hour /\ s = p % Hour
                           /\ s < Hour /\ p = Hour * k + s
    BY <1>1, DivMod
  <2>2. Hour * k \in Nat
    BY <1>1
  <2>3. Hour * k <= p /\ p < Hour * k + Hour /\ Hour * q <= p /\ p < Hour * q + Hour
    BY <1>1, <1>4, <2>1, <2>2
  <2>4. k = q
    BY <1>1, <2>3, OneMultiple
  <2> QED BY <1>4, <2>1, <2>2, <2>4
<1>7. ASSUME NEW h \in Nat, h % Hour = 0, h <= t, t < h + Hour
      PROVE  h = p
  <2>1. PICK k \in Nat : h = Hour * k
    <3>1. PICK k, s \in Nat : s = h % Hour /\ h = Hour * k + s
      BY <1>1, DivMod
    <3>2. Hour * k \in Nat
      BY <1>1
    <3> QED BY <1>7, <3>1, <3>2
  <2>2. Hour * k <= t /\ t < Hour * k + Hour /\ Hour * q <= t /\ t < Hour * q + Hour
    BY <1>4, <1>5, <1>7, <2>1
  <2>3. k = q
    BY <1>1, <2>2, OneMultiple
  <2> QED BY <1>4, <2>1, <2>3
<1> QED BY <1>5, <1>6, <1>7

\* The instants and the hours of the model.
LEMMA TimesAndHours ==
  /\ Hour \in Nat \ {0}
  /\ MaxTime \in Nat \ {0}
  /\ Times \subseteq Nat \ {0} /\ Hours \subseteq Nat /\ 0 \in Hours
  /\ \A t \in Times : HourOf(t) \in Hours
  /\ \A t \in Times, h \in Hours :
       h <= t /\ t < h + Hour <=> h = HourOf(t)
<1>1. Hour \in Nat \ {0} /\ MaxTime \in Nat \ {0}
  BY RollupAssumption DEF RollupAssumption
<1>2. Times \subseteq Nat \ {0} /\ Hours \subseteq Nat
  BY <1>1 DEF Times, Hours
<1>3. 0 \in Hours
  <2>1. 0 % Hour = 0
    BY <1>1
  <2> QED BY <1>1, <2>1 DEF Hours
<1>4. ASSUME NEW t \in Times PROVE HourOf(t) \in Hours
  <2>1. t \in Nat /\ t <= MaxTime
    BY <1>1 DEF Times
  <2>2. HourOf(t) \in Nat /\ HourOf(t) % Hour = 0 /\ HourOf(t) <= t
    BY <2>1, HourIsUnique
  <2> QED BY <1>1, <2>1, <2>2 DEF Hours
<1>5. ASSUME NEW t \in Times, NEW h \in Hours
      PROVE  h <= t /\ t < h + Hour <=> h = HourOf(t)
  <2>1. t \in Nat /\ h \in Nat /\ h % Hour = 0
    BY <1>2 DEF Hours
  <2>2. /\ HourOf(t) <= t /\ t < HourOf(t) + Hour
        /\ \A g \in Nat : g % Hour = 0 /\ g <= t /\ t < g + Hour => g = HourOf(t)
    BY <2>1, HourIsUnique
  <2>3. h <= t /\ t < h + Hour => h = HourOf(t)
    BY <2>1, <2>2
  <2> QED BY <2>2, <2>3
<1> QED BY <1>1, <1>2, <1>3, <1>4, <1>5

-----------------------------------------------------------------------------
(* The percentile                                                          *)

\* compute_response_time_stats returns the percentile by nearest rank,
LEMMA PercentileOfAny ==
  ASSUME NEW checks, IsFiniteSet(checks), checks # {},
         \A c \in checks : c.response_time_ms \in Nat
  PROVE  Percentile95(ResponseTimeStats(checks).p95, checks)
<1>1. PICK x, n : x = ResponseTimeStats(checks) /\ n = Cardinality(checks)
  OBVIOUS
<1>2. /\ \E c \in checks : x.p95 = c.response_time_ms
      /\ 100 * Cardinality(AtMost(checks, x.p95)) >= 95 * n
      /\ \A v \in Nat : 100 * Cardinality(AtMost(checks, v)) >= 95 * n => x.p95 <= v
  BY <1>1, ResponseTimeStatsCorrect
<1>3. /\ \E c \in checks : x.p95 = c.response_time_ms
      /\ 100 * Cardinality({c \in checks : c.response_time_ms <= x.p95}) >= 95 * n
      /\ \A v \in Nat :
           100 * Cardinality({c \in checks : c.response_time_ms <= v}) >= 95 * n =>
             x.p95 <= v
  BY <1>2 DEF AtMost
<1> QED BY <1>1, <1>3 DEF Percentile95

\* The samples the percentile is tried on are finite and not empty.
LEMMA SampleIsFinite ==
  ASSUME NEW n \in Nat \ {0}
  PROVE  /\ IsFiniteSet(Sample(n)) /\ Sample(n) # {}
         /\ \A c \in Sample(n) : c.response_time_ms \in Nat
<1> DEFINE f == [i \in 1..n |-> [id |-> i, response_time_ms |-> (7 * i) % 61]]
<1>1. IsFiniteSet(1..n)
  BY FS_Interval
<1>2. f \in Surjection(1..n, Sample(n))
  BY DEF Surjection, Sample
<1>3. IsFiniteSet(Sample(n))
  <2> HIDE DEF f
  <2> QED BY <1>1, <1>2, FS_Surjection
<1>4. \A i \in 1..n : (7 * i) % 61 \in Nat
  OBVIOUS
<1>5. 1 \in 1..n
  OBVIOUS
<1>6. Sample(n) # {}
  BY <1>5 DEF Sample
<1>7. \A c \in Sample(n) : c.response_time_ms \in Nat
  BY <1>4 DEF Sample
<1> QED BY <1>3, <1>6, <1>7

\* compute_response_time_stats (domain.py:90-114): for a sample of any size the
\* percentile is the least response time that 95 % do not exceed.
THEOREM PercentileHolds == Spec => []PercentileIsNearestRank
<1>1. PercentileIsNearestRank
  <2> SUFFICES ASSUME NEW n \in SampleSizes
               PROVE  Percentile95(ResponseTimeStats(Sample(n)).p95, Sample(n))
    BY DEF PercentileIsNearestRank
  <2>1. n \in Nat \ {0}
    BY RollupAssumption DEF RollupAssumption
  <2> QED BY <2>1, SampleIsFinite, PercentileOfAny
<1> QED BY <1>1, PTL

-----------------------------------------------------------------------------
(* Types, and what is finite                                               *)

Probing == {m \in Monitors : probe[m] # 0}

\* What an execution has read are checks that were committed.
Working(x) == /\ x.checks \subseteq ever /\ x.successes \subseteq ever
              /\ IsFiniteSet(x.windows)

\* Everything is finite, the checks under way fit under the bound on checks,
\* and the identities of checks are given out in order.
Finite ==
  /\ IsFiniteSet(ever) /\ IsFiniteSet(incidents) /\ IsFiniteSet(stats)
  /\ IsFiniteSet(Probing)
  /\ Cardinality(ever) + Cardinality(Probing) <= MaxResults
  /\ results \subseteq ever
  /\ \A r \in ever : r.id <= Cardinality(ever)
  /\ \A i \in late : i <= Cardinality(ever)
  /\ \A e \in Rollups : Working(rollup[e])

TypeInv == TypeOK /\ Finite

\* The executions at rest.
LEMMA RestingRollups ==
  /\ IdleRollup \in RollupState /\ RollupOver \in RollupState
  /\ Working(IdleRollup) /\ Working(RollupOver)
  /\ IdleRollup.pc = "idle" /\ RollupOver.pc = "over"
<1>1. IdleRollup \in RollupState
  BY TimesAndHours DEF IdleRollup, RollupState
<1>2. RollupOver \in RollupState
  BY TimesAndHours DEF IdleRollup, RollupOver, RollupState
<1> QED BY <1>1, <1>2, FS_EmptySet DEF IdleRollup, RollupOver, Working

\* A check, component by component.
LEMMA CheckFields ==
  \A c \in CheckResult :
    /\ c.id \in Nat \ {0} /\ c.monitor \in Monitors
    /\ c.checked_at \in Times /\ c.checked_at \in Nat
    /\ c.success \in BOOLEAN /\ c.response_time_ms \in Nat
<1> SUFFICES ASSUME NEW c \in CheckResult
             PROVE  /\ c.id \in Nat \ {0} /\ c.monitor \in Monitors
                    /\ c.checked_at \in Times /\ c.checked_at \in Nat
                    /\ c.success \in BOOLEAN /\ c.response_time_ms \in Nat
  OBVIOUS
<1>1. /\ c.id \in 1..MaxResults /\ c.monitor \in Monitors
      /\ c.checked_at \in Times /\ c.success \in BOOLEAN
      /\ c.response_time_ms \in ResponseTimes \cup {0}
  BY DEF CheckResult
<1>2. (\A ms \in ResponseTimes \cup {0} : ms \in Nat) /\ MaxResults \in Nat
  BY RollupAssumption DEF RollupAssumption
<1>3. c.id \in Nat \ {0}
  BY <1>1, <1>2
<1>4. c.response_time_ms \in Nat
  BY <1>1, <1>2
<1>5. c.checked_at \in Nat
  BY <1>1, TimesAndHours
<1> QED BY <1>1, <1>3, <1>4, <1>5

\* A state of an execution, component by component.
LEMMA RollupFields ==
  ASSUME NEW x \in RollupState
  PROVE  /\ x.pc \in {"idle", "next", "times", "windows", "save", "over"}
         /\ x.hour_start \in Hours /\ x.todo \in SUBSET Monitors
         /\ x.monitor \in Monitors \cup {"none"}
         /\ x.checks \in SUBSET CheckResult
         /\ x.successes \in SUBSET CheckResult
         /\ x.windows \in SUBSET Incident
  BY DEF RollupState

\* What a step of rollup_hourly_stats makes of the execution x.
Starts(x, s) ==
  /\ x.pc = "idle" /\ s.pc = "next"
  /\ s.hour_start \in HoursToRollUp
  /\ s.todo = {m \in monitors : \E r \in results : InHour(r, m, s.hour_start)}

Counts(x, s) ==
  /\ x.pc = "next" /\ s.pc = "times" /\ s.hour_start = x.hour_start
  /\ s.monitor \in x.todo /\ s.todo = x.todo \ {s.monitor}
  /\ s.checks = {r \in results : InHour(r, s.monitor, x.hour_start)}

Measures(x, s) ==
  /\ x.pc = "times" /\ s.pc = "windows"
  /\ s.hour_start = x.hour_start /\ s.monitor = x.monitor /\ s.todo = x.todo
  /\ s.checks = x.checks
  /\ s.successes = {r \in results : InHour(r, x.monitor, x.hour_start) /\ r.success}

Looks(x, s) ==
  /\ x.pc = "windows" /\ s.pc = "save"
  /\ s.hour_start = x.hour_start /\ s.monitor = x.monitor /\ s.todo = x.todo
  /\ s.checks = x.checks /\ s.successes = x.successes
  /\ s.windows = IncidentWindows(x.monitor, x.hour_start, x.hour_start + Hour)

Continues(x, s) ==
  /\ x.pc = "save" /\ s.pc = "next"
  /\ s.hour_start = x.hour_start /\ s.todo = x.todo

Proceeds(x, s) ==
  \/ s.pc = "over"
  \/ Starts(x, s) \/ Counts(x, s) \/ Measures(x, s) \/ Looks(x, s)
  \/ Continues(x, s)

\* Each step of the task is one of these, and writes at most one row.
LEMMA RollupSteps ==
  ASSUME TypeInv, NEW e \in Rollups, RollupNext(e)
  PROVE  /\ \E s \in RollupState :
              /\ rollup' = [rollup EXCEPT ![e] = s]
              /\ Working(s) /\ Proceeds(rollup[e], s)
         /\ \/ stats' = stats
            \/ /\ rollup[e].pc = "save" /\ rollup[e].monitor \in monitors
               /\ stats' = UpdatedOrCreated(e)
         /\ UNCHANGED <<now, monitors, probe, results, incidents, purge, ever,
                        late, restated, torn, purges>>
<1> DEFINE x == rollup[e]
<1>t. /\ x \in RollupState /\ rollup \in [Rollups -> RollupState]
      /\ Working(x) /\ results \subseteq ever /\ results \subseteq CheckResult
      /\ incidents \subseteq Incident /\ IsFiniteSet(incidents)
      /\ monitors \subseteq Monitors
  BY DEF TypeInv, TypeOK, Finite
<1>f. /\ x.pc \in {"idle", "next", "times", "windows", "save", "over"}
      /\ x.hour_start \in Hours /\ x.todo \in SUBSET Monitors
      /\ x.monitor \in Monitors \cup {"none"}
      /\ x.checks \in SUBSET CheckResult
      /\ x.successes \in SUBSET CheckResult
      /\ x.windows \in SUBSET Incident
  BY <1>t, RollupFields
<1>u. UNCHANGED <<now, monitors, probe, results, incidents, purge, ever,
                  late, restated, torn, purges>>
  BY DEF RollupNext, StartRollup, ReadTotals, ReadResponseTimes, ReadWindows,
         SaveStat, CrashRollup, engine, history
<1>o. ASSUME rollup' = [rollup EXCEPT ![e] = RollupOver], stats' = stats
      PROVE  \E s \in RollupState :
               /\ rollup' = [rollup EXCEPT ![e] = s]
               /\ Working(s) /\ Proceeds(rollup[e], s)
  BY <1>o, RestingRollups DEF Proceeds
<1>1. CASE StartRollup(e)
  <2>1. PICK h \in HoursToRollUp :
          LET active == {m \in monitors : \E r \in results : InHour(r, m, h)}
          IN  rollup' = [rollup EXCEPT ![e] =
                IF active = {} THEN RollupOver
                ELSE [IdleRollup EXCEPT !.pc = "next", !.hour_start = h,
                                        !.todo = active]]
    BY <1>1 DEF StartRollup
  <2>2. stats' = stats /\ x.pc = "idle"
    BY <1>1 DEF StartRollup
  <2>3. PICK active : active = {m \in monitors : \E r \in results : InHour(r, m, h)}
    OBVIOUS
  <2>4. CASE active = {}
    BY <1>o, <1>u, <2>1, <2>2, <2>3, <2>4
  <2>5. CASE active # {}
    <3>0. PICK s : s = [IdleRollup EXCEPT !.pc = "next", !.hour_start = h,
                                          !.todo = active]
      OBVIOUS
    <3>1. s = [pc |-> "next", hour_start |-> h, todo |-> active,
               monitor |-> "none", checks |-> {}, successes |-> {},
               windows |-> {}]
      BY <3>0 DEF IdleRollup
    <3>2. rollup' = [rollup EXCEPT ![e] = s]
      <4>2. rollup' = [rollup EXCEPT ![e] =
              IF active = {} THEN RollupOver
              ELSE [IdleRollup EXCEPT !.pc = "next", !.hour_start = h,
                                      !.todo = active]]
        BY <2>1, <2>3
      <4> QED BY <2>5, <3>0, <4>2
    <3>3. s \in RollupState
      BY <1>t, <2>3, <3>1 DEF HoursToRollUp, RollupState
    <3>4. Working(s)
      BY <3>1, FS_EmptySet DEF Working
    <3>5. Starts(x, s)
      BY <2>2, <2>3, <3>1 DEF Starts
    <3> QED BY <1>u, <2>2, <3>2, <3>3, <3>4, <3>5 DEF Proceeds
  <2> QED BY <2>4, <2>5
<1>2. CASE ReadTotals(e)
  <2>1. PICK m \in x.todo :
          rollup' = [rollup EXCEPT ![e].pc = "times", ![e].monitor = m,
                                   ![e].todo = @ \ {m},
                                   ![e].checks = InHourOf(e, m)]
    BY <1>2 DEF ReadTotals
  <2>2. stats' = stats /\ x.pc = "next"
    BY <1>2 DEF ReadTotals
  <2>3. PICK s : s = [x EXCEPT !.pc = "times", !.monitor = m, !.todo = @ \ {m},
                               !.checks = InHourOf(e, m)]
    OBVIOUS
  <2>4. rollup' = [rollup EXCEPT ![e] = s]
    BY <1>t, <2>1, <2>3
  <2>5. /\ s.pc = "times" /\ s.monitor = m /\ s.todo = x.todo \ {m}
        /\ s.checks = InHourOf(e, m) /\ s.hour_start = x.hour_start
        /\ s.successes = x.successes /\ s.windows = x.windows
    BY <1>t, <2>3 DEF RollupState
  <2>6. InHourOf(e, m) \subseteq results
    BY DEF InHourOf
  <2>7. s \in RollupState
    <3>1. InHourOf(e, m) \in SUBSET CheckResult
      BY <1>t, <2>6
    <3> HIDE DEF x
    <3> QED BY <1>t, <1>f, <2>3, <3>1 DEF RollupState
  <2>8. Working(s)
    BY <1>t, <2>5, <2>6 DEF Working
  <2>9. Counts(x, s)
    BY <2>2, <2>5 DEF Counts, InHourOf
  <2> QED BY <1>u, <2>2, <2>4, <2>7, <2>8, <2>9 DEF Proceeds
<1>3. CASE ReadResponseTimes(e)
  <2>1. PICK s : s = [x EXCEPT !.pc = "windows",
                        !.successes = {r \in InHourOf(e, x.monitor) : r.success}]
    OBVIOUS
  <2>2. rollup' = [rollup EXCEPT ![e] = s] /\ stats' = stats /\ x.pc = "times"
    BY <1>t, <1>3, <2>1 DEF ReadResponseTimes
  <2>3. /\ s.pc = "windows" /\ s.monitor = x.monitor /\ s.todo = x.todo
        /\ s.checks = x.checks /\ s.hour_start = x.hour_start
        /\ s.successes = {r \in InHourOf(e, x.monitor) : r.success}
        /\ s.windows = x.windows
    BY <1>t, <2>1 DEF RollupState
  <2>4. s.successes \subseteq results
    BY <2>3 DEF InHourOf
  <2>5. s \in RollupState
    <3>1. {r \in InHourOf(e, x.monitor) : r.success} \in SUBSET CheckResult
      BY <1>t, <2>3, <2>4
    <3> QED BY <1>t, <2>1, <3>1 DEF RollupState
  <2>6. Working(s)
    BY <1>t, <2>3, <2>4 DEF Working
  <2>7. Measures(x, s)
    BY <2>2, <2>3 DEF Measures, InHourOf
  <2> QED BY <1>u, <2>2, <2>5, <2>6, <2>7 DEF Proceeds
<1>4. CASE ReadWindows(e)
  <2>1. PICK ws : ws = IncidentWindows(x.monitor, x.hour_start, x.hour_start + Hour)
    OBVIOUS
  <2>2. PICK s : s = [x EXCEPT !.pc = "save", !.windows = ws]
    OBVIOUS
  <2>3. rollup' = [rollup EXCEPT ![e] = s] /\ stats' = stats /\ x.pc = "windows"
    BY <1>t, <1>4, <2>1, <2>2 DEF ReadWindows
  <2>4. /\ s.pc = "save" /\ s.monitor = x.monitor /\ s.todo = x.todo
        /\ s.checks = x.checks /\ s.hour_start = x.hour_start
        /\ s.successes = x.successes /\ s.windows = ws
    BY <1>t, <2>2 DEF RollupState
  <2>5. ws \subseteq incidents
    BY <2>1 DEF IncidentWindows
  <2>6. s \in RollupState
    <3>1. ws \in SUBSET Incident
      BY <1>t, <2>5
    <3> QED BY <1>t, <2>2, <3>1 DEF RollupState
  <2>7. Working(s)
    <3>1. IsFiniteSet(ws)
      BY <1>t, <2>5, FS_Subset
    <3> QED BY <1>t, <2>4, <3>1 DEF Working
  <2>8. Looks(x, s)
    BY <2>1, <2>3, <2>4 DEF Looks
  <2> QED BY <1>u, <2>3, <2>6, <2>7, <2>8 DEF Proceeds
<1>5. CASE SaveStat(e)
  <2>1. CASE x.monitor \in monitors
    <3>1. /\ stats' = UpdatedOrCreated(e) /\ x.pc = "save"
          /\ rollup' = [rollup EXCEPT ![e] = Onwards(e)]
      BY <1>5, <2>1 DEF SaveStat
    <3>2. PICK s : s = Onwards(e)
      OBVIOUS
    <3>3. s \in RollupState /\ Working(s) /\ Proceeds(x, s)
      <4>1. CASE x.todo = {}
        BY <3>2, <4>1, RestingRollups DEF Onwards, Proceeds
      <4>2. CASE x.todo # {}
        <5>1. s = [pc |-> "next", hour_start |-> x.hour_start, todo |-> x.todo,
                   monitor |-> "none", checks |-> {}, successes |-> {},
                   windows |-> {}]
          BY <3>2, <4>2 DEF Onwards, IdleRollup
        <5>2. s \in RollupState
          <6> HIDE DEF x
          <6> QED BY <1>f, <5>1 DEF RollupState
        <5>3. Working(s)
          BY <5>1, FS_EmptySet DEF Working
        <5>4. Continues(x, s)
          BY <3>1, <5>1 DEF Continues
        <5> QED BY <5>2, <5>3, <5>4 DEF Proceeds
      <4> QED BY <4>1, <4>2
    <3> QED BY <1>u, <2>1, <3>1, <3>2, <3>3
  <2>2. CASE x.monitor \notin monitors
    <3>1. rollup' = [rollup EXCEPT ![e] = RollupOver] /\ stats' = stats
      BY <1>5, <2>2 DEF SaveStat
    <3> QED BY <1>o, <1>u, <3>1
  <2> QED BY <2>1, <2>2
<1>6. CASE CrashRollup(e)
  <2>1. rollup' = [rollup EXCEPT ![e] = RollupOver] /\ stats' = stats
    BY <1>6 DEF CrashRollup
  <2> QED BY <1>o, <1>u, <2>1
<1> QED BY <1>1, <1>2, <1>3, <1>4, <1>5, <1>6 DEF RollupNext

\* The row that an execution computes is a row.
LEMMA NewStatType ==
  ASSUME TypeInv, NEW e \in Rollups, rollup[e].monitor \in Monitors
  PROVE  /\ NewStat(e) \in StatRow
         /\ NewStat(e).monitor = rollup[e].monitor
         /\ NewStat(e).hour_start = rollup[e].hour_start
<1> DEFINE x == rollup[e]
<1>1. x \in RollupState /\ Working(x) /\ IsFiniteSet(ever)
  BY DEF TypeInv, TypeOK, Finite
<1>2. /\ x.hour_start \in Hours /\ x.hour_start \in Nat /\ Hour \in Nat
      /\ x.checks \in SUBSET CheckResult /\ x.successes \in SUBSET CheckResult
      /\ x.windows \in SUBSET Incident
  BY <1>1, RollupFields, TimesAndHours
<1>3. IsFiniteSet(x.checks) /\ IsFiniteSet(x.successes) /\ IsFiniteSet(x.windows)
  BY <1>1, FS_Subset DEF Working
<1>4. Cardinality(x.checks) \in Nat /\ Cardinality({r \in x.checks : ~r.success}) \in Nat
  <2>1. {r \in x.checks : ~r.success} \in SUBSET x.checks
    OBVIOUS
  <2> QED BY <1>3, <2>1, FS_Subset, FS_CardinalityType
<1>5. PICK times : times = ResponseTimeStats(x.successes)
  OBVIOUS
<1>6. /\ times.avg \in Nat /\ times.minimum \in Nat /\ times.maximum \in Nat
      /\ times.p95 \in Nat
  <2>1. CASE x.successes = {}
    BY <1>5, <2>1 DEF ResponseTimeStats
  <2>2. CASE x.successes # {}
    <3>1. \A c \in x.successes : c.response_time_ms \in Nat
      BY <1>2, CheckFields
    <3> QED BY <1>3, <1>5, <2>2, <3>1, ResponseTimeStatsCorrect
  <2> QED BY <2>1, <2>2
<1>7. PICK down : down = DowntimeSeconds(x.windows, x.hour_start, x.hour_start + Hour)
  OBVIOUS
<1>8. down \in Nat
  <2>1. \A w \in x.windows : w.started_at \in Nat /\ w.resolved_at \in Nat
    BY <1>2, TimesAndHours DEF Incident
  <2>2. x.hour_start + Hour \in Nat
    BY <1>2
  <2> QED BY <1>2, <1>3, <1>7, <2>1, <2>2, DowntimeType
<1>9. NewStat(e) =
        [monitor |-> x.monitor, hour_start |-> x.hour_start,
         checks_total |-> Cardinality(x.checks),
         checks_failed |-> Cardinality({r \in x.checks : ~r.success}),
         timed |-> x.successes # {},
         avg_response_ms |-> times.avg, min_response_ms |-> times.minimum,
         max_response_ms |-> times.maximum, p95_response_ms |-> times.p95,
         downtime_seconds |-> down]
  BY <1>5, <1>7 DEF NewStat
<1>10. (x.successes # {}) \in BOOLEAN
  OBVIOUS
<1> HIDE DEF x
<1> QED BY <1>2, <1>4, <1>6, <1>8, <1>9, <1>10 DEF StatRow, x

\* There is one row for a monitor and an hour.
LEMMA StatsStayUnique ==
  ASSUME TypeInv, NEW e \in Rollups, rollup[e].monitor \in Monitors
  PROVE  /\ UpdatedOrCreated(e) \subseteq StatRow
         /\ IsFiniteSet(UpdatedOrCreated(e))
         /\ \A s, r \in UpdatedOrCreated(e) :
              s.monitor = r.monitor /\ s.hour_start = r.hour_start => s = r
         /\ NewStat(e) \in UpdatedOrCreated(e)
         /\ \A s \in UpdatedOrCreated(e) :
              \/ s = NewStat(e)
              \/ s \in stats /\ s \notin StatOf(rollup[e].monitor,
                                                rollup[e].hour_start)
<1>1. PICK new : new = NewStat(e)
  OBVIOUS
<1>2. PICK old : old = StatOf(rollup[e].monitor, rollup[e].hour_start)
  OBVIOUS
<1>3. UpdatedOrCreated(e) = (stats \ old) \cup {new}
  BY <1>1, <1>2 DEF UpdatedOrCreated
<1>4. /\ new \in StatRow
      /\ \A s \in stats \ old : s.monitor # new.monitor \/ s.hour_start # new.hour_start
  BY <1>1, <1>2, NewStatType DEF StatOf
<1>5. /\ stats \subseteq StatRow
      /\ \A s, r \in stats :
           s.monitor = r.monitor /\ s.hour_start = r.hour_start => s = r
      /\ IsFiniteSet(stats)
  BY DEF TypeInv, TypeOK, Finite
<1>6. IsFiniteSet((stats \ old) \cup {new})
  <2>1. IsFiniteSet(stats \ old)
    BY <1>5, FS_Subset
  <2> QED BY <2>1, FS_AddElement
<1> QED BY <1>1, <1>2, <1>3, <1>4, <1>5, <1>6

-----------------------------------------------------------------------------
(* The types hold at first,                                                *)
LEMMA TypeInit == Init => TypeInv
<1> SUFFICES ASSUME Init PROVE TypeInv
  OBVIOUS
<1>1. /\ now = 1 /\ monitors = Monitors
      /\ results = {} /\ incidents = {} /\ stats = {}
      /\ purge = {} /\ ever = {} /\ late = {} /\ restated = {} /\ torn = {}
      /\ purges = 0
  BY DEF Init
<1>2. probe = [m \in Monitors |-> 0] /\ rollup = [e \in Rollups |-> IdleRollup]
  BY DEF Init
<1>3. 1 \in Times
  BY TimesAndHours DEF Times
<1>4. 0 \in 0..MaxPurges /\ MaxResults \in Nat
  BY RollupAssumption DEF RollupAssumption
<1>5. Probing = {}
  BY <1>2 DEF Probing
<1>6. TypeOK
  BY <1>1, <1>2, <1>3, <1>4, RestingRollups DEF TypeOK
<1>7. Finite
  <2>1. Cardinality(ever) + Cardinality(Probing) <= MaxResults
    BY <1>1, <1>4, <1>5, FS_EmptySet
  <2>2. IsFiniteSet({})
    BY FS_EmptySet
  <2>3. \A e \in Rollups : Working(rollup[e])
    BY <1>2, RestingRollups
  <2> QED BY <1>1, <1>5, <2>1, <2>2, <2>3 DEF Finite
<1> QED BY <1>6, <1>7 DEF TypeInv

\* and after every step of the task,
LEMMA TypeRollup ==
  ASSUME TypeInv, NEW e \in Rollups, RollupNext(e)
  PROVE  TypeInv'
<1>1. PICK s \in RollupState :
        /\ rollup' = [rollup EXCEPT ![e] = s]
        /\ Working(s) /\ Proceeds(rollup[e], s)
  BY RollupSteps
<1>2. \/ stats' = stats
      \/ /\ rollup[e].pc = "save" /\ rollup[e].monitor \in monitors
         /\ stats' = UpdatedOrCreated(e)
  BY RollupSteps
<1>3. UNCHANGED <<now, monitors, probe, results, incidents, purge, ever,
                  late, restated, torn, purges>>
  BY RollupSteps
<1>4. /\ stats' \subseteq StatRow /\ IsFiniteSet(stats')
      /\ \A p, r \in stats' :
           p.monitor = r.monitor /\ p.hour_start = r.hour_start => p = r
  <2>1. CASE stats' = stats
    BY <2>1 DEF TypeInv, TypeOK, Finite
  <2>2. CASE rollup[e].monitor \in monitors /\ stats' = UpdatedOrCreated(e)
    <3>1. rollup[e].monitor \in Monitors
      BY <2>2 DEF TypeInv, TypeOK
    <3> QED BY <2>2, <3>1, StatsStayUnique
  <2> QED BY <1>2, <2>1, <2>2
<1>5. rollup' \in [Rollups -> RollupState]
  BY <1>1 DEF TypeInv, TypeOK
<1>6. TypeOK'
  BY <1>3, <1>4, <1>5 DEF TypeInv, TypeOK
<1>7. \A d \in Rollups : Working(rollup[d])'
  <2> SUFFICES ASSUME NEW d \in Rollups PROVE Working(rollup[d])'
    OBVIOUS
  <2>1. rollup'[d] = s \/ rollup'[d] = rollup[d]
    BY <1>1 DEF TypeInv, TypeOK
  <2>2. Working(rollup[d])
    BY DEF TypeInv, Finite
  <2> QED BY <1>1, <1>3, <2>1, <2>2 DEF Working
<1>8. Probing' = Probing
  BY <1>3 DEF Probing
<1>9. Finite'
  BY <1>3, <1>4, <1>7, <1>8 DEF TypeInv, Finite
<1> QED BY <1>6, <1>9 DEF TypeInv

\* Steps that only take away, or let time pass,
LEMMA TypeShrinks ==
  ASSUME TypeInv, now' \in Times, monitors' \subseteq monitors,
         UNCHANGED <<probe, rollup, ever, late, restated>>,
         results' \subseteq results, incidents' \subseteq incidents,
         stats' \subseteq stats,
         purge' \subseteq Monitors \X Hours, torn' \subseteq Monitors \X Hours,
         purges' \in 0..MaxPurges
  PROVE  TypeInv'
<1>1. TypeOK'
  BY DEF TypeInv, TypeOK
<1>2. IsFiniteSet(incidents') /\ IsFiniteSet(stats')
  BY FS_Subset DEF TypeInv, Finite
<1>3. Probing' = Probing
  BY DEF Probing
<1>4. \A e \in Rollups : Working(rollup[e])'
  BY DEF TypeInv, Finite, Working
<1>5. Finite'
  BY <1>2, <1>3, <1>4 DEF TypeInv, Finite
<1> QED BY <1>1, <1>5 DEF TypeInv

\* a check that begins,
LEMMA TypeBegin ==
  ASSUME TypeInv, NEW m \in Monitors, BeginCheck(m)
  PROVE  TypeInv'
<1>1. /\ m \in monitors /\ probe[m] = 0
      /\ Cardinality(ever) + Cardinality(Probing) < MaxResults
      /\ probe' = [probe EXCEPT ![m] = now]
      /\ UNCHANGED <<now, monitors, results, incidents, stats, rollup, purge,
                     ever, late, restated, torn, purges>>
  BY DEF BeginCheck, history, Probing
<1>2. now \in Times /\ now # 0
  BY TimesAndHours DEF TypeInv, TypeOK
<1>3. probe' \in [Monitors -> Times \cup {0}]
  BY <1>1, <1>2 DEF TypeInv, TypeOK
<1>4. TypeOK'
  BY <1>1, <1>3 DEF TypeInv, TypeOK
<1>5. Probing' = Probing \cup {m}
  BY <1>1, <1>2 DEF Probing, TypeInv, TypeOK
<1>6. /\ IsFiniteSet(Probing) /\ IsFiniteSet(ever)
      /\ Cardinality(Probing) \in Nat /\ Cardinality(ever) \in Nat
  BY FS_CardinalityType DEF TypeInv, Finite
<1>7. IsFiniteSet(Probing') /\ Cardinality(Probing') = Cardinality(Probing) + 1
  <2>1. m \notin Probing
    BY <1>1 DEF Probing
  <2> QED BY <1>5, <1>6, <2>1, FS_AddElement
<1>8. Cardinality(ever') + Cardinality(Probing') <= MaxResults
  <2>1. MaxResults \in Nat
    BY RollupAssumption DEF RollupAssumption
  <2> QED BY <1>1, <1>6, <1>7, <2>1
<1>9. \A e \in Rollups : Working(rollup[e])'
  BY <1>1 DEF TypeInv, Finite, Working
<1>10. Finite'
  BY <1>1, <1>7, <1>8, <1>9 DEF TypeInv, Finite
<1> QED BY <1>4, <1>10 DEF TypeInv

\* an outage that begins or ends,
LEMMA TypeTransition ==
  ASSUME TypeInv, NEW m \in Monitors, NEW r \in CheckResult, Transition(m, r)
  PROVE  /\ incidents' \subseteq Incident /\ IsFiniteSet(incidents')
         /\ restated' \subseteq Monitors \X Hours
<1>1. /\ incidents \subseteq Incident /\ IsFiniteSet(incidents)
      /\ restated \subseteq Monitors \X Hours /\ results \subseteq CheckResult
  BY DEF TypeInv, TypeOK, Finite
<1>2. CASE UNCHANGED <<incidents, restated>>
  BY <1>1, <1>2
<1>3. CASE ~(UNCHANGED <<incidents, restated>>)
  <2>1. PICK t \in {q.checked_at : q \in {p \in results \cup {r} :
                                       p.monitor = m /\ p.success = r.success}} :
       /\ restated' = restated \cup Restated(m, t)
       /\ \/ /\ ~r.success
             /\ \A i \in incidents : i.monitor = m =>
                  i.resolved_at # 0 /\ i.resolved_at <= t
             /\ incidents' = incidents \cup
                  {[monitor |-> m, started_at |-> t, resolved_at |-> 0]}
          \/ \E i \in incidents :
               /\ r.success
               /\ i.monitor = m /\ i.resolved_at = 0 /\ i.started_at <= t
               /\ incidents' = (incidents \ {i}) \cup
                                 {[i EXCEPT !.resolved_at = t]}
    BY <1>3 DEF Transition
  <2>2. t \in Times
    <3>1. \A q \in CheckResult : q.checked_at \in Times
      BY DEF CheckResult
    <3> QED BY <1>1, <3>1
  <2>3. Restated(m, t) \subseteq Monitors \X Hours
    BY DEF Restated
  <2>4. CASE incidents' = incidents \cup
               {[monitor |-> m, started_at |-> t, resolved_at |-> 0]}
    <3>1. [monitor |-> m, started_at |-> t, resolved_at |-> 0] \in Incident
      BY <2>2 DEF Incident
    <3> QED BY <1>1, <2>1, <2>3, <2>4, <3>1, FS_AddElement
  <2>5. CASE \E i \in incidents : incidents' = (incidents \ {i}) \cup
                                    {[i EXCEPT !.resolved_at = t]}
    <3>1. PICK i \in incidents : incidents' = (incidents \ {i}) \cup
                                    {[i EXCEPT !.resolved_at = t]}
      BY <2>5
    <3>2. [i EXCEPT !.resolved_at = t] \in Incident
      BY <1>1, <2>2 DEF Incident
    <3>3. IsFiniteSet(incidents \ {i})
      BY <1>1, FS_Subset
    <3> QED BY <1>1, <2>1, <2>3, <3>1, <3>2, <3>3, FS_AddElement
  <2> QED BY <2>1, <2>4, <2>5
<1> QED BY <1>2, <1>3

\* The check that commits, when its monitor is still there.
Commits(m, r) ==
  /\ r.id = Cardinality(ever) + 1 /\ r.monitor = m /\ r.checked_at = probe[m]
  /\ results' = results \cup {r}
  /\ ever' = ever \cup {r}
  /\ late' = IF /\ now >= HourOf(r.checked_at) + Hour
                /\ Begun(m, HourOf(r.checked_at))
               THEN late \cup {r.id} ELSE late
  /\ Transition(m, r)

\* What a check that commits changes, and what it leaves alone.
LEMMA CommitSteps ==
  ASSUME TypeInv, NEW m \in Monitors, CommitCheck(m)
  PROVE  /\ probe[m] # 0 /\ probe' = [probe EXCEPT ![m] = 0]
         /\ UNCHANGED <<now, monitors, stats, rollup, purge, torn, purges>>
         /\ \/ /\ m \notin monitors
               /\ UNCHANGED <<results, incidents, ever, late, restated>>
            \/ m \in monitors /\ \E r \in CheckResult : Commits(m, r)
         /\ Cardinality(ever) \in Nat /\ Cardinality(ever) + 1 <= MaxResults
<1>1. /\ probe[m] # 0 /\ probe' = [probe EXCEPT ![m] = 0]
      /\ UNCHANGED <<now, monitors, stats, rollup, purge, torn, purges>>
  BY DEF CommitCheck
<1>2. /\ IsFiniteSet(Probing) /\ IsFiniteSet(ever) /\ m \in Probing
      /\ Cardinality(Probing) \in Nat /\ Cardinality(ever) \in Nat
      /\ Cardinality(ever) + Cardinality(Probing) <= MaxResults
      /\ MaxResults \in Nat
  BY <1>1, FS_CardinalityType, RollupAssumption
     DEF TypeInv, Finite, Probing, RollupAssumption
<1>3. Cardinality(Probing) # 0
  BY <1>2, FS_EmptySet
<1>4. Cardinality(ever) + 1 <= MaxResults
  BY <1>2, <1>3
<1>5. CASE m \notin monitors
  BY <1>1, <1>2, <1>4, <1>5 DEF CommitCheck
<1>6. CASE m \in monitors
  <2>1. PICK success \in BOOLEAN, ms \in ResponseTimes :
          LET r == [id |-> Cardinality(ever) + 1, monitor |-> m,
                    checked_at |-> probe[m], success |-> success,
                    response_time_ms |-> IF success THEN ms ELSE 0]
          IN  /\ results' = results \cup {r}
              /\ ever' = ever \cup {r}
              /\ late' = IF /\ now >= HourOf(r.checked_at) + Hour
                            /\ Begun(m, HourOf(r.checked_at))
                           THEN late \cup {r.id} ELSE late
              /\ Transition(m, r)
    BY <1>6 DEF CommitCheck
  <2>2. PICK r : r = [id |-> Cardinality(ever) + 1, monitor |-> m,
                      checked_at |-> probe[m], success |-> success,
                      response_time_ms |-> IF success THEN ms ELSE 0]
    OBVIOUS
  <2>3. /\ results' = results \cup {r}
        /\ ever' = ever \cup {r}
        /\ late' = IF /\ now >= HourOf(r.checked_at) + Hour
                      /\ Begun(m, HourOf(r.checked_at))
                     THEN late \cup {r.id} ELSE late
        /\ Transition(m, r)
    BY <2>1, <2>2
  <2>4. probe[m] \in Times
    BY <1>1 DEF TypeInv, TypeOK
  <2>5. Cardinality(ever) + 1 \in 1..MaxResults
    BY <1>2, <1>4
  <2>6. (IF success THEN ms ELSE 0) \in ResponseTimes \cup {0}
    OBVIOUS
  <2>7. r \in CheckResult
    BY <2>2, <2>4, <2>5, <2>6 DEF CheckResult
  <2>8. Commits(m, r)
    BY <2>2, <2>3 DEF Commits
  <2> QED BY <1>1, <1>2, <1>4, <1>6, <2>7, <2>8
<1> QED BY <1>5, <1>6

\* and a check that commits.
LEMMA TypeCommit ==
  ASSUME TypeInv, NEW m \in Monitors, CommitCheck(m)
  PROVE  TypeInv'
<1>1. /\ probe[m] # 0 /\ probe' = [probe EXCEPT ![m] = 0]
      /\ UNCHANGED <<now, monitors, stats, rollup, purge, torn, purges>>
      /\ Cardinality(ever) \in Nat /\ Cardinality(ever) + 1 <= MaxResults
  BY CommitSteps
<1>2. /\ IsFiniteSet(Probing) /\ IsFiniteSet(ever) /\ m \in Probing
      /\ Cardinality(ever) + Cardinality(Probing) <= MaxResults
      /\ MaxResults \in Nat
  BY <1>1, RollupAssumption DEF TypeInv, Finite, Probing, RollupAssumption
<1>3. Probing' = Probing \ {m}
  BY <1>1 DEF Probing, TypeInv, TypeOK
<1>4. /\ IsFiniteSet(Probing') /\ Cardinality(Probing) \in Nat
      /\ Cardinality(Probing') = Cardinality(Probing) - 1
  BY <1>2, <1>3, FS_RemoveElement, FS_CardinalityType
<1>5. probe' \in [Monitors -> Times \cup {0}]
  BY <1>1 DEF TypeInv, TypeOK
<1>6. CASE m \notin monitors /\ UNCHANGED <<results, incidents, ever, late, restated>>
  <2>1. TypeOK'
    BY <1>1, <1>5, <1>6 DEF TypeInv, TypeOK
  <2>2. Cardinality(ever') + Cardinality(Probing') <= MaxResults
    BY <1>1, <1>2, <1>4, <1>6
  <2>3. \A e \in Rollups : Working(rollup[e])'
    BY <1>1, <1>6 DEF TypeInv, Finite, Working
  <2>4. Finite'
    BY <1>1, <1>4, <1>6, <2>2, <2>3 DEF TypeInv, Finite
  <2> QED BY <2>1, <2>4 DEF TypeInv
<1>7. CASE \E r \in CheckResult : Commits(m, r)
  <2>1. PICK r \in CheckResult : Commits(m, r)
    BY <1>7
  <2>2. /\ r.id = Cardinality(ever) + 1
        /\ results' = results \cup {r} /\ ever' = ever \cup {r}
        /\ late' = late \cup {r.id} \/ late' = late
        /\ Transition(m, r)
    BY <2>1 DEF Commits
  <2>3. r \notin ever
    <3>1. \A q \in ever : q.id <= Cardinality(ever)
      BY DEF TypeInv, Finite
    <3> QED BY <1>1, <2>2, <3>1
  <2>4. IsFiniteSet(ever') /\ Cardinality(ever') = Cardinality(ever) + 1
    BY <1>2, <2>2, <2>3, FS_AddElement
  <2>5. /\ incidents' \subseteq Incident /\ IsFiniteSet(incidents')
        /\ restated' \subseteq Monitors \X Hours
    BY <2>2, TypeTransition
  <2>6. r.id \in 1..MaxResults
    BY <1>1, <2>2
  <2>7. TypeOK'
    BY <1>1, <1>5, <2>2, <2>5, <2>6 DEF TypeInv, TypeOK
  <2>8. Cardinality(ever') + Cardinality(Probing') <= MaxResults
    BY <1>1, <1>2, <1>4, <2>4
  <2>9. \A e \in Rollups : Working(rollup[e])'
    BY <1>1, <2>2 DEF TypeInv, Finite, Working
  <2>10. \A q \in ever' : q.id <= Cardinality(ever')
    <3>1. \A q \in ever : q.id \in Nat /\ q.id <= Cardinality(ever)
      BY CheckFields DEF TypeInv, TypeOK, Finite
    <3> QED BY <1>1, <2>2, <2>4, <3>1
  <2>11. \A i \in late' : i <= Cardinality(ever')
    <3>1. \A i \in late : i \in Nat /\ i <= Cardinality(ever)
      BY <1>2 DEF TypeInv, TypeOK, Finite
    <3> QED BY <1>1, <2>2, <2>4, <3>1
  <2>12. IsFiniteSet(stats') /\ results' \subseteq ever'
    BY <1>1, <2>2 DEF TypeInv, Finite
  <2>13. Finite'
    BY <1>4, <2>4, <2>5, <2>8, <2>9, <2>10, <2>11, <2>12 DEF Finite
  <2> QED BY <2>7, <2>13 DEF TypeInv
<1> QED BY <1>6, <1>7, CommitSteps

\* Every step keeps the types,
LEMMA TypeNext == TypeInv /\ [Next]_vars => TypeInv'
<1> SUFFICES ASSUME TypeInv, [Next]_vars PROVE TypeInv'
  OBVIOUS
<1>t. /\ now \in Times /\ purge \subseteq Monitors \X Hours
      /\ torn \subseteq Monitors \X Hours /\ purges \in 0..MaxPurges
      /\ stats \subseteq StatRow
  BY DEF TypeInv, TypeOK
<1>1. CASE Tick
  <2>1. now' \in Times
    BY <1>t, <1>1, TimesAndHours DEF Tick, Times
  <2> QED BY <1>t, <1>1, <2>1, TypeShrinks DEF Tick, engine, history
<1>2. ASSUME NEW m \in Monitors, BeginCheck(m) PROVE TypeInv'
  BY <1>2, TypeBegin
<1>3. ASSUME NEW m \in Monitors, CommitCheck(m) PROVE TypeInv'
  BY <1>3, TypeCommit
<1>4. ASSUME NEW m \in Monitors, DeleteMonitor(m) PROVE TypeInv'
  <2>1. /\ monitors' \subseteq monitors /\ results' \subseteq results
        /\ incidents' \subseteq incidents /\ stats' \subseteq stats
        /\ UNCHANGED <<now, probe, rollup, purge, ever, late, restated, torn, purges>>
    BY <1>4 DEF DeleteMonitor, history
  <2> QED BY <1>t, <2>1, TypeShrinks
<1>5. ASSUME NEW e \in Rollups, RollupNext(e) PROVE TypeInv'
  BY <1>5, TypeRollup
<1>6. CASE StartPurge
  <2>1. purges' \in 0..MaxPurges
    <3>1. MaxPurges \in Nat
      BY RollupAssumption DEF RollupAssumption
    <3> QED BY <1>t, <1>6, <3>1 DEF StartPurge
  <2>2. purge' \subseteq Monitors \X Hours
    <3>1. \A s \in stats : s.monitor \in Monitors /\ s.hour_start \in Hours
      BY <1>t DEF StatRow
    <3> QED BY <1>6, <3>1 DEF StartPurge, StatsToPurge
  <2> QED BY <1>t, <1>6, <2>1, <2>2, TypeShrinks DEF StartPurge, engine
<1>7. ASSUME NEW m \in Monitors, NEW h \in Hours, PurgeHour(m, h) PROVE TypeInv'
  <2>1. /\ results' \subseteq results /\ purge' \subseteq purge
        /\ torn' = torn \cup {<<m, h>>} \/ torn' = torn
        /\ UNCHANGED <<now, monitors, probe, incidents, stats, rollup, ever,
                       late, restated, purges>>
    BY <1>7 DEF PurgeHour
  <2>2. torn' \subseteq Monitors \X Hours
    BY <1>t, <2>1
  <2> QED BY <1>t, <2>1, <2>2, TypeShrinks
<1>8. CASE UNCHANGED vars
  BY <1>t, <1>8, TypeShrinks DEF vars
<1> QED BY <1>1, <1>2, <1>3, <1>4, <1>5, <1>6, <1>7, <1>8 DEF Next

\* so they always hold.
LEMMA TypesHold == Spec => []TypeInv
<1> QED BY TypeInit, TypeNext, PTL DEF Spec

\* Every variable has its type; the summaries have one row for a monitor and
\* an hour (the unique constraint of models.py:145), with natural figures.
THEOREM RollupTypeCorrect == Spec => []TypeOK
<1>1. TypeInv => TypeOK
  BY DEF TypeInv
<1> QED BY <1>1, TypesHold, PTL

-----------------------------------------------------------------------------
(* The invariant                                                           *)

\* A check commits in time, and an outage ends before the next one begins.
Timely == \A m \in Monitors : probe[m] # 0 => now <= probe[m] + MaxLag

OutagesApart ==
  \A i, j \in incidents : i.monitor = j.monitor /\ i # j =>
    \/ i.resolved_at # 0 /\ i.resolved_at <= j.started_at
    \/ j.resolved_at # 0 /\ j.resolved_at <= i.started_at

Active(x) == x.pc \notin {"idle", "over"}

\* Only hours that are over are rolled up.
HoursOver ==
  /\ \A s \in stats : s.monitor \in monitors /\ s.hour_start + Hour <= now
  /\ \A e \in Rollups : Active(rollup[e]) => rollup[e].hour_start + Hour <= now

\* What is to be purged is old and has its summary; what was purged is of an
\* hour that no check can be added to, and all of that hour was purged.
PurgeFits ==
  /\ \A m \in Monitors, h \in Hours : <<m, h>> \in purge =>
       h + Retention < now /\ (m \in monitors => StatOf(m, h) # {})
  /\ \A r \in ever : r \notin results /\ r.monitor \in monitors =>
       /\ HourOf(r.checked_at) + Hour + MaxLag < now
       /\ \A q \in results : ~InHour(q, r.monitor, HourOf(r.checked_at))

\* The monitors whose checks the execution has still to read.
Pending(x) == IF x.pc = "next" THEN x.todo
              ELSE IF x.pc = "times" THEN x.todo \cup {x.monitor}
              ELSE IF Active(x) THEN x.todo ELSE {}

\* While its hour is not torn, an execution reads all the checks that are on
\* time, and none of another hour or monitor.
RunFits(x) ==
  \A m \in monitors : <<m, x.hour_start>> \notin torn =>
    /\ m \in Pending(x) => Checked(m, x.hour_start) \subseteq results
    /\ x.pc \in {"times", "windows", "save"} /\ m = x.monitor =>
         /\ OnTime(m, x.hour_start) \subseteq x.checks
         /\ x.checks \subseteq Checked(m, x.hour_start)
    /\ x.pc \in {"windows", "save"} /\ m = x.monitor =>
         /\ Successes(OnTime(m, x.hour_start)) \subseteq x.successes
         /\ x.successes \subseteq Successes(Checked(m, x.hour_start))
    /\ x.pc = "save" /\ m = x.monitor /\ <<m, x.hour_start>> \notin restated =>
         DowntimeSeconds(x.windows, x.hour_start, x.hour_start + Hour)
           = Cardinality(Covered(m, x.hour_start))

\* SummariesExact, of one row.
Exact(s) ==
  <<s.monitor, s.hour_start>> \notin torn =>
    /\ s.checks_total \in Cardinality(OnTime(s.monitor, s.hour_start))
                            ..Cardinality(Checked(s.monitor, s.hour_start))
    /\ OnTime(s.monitor, s.hour_start) = Checked(s.monitor, s.hour_start) =>
         Describes(s, Checked(s.monitor, s.hour_start))
    /\ <<s.monitor, s.hour_start>> \notin restated =>
         s.downtime_seconds = Cardinality(Covered(s.monitor, s.hour_start))

RollupInv ==
  /\ TypeInv /\ Timely /\ OutagesApart /\ HoursOver /\ PurgeFits
  /\ \A e \in Rollups : RunFits(rollup[e])
  /\ \A s \in stats : Exact(s)

-----------------------------------------------------------------------------
(* What a step may do to an hour that was begun                            *)

\* No check becomes on time, one that is added spoils the equality, and the
\* outages of the hour do not change.
Kept(m, h) ==
  /\ m \in monitors /\ <<m, h>> \notin torn
  /\ OnTime(m, h)' = OnTime(m, h) /\ Checked(m, h) \subseteq Checked(m, h)'
  /\ OnTime(m, h)' = Checked(m, h)' => Checked(m, h)' = Checked(m, h)
  /\ <<m, h>> \notin restated' =>
       <<m, h>> \notin restated /\ Covered(m, h)' = Covered(m, h)

\* If all the checks of the hour could be read, they still can.
Readable(m, h) ==
  Checked(m, h) \subseteq results => Checked(m, h)' \subseteq results'

\* An execution's knowledge of its hour outlasts a step that keeps the hour.
LEMMA RunsKept ==
  ASSUME NEW x, RunFits(x),
         \A m \in monitors' : <<m, x.hour_start>> \notin torn' =>
           Kept(m, x.hour_start) /\ Readable(m, x.hour_start)
  PROVE  RunFits(x)'
<1> SUFFICES ASSUME NEW m \in monitors', <<m, x.hour_start>> \notin torn'
             PROVE
    /\ m \in Pending(x) => Checked(m, x.hour_start)' \subseteq results'
    /\ x.pc \in {"times", "windows", "save"} /\ m = x.monitor =>
         /\ OnTime(m, x.hour_start)' \subseteq x.checks
         /\ x.checks \subseteq Checked(m, x.hour_start)'
    /\ x.pc \in {"windows", "save"} /\ m = x.monitor =>
         /\ Successes(OnTime(m, x.hour_start)') \subseteq x.successes
         /\ x.successes \subseteq Successes(Checked(m, x.hour_start)')
    /\ x.pc = "save" /\ m = x.monitor /\ <<m, x.hour_start>> \notin restated' =>
         DowntimeSeconds(x.windows, x.hour_start, x.hour_start + Hour)
           = Cardinality(Covered(m, x.hour_start)')
  BY DEF RunFits, Pending, Active, Successes
<1>1. Kept(m, x.hour_start) /\ Readable(m, x.hour_start)
  OBVIOUS
<1>2. PICK h : h = x.hour_start
  OBVIOUS
<1>3. /\ m \in monitors /\ <<m, h>> \notin torn
      /\ OnTime(m, h)' = OnTime(m, h) /\ Checked(m, h) \subseteq Checked(m, h)'
      /\ Checked(m, h) \subseteq results => Checked(m, h)' \subseteq results'
      /\ <<m, h>> \notin restated' =>
           <<m, h>> \notin restated /\ Covered(m, h)' = Covered(m, h)
  BY <1>1, <1>2 DEF Kept, Readable
<1>4. /\ m \in Pending(x) => Checked(m, h) \subseteq results
      /\ x.pc \in {"times", "windows", "save"} /\ m = x.monitor =>
         /\ OnTime(m, h) \subseteq x.checks /\ x.checks \subseteq Checked(m, h)
      /\ x.pc \in {"windows", "save"} /\ m = x.monitor =>
         /\ Successes(OnTime(m, h)) \subseteq x.successes
         /\ x.successes \subseteq Successes(Checked(m, h))
      /\ x.pc = "save" /\ m = x.monitor /\ <<m, h>> \notin restated =>
         DowntimeSeconds(x.windows, h, h + Hour) = Cardinality(Covered(m, h))
  BY <1>2, <1>3 DEF RunFits
<1>5. Successes(Checked(m, h)) \subseteq Successes(Checked(m, h)')
  BY <1>3 DEF Successes
<1> QED BY <1>2, <1>3, <1>4, <1>5

\* The checks of an hour are finitely many.
LEMMA CheckedFinite ==
  ASSUME TypeInv, NEW m, NEW h
  PROVE  /\ IsFiniteSet(Checked(m, h)) /\ IsFiniteSet(OnTime(m, h))
         /\ Cardinality(Checked(m, h)) \in Nat /\ Cardinality(OnTime(m, h)) \in Nat
         /\ OnTime(m, h) \subseteq Checked(m, h) /\ Checked(m, h) \subseteq CheckResult
<1>1. /\ OnTime(m, h) \subseteq Checked(m, h) /\ Checked(m, h) \subseteq ever
      /\ ever \subseteq CheckResult /\ IsFiniteSet(ever)
  BY DEF OnTime, Checked, TypeInv, TypeOK, Finite
<1>2. IsFiniteSet(Checked(m, h)) /\ IsFiniteSet(OnTime(m, h))
  BY <1>1, FS_Subset
<1> QED BY <1>1, <1>2, FS_CardinalityType

\* So does the exactness of a summary.
LEMMA StatsKept ==
  ASSUME TypeInv, TypeInv', NEW s \in StatRow, Exact(s), s.monitor \in monitors',
         <<s.monitor, s.hour_start>> \notin torn' => Kept(s.monitor, s.hour_start)
  PROVE  Exact(s)'
<1> SUFFICES ASSUME <<s.monitor, s.hour_start>> \notin torn' PROVE Exact(s)'
  BY DEF Exact
<1>1. PICK m, h : m = s.monitor /\ h = s.hour_start
  OBVIOUS
<1>2. /\ m \in monitors /\ <<m, h>> \notin torn
      /\ OnTime(m, h)' = OnTime(m, h) /\ Checked(m, h) \subseteq Checked(m, h)'
      /\ OnTime(m, h)' = Checked(m, h)' => Checked(m, h)' = Checked(m, h)
      /\ <<m, h>> \notin restated' =>
           <<m, h>> \notin restated /\ Covered(m, h)' = Covered(m, h)
  BY <1>1 DEF Kept
<1>3. /\ s.checks_total \in Cardinality(OnTime(m, h))..Cardinality(Checked(m, h))
      /\ OnTime(m, h) = Checked(m, h) => Describes(s, Checked(m, h))
      /\ <<m, h>> \notin restated => s.downtime_seconds = Cardinality(Covered(m, h))
  BY <1>1, <1>2 DEF Exact
<1>4. /\ Cardinality(Checked(m, h)) <= Cardinality(Checked(m, h)')
      /\ Cardinality(Checked(m, h)) \in Nat /\ Cardinality(Checked(m, h)') \in Nat
      /\ Cardinality(OnTime(m, h)) \in Nat
  <2>1. IsFiniteSet(Checked(m, h)') /\ Cardinality(Checked(m, h)') \in Nat
    <3>1. IsFiniteSet(ever') /\ Checked(m, h)' \subseteq ever'
      BY DEF Checked, TypeInv, Finite
    <3> QED BY <3>1, FS_Subset, FS_CardinalityType
  <2> QED BY <1>2, <2>1, CheckedFinite, FS_Subset
<1>5. s.checks_total \in Cardinality(OnTime(m, h)')..Cardinality(Checked(m, h)')
  BY <1>2, <1>3, <1>4
<1>6. OnTime(m, h)' = Checked(m, h)' => Describes(s, Checked(m, h)')
  BY <1>2, <1>3
<1>7. <<m, h>> \notin restated' => s.downtime_seconds = Cardinality(Covered(m, h)')
  BY <1>2, <1>3
<1>8. Exact(s)' <=>
        (<<m, h>> \notin torn' =>
           /\ s.checks_total \in Cardinality(OnTime(m, h)')..Cardinality(Checked(m, h)')
           /\ OnTime(m, h)' = Checked(m, h)' => Describes(s, Checked(m, h)')
           /\ <<m, h>> \notin restated' =>
                s.downtime_seconds = Cardinality(Covered(m, h)'))
  BY <1>1 DEF Exact, Describes, Successes, Percentile95, Nearest
<1> QED BY <1>5, <1>6, <1>7, <1>8

\* An hour none of whose checks and outages are touched is kept.
LEMMA HourUntouched ==
  ASSUME NEW m \in monitors, NEW h, <<m, h>> \notin torn,
         UNCHANGED <<ever, late, restated>>,
         \A i : i.monitor = m => (i \in incidents' <=> i \in incidents)
  PROVE  Kept(m, h)
<1>1. Checked(m, h)' = Checked(m, h)
  BY DEF Checked, InHour
<1>2. OnTime(m, h)' = OnTime(m, h)
  BY <1>1 DEF OnTime
<1>3. Covered(m, h)' = Covered(m, h)
  BY DEF Covered
<1> QED BY <1>1, <1>2, <1>3 DEF Kept

\* The checks of an hour stay readable when none of its rows is deleted.
LEMMA ResultsUntouched ==
  ASSUME NEW m, NEW h, ever' = ever,
         \A r \in results : InHour(r, m, h) => r \in results'
  PROVE  Readable(m, h)
BY DEF Readable, Checked, InHour

\* A step that leaves the executions alone, and writes no summary.
LEMMA StepKeeps ==
  ASSUME RollupInv, TypeInv', monitors' \subseteq monitors, stats' \subseteq stats,
         rollup' = rollup, \A s \in stats' : s.monitor \in monitors',
         \A m \in monitors', h \in Hours :
           <<m, h>> \notin torn' /\ Begun(m, h) => Kept(m, h),
         \A m \in monitors', e \in Rollups :
           Active(rollup[e]) /\ <<m, rollup[e].hour_start>> \notin torn' =>
             Readable(m, rollup[e].hour_start)
  PROVE  /\ \A e \in Rollups : RunFits(rollup[e])'
         /\ \A s \in stats' : Exact(s)'
<1>1. ASSUME NEW e \in Rollups PROVE RunFits(rollup[e])'
  <2>1. PICK x : x = rollup[e]
    OBVIOUS
  <2>2. RunFits(x) /\ x \in RollupState /\ x.hour_start \in Hours
    BY <2>1, RollupFields DEF RollupInv, TypeInv, TypeOK
  <2>3. rollup[e]' = x
    BY <2>1
  <2>4. CASE Active(x)
    <3>1. \A m : Begun(m, x.hour_start)
      BY <2>1, <2>4 DEF Begun, Running, Active
    <3>2. RunFits(x)'
      BY <2>1, <2>2, <2>4, <3>1, RunsKept
    <3> QED BY <2>3, <3>2 DEF RunFits, Pending, Active, Successes
  <2>5. CASE ~Active(x)
    <3>1. x.pc \in {"idle", "over"}
      BY <2>5 DEF Active
    <3> QED BY <2>3, <3>1 DEF RunFits, Pending, Active
  <2> QED BY <2>4, <2>5
<1>2. ASSUME NEW s \in stats' PROVE Exact(s)'
  <2>1. s \in stats /\ s \in StatRow /\ s.monitor \in monitors' /\ Exact(s)
    BY DEF RollupInv, TypeInv, TypeOK
  <2>2. s.hour_start \in Hours /\ Begun(s.monitor, s.hour_start)
    BY <2>1 DEF StatRow, Begun, StatOf
  <2>3. TypeInv
    BY DEF RollupInv
  <2> QED BY <2>1, <2>2, <2>3, StatsKept
<1> QED BY <1>1, <1>2

-----------------------------------------------------------------------------
(* The invariant holds at first,                                           *)
LEMMA RollupInit == Init => RollupInv
<1> SUFFICES ASSUME Init PROVE RollupInv
  OBVIOUS
<1>1. /\ incidents = {} /\ stats = {} /\ purge = {} /\ ever = {}
      /\ probe = [m \in Monitors |-> 0]
      /\ rollup = [e \in Rollups |-> IdleRollup]
  BY DEF Init
<1>2. Timely /\ OutagesApart /\ PurgeFits /\ \A s \in stats : Exact(s)
  BY <1>1 DEF Timely, OutagesApart, PurgeFits
<1>3. \A e \in Rollups : ~Active(rollup[e]) /\ rollup[e].pc = "idle"
  BY <1>1, RestingRollups DEF Active
<1>4. HoursOver
  BY <1>1, <1>3 DEF HoursOver
<1>5. \A e \in Rollups : RunFits(rollup[e])
  BY <1>3 DEF RunFits, Pending
<1> QED BY <1>2, <1>4, <1>5, TypeInit DEF RollupInv

\* after a check begins or time passes,
LEMMA TickKeeps == RollupInv /\ Tick => RollupInv'
<1> SUFFICES ASSUME RollupInv, Tick PROVE RollupInv'
  OBVIOUS
<1>1. TypeInv /\ TypeInv'
  BY TypeNext DEF RollupInv, Next
<1>2. /\ now' = now + 1
      /\ \A m \in Monitors : probe[m] # 0 => now < probe[m] + MaxLag
      /\ UNCHANGED <<monitors, probe, results, incidents, stats, rollup, purge,
                     ever, late, restated, torn, purges>>
  BY DEF Tick, engine, history
<1>3. /\ now \in Nat /\ MaxLag \in Nat /\ Hour \in Nat /\ Retention \in Nat
      /\ \A m \in Monitors : probe[m] \in Nat
  BY <1>1, TimesAndHours, RollupAssumption
     DEF TypeInv, TypeOK, RollupAssumption
<1>4. Timely'
  BY <1>2, <1>3 DEF Timely
<1>5. OutagesApart'
  BY <1>2 DEF RollupInv, OutagesApart
<1>6. HoursOver'
  <2>1. /\ \A s \in stats : s.monitor \in monitors /\ s.hour_start + Hour <= now
        /\ \A s \in stats : s.hour_start \in Nat
        /\ \A e \in Rollups : rollup[e].hour_start \in Nat
        /\ \A e \in Rollups : Active(rollup[e]) => rollup[e].hour_start + Hour <= now
    BY <1>1, TimesAndHours, RollupFields
       DEF RollupInv, HoursOver, TypeInv, TypeOK, StatRow
  <2> QED BY <1>2, <1>3, <2>1 DEF HoursOver, Active
<1>7. PurgeFits'
  <2>1. ASSUME NEW m \in Monitors, NEW h \in Hours, <<m, h>> \in purge'
        PROVE  h + Retention < now' /\ (m \in monitors' => StatOf(m, h)' # {})
    <3>1. h + Retention < now /\ (m \in monitors => StatOf(m, h) # {})
      BY <1>2, <2>1 DEF RollupInv, PurgeFits
    <3>2. h \in Nat
      BY TimesAndHours
    <3> QED BY <1>2, <1>3, <3>1, <3>2 DEF StatOf
  <2>2. ASSUME NEW r \in ever', r \notin results', r.monitor \in monitors'
        PROVE  /\ HourOf(r.checked_at) + Hour + MaxLag < now'
               /\ \A q \in results' : ~InHour(q, r.monitor, HourOf(r.checked_at))
    <3>1. /\ HourOf(r.checked_at) + Hour + MaxLag < now
          /\ \A q \in results : ~InHour(q, r.monitor, HourOf(r.checked_at))
      BY <1>2, <2>2 DEF RollupInv, PurgeFits
    <3>2. HourOf(r.checked_at) \in Nat
      BY <1>1, <1>2, CheckFields, TimesAndHours DEF TypeInv, TypeOK
    <3> QED BY <1>2, <1>3, <3>1, <3>2
  <2> QED BY <2>1, <2>2 DEF PurgeFits
<1>8. /\ \A e \in Rollups : RunFits(rollup[e])'
      /\ \A s \in stats' : Exact(s)'
  <2>1. \A m \in monitors', h \in Hours : <<m, h>> \notin torn' => Kept(m, h)
    BY <1>2, HourUntouched
  <2>2. \A m \in monitors' : \A h : Readable(m, h)
    BY <1>2, ResultsUntouched
  <2>3. \A s \in stats' : s.monitor \in monitors'
    BY <1>2 DEF RollupInv, HoursOver
  <2> QED BY <1>1, <1>2, <2>1, <2>2, <2>3, StepKeeps
<1> QED BY <1>1, <1>4, <1>5, <1>6, <1>7, <1>8 DEF RollupInv

\* The invariant outlasts the beginning of a check,
LEMMA BeginKeeps ==
  ASSUME RollupInv, NEW m \in Monitors, BeginCheck(m)
  PROVE  RollupInv'
<1>1. TypeInv /\ TypeInv'
  BY TypeNext DEF RollupInv, Next
<1>2. /\ m \in monitors /\ probe' = [probe EXCEPT ![m] = now]
      /\ UNCHANGED <<now, monitors, results, incidents, stats, rollup, purge,
                     ever, late, restated, torn, purges>>
  BY DEF BeginCheck, history
<1>3. Timely'
  <2>1. now \in Nat /\ MaxLag \in Nat /\ probe \in [Monitors -> Times \cup {0}]
    BY <1>1, TimesAndHours, RollupAssumption DEF TypeInv, TypeOK, RollupAssumption
  <2> QED BY <1>2, <2>1 DEF RollupInv, Timely
<1>4. OutagesApart' /\ HoursOver' /\ PurgeFits'
  BY <1>2 DEF RollupInv, OutagesApart, HoursOver, PurgeFits, StatOf
<1>5. /\ \A e \in Rollups : RunFits(rollup[e])'
      /\ \A s \in stats' : Exact(s)'
  <2>1. \A n \in monitors', h \in Hours : <<n, h>> \notin torn' => Kept(n, h)
    BY <1>2, HourUntouched
  <2>2. \A n \in monitors' : \A h : Readable(n, h)
    BY <1>2, ResultsUntouched
  <2>3. \A s \in stats' : s.monitor \in monitors'
    BY <1>2 DEF RollupInv, HoursOver
  <2> QED BY <1>1, <1>2, <2>1, <2>2, <2>3, StepKeeps
<1> QED BY <1>1, <1>3, <1>4, <1>5 DEF RollupInv

\* after a purge begins,
LEMMA StartPurgeKeeps == RollupInv /\ StartPurge => RollupInv'
<1> SUFFICES ASSUME RollupInv, StartPurge PROVE RollupInv'
  OBVIOUS
<1>1. TypeInv /\ TypeInv'
  BY TypeNext DEF RollupInv, Next
<1>2. /\ purge' = StatsToPurge(now - Retention)
      /\ UNCHANGED <<now, monitors, probe, results, incidents, stats, rollup,
                     ever, late, restated, torn>>
  BY DEF StartPurge, engine
<1>3. Timely' /\ OutagesApart' /\ HoursOver'
  BY <1>2 DEF RollupInv, Timely, OutagesApart, HoursOver
<1>4. PurgeFits'
  <2>1. ASSUME NEW m \in Monitors, NEW h \in Hours, <<m, h>> \in purge'
        PROVE  h + Retention < now' /\ (m \in monitors' => StatOf(m, h)' # {})
    <3>1. PICK s \in stats : /\ s.hour_start < now - Retention
                             /\ s.monitor = m /\ s.hour_start = h
      BY <1>2, <2>1 DEF StatsToPurge
    <3>2. h \in Nat /\ now \in Nat /\ Retention \in Nat
      BY <1>1, TimesAndHours, RollupAssumption DEF TypeInv, TypeOK, RollupAssumption
    <3>3. h + Retention < now
      BY <3>1, <3>2
    <3>4. s \in StatOf(m, h)'
      BY <1>2, <3>1 DEF StatOf
    <3> QED BY <1>2, <3>3, <3>4
  <2>2. \A r \in ever' : r \notin results' /\ r.monitor \in monitors' =>
          /\ HourOf(r.checked_at) + Hour + MaxLag < now'
          /\ \A q \in results' : ~InHour(q, r.monitor, HourOf(r.checked_at))
    BY <1>2 DEF RollupInv, PurgeFits
  <2> QED BY <2>1, <2>2 DEF PurgeFits
<1>5. /\ \A e \in Rollups : RunFits(rollup[e])'
      /\ \A s \in stats' : Exact(s)'
  <2>1. \A n \in monitors', h \in Hours : <<n, h>> \notin torn' => Kept(n, h)
    BY <1>2, HourUntouched
  <2>2. \A n \in monitors' : \A h : Readable(n, h)
    BY <1>2, ResultsUntouched
  <2>3. \A s \in stats' : s.monitor \in monitors'
    BY <1>2 DEF RollupInv, HoursOver
  <2> QED BY <1>1, <1>2, <2>1, <2>2, <2>3, StepKeeps
<1> QED BY <1>1, <1>3, <1>4, <1>5 DEF RollupInv

\* an hour is deleted,
LEMMA PurgeHourKeeps ==
  ASSUME RollupInv, NEW m \in Monitors, NEW h \in Hours, PurgeHour(m, h)
  PROVE  RollupInv'
<1>1. TypeInv /\ TypeInv'
  BY TypeNext DEF RollupInv, Next
<1>2. /\ <<m, h>> \in purge /\ purge' = purge \ {<<m, h>>}
      /\ results' = results \ {r \in results : InHour(r, m, h)}
      /\ torn' = IF \E e \in Rollups : Running(e) /\ rollup[e].hour_start = h
                   THEN torn \cup {<<m, h>>} ELSE torn
      /\ UNCHANGED <<now, monitors, probe, incidents, stats, rollup, ever,
                     late, restated, purges>>
  BY DEF PurgeHour
<1>3. Timely' /\ OutagesApart' /\ HoursOver'
  BY <1>2 DEF RollupInv, Timely, OutagesApart, HoursOver
<1>h. \A r \in results, g \in Hours : InHour(r, m, h) /\ InHour(r, m, g) => g = h
  <2> SUFFICES ASSUME NEW r \in results, NEW g \in Hours,
                      InHour(r, m, h), InHour(r, m, g)
               PROVE  g = h
    OBVIOUS
  <2>1. r.checked_at \in Times
    BY <1>1, CheckFields DEF TypeInv, TypeOK
  <2> QED BY <2>1, TimesAndHours DEF InHour
<1>4. PurgeFits'
  <2>1. \A n \in Monitors, g \in Hours : <<n, g>> \in purge' =>
          g + Retention < now' /\ (n \in monitors' => StatOf(n, g)' # {})
    BY <1>2 DEF RollupInv, PurgeFits, StatOf
  <2>2. ASSUME NEW r \in ever', r \notin results', r.monitor \in monitors'
        PROVE  /\ HourOf(r.checked_at) + Hour + MaxLag < now'
               /\ \A q \in results' : ~InHour(q, r.monitor, HourOf(r.checked_at))
    <3>1. CASE r \in results
      <4>1. InHour(r, m, h) /\ r.monitor = m
        BY <1>2, <2>2, <3>1 DEF InHour
      <4>2. r.checked_at \in Times
        BY <1>1, <3>1, CheckFields DEF TypeInv, TypeOK
      <4>3. h = HourOf(r.checked_at)
        BY <4>1, <4>2, TimesAndHours DEF InHour
      <4>4. h + Retention < now
        BY <1>2 DEF RollupInv, PurgeFits
      <4>5. /\ h \in Nat /\ now \in Nat /\ Retention \in Nat /\ Hour \in Nat
            /\ MaxLag \in Nat /\ Retention >= Hour + MaxLag
        BY <1>1, TimesAndHours, RollupAssumption
           DEF TypeInv, TypeOK, RollupAssumption
      <4>6. h + Hour + MaxLag < now'
        BY <1>2, <4>4, <4>5
      <4>7. \A q \in results' : ~InHour(q, m, h)
        BY <1>2
      <4> QED BY <4>1, <4>3, <4>6, <4>7
    <3>2. CASE r \notin results
      <4>1. /\ HourOf(r.checked_at) + Hour + MaxLag < now
            /\ \A q \in results : ~InHour(q, r.monitor, HourOf(r.checked_at))
        BY <1>2, <2>2, <3>2 DEF RollupInv, PurgeFits
      <4> QED BY <1>2, <4>1
    <3> QED BY <3>1, <3>2
  <2> QED BY <2>1, <2>2 DEF PurgeFits
<1>5. /\ \A e \in Rollups : RunFits(rollup[e])'
      /\ \A s \in stats' : Exact(s)'
  <2>1. \A n \in monitors', g \in Hours : <<n, g>> \notin torn' => Kept(n, g)
    <3>1. \A n, g : <<n, g>> \notin torn' => <<n, g>> \notin torn
      BY <1>2
    <3> QED BY <1>2, <3>1, HourUntouched
  <2>2. ASSUME NEW n \in monitors', NEW e \in Rollups, Active(rollup[e]),
               <<n, rollup[e].hour_start>> \notin torn'
        PROVE  Readable(n, rollup[e].hour_start)
    <3>1. PICK g \in Hours : g = rollup[e].hour_start
      BY <1>1, RollupFields DEF TypeInv, TypeOK
    <3>2. Running(e)
      BY <2>2 DEF Running, Active
    <3>3. ~(n = m /\ g = h)
      BY <1>2, <2>2, <3>1, <3>2
    <3>4. ASSUME NEW r \in results, InHour(r, n, g) PROVE r \in results'
      <4>1. ~InHour(r, m, h)
        BY <1>h, <3>3, <3>4 DEF InHour
      <4> QED BY <1>2, <4>1
    <3> QED BY <1>2, <3>1, <3>4, ResultsUntouched
  <2>3. \A s \in stats' : s.monitor \in monitors'
    BY <1>2 DEF RollupInv, HoursOver
  <2> QED BY <1>1, <1>2, <2>1, <2>2, <2>3, StepKeeps
<1> QED BY <1>1, <1>3, <1>4, <1>5 DEF RollupInv

\* a monitor is deleted with all that is its own,
LEMMA DeleteKeeps ==
  ASSUME RollupInv, NEW m \in Monitors, DeleteMonitor(m)
  PROVE  RollupInv'
<1>1. TypeInv /\ TypeInv'
  BY TypeNext DEF RollupInv, Next
<1>2. /\ monitors' = monitors \ {m}
      /\ results' = {r \in results : r.monitor # m}
      /\ incidents' = {i \in incidents : i.monitor # m}
      /\ stats' = {s \in stats : s.monitor # m}
      /\ UNCHANGED <<now, probe, rollup, purge, ever, late, restated, torn, purges>>
  BY DEF DeleteMonitor, history
<1>3. Timely' /\ OutagesApart' /\ HoursOver'
  BY <1>2 DEF RollupInv, Timely, OutagesApart, HoursOver
<1>4. PurgeFits'
  <2>1. ASSUME NEW n \in Monitors, NEW h \in Hours, <<n, h>> \in purge'
        PROVE  h + Retention < now' /\ (n \in monitors' => StatOf(n, h)' # {})
    <3>1. h + Retention < now /\ (n \in monitors => StatOf(n, h) # {})
      BY <1>2, <2>1 DEF RollupInv, PurgeFits
    <3>2. n # m => StatOf(n, h)' = StatOf(n, h)
      BY <1>2 DEF StatOf
    <3> QED BY <1>2, <3>1, <3>2
  <2>2. \A r \in ever' : r \notin results' /\ r.monitor \in monitors' =>
          /\ HourOf(r.checked_at) + Hour + MaxLag < now'
          /\ \A q \in results' : ~InHour(q, r.monitor, HourOf(r.checked_at))
    BY <1>2 DEF RollupInv, PurgeFits
  <2> QED BY <2>1, <2>2 DEF PurgeFits
<1>5. /\ \A e \in Rollups : RunFits(rollup[e])'
      /\ \A s \in stats' : Exact(s)'
  <2>1. \A n \in monitors', g \in Hours : <<n, g>> \notin torn' => Kept(n, g)
    BY <1>2, HourUntouched
  <2>2. ASSUME NEW n \in monitors', NEW h PROVE Readable(n, h)
    <3>1. \A r \in results : InHour(r, n, h) => r \in results'
      BY <1>2 DEF InHour
    <3> QED BY <1>2, <3>1, ResultsUntouched
  <2>3. \A s \in stats' : s.monitor \in monitors'
    BY <1>2 DEF RollupInv, HoursOver
  <2>4. stats' \subseteq stats /\ monitors' \subseteq monitors
    BY <1>2
  <2> QED BY <1>1, <1>2, <2>1, <2>2, <2>3, <2>4, StepKeeps
<1> QED BY <1>1, <1>3, <1>4, <1>5 DEF RollupInv

\* An outage that begins or ends leaves the outages apart, and no other monitor
\* and no earlier hour that it does not report is concerned.
LEMMA TransitionKeeps ==
  ASSUME TypeInv, OutagesApart, NEW m \in Monitors, NEW r \in CheckResult,
         Transition(m, r)
  PROVE  /\ OutagesApart'
         /\ \A n \in monitors, h \in Hours :
              Begun(n, h) /\ <<n, h>> \notin restated' =>
                <<n, h>> \notin restated /\ Covered(n, h)' = Covered(n, h)
<1>1. CASE UNCHANGED <<incidents, restated>>
  BY <1>1 DEF OutagesApart, Covered
<1>2. CASE ~(UNCHANGED <<incidents, restated>>)
  <2>1. PICK t \in {q.checked_at : q \in {p \in results \cup {r} :
                                       p.monitor = m /\ p.success = r.success}} :
       /\ restated' = restated \cup Restated(m, t)
       /\ \/ /\ ~r.success
             /\ \A i \in incidents : i.monitor = m =>
                  i.resolved_at # 0 /\ i.resolved_at <= t
             /\ incidents' = incidents \cup
                  {[monitor |-> m, started_at |-> t, resolved_at |-> 0]}
          \/ \E i \in incidents :
               /\ r.success
               /\ i.monitor = m /\ i.resolved_at = 0 /\ i.started_at <= t
               /\ incidents' = (incidents \ {i}) \cup
                                 {[i EXCEPT !.resolved_at = t]}
    BY <1>2 DEF Transition
  <2>2. /\ t \in Nat /\ t # 0
        /\ \A i \in incidents : /\ i.started_at \in Nat /\ i.resolved_at \in Nat
                                /\ i \in Incident
    <3>1. \A q \in results \cup {r} : q.checked_at \in Nat \ {0}
      BY CheckFields, TimesAndHours DEF TypeInv, TypeOK
    <3>2. t \in Nat \ {0}
      BY <2>1, <3>1
    <3> QED BY <3>2, TimesAndHours DEF TypeInv, TypeOK, Incident
  <2>3. ASSUME NEW n \in monitors, NEW h \in Hours, Begun(n, h),
               <<n, h>> \notin restated'
        PROVE  /\ <<n, h>> \notin restated
               /\ n = m => \A u \in h..(h + Hour - 1) : u < t
    <3>1. <<n, h>> \notin restated /\ <<n, h>> \notin Restated(m, t)
      BY <2>1, <2>3
    <3>2. n = m => ~(t < h + Hour)
      BY <2>3, <3>1 DEF Restated
    <3>3. h \in Nat /\ Hour \in Nat
      BY TimesAndHours
    <3> QED BY <2>2, <3>1, <3>2, <3>3
  <2>4. CASE /\ \A i \in incidents : i.monitor = m =>
                  i.resolved_at # 0 /\ i.resolved_at <= t
             /\ incidents' = incidents \cup
                  {[monitor |-> m, started_at |-> t, resolved_at |-> 0]}
    <3>1. PICK k : k = [monitor |-> m, started_at |-> t, resolved_at |-> 0]
      OBVIOUS
    <3>2. k.monitor = m /\ k.started_at = t /\ k.resolved_at = 0
      BY <3>1
    <3>3. incidents' = incidents \cup {k}
      BY <2>4, <3>1
    <3>4. OutagesApart'
      BY <2>4, <3>2, <3>3 DEF OutagesApart
    <3>5. ASSUME NEW n \in monitors, NEW h \in Hours, Begun(n, h),
                 <<n, h>> \notin restated'
          PROVE  Covered(n, h)' = Covered(n, h)
      <4>1. \A u \in h..(h + Hour - 1) :
              ~(k.monitor = n /\ k.started_at <= u)
        <5>1. h \in Nat /\ Hour \in Nat
          BY TimesAndHours
        <5> QED BY <2>2, <2>3, <3>2, <3>5, <5>1
      <4>2. \A u \in h..(h + Hour - 1) :
              (\E i \in incidents' : /\ i.monitor = n /\ i.started_at <= u
                                     /\ i.resolved_at = 0 \/ u < i.resolved_at)
              <=> (\E i \in incidents : /\ i.monitor = n /\ i.started_at <= u
                                        /\ i.resolved_at = 0 \/ u < i.resolved_at)
        BY <3>3, <4>1
      <4> QED BY <4>2 DEF Covered
    <3> QED BY <2>3, <3>4, <3>5
  <2>5. CASE \E i \in incidents :
               /\ i.monitor = m /\ i.resolved_at = 0 /\ i.started_at <= t
               /\ incidents' = (incidents \ {i}) \cup
                                 {[i EXCEPT !.resolved_at = t]}
    <3>1. PICK i \in incidents :
               /\ i.monitor = m /\ i.resolved_at = 0 /\ i.started_at <= t
               /\ incidents' = (incidents \ {i}) \cup
                                 {[i EXCEPT !.resolved_at = t]}
      BY <2>5
    <3>2. PICK k : k = [i EXCEPT !.resolved_at = t]
      OBVIOUS
    <3>3. k.monitor = m /\ k.started_at = i.started_at /\ k.resolved_at = t
      BY <2>2, <3>1, <3>2 DEF Incident
    <3>4. incidents' = (incidents \ {i}) \cup {k}
      BY <3>1, <3>2
    <3>5. OutagesApart'
      <4>1. \A j \in incidents \ {i} : j.monitor = m =>
              j.resolved_at # 0 /\ j.resolved_at <= k.started_at
        BY <3>1, <3>3 DEF OutagesApart
      <4> QED BY <3>3, <3>4, <4>1 DEF OutagesApart
    <3>6. ASSUME NEW n \in monitors, NEW h \in Hours, Begun(n, h),
                 <<n, h>> \notin restated'
          PROVE  Covered(n, h)' = Covered(n, h)
      <4>1. ASSUME NEW u \in h..(h + Hour - 1)
            PROVE  (k.monitor = n /\ k.started_at <= u
                      /\ (k.resolved_at = 0 \/ u < k.resolved_at))
                   <=> (i.monitor = n /\ i.started_at <= u
                         /\ (i.resolved_at = 0 \/ u < i.resolved_at))
        BY <2>3, <3>1, <3>3, <3>6
      <4>2. \A u \in h..(h + Hour - 1) :
              (\E j \in incidents' : /\ j.monitor = n /\ j.started_at <= u
                                     /\ j.resolved_at = 0 \/ u < j.resolved_at)
              <=> (\E j \in incidents : /\ j.monitor = n /\ j.started_at <= u
                                        /\ j.resolved_at = 0 \/ u < j.resolved_at)
        BY <3>1, <3>4, <4>1
      <4> QED BY <4>2 DEF Covered
    <3> QED BY <2>3, <3>5, <3>6
  <2> QED BY <2>1, <2>4, <2>5
<1> QED BY <1>1, <1>2

\* A check that commits comes late to the hours that were begun.
LEMMA CommitKept ==
  ASSUME RollupInv, NEW m \in monitors, NEW r \in CheckResult, Commits(m, r),
         probe[m] # 0, UNCHANGED <<monitors, torn>>,
         NEW n \in monitors, NEW h \in Hours, Begun(n, h), <<n, h>> \notin torn
  PROVE  Kept(n, h)
<1>1. /\ r.id = Cardinality(ever) + 1 /\ r.monitor = m /\ r.checked_at = probe[m]
      /\ results' = results \cup {r} /\ ever' = ever \cup {r}
      /\ late' = late \/ late' = late \cup {r.id}
      /\ Transition(m, r)
  BY DEF Commits
<1>2. /\ TypeInv /\ OutagesApart /\ IsFiniteSet(ever) /\ Cardinality(ever) \in Nat
      /\ m \in Monitors
  BY FS_CardinalityType DEF RollupInv, TypeInv, TypeOK, Finite
<1>3. \A q \in ever : q.id # r.id
  <2>1. \A q \in ever : q.id \in Nat /\ q.id <= Cardinality(ever)
    BY <1>2, CheckFields DEF TypeInv, TypeOK, Finite
  <2> QED BY <1>1, <1>2, <2>1
<1>4. /\ OutagesApart'
      /\ <<n, h>> \notin restated' =>
           <<n, h>> \notin restated /\ Covered(n, h)' = Covered(n, h)
  BY <1>1, <1>2, TransitionKeeps
<1>5. CASE ~InHour(r, n, h)
  <2>1. Checked(n, h)' = Checked(n, h)
    BY <1>1, <1>5 DEF Checked, InHour
  <2>2. \A q \in Checked(n, h) : q.id \in late' <=> q.id \in late
    BY <1>1, <1>3 DEF Checked
  <2>3. OnTime(n, h)' = OnTime(n, h)
    BY <2>1, <2>2 DEF OnTime
  <2> QED BY <1>4, <2>1, <2>3 DEF Kept
<1>6. CASE InHour(r, n, h)
  <2>1. n = m /\ h = HourOf(r.checked_at)
    BY <1>1, <1>6, CheckFields, TimesAndHours DEF InHour
  <2>2. h + Hour <= now
    <3>1. CASE StatOf(n, h) # {}
      BY <3>1 DEF StatOf, RollupInv, HoursOver
    <3>2. CASE \E e \in Rollups : Running(e) /\ rollup[e].hour_start = h
      BY <3>2 DEF Running, Active, RollupInv, HoursOver
    <3> QED BY <3>1, <3>2 DEF Begun
  <2>3. now >= HourOf(r.checked_at) + Hour
    <3>1. now \in Nat /\ h \in Nat /\ Hour \in Nat
      BY <1>2, TimesAndHours DEF TypeInv, TypeOK
    <3> QED BY <2>1, <2>2, <3>1
  <2>4. late' = late \cup {r.id}
    BY <2>1, <2>3 DEF Commits
  <2>5. Checked(n, h)' = Checked(n, h) \cup {r}
    BY <1>1, <1>6 DEF Checked, InHour
  <2>6. \A q \in Checked(n, h) : q.id \in late' <=> q.id \in late
    BY <1>1, <1>3 DEF Checked
  <2>7. OnTime(n, h)' = OnTime(n, h)
    BY <2>4, <2>5, <2>6 DEF OnTime
  <2>8. r \in Checked(n, h)' /\ r \notin OnTime(n, h)'
    BY <2>4, <2>5 DEF OnTime
  <2>9. OnTime(n, h)' # Checked(n, h)'
    BY <2>8
  <2> QED BY <1>4, <2>5, <2>7, <2>9 DEF Kept
<1> QED BY <1>5, <1>6

\* its commit, which may come late and move an incident,
LEMMA CommitKeeps ==
  ASSUME RollupInv, NEW m \in Monitors, CommitCheck(m)
  PROVE  RollupInv'
<1>1. TypeInv /\ TypeInv'
  BY TypeNext DEF RollupInv, Next
<1>2. /\ probe[m] # 0 /\ probe' = [probe EXCEPT ![m] = 0]
      /\ UNCHANGED <<now, monitors, stats, rollup, purge, torn, purges>>
  BY <1>1, CommitSteps
<1>3. Timely' /\ HoursOver'
  <2>1. probe \in [Monitors -> Times \cup {0}]
    BY <1>1 DEF TypeInv, TypeOK
  <2> QED BY <1>2, <2>1 DEF RollupInv, Timely, HoursOver
<1>4. \A s \in stats' : s.monitor \in monitors'
  BY <1>2 DEF RollupInv, HoursOver
<1>5. CASE UNCHANGED <<results, incidents, ever, late, restated>>
  <2>1. OutagesApart' /\ PurgeFits'
    BY <1>2, <1>5 DEF RollupInv, OutagesApart, PurgeFits, StatOf
  <2>2. \A n \in monitors', h \in Hours : <<n, h>> \notin torn' => Kept(n, h)
    BY <1>2, <1>5, HourUntouched
  <2>3. \A n \in monitors' : \A h : Readable(n, h)
    BY <1>5, ResultsUntouched
  <2>4. /\ \A e \in Rollups : RunFits(rollup[e])'
        /\ \A s \in stats' : Exact(s)'
    BY <1>1, <1>2, <1>4, <2>2, <2>3, StepKeeps
  <2> QED BY <1>1, <1>3, <2>1, <2>4 DEF RollupInv
<1>6. CASE m \in monitors /\ \E r \in CheckResult : Commits(m, r)
  <2>1. PICK r \in CheckResult : Commits(m, r)
    BY <1>6
  <2>2. /\ r.monitor = m /\ r.checked_at = probe[m]
        /\ results' = results \cup {r} /\ ever' = ever \cup {r}
        /\ Transition(m, r)
    BY <2>1 DEF Commits
  <2>3. OutagesApart'
    BY <1>1, <2>2, TransitionKeeps DEF RollupInv
  <2>4. PurgeFits'
    <3>1. \A n \in Monitors, g \in Hours : <<n, g>> \in purge' =>
            g + Retention < now' /\ (n \in monitors' => StatOf(n, g)' # {})
      BY <1>2 DEF RollupInv, PurgeFits, StatOf
    <3>2. ASSUME NEW q \in ever', q \notin results', q.monitor \in monitors'
          PROVE  /\ HourOf(q.checked_at) + Hour + MaxLag < now'
                 /\ \A p \in results' : ~InHour(p, q.monitor, HourOf(q.checked_at))
      <4>1. /\ HourOf(q.checked_at) + Hour + MaxLag < now
            /\ \A p \in results : ~InHour(p, q.monitor, HourOf(q.checked_at))
        BY <1>2, <2>2, <3>2 DEF RollupInv, PurgeFits
      <4>2. now <= r.checked_at + MaxLag
        BY <1>2, <2>2 DEF RollupInv, Timely
      <4>3. /\ HourOf(q.checked_at) \in Nat /\ now \in Nat /\ MaxLag \in Nat
            /\ Hour \in Nat /\ r.checked_at \in Nat
        BY <1>1, CheckFields, TimesAndHours, RollupAssumption
           DEF TypeInv, TypeOK, RollupAssumption
      <4>4. ~(r.checked_at < HourOf(q.checked_at) + Hour)
        BY <4>1, <4>2, <4>3
      <4>5. ~InHour(r, q.monitor, HourOf(q.checked_at))
        BY <4>4 DEF InHour
      <4> QED BY <1>2, <2>2, <4>1, <4>5
    <3> QED BY <3>1, <3>2 DEF PurgeFits
  <2>5. \A n \in monitors', h \in Hours :
          <<n, h>> \notin torn' /\ Begun(n, h) => Kept(n, h)
    BY <1>2, <1>6, <2>1, CommitKept
  <2>6. \A n \in monitors' : \A h : Readable(n, h)
    BY <2>2 DEF Readable, Checked, InHour
  <2>7. /\ \A e \in Rollups : RunFits(rollup[e])'
        /\ \A s \in stats' : Exact(s)'
    BY <1>1, <1>2, <1>4, <2>5, <2>6, StepKeeps
  <2> QED BY <1>1, <1>3, <2>3, <2>4, <2>7 DEF RollupInv
<1> QED BY <1>1, <1>5, <1>6, CommitSteps

\* the rollup makes a step.  What incident_windows_for_monitor returns and
\* compute_downtime_seconds adds up is what the incidents cover of the hour.
LEMMA WindowsCover ==
  ASSUME TypeInv, OutagesApart, NEW m \in Monitors, NEW h \in Hours,
         NEW ws, ws = IncidentWindows(m, h, h + Hour)
  PROVE  DowntimeSeconds(ws, h, h + Hour) = Cardinality(Covered(m, h))
<1>1. /\ h \in Nat /\ Hour \in Nat \ {0} /\ h + Hour \in Nat
      /\ \A i \in incidents : i.started_at \in Nat /\ i.resolved_at \in Nat
      /\ IsFiniteSet(incidents)
  <2>1. /\ \A i \in incidents : i \in Incident
        /\ IsFiniteSet(incidents)
    BY DEF TypeInv, TypeOK, Finite
  <2>2. \A i \in Incident : i.started_at \in Nat /\ i.resolved_at \in Nat
    BY TimesAndHours DEF Incident
  <2> QED BY <2>1, <2>2, TimesAndHours
<1>2. /\ ws \subseteq incidents
      /\ \A i \in ws : i.monitor = m
  BY DEF IncidentWindows
<1>3. IsFiniteSet(ws)
  BY <1>1, <1>2, FS_Subset
<1>4. \A v, w \in ws : v # w =>
         \/ v.resolved_at # 0 /\ v.resolved_at <= w.started_at
         \/ w.resolved_at # 0 /\ w.resolved_at <= v.started_at
  BY <1>2 DEF OutagesApart
<1>5. DowntimeSeconds(ws, h, h + Hour) =
        Cardinality(UNION {TicksOf(w, h, h + Hour) : w \in ws})
  BY <1>1, <1>2, <1>3, <1>4, DowntimeIsCoverage
<1>6. ASSUME NEW t
      PROVE  t \in UNION {TicksOf(w, h, h + Hour) : w \in ws} <=> t \in Covered(m, h)
  <2>1. ASSUME NEW w \in ws, t \in TicksOf(w, h, h + Hour)
        PROVE  t \in Covered(m, h)
    <3>1. /\ t \in h..(h + Hour - 1) /\ w.started_at <= t
          /\ w.resolved_at = 0 \/ t < w.resolved_at
      BY <1>1, <2>1 DEF TicksOf
    <3>2. w \in incidents /\ w.monitor = m
      BY <1>2
    <3> QED BY <3>1, <3>2 DEF Covered
  <2>2. ASSUME t \in Covered(m, h)
        PROVE  \E w \in ws : t \in TicksOf(w, h, h + Hour)
    <3>1. /\ t \in h..(h + Hour - 1)
          /\ \E i \in incidents : /\ i.monitor = m /\ i.started_at <= t
                                  /\ i.resolved_at = 0 \/ t < i.resolved_at
      BY <2>2 DEF Covered
    <3>2. PICK i \in incidents : /\ i.monitor = m /\ i.started_at <= t
                                 /\ i.resolved_at = 0 \/ t < i.resolved_at
      BY <3>1
    <3>3. i.started_at < h + Hour /\ (i.resolved_at > h \/ i.resolved_at = 0)
      BY <1>1, <3>1, <3>2
    <3>4. i \in ws
      BY <3>2, <3>3 DEF IncidentWindows
    <3>5. t \in TicksOf(i, h, h + Hour)
      BY <1>1, <3>1, <3>2 DEF TicksOf
    <3> QED BY <3>4, <3>5
  <2> QED BY <2>1, <2>2
<1>7. UNION {TicksOf(w, h, h + Hour) : w \in ws} = Covered(m, h)
  BY <1>6
<1> QED BY <1>5, <1>7

\* Each query finds what it should.
LEMMA RunProceeds ==
  ASSUME RollupInv, NEW x \in RollupState, NEW s \in RollupState,
         RunFits(x), Proceeds(x, s)
  PROVE  RunFits(s)
<1>1. CASE s.pc = "over"
  BY <1>1 DEF RunFits, Pending, Active
<1>2. CASE Starts(x, s)
  <2>1. PICK h \in Hours : h = s.hour_start
    BY RollupFields
  <2>2. ASSUME NEW m \in monitors, m \in Pending(s)
        PROVE  Checked(m, h) \subseteq results
    <3>1. PICK r \in results : InHour(r, m, h)
      BY <1>2, <2>1, <2>2 DEF Starts, Pending
    <3> SUFFICES ASSUME NEW q \in ever, InHour(q, m, h), q \notin results
                 PROVE  FALSE
      BY DEF Checked
    <3>2. q.monitor = m /\ q.checked_at \in Times
      BY CheckFields DEF InHour, RollupInv, TypeInv, TypeOK
    <3>3. h = HourOf(q.checked_at)
      BY <3>2, TimesAndHours DEF InHour
    <3> QED BY <3>1, <3>2, <3>3 DEF RollupInv, PurgeFits
  <2>3. s.pc = "next"
    BY <1>2 DEF Starts
  <2> QED BY <2>1, <2>2, <2>3 DEF RunFits
<1>3. CASE Counts(x, s)
  <2>1. PICK h : h = x.hour_start
    OBVIOUS
  <2>2. /\ x.pc = "next" /\ s.pc = "times" /\ s.hour_start = h
        /\ s.monitor \in x.todo /\ s.todo = x.todo \ {s.monitor}
        /\ s.checks = {r \in results : InHour(r, s.monitor, h)}
    BY <1>3, <2>1 DEF Counts
  <2>3. Pending(s) = Pending(x) /\ s.monitor \in Pending(x)
    BY <2>2 DEF Pending
  <2>4. \A m \in monitors : <<m, h>> \notin torn /\ m \in Pending(x) =>
          Checked(m, h) \subseteq results
    BY <2>1 DEF RunFits
  <2>5. results \subseteq ever
    BY DEF RollupInv, TypeInv, Finite
  <2>6. ASSUME s.monitor \in monitors, <<s.monitor, h>> \notin torn
        PROVE  /\ OnTime(s.monitor, h) \subseteq s.checks
               /\ s.checks \subseteq Checked(s.monitor, h)
    BY <2>2, <2>3, <2>4, <2>5, <2>6 DEF OnTime, Checked
  <2> QED BY <2>2, <2>3, <2>4, <2>6 DEF RunFits
<1>4. CASE Measures(x, s)
  <2>1. PICK h : h = x.hour_start
    OBVIOUS
  <2>2. /\ x.pc = "times" /\ s.pc = "windows"
        /\ s.hour_start = h /\ s.monitor = x.monitor /\ s.todo = x.todo
        /\ s.checks = x.checks
        /\ s.successes = {r \in results : InHour(r, x.monitor, h) /\ r.success}
    BY <1>4, <2>1 DEF Measures
  <2>3. Pending(s) \subseteq Pending(x) /\ s.monitor \in Pending(x)
    BY <2>2 DEF Pending, Active
  <2>4. \A m \in monitors : <<m, h>> \notin torn =>
          /\ m \in Pending(x) => Checked(m, h) \subseteq results
          /\ m = x.monitor => /\ OnTime(m, h) \subseteq x.checks
                              /\ x.checks \subseteq Checked(m, h)
    BY <2>1, <2>2 DEF RunFits
  <2>5. results \subseteq ever
    BY DEF RollupInv, TypeInv, Finite
  <2>6. ASSUME s.monitor \in monitors, <<s.monitor, h>> \notin torn
        PROVE  /\ Successes(OnTime(s.monitor, h)) \subseteq s.successes
               /\ s.successes \subseteq Successes(Checked(s.monitor, h))
    BY <2>2, <2>3, <2>4, <2>5, <2>6 DEF OnTime, Checked, Successes
  <2> QED BY <2>2, <2>3, <2>4, <2>6 DEF RunFits
<1>5. CASE Looks(x, s)
  <2>1. PICK h \in Hours : h = x.hour_start
    BY RollupFields
  <2>2. /\ x.pc = "windows" /\ s.pc = "save"
        /\ s.hour_start = h /\ s.monitor = x.monitor /\ s.todo = x.todo
        /\ s.checks = x.checks /\ s.successes = x.successes
        /\ s.windows = IncidentWindows(x.monitor, h, h + Hour)
    BY <1>5, <2>1 DEF Looks
  <2>3. Pending(s) \subseteq Pending(x)
    BY <2>2 DEF Pending, Active
  <2>4. \A m \in monitors : <<m, h>> \notin torn =>
          /\ m \in Pending(x) => Checked(m, h) \subseteq results
          /\ m = x.monitor => /\ OnTime(m, h) \subseteq x.checks
                              /\ x.checks \subseteq Checked(m, h)
          /\ m = x.monitor => /\ Successes(OnTime(m, h)) \subseteq x.successes
                              /\ x.successes \subseteq Successes(Checked(m, h))
    BY <2>1, <2>2 DEF RunFits
  <2>5. ASSUME s.monitor \in monitors
        PROVE  DowntimeSeconds(s.windows, h, h + Hour)
                 = Cardinality(Covered(s.monitor, h))
    <3>1. s.monitor \in Monitors /\ TypeInv /\ OutagesApart
      BY <2>5 DEF RollupInv, TypeInv, TypeOK
    <3> QED BY <2>2, <3>1, WindowsCover
  <2> QED BY <2>2, <2>3, <2>4, <2>5 DEF RunFits
<1>6. CASE Continues(x, s)
  <2>1. Pending(s) = Pending(x)
    BY <1>6 DEF Continues, Pending, Active
  <2> QED BY <1>6, <2>1 DEF Continues, RunFits
<1> QED BY <1>1, <1>2, <1>3, <1>4, <1>5, <1>6 DEF Proceeds

\* The row that update_or_create writes is right.
LEMMA NewStatExact ==
  ASSUME RollupInv, NEW e \in Rollups, rollup[e].pc = "save",
         rollup[e].monitor \in monitors
  PROVE  Exact(NewStat(e))
<1>1. PICK x : x = rollup[e]
  OBVIOUS
<1>2. PICK m \in monitors : m = x.monitor
  BY <1>1
<1>3. PICK h \in Hours : h = x.hour_start
  BY <1>1, RollupFields DEF RollupInv, TypeInv, TypeOK
<1>4. PICK new : new = NewStat(e)
  OBVIOUS
<1>5. PICK times : times = ResponseTimeStats(x.successes)
  OBVIOUS
<1>6. /\ new.monitor = m /\ new.hour_start = h
      /\ new.checks_total = Cardinality(x.checks)
      /\ new.checks_failed = Cardinality({r \in x.checks : ~r.success})
      /\ new.timed = (x.successes # {})
      /\ new.avg_response_ms = times.avg /\ new.p95_response_ms = times.p95
      /\ new.min_response_ms = times.minimum
      /\ new.max_response_ms = times.maximum
      /\ new.downtime_seconds = DowntimeSeconds(x.windows, h, h + Hour)
  BY <1>1, <1>2, <1>3, <1>4, <1>5 DEF NewStat
<1> SUFFICES ASSUME <<m, h>> \notin torn PROVE Exact(new)
  BY <1>4, <1>6 DEF Exact
<1>7. /\ OnTime(m, h) \subseteq x.checks /\ x.checks \subseteq Checked(m, h)
      /\ Successes(OnTime(m, h)) \subseteq x.successes
      /\ x.successes \subseteq Successes(Checked(m, h))
      /\ <<m, h>> \notin restated =>
           new.downtime_seconds = Cardinality(Covered(m, h))
  <2>1. RunFits(x) /\ x.pc = "save"
    BY <1>1 DEF RollupInv
  <2> QED BY <1>2, <1>3, <1>6, <2>1 DEF RunFits
<1>8. PICK C : C = Checked(m, h)
  OBVIOUS
<1>9. /\ IsFiniteSet(C) /\ Cardinality(C) \in Nat
      /\ Cardinality(OnTime(m, h)) \in Nat
      /\ \A c \in C : c.response_time_ms \in Nat /\ c.success \in BOOLEAN
  BY <1>8, CheckedFinite, CheckFields DEF RollupInv
<1>10. new.checks_total \in Cardinality(OnTime(m, h))..Cardinality(C)
  <2>1. /\ IsFiniteSet(x.checks) /\ Cardinality(x.checks) \in Nat
        /\ Cardinality(x.checks) <= Cardinality(C)
    BY <1>7, <1>8, <1>9, FS_Subset, FS_CardinalityType
  <2>2. Cardinality(OnTime(m, h)) <= Cardinality(x.checks)
    BY <1>7, <2>1, FS_Subset
  <2> QED BY <1>6, <1>9, <2>1, <2>2
<1>11. ASSUME OnTime(m, h) = C PROVE Describes(new, C)
  <2>1. x.checks = C /\ x.successes = Successes(C)
    BY <1>7, <1>8, <1>11
  <2>2. PICK S : S = Successes(C)
    OBVIOUS
  <2>3. S \subseteq C /\ {r \in C : ~r.success} = C \ S
    BY <2>2 DEF Successes
  <2>4. IsFiniteSet(S) /\ \A c \in S : c.response_time_ms \in Nat
    BY <1>9, <2>3, FS_Subset
  <2>5. new.checks_failed = Cardinality(C) - Cardinality(S)
    <3>1. C \cap S = S
      BY <2>3
    <3>2. Cardinality(C \ S) = Cardinality(C) - Cardinality(C \cap S)
      BY <1>9, FS_Difference
    <3> QED BY <1>6, <2>1, <2>3, <3>1, <3>2
  <2>6. ASSUME S # {}
        PROVE  /\ Nearest(new.avg_response_ms, TotalTime(S), Cardinality(S))
               /\ Percentile95(new.p95_response_ms, S)
               /\ \A c \in S :
                    c.response_time_ms \in new.min_response_ms..new.max_response_ms
    <3>1. times = ResponseTimeStats(S)
      BY <1>5, <2>1, <2>2
    <3>2. Percentile95(times.p95, S)
      BY <2>4, <2>6, <3>1, PercentileOfAny
    <3>3. PICK n : n = Cardinality(S)
      OBVIOUS
    <3>4. /\ times.minimum \in Nat /\ times.maximum \in Nat
          /\ 2 * (times.avg * n - TotalTime(S)) <= n
          /\ 2 * (TotalTime(S) - times.avg * n) <= n
          /\ \A c \in S : /\ times.minimum <= c.response_time_ms
                          /\ c.response_time_ms <= times.maximum
      BY <2>4, <2>6, <3>1, <3>3, ResponseTimeStatsCorrect
    <3>5. Nearest(times.avg, TotalTime(S), n)
      BY <3>4 DEF Nearest
    <3>6. \A c \in S : c.response_time_ms \in times.minimum..times.maximum
      BY <2>4, <3>4
    <3> QED BY <1>6, <3>2, <3>3, <3>5, <3>6
  <2>7. new.checks_total = Cardinality(C)
    BY <1>6, <2>1
  <2>8. new.timed <=> S # {}
    BY <1>6, <2>1, <2>2
  <2> QED BY <2>2, <2>5, <2>6, <2>7, <2>8 DEF Describes
<1> QED BY <1>6, <1>7, <1>8, <1>10, <1>11 DEF Exact

\* and every step of a rollup.
LEMMA RollupKeeps ==
  ASSUME RollupInv, NEW e \in Rollups, RollupNext(e)
  PROVE  RollupInv'
<1>1. TypeInv /\ TypeInv'
  BY TypeNext DEF RollupInv, Next
<1>2. PICK s \in RollupState : /\ rollup' = [rollup EXCEPT ![e] = s]
                               /\ Proceeds(rollup[e], s)
  BY <1>1, RollupSteps
<1>3. /\ \/ stats' = stats
         \/ /\ rollup[e].pc = "save" /\ rollup[e].monitor \in monitors
            /\ stats' = UpdatedOrCreated(e)
      /\ UNCHANGED <<now, monitors, probe, results, incidents, purge, ever,
                     late, restated, torn, purges>>
  BY <1>1, RollupSteps
<1>4. /\ rollup \in [Rollups -> RollupState] /\ now \in Nat /\ Hour \in Nat
      /\ monitors \subseteq Monitors
  BY <1>1, TimesAndHours DEF TypeInv, TypeOK
<1>5. Timely' /\ OutagesApart'
  BY <1>3 DEF RollupInv, Timely, OutagesApart
<1>6. ASSUME NEW p \in stats'
      PROVE  \/ p \in stats
             \/ /\ p = NewStat(e) /\ rollup[e].pc = "save"
                /\ p \in StatRow
                /\ rollup[e].monitor \in monitors
                /\ p.monitor = rollup[e].monitor
                /\ p.hour_start = rollup[e].hour_start
  BY <1>1, <1>3, <1>4, StatsStayUnique, NewStatType
<1>7. HoursOver'
  <2>1. ASSUME NEW p \in stats' PROVE p.monitor \in monitors /\ p.hour_start + Hour <= now
    <3>1. CASE p \in stats
      BY <3>1 DEF RollupInv, HoursOver
    <3>2. CASE p \notin stats
      <4>1. /\ rollup[e].pc = "save" /\ rollup[e].monitor \in monitors
            /\ p.monitor = rollup[e].monitor /\ p.hour_start = rollup[e].hour_start
        BY <1>6, <3>2
      <4> QED BY <4>1 DEF RollupInv, HoursOver, Active
    <3> QED BY <3>1, <3>2
  <2>2. ASSUME NEW d \in Rollups, Active(rollup'[d])
        PROVE  rollup'[d].hour_start + Hour <= now
    <3>1. CASE d # e
      BY <1>2, <1>4, <2>2, <3>1 DEF RollupInv, HoursOver
    <3>2. CASE d = e
      <4>1. rollup'[d] = s
        BY <1>2, <1>4, <3>2
      <4>2. CASE Starts(rollup[e], s)
        <5>1. s.hour_start \in Hours /\ s.hour_start <= HourOf(now) - Hour
          BY <4>2 DEF Starts, HoursToRollUp
        <5>2. HourOf(now) <= now /\ HourOf(now) \in Nat /\ s.hour_start \in Nat
          BY <1>4, <5>1, HourIsUnique, TimesAndHours
        <5> QED BY <1>4, <4>1, <5>1, <5>2
      <4>3. CASE ~Starts(rollup[e], s)
        <5>1. Active(rollup[e]) /\ s.hour_start = rollup[e].hour_start
          BY <1>2, <2>2, <4>1, <4>3
             DEF Proceeds, Counts, Measures, Looks, Continues, Active
        <5> QED BY <4>1, <5>1 DEF RollupInv, HoursOver
      <4> QED BY <4>2, <4>3
    <3> QED BY <3>1, <3>2
  <2> QED BY <1>3, <2>1, <2>2 DEF HoursOver, Active
<1>8. PurgeFits'
  <2>1. ASSUME NEW m \in Monitors, NEW h \in Hours, <<m, h>> \in purge'
        PROVE  h + Retention < now' /\ (m \in monitors' => StatOf(m, h)' # {})
    <3>1. h + Retention < now /\ (m \in monitors => StatOf(m, h) # {})
      BY <1>3, <2>1 DEF RollupInv, PurgeFits
    <3>2. ASSUME NEW p \in StatOf(m, h) PROVE StatOf(m, h)' # {}
      <4>1. CASE p \in stats'
        BY <3>2, <4>1 DEF StatOf
      <4>2. CASE p \notin stats'
        <5>1. /\ rollup[e].monitor \in Monitors
              /\ stats' = UpdatedOrCreated(e) /\ p \in stats
          BY <1>3, <1>4, <3>2, <4>2 DEF StatOf
        <5>2. p \in StatOf(rollup[e].monitor, rollup[e].hour_start)
          BY <4>2, <5>1 DEF UpdatedOrCreated
        <5>3. /\ NewStat(e) \in stats' /\ NewStat(e).monitor = m
              /\ NewStat(e).hour_start = h
          BY <1>1, <3>2, <5>1, <5>2, StatsStayUnique, NewStatType DEF StatOf
        <5> QED BY <5>3 DEF StatOf
      <4> QED BY <4>1, <4>2
    <3> QED BY <1>3, <3>1, <3>2
  <2>2. \A r \in ever' : r \notin results' /\ r.monitor \in monitors' =>
          /\ HourOf(r.checked_at) + Hour + MaxLag < now'
          /\ \A q \in results' : ~InHour(q, r.monitor, HourOf(r.checked_at))
    BY <1>3 DEF RollupInv, PurgeFits
  <2> QED BY <2>1, <2>2 DEF PurgeFits
<1>9. \A n \in monitors' : \A h : <<n, h>> \notin torn' => Kept(n, h)
  BY <1>3, HourUntouched
<1>10. \A n \in monitors' : \A h : Readable(n, h)
  BY <1>3, ResultsUntouched
<1>11. ASSUME NEW d \in Rollups PROVE RunFits(rollup[d])'
  <2>1. PICK x : x = rollup'[d]
    OBVIOUS
  <2>2. RunFits(x)
    <3>1. CASE d # e
      BY <1>2, <1>4, <2>1, <3>1 DEF RollupInv
    <3>2. CASE d = e
      <4>1. x = s /\ RunFits(rollup[e]) /\ rollup[e] \in RollupState
        BY <1>2, <1>4, <2>1, <3>2 DEF RollupInv
      <4> QED BY <1>2, <4>1, RunProceeds
    <3> QED BY <3>1, <3>2
  <2>3. RunFits(x)'
    BY <1>9, <1>10, <2>2, RunsKept
  <2> QED BY <2>1, <2>3 DEF RunFits, Pending, Active, Successes
<1>12. ASSUME NEW p \in stats' PROVE Exact(p)'
  <2>1. p \in StatRow /\ p.monitor \in monitors'
    BY <1>1, <1>7 DEF TypeInv, TypeOK, HoursOver
  <2>2. Exact(p)
    BY <1>6, NewStatExact DEF RollupInv
  <2> QED BY <1>1, <1>9, <2>1, <2>2, StatsKept
<1> QED BY <1>1, <1>5, <1>7, <1>8, <1>11, <1>12 DEF RollupInv

\* and so always.
LEMMA RollupInvNext == RollupInv /\ [Next]_vars => RollupInv'
<1> SUFFICES ASSUME RollupInv, [Next]_vars PROVE RollupInv'
  OBVIOUS
<1>1. CASE Tick
  BY <1>1, TickKeeps
<1>2. ASSUME NEW m \in Monitors, BeginCheck(m) PROVE RollupInv'
  BY <1>2, BeginKeeps
<1>3. ASSUME NEW m \in Monitors, CommitCheck(m) PROVE RollupInv'
  BY <1>3, CommitKeeps
<1>4. ASSUME NEW m \in Monitors, DeleteMonitor(m) PROVE RollupInv'
  BY <1>4, DeleteKeeps
<1>5. ASSUME NEW e \in Rollups, RollupNext(e) PROVE RollupInv'
  BY <1>5, RollupKeeps
<1>6. CASE StartPurge
  BY <1>6, StartPurgeKeeps
<1>7. ASSUME NEW m \in Monitors, NEW h \in Hours, PurgeHour(m, h) PROVE RollupInv'
  BY <1>7, PurgeHourKeeps
<1>8. CASE UNCHANGED vars
  <2>1. TypeInv /\ TypeInv'
    BY TypeNext DEF RollupInv
  <2>2. UNCHANGED <<now, monitors, probe, results, incidents, stats, rollup,
                    purge, ever, late, restated, torn, purges>>
    BY <1>8 DEF vars
  <2>3. Timely' /\ OutagesApart' /\ HoursOver' /\ PurgeFits'
    BY <2>2 DEF RollupInv, Timely, OutagesApart, HoursOver, PurgeFits, StatOf
  <2>4. \A n \in monitors', h \in Hours : <<n, h>> \notin torn' => Kept(n, h)
    BY <2>2, HourUntouched
  <2>5. \A n \in monitors' : \A h : Readable(n, h)
    BY <2>2, ResultsUntouched
  <2>6. \A s \in stats' : s.monitor \in monitors'
    BY <2>2 DEF RollupInv, HoursOver
  <2>7. /\ \A e \in Rollups : RunFits(rollup[e])'
        /\ \A s \in stats' : Exact(s)'
    BY <2>1, <2>2, <2>4, <2>5, <2>6, StepKeeps
  <2> QED BY <2>1, <2>3, <2>7 DEF RollupInv
<1> QED BY <1>1, <1>2, <1>3, <1>4, <1>5, <1>6, <1>7, <1>8 DEF Next

\* So it always holds.
LEMMA RollupInvHolds == Spec => []RollupInv
<1> QED BY RollupInit, RollupInvNext, PTL DEF Spec

-----------------------------------------------------------------------------
(* What follows                                                            *)

\* MonitorHourlyStat (models.py:95-145): a row describes exactly the checks
\* begun in its hour, however rollups, checks, incidents, deletions and purges
\* are interleaved with the queries that it is computed from.
THEOREM SummariesAreExact == Spec => []SummariesExact
<1>1. RollupInv => SummariesExact
  BY DEF RollupInv, SummariesExact, Exact
<1> QED BY <1>1, RollupInvHolds, PTL

\* purge_old_check_results (tasks.py:198-209): raw rows are deleted only when
\* they are old, and of those that the summary of their hour has not counted
\* only the late ones: those that committed after a rollup of it had begun.
THEOREM PurgeLosesOnlyLateChecks == Spec => OnlyLateChecksAreLost
<1>1. RollupInv /\ [Next]_vars =>
        [\A r \in results \ results' :
           r.monitor \in monitors' =>
             /\ now - r.checked_at > Retention - Hour
             /\ \/ r.id \in late
                \/ \E s \in stats :
                     /\ s.monitor = r.monitor /\ s.hour_start = HourOf(r.checked_at)
                     /\ \/ <<s.monitor, s.hour_start>> \in torn
                        \/ s.checks_total >=
                             Cardinality(OnTime(s.monitor, s.hour_start))]_vars
  <2> SUFFICES ASSUME RollupInv, [Next]_vars,
                      NEW r \in results \ results', r.monitor \in monitors'
               PROVE
             /\ now - r.checked_at > Retention - Hour
             /\ \E s \in stats :
                     /\ s.monitor = r.monitor /\ s.hour_start = HourOf(r.checked_at)
                     /\ \/ <<s.monitor, s.hour_start>> \in torn
                        \/ s.checks_total >=
                             Cardinality(OnTime(s.monitor, s.hour_start))
    OBVIOUS
  <2>1. \E m \in Monitors, h \in Hours : PurgeHour(m, h)
    <3>1. CASE \E m \in Monitors : CommitCheck(m)
      BY <3>1, CommitSteps DEF Commits, RollupInv
    <3>2. CASE \E m \in Monitors : DeleteMonitor(m)
      BY <3>2 DEF DeleteMonitor
    <3>3. CASE \E e \in Rollups : RollupNext(e)
      BY <3>3, RollupSteps DEF RollupInv
    <3>4. CASE Tick \/ (\E m \in Monitors : BeginCheck(m)) \/ StartPurge
               \/ UNCHANGED vars
      BY <3>4 DEF Tick, BeginCheck, StartPurge, engine, vars
    <3> QED BY <3>1, <3>2, <3>3, <3>4 DEF Next
  <2>2. PICK m \in Monitors, h \in Hours : PurgeHour(m, h)
    BY <2>1
  <2>3. /\ InHour(r, m, h) /\ <<m, h>> \in purge /\ monitors' = monitors
    BY <2>2 DEF PurgeHour
  <2>4. /\ r.monitor = m /\ r.checked_at \in Times /\ r.checked_at \in Nat
        /\ h <= r.checked_at /\ r.checked_at < h + Hour
    BY <2>3, CheckFields DEF InHour, RollupInv, TypeInv, TypeOK
  <2>5. h = HourOf(r.checked_at)
    BY <2>4, TimesAndHours
  <2>6. h + Retention < now /\ StatOf(m, h) # {}
    BY <2>3, <2>4 DEF RollupInv, PurgeFits
  <2>7. now \in Nat /\ h \in Nat /\ Hour \in Nat /\ Retention \in Nat
    BY TimesAndHours, RollupAssumption
       DEF RollupInv, TypeInv, TypeOK, RollupAssumption
  <2>8. now - r.checked_at > Retention - Hour
    BY <2>4, <2>6, <2>7
  <2>9. PICK s \in stats : s.monitor = m /\ s.hour_start = h
    BY <2>6 DEF StatOf
  <2>10. \/ <<m, h>> \in torn
         \/ s.checks_total \in Cardinality(OnTime(m, h))..Cardinality(Checked(m, h))
    BY <2>9 DEF RollupInv, Exact
  <2>11. \/ <<m, h>> \in torn \/ s.checks_total >= Cardinality(OnTime(m, h))
    BY <2>10, CheckedFinite DEF RollupInv
  <2> QED BY <2>4, <2>5, <2>8, <2>9, <2>11
<1> QED BY <1>1, RollupInvHolds, PTL DEF Spec, OnlyLateChecksAreLost

-----------------------------------------------------------------------------
(* The statistics endpoint                                                 *)

\* The rows of a period are of different hours, each over and in the period.
LEMMA PeriodRows ==
  ASSUME RollupInv, NEW m \in monitors, NEW rows, rows = StatsInPeriod(m)
  PROVE  /\ IsFiniteSet(rows) /\ rows \subseteq stats
         /\ now \in Nat /\ Period \in Nat
         /\ \A s \in rows :
              /\ s.monitor = m /\ s.hour_start \in Hours /\ s.hour_start \in Nat
              /\ s.hour_start >= now - Period
              /\ s.checks_total \in Nat /\ s.checks_failed \in Nat
              /\ s.avg_response_ms \in Nat
         /\ \A s, r \in rows : s # r => s.hour_start # r.hour_start
<1>1. rows \subseteq stats /\ \A s \in rows : s.monitor = m /\ s.hour_start >= now - Period
  BY DEF StatsInPeriod
<1>2. /\ stats \subseteq StatRow /\ IsFiniteSet(stats) /\ now \in Times
      /\ \A s, r \in stats :
           s.monitor = r.monitor /\ s.hour_start = r.hour_start => s = r
  BY DEF RollupInv, TypeInv, TypeOK, Finite
<1>3. \A s \in StatRow : /\ s.hour_start \in Hours /\ s.checks_total \in Nat
                         /\ s.checks_failed \in Nat /\ s.avg_response_ms \in Nat
  BY DEF StatRow
<1>4. now \in Nat /\ Period \in Nat /\ Hours \subseteq Nat
  BY <1>2, TimesAndHours, RollupAssumption DEF RollupAssumption
<1>5. IsFiniteSet(rows)
  BY <1>1, <1>2, FS_Subset
<1> QED BY <1>1, <1>2, <1>3, <1>4, <1>5

\* Different hours have no check in common.
LEMMA HoursAreApart ==
  ASSUME RollupInv, NEW m, NEW g \in Hours, NEW h \in Hours, g # h
  PROVE  Checked(m, g) \cap Checked(m, h) = {}
<1> SUFFICES ASSUME NEW c, c \in Checked(m, g), c \in Checked(m, h) PROVE FALSE
  OBVIOUS
<1>1. c \in ever /\ ever \subseteq CheckResult
  BY DEF Checked, RollupInv, TypeInv, TypeOK
<1>2. c.checked_at \in Times
  BY <1>1, CheckFields
<1>3. /\ g <= c.checked_at /\ c.checked_at < g + Hour
      /\ h <= c.checked_at /\ c.checked_at < h + Hour
  BY DEF Checked, InHour
<1> QED BY <1>2, <1>3, TimesAndHours

\* No check from before the period is counted, and every later one is whose hour
\* has its row.
LEMMA PeriodCounts ==
  ASSUME RollupInv, NEW m \in monitors, NEW rows, rows = StatsInPeriod(m),
         NEW checks, checks = UNION {Checked(m, s.hour_start) : s \in rows}
  PROVE  /\ \A c \in checks : c.checked_at >= now - Period
         /\ \A c \in ever :
              c.monitor = m /\ c.checked_at - Hour >= now - Period =>
                c \in checks \/ StatOf(m, HourOf(c.checked_at)) = {}
<1>1. /\ rows \subseteq stats /\ now \in Nat /\ Period \in Nat
      /\ \A s \in rows : /\ s.monitor = m /\ s.hour_start \in Nat
                         /\ s.hour_start >= now - Period
  BY PeriodRows
<1>2. /\ ever \subseteq CheckResult /\ \A c \in ever : c.checked_at \in Times
      /\ \A c \in ever : c.checked_at \in Nat
      /\ Hour \in Nat \ {0}
  BY CheckFields, TimesAndHours DEF RollupInv, TypeInv, TypeOK
<1>3. ASSUME NEW c \in checks PROVE c.checked_at >= now - Period
  <2>1. PICK s \in rows : c \in Checked(m, s.hour_start)
    OBVIOUS
  <2>2. c \in ever /\ s.hour_start <= c.checked_at
    BY <2>1 DEF Checked, InHour
  <2> QED BY <1>1, <1>2, <2>2
<1>4. ASSUME NEW c \in ever, c.monitor = m, c.checked_at - Hour >= now - Period,
             NEW s \in StatOf(m, HourOf(c.checked_at))
      PROVE  c \in checks
  <2>1. /\ s \in stats /\ s.monitor = m /\ s.hour_start = HourOf(c.checked_at)
    BY DEF StatOf
  <2>2. /\ HourOf(c.checked_at) \in Nat
        /\ HourOf(c.checked_at) <= c.checked_at
        /\ c.checked_at < HourOf(c.checked_at) + Hour
    BY <1>2, HourIsUnique
  <2>3. s.hour_start + Hour <= now
    BY <2>1 DEF RollupInv, HoursOver
  <2>4. s.hour_start >= now - Period /\ s.hour_start < now
    BY <1>1, <1>2, <1>4, <2>1, <2>2, <2>3
  <2>5. s \in rows
    BY <2>1, <2>4 DEF StatsInPeriod
  <2>6. c \in Checked(m, s.hour_start)
    BY <1>4, <2>1, <2>2 DEF Checked, InHour
  <2> QED BY <2>5, <2>6
<1> QED BY <1>3, <1>4

\* What a row says of its checks, of which those of good took the time t.
Tells(s, checks, good, t) ==
  /\ IsFiniteSet(good) /\ good \subseteq checks /\ t \in Nat
  /\ s.checks_total = Cardinality(checks)
  /\ s.checks_failed = Cardinality(checks \ good)
  /\ Weight(s) = Cardinality(good) /\ Weight(s) \in Nat
  /\ t = SumOf(TimeOf(good), good)
  /\ Weight(s) = 0 => t = 0
  /\ Weight(s) # 0 =>
       /\ s.timed
       /\ 2 * (s.avg_response_ms * Weight(s) - t) <= Weight(s)
       /\ 2 * (t - s.avg_response_ms * Weight(s)) <= Weight(s)

\* A row that describes its checks tells their number, failures and rounded mean.
LEMMA DescribedRow ==
  ASSUME NEW s, s.checks_total \in Nat, s.checks_failed \in Nat,
         s.avg_response_ms \in Nat,
         NEW checks, IsFiniteSet(checks), Describes(s, checks),
         \A c \in checks : c.response_time_ms \in Nat,
         NEW good, good = Successes(checks), NEW t, t = TotalTime(good)
  PROVE  Tells(s, checks, good, t)
<1>1. good \subseteq checks /\ \A c \in good : c.success
  BY DEF Successes
<1>2. IsFiniteSet(good) /\ Cardinality(good) \in Nat /\ Cardinality(checks) \in Nat
  BY <1>1, FS_Subset, FS_CardinalityType
<1>3. PICK n : n = Cardinality(good)
  OBVIOUS
<1>4. n \in Nat
  BY <1>2, <1>3
<1>5. /\ s.checks_total = Cardinality(checks)
      /\ s.checks_failed = Cardinality(checks) - n
      /\ good # {} => s.timed /\ Nearest(s.avg_response_ms, t, n)
  BY <1>3 DEF Describes
<1>6. Weight(s) = n
  BY <1>2, <1>4, <1>5 DEF Weight
<1>7. s.checks_failed = Cardinality(checks \ good)
  <2>1. checks \cap good = good
    BY <1>1
  <2>2. Cardinality(checks \ good) = Cardinality(checks) - Cardinality(checks \cap good)
    BY <1>2, FS_Difference
  <2> QED BY <1>3, <1>5, <2>1, <2>2
<1>8. PICK w : w = TimeOf(good)
  OBVIOUS
<1>9. \A c \in good : w[c] \in Nat
  BY <1>1, <1>8 DEF TimeOf
<1>10. t = SumOf(w, good)
  BY <1>1, <1>2, <1>8, TotalTimeIsSum
<1>11. t \in Nat
  <2>1. Weighs(w, good)
    BY <1>9 DEF Weighs
  <2> QED BY <1>2, <1>10, <2>1, SumTakes
<1>13. n = 0 => t = 0
  <2> SUFFICES ASSUME n = 0 PROVE t = 0
    OBVIOUS
  <2>1. good = {}
    BY <1>2, <1>3, FS_EmptySet
  <2>2. SumOf(w, {}) = 0
    BY SumOfNone
  <2> QED BY <1>10, <2>1, <2>2
<1>14. n # 0 => /\ s.timed
                /\ 2 * (s.avg_response_ms * n - t) <= n
                /\ 2 * (t - s.avg_response_ms * n) <= n
  <2> SUFFICES ASSUME n # 0
               PROVE  /\ s.timed
                      /\ 2 * (s.avg_response_ms * n - t) <= n
                      /\ 2 * (t - s.avg_response_ms * n) <= n
    OBVIOUS
  <2>1. good # {}
    BY <1>3, FS_EmptySet
  <2>2. /\ 2 * (s.avg_response_ms * n - t) <= n
        /\ 2 * (t - s.avg_response_ms * n) <= n
    BY <1>5, <2>1 DEF Nearest
  <2>3. s.timed
    BY <1>5, <2>1
  <2> QED BY <2>2, <2>3
<1> QED BY <1>1, <1>2, <1>3, <1>4, <1>5, <1>6, <1>7, <1>8, <1>10, <1>11, <1>13, <1>14
        DEF Tells

\* The figures of a period are those of the checks, where its rows are.
LEMMA PeriodExact ==
  ASSUME RollupInv, NEW m \in monitors,
         NEW rows, rows = StatsInPeriod(m),
         NEW checks, checks = UNION {Checked(m, s.hour_start) : s \in rows},
         \A s \in rows : /\ OnTime(m, s.hour_start) = Checked(m, s.hour_start)
                         /\ <<m, s.hour_start>> \notin torn,
         NEW n, n = Cardinality(Successes(checks)),
         NEW sum, sum = TotalTime(Successes(checks)),
         NEW avg, avg = WeightedAverage(rows, "avg_response_ms")
  PROVE  /\ Total(rows) = Cardinality(checks)
         /\ Failed(rows) = Cardinality(checks) - n
         /\ n > 0 => avg * n \in (sum - n)..(sum + n)
<1>1. /\ IsFiniteSet(rows) /\ rows \subseteq stats
      /\ \A s \in rows :
           /\ s.monitor = m /\ s.hour_start \in Hours
           /\ s.checks_total \in Nat /\ s.checks_failed \in Nat
           /\ s.avg_response_ms \in Nat
      /\ \A s, r \in rows : s # r => s.hour_start # r.hour_start
  BY PeriodRows
<1>2. PICK part : part = [s \in rows |-> Checked(m, s.hour_start)]
  OBVIOUS
<1>3. PICK good : good = [s \in rows |-> Successes(part[s])]
  OBVIOUS
<1>4. PICK bad : bad = [s \in rows |-> part[s] \ good[s]]
  OBVIOUS
<1>5. PICK time : time = [s \in rows |-> TotalTime(good[s])]
  OBVIOUS
<1>6. checks = UNION {part[s] : s \in rows}
  BY <1>2
<1>7. \A s, r \in rows : s # r => part[s] \cap part[r] = {}
  BY <1>1, <1>2, HoursAreApart
<1>8. \A c \in ever : c.response_time_ms \in Nat
  BY CheckFields DEF RollupInv, TypeInv, TypeOK
<1>9. ASSUME NEW s \in rows
      PROVE  /\ IsFiniteSet(part[s]) /\ part[s] \subseteq ever
             /\ IsFiniteSet(good[s]) /\ good[s] \subseteq part[s]
             /\ time[s] \in Nat
             /\ s.checks_total = Cardinality(part[s])
             /\ s.checks_failed = Cardinality(bad[s])
             /\ Weight(s) = Cardinality(good[s]) /\ Weight(s) \in Nat
             /\ time[s] = SumOf(TimeOf(good[s]), good[s])
             /\ Weight(s) = 0 => time[s] = 0
             /\ Weight(s) # 0 =>
                  /\ s.timed
                  /\ 2 * (s.avg_response_ms * Weight(s) - time[s]) <= Weight(s)
                  /\ 2 * (time[s] - s.avg_response_ms * Weight(s)) <= Weight(s)
  <2>1. PICK p : p = part[s]
    OBVIOUS
  <2>2. p = Checked(m, s.hour_start) /\ p \subseteq ever /\ IsFiniteSet(p)
    BY <1>2, <2>1, CheckedFinite DEF Checked, RollupInv
  <2>3. Describes(s, p)
    <3>1. Exact(s) /\ s.monitor = m
      BY <1>1 DEF RollupInv
    <3> QED BY <2>2, <3>1 DEF Exact
  <2>4. \A c \in p : c.response_time_ms \in Nat
    BY <1>8, <2>2
  <2>5. PICK g, t : g = Successes(p) /\ t = TotalTime(g)
    OBVIOUS
  <2>6. good[s] = g /\ bad[s] = p \ g /\ time[s] = t
    BY <1>3, <1>4, <1>5, <2>1, <2>5
  <2>7. s.checks_total \in Nat /\ s.checks_failed \in Nat /\ s.avg_response_ms \in Nat
    BY <1>1
  <2>8. Tells(s, p, g, t)
    BY <2>2, <2>3, <2>4, <2>5, <2>7, DescribedRow
  <2> QED BY <2>1, <2>2, <2>6, <2>8 DEF Tells
<1>10. \A s, r \in rows : s # r => good[s] \cap good[r] = {} /\ bad[s] \cap bad[r] = {}
  <2> SUFFICES ASSUME NEW s \in rows, NEW r \in rows, s # r
               PROVE  good[s] \cap good[r] = {} /\ bad[s] \cap bad[r] = {}
    OBVIOUS
  <2>1. part[s] \cap part[r] = {}
    BY <1>7
  <2>2. good[s] \subseteq part[s] /\ good[r] \subseteq part[r]
    BY <1>9
  <2>3. bad[s] \subseteq part[s] /\ bad[r] \subseteq part[r]
    BY <1>4
  <2> QED BY <2>1, <2>2, <2>3
<1>11. IsFiniteSet(checks) /\ Total(rows) = Cardinality(checks)
  <2>1. PICK size : size = ChecksOf(rows)
    OBVIOUS
  <2>2. \A s \in rows : size[s] = Cardinality(part[s])
    BY <1>9, <2>1 DEF ChecksOf
  <2>p. Parted(checks, part, rows)
    BY <1>1, <1>6, <1>7, <1>9 DEF Parted
  <2>3. IsFiniteSet(checks) /\ SumOf(size, rows) = Cardinality(checks)
    BY <2>2, <2>p, SizesAddUp
  <2>4. \A s \in rows : s.checks_total \in Nat
    BY <1>1
  <2> QED BY <1>1, <2>1, <2>3, <2>4, TotalIsSum
<1>12. PICK succ : succ = Successes(checks)
  OBVIOUS
<1>s. /\ succ \subseteq checks
      /\ \A c \in checks : c \in succ <=> c.success
      /\ \A s \in rows : \A c \in part[s] : c \in good[s] <=> c.success
      /\ \A s \in rows : part[s] \subseteq checks
  BY <1>3, <1>6, <1>12 DEF Successes
<1>13. succ = UNION {good[s] : s \in rows} /\ succ \subseteq checks
  <2>1. ASSUME NEW c \in succ PROVE \E s \in rows : c \in good[s]
    <3>1. PICK s \in rows : c \in part[s]
      BY <1>6, <1>s
    <3> QED BY <1>s, <3>1
  <2>2. ASSUME NEW s \in rows, NEW c \in good[s] PROVE c \in succ
    <3>1. c \in part[s] /\ c \in checks
      BY <1>9, <1>s
    <3> QED BY <1>s, <3>1
  <2> QED BY <1>s, <2>1, <2>2
<1>14. checks \ succ = UNION {bad[s] : s \in rows}
  <2>1. ASSUME NEW c \in checks \ succ PROVE \E s \in rows : c \in bad[s]
    <3>1. PICK s \in rows : c \in part[s]
      BY <1>6
    <3> QED BY <1>4, <1>s, <3>1
  <2>2. ASSUME NEW s \in rows, NEW c \in bad[s] PROVE c \in checks \ succ
    <3>1. c \in part[s] /\ c \notin good[s]
      BY <1>4
    <3> QED BY <1>s, <3>1
  <2> QED BY <2>1, <2>2
<1>15. PICK w : w = WeightOf(rows)
  OBVIOUS
<1>g. Parted(succ, good, rows)
  BY <1>1, <1>9, <1>10, <1>13 DEF Parted
<1>16. IsFiniteSet(succ) /\ n = SumOf(w, rows)
  <2>1. \A s \in rows : w[s] = Cardinality(good[s])
    BY <1>9, <1>15 DEF WeightOf
  <2> QED BY <1>12, <1>g, <2>1, SizesAddUp
<1>17. Failed(rows) = Cardinality(checks) - n
  <2>1. PICK size : size = FailuresOf(rows)
    OBVIOUS
  <2>2. \A s \in rows : size[s] = Cardinality(bad[s])
    BY <1>9, <2>1 DEF FailuresOf
  <2>3. \A s \in rows : IsFiniteSet(bad[s])
    BY <1>4, <1>9, FS_Difference
  <2>4. PICK U : U = checks \ succ
    OBVIOUS
  <2>5. SumOf(size, rows) = Cardinality(U)
    <3>1. U = UNION {bad[s] : s \in rows}
      BY <1>14, <2>4, Zenon
    <3>2. Parted(U, bad, rows)
      BY <1>1, <1>10, <2>3, <3>1 DEF Parted
    <3> QED BY <2>2, <3>2, SizesAddUp
  <2>6. checks \cap succ = succ
    BY <1>13
  <2>7. Cardinality(U) = Cardinality(checks) - Cardinality(succ)
    <3>1. IsFiniteSet(checks)
      BY <1>11
    <3>2. Cardinality(checks \ succ) =
            Cardinality(checks) - Cardinality(checks \cap succ)
      BY <3>1, FS_Difference
    <3> QED BY <2>4, <2>6, <3>2
  <2>8. \A s \in rows : s.checks_failed \in Nat
    BY <1>1
  <2>9. Failed(rows) = SumOf(size, rows)
    BY <1>1, <2>1, <2>8, FailedIsSum
  <2> QED BY <1>12, <2>5, <2>7, <2>9
<1>18. sum = SumOf(time, rows)
  <2>1. PICK v : v = TimeOf(succ)
    OBVIOUS
  <2>2. \A c \in succ : c.response_time_ms \in Nat
    BY <1>8, <1>9, <1>13
  <2>3. \A c \in succ : v[c] = c.response_time_ms
    BY <2>1 DEF TimeOf
  <2>4. ASSUME NEW s \in rows
        PROVE  Weighs(v, good[s]) /\ time[s] = SumOf(v, good[s])
    <3>1. PICK g : g = good[s]
      OBVIOUS
    <3>2. IsFiniteSet(g) /\ g \subseteq succ /\ time[s] = SumOf(TimeOf(g), g)
      BY <1>9, <1>13, <3>1
    <3>3. Weighs(v, g)
      BY <2>2, <2>3, <3>2 DEF Weighs
    <3>4. \A c \in g : v[c] = TimeOf(g)[c]
      BY <2>3, <3>2 DEF TimeOf
    <3>5. SumOf(v, g) = SumOf(TimeOf(g), g)
      BY <3>2, <3>3, <3>4, SumAgrees
    <3> QED BY <3>1, <3>2, <3>3, <3>5
  <2>5. SumOf(time, rows) = SumOf(v, succ)
    BY <1>g, <2>4, SumsAddUp
  <2>6. TotalTime(succ) = SumOf(v, succ)
    BY <1>16, <2>1, <2>2, TotalTimeIsSum
  <2> QED BY <1>12, <2>5, <2>6
<1>19. n > 0 => avg * n \in (sum - n)..(sum + n)
  <2> SUFFICES ASSUME n > 0 PROVE avg * n \in (sum - n)..(sum + n)
    OBVIOUS
  <2>1. Weighs(time, rows) /\ n # 0
    <3>1. n \in Nat
      BY <1>12, <1>16, FS_CardinalityType
    <3> QED BY <1>9, <3>1 DEF Weighs
  <2>2. \A s \in rows : Weight(s) \in Nat /\ s.avg_response_ms \in Nat
    BY <1>1, <1>9
  <2>3. \A s \in rows : Weight(s) = 0 => time[s] = 0
    BY <1>9
  <2>4. \A s \in rows : Weight(s) # 0 =>
          /\ s.timed
          /\ 2 * (s.avg_response_ms * Weight(s) - time[s]) <= Weight(s)
          /\ 2 * (time[s] - s.avg_response_ms * Weight(s)) <= Weight(s)
    BY <1>9
  <2>5. /\ avg \in Nat /\ n \in Nat /\ sum \in Nat
        /\ avg * n - sum <= n /\ sum - avg * n <= n
    BY <1>1, <1>15, <1>16, <1>18, <2>1, <2>2, <2>3, <2>4, WeightedAverageNear
  <2>6. \A x, y \in Nat : x * y \in Nat
    OBVIOUS
  <2>7. avg * n \in Nat
    BY <2>5, <2>6
  <2>8. \A a, b, c \in Nat : a - b <= c /\ b - a <= c => a \in (b - c)..(b + c)
    OBVIOUS
  <2> QED BY <2>5, <2>7, <2>8
<1> QED BY <1>11, <1>17, <1>19

\* What is to be shown of a monitor, with names for what it is about.
Agrees(m, rows, hours, checks, sum, n, summary) ==
  /\ \A c \in checks : c.checked_at >= now - Period
  /\ \A c \in ever :
       c.monitor = m /\ c.checked_at - Hour >= now - Period =>
         c \in checks \/ StatOf(m, HourOf(c.checked_at)) = {}
  /\ (\A h \in hours : OnTime(m, h) = Checked(m, h) /\ <<m, h>> \notin torn) =>
       /\ summary.checks_total = Cardinality(checks)
       /\ summary.checks_failed = Cardinality(checks) - n
       /\ n > 0 =>
            summary.avg_response_time_ms * n \in (sum - n)..(sum + n)
  /\ \A bucket \in {Hour, Hour * Day} :
       /\ UNION {b.hours : b \in Series(rows, bucket)} = hours
       /\ summary.checks_total =
            MapThenSumSet(LAMBDA b : b.checks_total, Series(rows, bucket))

\* stats.py and the stats action (views.py:264-305): whatever was rolled up,
\* purged, deleted or committed in between, what the endpoint reports is of the
\* checks themselves.
THEOREM StatisticsAreRight == Spec => []StatisticsAgree
<1>1. RollupInv => StatisticsAgree
  <2> SUFFICES ASSUME RollupInv PROVE StatisticsAgree
    OBVIOUS
  <2>1. ASSUME NEW m \in monitors, NEW rows, rows = StatsInPeriod(m),
               NEW hours, hours = {s.hour_start : s \in rows},
               NEW checks, checks = UNION {Checked(m, h) : h \in hours},
               NEW sum, sum = TotalTime(Successes(checks)),
               NEW n, n = Cardinality(Successes(checks)),
               NEW summary, summary = SummarizePeriod(rows)
        PROVE  Agrees(m, rows, hours, checks, sum, n, summary)
    <3>1. checks = UNION {Checked(m, s.hour_start) : s \in rows}
      BY <2>1
    <3>2. /\ \A c \in checks : c.checked_at >= now - Period
          /\ \A c \in ever :
               c.monitor = m /\ c.checked_at - Hour >= now - Period =>
                 c \in checks \/ StatOf(m, HourOf(c.checked_at)) = {}
      BY <2>1, <3>1, PeriodCounts
    <3>3. PICK avg : avg = WeightedAverage(rows, "avg_response_ms")
      OBVIOUS
    <3>4. /\ summary.checks_total = Total(rows)
          /\ summary.checks_failed = Failed(rows)
          /\ summary.avg_response_time_ms = avg
      BY <2>1, <3>3 DEF SummarizePeriod
    <3>5. ASSUME \A h \in hours : /\ OnTime(m, h) = Checked(m, h)
                                  /\ <<m, h>> \notin torn
          PROVE  /\ summary.checks_total = Cardinality(checks)
                 /\ summary.checks_failed = Cardinality(checks) - n
                 /\ n > 0 =>
                      summary.avg_response_time_ms * n \in (sum - n)..(sum + n)
      <4>1. \A s \in rows : /\ OnTime(m, s.hour_start) = Checked(m, s.hour_start)
                            /\ <<m, s.hour_start>> \notin torn
        BY <2>1, <3>5
      <4>2. /\ Total(rows) = Cardinality(checks)
            /\ Failed(rows) = Cardinality(checks) - n
            /\ n > 0 => avg * n \in (sum - n)..(sum + n)
        BY <2>1, <3>1, <3>3, <4>1, PeriodExact
      <4> QED BY <3>4, <4>2
    <3>6. ASSUME NEW bucket
          PROVE  /\ UNION {b.hours : b \in Series(rows, bucket)} = hours
                 /\ summary.checks_total =
                      MapThenSumSet(LAMBDA b : b.checks_total, Series(rows, bucket))
      <4>0. PICK series : series = Series(rows, bucket)
        OBVIOUS
      <4>1. IsFiniteSet(rows) /\ \A row \in rows : row.checks_total \in Nat
        BY <2>1, PeriodRows
      <4>2. /\ UNION {b.hours : b \in series} = {row.hour_start : row \in rows}
            /\ Total(rows) = Total(series)
        BY <4>0, <4>1, SeriesAddUp
      <4>3. Total(series) = MapThenSumSet(LAMBDA b : b.checks_total, series)
        BY DEF Total
      <4> QED BY <2>1, <3>4, <4>0, <4>2, <4>3
    <3> QED BY <3>2, <3>5, <3>6 DEF Agrees
  <2>2. ASSUME NEW m \in monitors
        PROVE  LET rows    == StatsInPeriod(m)
                   hours   == {s.hour_start : s \in rows}
                   checks  == UNION {Checked(m, h) : h \in hours}
                   sum     == TotalTime(Successes(checks))
                   n       == Cardinality(Successes(checks))
                   summary == SummarizePeriod(rows)
               IN  Agrees(m, rows, hours, checks, sum, n, summary)
    BY <2>1
  <2> QED BY <2>2 DEF StatisticsAgree, Agrees
<1> QED BY <1>1, RollupInvHolds, PTL
=============================================================================
