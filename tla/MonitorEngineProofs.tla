------------------------ MODULE MonitorEngineProofs ------------------------
(***************************************************************************)
(* Theorems about MonitorEngine for every number of workers, handlers,     *)
(* thresholds and instants: its types, its safety, and that it implements  *)
(* OutageLog.                                                              *)
(***************************************************************************)
EXTENDS MonitorEngine, FiniteSetTheorems, WellFoundedInduction, TLAPS

-----------------------------------------------------------------------------
(* How a table of check results grows, and where the streak behind a       *)
(* transition can begin.                                                   *)

(***************************************************************************)
(* A non-empty set of naturals has a least element, so Earliest, which is  *)
(* min() in selectors.py, returns a member of its argument.                *)
(***************************************************************************)
LEMMA EarliestIsLeast ==
  ASSUME NEW S \in SUBSET Nat, S # {}
  PROVE  Earliest(S) \in S /\ \A t \in S : Earliest(S) <= t
<1> DEFINE Less == {p \in Nat \X Nat : p[1] < p[2]}
<1>1. IsWellFoundedOn(Less, Nat)
  <2>1. ASSUME NEW f \in [Nat -> Nat],
               \A n \in Nat : <<f[n+1], f[n]>> \in Less
        PROVE  \A n \in Nat : f[n+1] < f[n]
    BY <2>1
  <2>2. OpToRel(<, Nat) = Less
    BY Zenon DEF OpToRel
  <2> QED BY <2>2, NatLessThanWellFounded, Zenon
<1>2. \E m \in S : \A t \in S : <<t, m>> \notin Less
  <2> HIDE DEF Less
  <2> QED BY <1>1, WFMin
<1>3. \A m, t \in Nat : <<t, m>> \notin Less => m <= t
  OBVIOUS
<1>4. \E m \in S : \A t \in S : m <= t
  BY <1>2, <1>3
<1> QED BY <1>4, Zenon DEF Earliest

(***************************************************************************)
(* The rows of a table are check results.                                  *)
(***************************************************************************)
LEMMA RowFields ==
  ASSUME NEW rows \in Seq(Row)
  PROVE  \A i \in DOMAIN rows : /\ rows[i] \in Row
                                /\ rows[i].checked_at \in Nat \ {0}
                                /\ rows[i].success \in BOOLEAN
<1>1. \A i \in DOMAIN rows : rows[i] \in Row
  OBVIOUS
<1>2. \A row \in Row : row.checked_at \in Nat \ {0} /\ row.success \in BOOLEAN
  BY DEF Row
<1> QED BY <1>1, <1>2

(***************************************************************************)
(* A row's index is its identity, so the set of rows later than t is a     *)
(* finite set of naturals.                                                 *)
(***************************************************************************)
LEMMA RowsAfterFinite ==
  ASSUME NEW rows \in Seq(Row), NEW success, NEW t
  PROVE  /\ IsFiniteSet(RowsAfter(rows, success, t))
         /\ Cardinality(RowsAfter(rows, success, t)) \in Nat
<1>1. IsFiniteSet(1..Len(rows))
  BY FS_Interval
<1>2. RowsAfter(rows, success, t) \subseteq 1..Len(rows)
  BY DEF RowsAfter
<1> QED BY <1>1, <1>2, FS_Subset, FS_CardinalityType

(***************************************************************************)
(* Recording a result adds at most one row to the rows later than t with   *)
(* a given outcome: exactly one if it has that outcome and is later.       *)
(***************************************************************************)
LEMMA RowsAfterAppend ==
  ASSUME NEW rows \in Seq(Row), NEW row \in Row,
         NEW success \in BOOLEAN, NEW t \in Nat
  PROVE  Cardinality(RowsAfter(Append(rows, row), success, t)) =
           Cardinality(RowsAfter(rows, success, t))
             + (IF row.success = success /\ row.checked_at > t THEN 1 ELSE 0)
<1> DEFINE old == RowsAfter(rows, success, t)
           new == RowsAfter(Append(rows, row), success, t)
           n   == Len(rows) + 1
<1>1. n \notin old
  BY DEF RowsAfter
<1>2. IsFiniteSet(old) /\ Cardinality(old) \in Nat
  BY RowsAfterFinite
<1>3. CASE row.success = success /\ row.checked_at > t
  <2>1. new = old \cup {n}
    BY <1>3 DEF RowsAfter
  <2>2. Cardinality(old \cup {n}) = Cardinality(old) + 1
    <3> HIDE DEF old, n
    <3> QED BY <1>1, <1>2, FS_AddElement
  <2> QED BY <2>1, <2>2, <1>3
<1>4. CASE ~(row.success = success /\ row.checked_at > t)
  <2>1. new = old
    BY <1>4 DEF RowsAfter
  <2> QED BY <2>1, <1>2, <1>4
<1> QED BY <1>3, <1>4

(***************************************************************************)
(* streak_start_at returns the instant of some check, none later than the  *)
(* latest.                                                                 *)
(***************************************************************************)
LEMMA StreakStartType ==
  ASSUME NEW rows \in Seq(Row), NEW success \in BOOLEAN, NEW count \in Nat,
         NEW now \in Nat \ {0}
  PROVE  StreakStart(rows, success, count, now) \in Nat \ {0}
<1> DEFINE latest == LatestInstants(rows, success, count)
<1>1. latest \subseteq Nat \ {0}
  BY RowFields DEF LatestInstants
<1> HIDE DEF latest
<1>2. latest # {} => Earliest(latest) \in latest
  BY <1>1, EarliestIsLeast
<1> QED BY <1>1, <1>2 DEF StreakStart, latest

\* A streak does not begin after the newest row.
LEMMA StreakStartNotAfter ==
  ASSUME NEW rows \in Seq(Row), NEW success \in BOOLEAN, NEW count \in Nat,
         NEW now \in Nat \ {0}, NEW t \in Nat, now <= t,
         \A i \in DOMAIN rows : rows[i].checked_at <= t
  PROVE  StreakStart(rows, success, count, now) <= t
<1> DEFINE latest == LatestInstants(rows, success, count)
<1>1. latest \subseteq Nat /\ \A u \in latest : u <= t
  BY RowFields DEF LatestInstants
<1> HIDE DEF latest
<1>2. latest # {} => Earliest(latest) \in latest
  BY <1>1, EarliestIsLeast
<1> QED BY <1>1, <1>2 DEF StreakStart, latest

(***************************************************************************)
(* If at least count checks with the outcome are later than t, the streak  *)
(* of count begins after t, however late and in whatever order the rows    *)
(* arrived: a row at or before t has all of those after it.                *)
(***************************************************************************)
LEMMA StreakStartAfter ==
  ASSUME NEW rows \in Seq(Row), NEW success \in BOOLEAN, NEW count \in Nat,
         NEW t \in Nat, NEW now \in Nat \ {0}, now > t,
         Cardinality(RowsAfter(rows, success, t)) >= count
  PROVE  StreakStart(rows, success, count, now) > t
<1> DEFINE latest == LatestInstants(rows, success, count)
<1>1. latest \subseteq Nat
  BY RowFields DEF LatestInstants
<1>2. ASSUME NEW j \in DOMAIN rows, rows[j].checked_at <= t
      PROVE  ~(Cardinality(RowsAfter(rows, success, rows[j].checked_at)) < count)
  <2> DEFINE u == rows[j].checked_at
  <2>1. u \in Nat
    BY RowFields
  <2>2. \A i \in DOMAIN rows : rows[i].checked_at \in Nat
    BY RowFields
  <2>3. RowsAfter(rows, success, t) \subseteq RowsAfter(rows, success, u)
    BY <1>2, <2>1, <2>2 DEF RowsAfter
  <2> HIDE DEF u
  <2>4. Cardinality(RowsAfter(rows, success, t))
          <= Cardinality(RowsAfter(rows, success, u))
    BY <2>3, RowsAfterFinite, FS_Subset
  <2>5. /\ Cardinality(RowsAfter(rows, success, t)) \in Nat
        /\ Cardinality(RowsAfter(rows, success, u)) \in Nat
    BY RowsAfterFinite
  <2> QED BY <2>4, <2>5 DEF u
<1>3. \A u \in latest : u > t
  BY <1>2, RowFields DEF LatestInstants
<1> HIDE DEF latest
<1>4. latest # {} => Earliest(latest) \in latest
  BY <1>1, EarliestIsLeast
<1> QED BY <1>3, <1>4 DEF StreakStart, latest

USE EngineAssumption

-----------------------------------------------------------------------------
(* Types.                                                                  *)

\* The constant rows and states are of their types.
LEMMA ConstantRows ==
  /\ NoRow \in MonitorRow
  /\ IdleWorker \in WorkerState
  /\ Finishing \in WorkerState
  /\ \A r \in 0..MaxRetries : Retrying(r) \in WorkerState
  /\ IdleRequest \in RequestState
<1>1. NoRow \in MonitorRow
  BY DEF NoRow, MonitorRow, HealthStatus
<1>2. IdleWorker \in WorkerState /\ Finishing \in WorkerState
  BY DEF IdleWorker, Finishing, WorkerState, Outcome
<1>3. \A r \in 0..MaxRetries : Retrying(r) \in WorkerState
  BY DEF IdleWorker, Retrying, WorkerState, Outcome
<1>4. IdleRequest \in RequestState
  BY <1>1 DEF IdleRequest, RequestState
<1> QED BY <1>1, <1>2, <1>3, <1>4

(***************************************************************************)
(* What apply_check_outcome and the assignments after it leave in the row. *)
(***************************************************************************)
LEMMA AppliedFields ==
  ASSUME TypeOK, NEW w \in Workers, worker[w].checked_at \in Nat
  PROVE  /\ Applied(w) \in MonitorRow
         /\ Applied(w).exists = monitor.exists
         /\ Applied(w).last_checked_at = worker[w].checked_at
         /\ Success(w) =>
              /\ Applied(w).consecutive_failures = 0
              /\ Applied(w).consecutive_successes =
                   monitor.consecutive_successes + 1
              /\ Applied(w).health_status \in {"UP", monitor.health_status}
         /\ ~Success(w) =>
              /\ Applied(w).consecutive_failures =
                   monitor.consecutive_failures + 1
              /\ Applied(w).consecutive_successes = 0
              /\ Applied(w).health_status \in {"DOWN", monitor.health_status}
<1>1. monitor \in MonitorRow
  BY DEF TypeOK
<1> DEFINE f == IF Success(w) THEN 0 ELSE monitor.consecutive_failures + 1
           s == IF Success(w) THEN monitor.consecutive_successes + 1 ELSE 0
           h == IF Success(w) /\ s >= monitor.success_threshold THEN "UP"
                ELSE IF ~Success(w) /\ f >= monitor.failure_threshold
                THEN "DOWN" ELSE monitor.health_status
           t == worker[w].checked_at
<1>2. f \in Nat /\ s \in Nat
  BY <1>1 DEF MonitorRow
<1>3. /\ h \in HealthStatus
      /\ Success(w) => h \in {"UP", monitor.health_status}
      /\ ~Success(w) => h \in {"DOWN", monitor.health_status}
  <2>1. monitor.health_status \in HealthStatus
    BY <1>1 DEF MonitorRow
  <2> QED BY <2>1 DEF HealthStatus
<1>4. Applied(w) = [[monitor EXCEPT !.consecutive_failures = f,
                                    !.consecutive_successes = s,
                                    !.health_status = h]
                      EXCEPT !.last_checked_at = t]
  BY <1>1 DEF Applied, ApplyCheckOutcome
<1>5. t \in Nat
  OBVIOUS
<1>6. /\ Applied(w) \in MonitorRow
      /\ Applied(w).exists = monitor.exists
      /\ Applied(w).last_checked_at = t
      /\ Applied(w).consecutive_failures = f
      /\ Applied(w).consecutive_successes = s
      /\ Applied(w).health_status = h
  <2> HIDE DEF f, s, h, t
  <2> QED BY <1>1, <1>2, <1>3, <1>4, <1>5 DEF MonitorRow
<1> QED BY <1>3, <1>6

(***************************************************************************)
(* What a transaction computes has the type of what it is stored in.       *)
(***************************************************************************)
LEMMA TransactionTypes ==
  ASSUME TypeOK, NEW w \in Workers, worker[w].pc = "txn"
  PROVE  /\ Success(w) \in BOOLEAN
         /\ worker[w].checked_at \in 1..MaxClock
         /\ [checked_at |-> worker[w].checked_at, success |-> Success(w)] \in Row
         /\ NewResults(w) \in Seq(Row)
         /\ Applied(w) \in MonitorRow
         /\ OutageStart(w) \in Nat \ {0}
         /\ OutageEnd(w) \in Nat \ {0}
<1>1. worker[w].checked_at \in 1..MaxClock
  BY DEF TypeOK
<1>2. Success(w) \in BOOLEAN
  BY DEF Success
<1>3. [checked_at |-> worker[w].checked_at, success |-> Success(w)] \in Row
  BY <1>1, <1>2 DEF Row
<1>4. NewResults(w) \in Seq(Row)
  BY <1>3 DEF NewResults, TypeOK
<1>5. Applied(w) \in MonitorRow
  BY <1>1, <1>2, AppliedFields
<1>6. /\ Applied(w).consecutive_failures \in Nat
      /\ Applied(w).consecutive_successes \in Nat
  BY <1>5 DEF MonitorRow
<1>. worker[w].checked_at \in Nat \ {0}
  BY <1>1
<1>7. OutageStart(w) \in Nat \ {0}
  BY <1>4, <1>6, StreakStartType DEF OutageStart
<1>8. OutageEnd(w) \in Nat \ {0}
  BY <1>4, <1>6, StreakStartType DEF OutageEnd
<1> QED BY <1>1, <1>2, <1>3, <1>4, <1>5, <1>7, <1>8

(***************************************************************************)
(* Resolving an incident, or another update of its row, keeps the table's  *)
(* type, even for an id that is not in it.                                 *)
(***************************************************************************)
LEMMA IncidentUpdateTypes ==
  ASSUME NEW table \in Seq(IncidentRow), NEW i \in Nat, NEW t \in Nat
  PROVE  /\ [table EXCEPT ![i] = ResolveIncident(@, t)] \in Seq(IncidentRow)
         /\ [table EXCEPT ![i] = AcknowledgeIncident(@)] \in Seq(IncidentRow)
<1>1. ASSUME NEW row \in IncidentRow
      PROVE  /\ ResolveIncident(row, t) \in IncidentRow
             /\ AcknowledgeIncident(row) \in IncidentRow
  BY DEF IncidentRow, ResolveIncident, AcknowledgeIncident
<1>2. CASE i \notin DOMAIN table
  <2>1. table = [k \in DOMAIN table |-> table[k]]
    OBVIOUS
  <2>2. ASSUME NEW v PROVE [table EXCEPT ![i] = v] = table
    BY <1>2, <2>1, Zenon
  <2> QED BY <2>2
<1>3. CASE i \in DOMAIN table
  <2>1. table[i] \in IncidentRow
    BY <1>3
  <2>2. \A row \in IncidentRow : [table EXCEPT ![i] = row] \in Seq(IncidentRow)
    BY <1>3
  <2> QED BY <1>1, <2>1, <2>2
<1> QED BY <1>2, <1>3

\* An incident that was looked up is an index, or 0.
LEMMA OpenIncidentType ==
  ASSUME TypeOK
  PROVE  OpenIncidentForMonitor \in Nat
<1>1. OpenIncidents \subseteq Nat
  BY DEF OpenIncidents, TypeOK
<1> QED BY <1>1 DEF OpenIncidentForMonitor

(***************************************************************************)
(* TypeOK is inductive, whatever operations are exercised.                 *)
(***************************************************************************)
LEMMA TypeInit == Init => TypeOK
<1> SUFFICES ASSUME Init PROVE TypeOK
  OBVIOUS
<1>1. monitor \in MonitorRow
  <2>1. PICK f \in FailureThresholds, s \in SuccessThresholds :
          monitor = [NoRow EXCEPT !.exists = TRUE, !.is_enabled = TRUE,
                                  !.failure_threshold = f,
                                  !.success_threshold = s]
    BY DEF Init
  <2>2. f \in Nat /\ s \in Nat
    BY DEF EngineAssumption
  <2> QED BY <2>1, <2>2, ConstantRows DEF MonitorRow
<1>2. worker \in [Workers -> WorkerState] /\ request \in [Requests -> RequestState]
  BY ConstantRows DEF Init
<1>3. \A w \in Workers : worker[w].pc = "idle"
  BY DEF Init, IdleWorker
<1>4. queue \in [0..MaxRetries -> Nat]
  BY DEF Init
<1>5. results \in Seq(Row) /\ incidents \in Seq(IncidentRow)
  BY DEF Init
<1> QED BY <1>1, <1>2, <1>3, <1>4, <1>5 DEF Init, TypeOK

\* The conjunct about workers survives a step of one of them.
LEMMA WorkerStepType ==
  ASSUME TypeOK, NEW w \in Workers, NEW u \in WorkerState,
         worker' = [worker EXCEPT ![w] = u],
         u.pc \in {"probing", "txn"} => u.checked_at \in 1..MaxClock
  PROVE  /\ worker' \in [Workers -> WorkerState]
         /\ \A v \in Workers : worker'[v].pc \in {"probing", "txn"}
                                 => worker'[v].checked_at \in 1..MaxClock
BY DEF TypeOK

\* One more message in the queue is still a queue.
LEMMA QueueStepType ==
  ASSUME TypeOK, NEW r
  PROVE  Queued(r) \in [0..MaxRetries -> Nat]
<1>1. CASE r \in 0..MaxRetries
  BY <1>1 DEF TypeOK, Queued
<1>2. CASE r \notin 0..MaxRetries
  BY <1>2 DEF TypeOK, Queued
<1> QED BY <1>1, <1>2

\* A handler that takes a step.
LEMMA RequestStepType ==
  ASSUME TypeOK, NEW h \in Requests, NEW u \in RequestState
  PROVE  [request EXCEPT ![h] = u] \in [Requests -> RequestState]
BY DEF TypeOK

\* One message less in the queue is still a queue.
LEMMA ReceiveType ==
  ASSUME TypeOK, NEW w \in Workers, NEW r \in 0..MaxRetries, Receive(w, r)
  PROVE  queue' \in [0..MaxRetries -> Nat]
<1>1. queue[r] \in Nat /\ queue[r] > 0
  BY DEF Receive, TypeOK
<1> QED BY <1>1 DEF Receive, TypeOK

\* What every commit writes.
LEMMA CommitType ==
  ASSUME TypeOK, NEW w \in Workers, Commit(w)
  PROVE  /\ results' \in Seq(Row)
         /\ worker' \in [Workers -> WorkerState]
         /\ \A v \in Workers : worker'[v].pc \in {"probing", "txn"}
                                 => worker'[v].checked_at \in 1..MaxClock
<1>1. results' \in Seq(Row)
  BY TransactionTypes DEF Commit
<1> DEFINE u == IF worker[w].outcome = "internal_error"
                     /\ worker[w].retries < MaxRetries
                THEN Retrying(worker[w].retries) ELSE Finishing
<1>2. worker[w].retries \in 0..MaxRetries
  BY DEF TypeOK, WorkerState
<1>3. u \in WorkerState /\ u.pc \in {"retrying", "finishing"}
  BY <1>2, ConstantRows DEF Retrying, Finishing, IdleWorker
<1>4. worker' = [worker EXCEPT ![w] = u]
  BY DEF Commit
<1> HIDE DEF u
<1> QED BY <1>1, <1>3, <1>4, WorkerStepType

\* A step of run_check keeps the types.
LEMMA CheckStepType ==
  ASSUME TypeOK, NEW w \in Workers, CheckNext(w)
  PROVE  TypeOK'
<1>1. ASSUME NEW r \in 0..MaxRetries, SkipCheck(w, r) PROVE TypeOK'
  BY <1>1, ReceiveType DEF SkipCheck, TypeOK
<1>2. ASSUME NEW r \in 0..MaxRetries, StartProbe(w, r) PROVE TypeOK'
  <2>1. PICK t \in Now : /\ clock' = t
                         /\ worker' = [worker EXCEPT ![w] = ProbeSince(t, r)]
    BY <1>2 DEF StartProbe
  <2>2. t \in Nat /\ t <= MaxClock
    BY DEF Now, TypeOK
  <2>3. t > 0
    BY <2>2 DEF Now, TypeOK, Probing
  <2>4. /\ ProbeSince(t, r) \in WorkerState
        /\ ProbeSince(t, r).checked_at \in 1..MaxClock
    BY <2>2, <2>3 DEF EngineAssumption, ProbeSince, WorkerState, Outcome
  <2>5. /\ worker' \in [Workers -> WorkerState]
        /\ \A v \in Workers : worker'[v].pc \in {"probing", "txn"}
                                => worker'[v].checked_at \in 1..MaxClock
    BY <2>1, <2>4, WorkerStepType
  <2>6. queue' \in [0..MaxRetries -> Nat]
    BY <1>2, ReceiveType DEF StartProbe
  <2> QED BY <1>2, <2>1, <2>2, <2>5, <2>6 DEF StartProbe, TypeOK
<1>3. ASSUME BeginTransaction(w) PROVE TypeOK'
  <2>1. PICK o \in Outcome :
          worker' = [worker EXCEPT ![w] =
                       [worker[w] EXCEPT !.pc = "txn", !.outcome = o,
                                         !.seen = OpenIncidentForMonitor]]
    BY <1>3 DEF BeginTransaction
  <2> DEFINE u == [worker[w] EXCEPT !.pc = "txn", !.outcome = o,
                                    !.seen = OpenIncidentForMonitor]
  <2>2. worker[w] \in WorkerState /\ worker[w].checked_at \in 1..MaxClock
    BY <1>3 DEF BeginTransaction, TypeOK
  <2>3. u \in WorkerState /\ u.checked_at \in 1..MaxClock
    <3>1. OpenIncidentForMonitor \in Nat
      BY OpenIncidentType
    <3>2. ASSUME NEW x \in WorkerState, NEW i \in Nat, NEW y,
                 y = [x EXCEPT !.pc = "txn", !.outcome = o, !.seen = i]
          PROVE  y \in WorkerState /\ y.checked_at = x.checked_at
      BY <3>2 DEF WorkerState
    <3> QED BY <2>2, <3>1, <3>2
  <2> HIDE DEF u
  <2>4. /\ worker' \in [Workers -> WorkerState]
        /\ \A v \in Workers : worker'[v].pc \in {"probing", "txn"}
                                => worker'[v].checked_at \in 1..MaxClock
    BY <2>1, <2>3, WorkerStepType DEF u
  <2> QED BY <1>3, <2>4 DEF BeginTransaction, TypeOK
<1>4. ASSUME NothingToRecord(w) \/ ProbeRaises(w) \/ RollBack(w)
      PROVE  TypeOK'
  <2>1. /\ worker' \in [Workers -> WorkerState]
        /\ \A v \in Workers : worker'[v].pc \in {"probing", "txn"}
                                => worker'[v].checked_at \in 1..MaxClock
    BY <1>4, ConstantRows, WorkerStepType
       DEF NothingToRecord, ProbeRaises, RollBack, Finishing, IdleWorker
  <2> QED BY <1>4, <2>1 DEF NothingToRecord, ProbeRaises, RollBack, TypeOK
<1>5. ASSUME RecordStale(w) PROVE TypeOK'
  BY <1>5, CommitType DEF RecordStale, Commit, TypeOK
<1>6. ASSUME RecordSameStatus(w) PROVE TypeOK'
  <2>1. Commit(w) /\ monitor' = Applied(w) /\ UNCHANGED <<incidents, outbox>>
    BY <1>6 DEF RecordSameStatus
  <2>2. Applied(w) \in MonitorRow
    BY <2>1, TransactionTypes DEF Commit
  <2> QED BY <2>1, <2>2, CommitType DEF Commit, TypeOK
<1>7. ASSUME RecordDown(w) PROVE TypeOK'
  <2>1. Commit(w) /\ monitor' = Applied(w)
    BY <1>7 DEF RecordDown
  <2>2. /\ Applied(w) \in MonitorRow
        /\ OutageStart(w) \in Nat \ {0}
        /\ worker[w].seen \in Nat
    BY <2>1, TransactionTypes DEF Commit, TypeOK, WorkerState
  <2>3. NewIncident(OutageStart(w)) \in IncidentRow
    BY <2>2 DEF NewIncident, IncidentRow, TypeOK
  <2>4. incidents' \in Seq(IncidentRow)
    <3>1. /\ incidents \in Seq(IncidentRow)
          /\ \/ incidents' = Append(incidents, NewIncident(OutageStart(w)))
             \/ incidents' = incidents
      BY <1>7 DEF RecordDown, TypeOK
    <3> QED BY <2>3, <3>1
  <2>5. outbox' \subseteq
          Nat \X Channels \X {"INCIDENT_OPENED", "INCIDENT_RESOLVED"}
    BY <1>7, <2>2, <2>4 DEF Enqueued, RecordDown, TypeOK
  <2> QED BY <2>1, <2>2, <2>4, <2>5, CommitType DEF Commit, TypeOK
<1>8. ASSUME RecordUp(w) PROVE TypeOK'
  <2>1. Commit(w) /\ monitor' = Applied(w)
    BY <1>8 DEF RecordUp
  <2>2. /\ Applied(w) \in MonitorRow
        /\ OutageEnd(w) \in Nat \ {0}
        /\ worker[w].seen \in Nat
    BY <2>1, TransactionTypes DEF Commit, TypeOK, WorkerState
  <2>3. [incidents EXCEPT ![worker[w].seen] =
           ResolveIncident(@, OutageEnd(w))] \in Seq(IncidentRow)
    BY <2>2, IncidentUpdateTypes DEF TypeOK
  <2>4. incidents' \in Seq(IncidentRow)
    BY <1>8, <2>3 DEF RecordUp, TypeOK
  <2>5. outbox' \subseteq
          Nat \X Channels \X {"INCIDENT_OPENED", "INCIDENT_RESOLVED"}
    BY <1>8, <2>2 DEF Enqueued, RecordUp, TypeOK
  <2> QED BY <2>1, <2>2, <2>4, <2>5, CommitType DEF Commit, TypeOK
<1>9. ASSUME RetryCheck(w) \/ FinishCheck(w) \/ CrashWorker(w) PROVE TypeOK'
  <2>1. /\ worker' \in [Workers -> WorkerState]
        /\ \A v \in Workers : worker'[v].pc \in {"probing", "txn"}
                                => worker'[v].checked_at \in 1..MaxClock
    BY <1>9, ConstantRows, WorkerStepType
       DEF RetryCheck, FinishCheck, CrashWorker, IdleWorker
  <2> QED BY <1>9, <2>1, QueueStepType
          DEF RetryCheck, FinishCheck, CrashWorker, TypeOK
<1> QED
  BY <1>1, <1>2, <1>3, <1>4, <1>5, <1>6, <1>7, <1>8, <1>9 DEF CheckNext

\* A step of a handler keeps them.
LEMMA RequestTypes ==
  ASSUME TypeOK, NEW h \in Requests, RequestNext(h)
  PROVE  TypeOK'
<1> USE DEF TypeOK
<1>1. ASSUME NEW op, NEW row \in MonitorRow, NEW i \in Nat,
             op \in MonitorOps \cup IncidentOps, Load(h, op, row, i)
      PROVE  TypeOK'
  <2>1. [op |-> op, row |-> row, incident |-> i] \in RequestState
    BY <1>1 DEF RequestState
  <2> QED BY <1>1, <2>1, RequestStepType DEF Load
<1>2. ASSUME LoadMonitor(h) PROVE TypeOK'
  <2>1. NoRow \in MonitorRow /\ monitor \in MonitorRow
    BY ConstantRows
  <2>2. \E op \in MonitorOps : Load(h, op, NoRow, 0) \/ Load(h, op, monitor, 0)
    BY <1>2 DEF LoadMonitor, MonitorOps
  <2> QED BY <1>1, <2>1, <2>2
<1>3. ASSUME LoadIncident(h) PROVE TypeOK'
  <2>1. NoRow \in MonitorRow
    BY ConstantRows
  <2>2. \E op \in IncidentOps, i \in DOMAIN incidents : Load(h, op, NoRow, i)
    BY <1>3 DEF LoadIncident, IncidentOps
  <2>3. DOMAIN incidents \subseteq Nat
    OBVIOUS
  <2> QED BY <1>1, <2>1, <2>2, <2>3
<1>4. ASSUME NEW op, Saving(h, op)
      PROVE  request' \in [Requests -> RequestState]
  BY <1>4, ConstantRows, RequestStepType DEF Saving
<1>5. ASSUME SavePause(h) PROVE TypeOK'
  <2>1. monitor' \in MonitorRow
    BY <1>5 DEF SavePause, MonitorRow
  <2> QED BY <1>4, <1>5, <2>1 DEF SavePause
<1>6. ASSUME SaveResume(h) PROVE TypeOK'
  <2>1. monitor' \in MonitorRow
    BY <1>6 DEF SaveResume, MonitorRow
  <2> QED BY <1>4, <1>6, <2>1 DEF SaveResume
<1>7. ASSUME SavePatch(h) PROVE TypeOK'
  <2>1. request[h].row \in MonitorRow
    BY DEF RequestState
  <2>2. monitor' \in MonitorRow
    BY <1>7, <2>1 DEF SavePatch, MonitorRow, EngineAssumption
  <2> QED BY <1>4, <1>7, <2>2 DEF SavePatch
<1>8. ASSUME SaveDelete(h) PROVE TypeOK'
  <2>1. ASSUME NEW u \in RequestState
        PROVE  [u EXCEPT !.incident = 0] \in RequestState
    BY DEF RequestState
  <2>2. request' \in [Requests -> RequestState]
    BY <1>8, <2>1, ConstantRows DEF SaveDelete
  <2> QED BY <1>8, <2>2, ConstantRows DEF SaveDelete
<1>9. ASSUME PublishCheck(h) PROVE TypeOK'
  BY <1>4, <1>9, QueueStepType DEF PublishCheck
<1>10. request[h].incident \in Nat
  BY DEF RequestState
<1>11. ASSUME SaveAcknowledge(h) PROVE TypeOK'
  <2>1. incidents' \in Seq(IncidentRow)
    BY <1>10, <1>11, IncidentUpdateTypes DEF SaveAcknowledge
  <2> QED BY <1>4, <1>11, <2>1 DEF SaveAcknowledge
<1>12. ASSUME NEW op, SaveResolve(h, op) PROVE TypeOK'
  <2>1. clock' \in Nat
    BY <1>12 DEF SaveResolve
  <2>2. incidents' \in Seq(IncidentRow)
    BY <1>10, <1>12, <2>1, IncidentUpdateTypes DEF SaveResolve
  <2> QED BY <1>4, <1>12, <2>1, <2>2 DEF SaveResolve
<1> QED
  BY <1>2, <1>3, <1>5, <1>6, <1>7, <1>8, <1>9, <1>11, <1>12 DEF RequestNext

\* Every step keeps them.
LEMMA TypeNext == TypeOK /\ [Next]_vars => TypeOK'
<1> SUFFICES ASSUME TypeOK, [Next]_vars PROVE TypeOK'
  OBVIOUS
<1>1. CASE UNCHANGED vars
  BY <1>1 DEF vars, TypeOK
<1>2. CASE DispatchDueCheck \/ \E r \in 0..MaxRetries : Redeliver(r)
  BY <1>2, QueueStepType DEF DispatchDueCheck, Redeliver, TypeOK
<1>3. CASE LockExpires \/ EditChannels
  BY <1>3 DEF LockExpires, EditChannels, TypeOK
<1>4. CASE \E w \in Workers : CheckNext(w)
  BY <1>4, CheckStepType
<1>5. CASE \E h \in Requests : RequestNext(h)
  BY <1>5, RequestTypes
<1> QED BY <1>1, <1>2, <1>3, <1>4, <1>5 DEF Next

(***************************************************************************)
(* Every row the engine and the handlers leave behind is one its columns   *)
(* can store, for any number of workers, handlers, retries and instants.   *)
(***************************************************************************)
THEOREM TypeCorrect == Spec => []TypeOK
BY TypeInit, TypeNext, PTL DEF Spec

-----------------------------------------------------------------------------
(***************************************************************************)
(* Safety, as long as no handler writes back what it loaded earlier.  The  *)
(* heart of it is StreakCovered: although results arrive late, out of      *)
(* order and beside a check that is already running, the checks counted by *)
(* the streak that causes a transition are all newer than the transition   *)
(* before it.                                                              *)
(***************************************************************************)

\* Facts about a state that satisfies the invariant.

\* The row has its fields, each of its type.
LEMMA MonitorFields ==
  ASSUME TypeOK
  PROVE  /\ monitor.exists \in BOOLEAN
         /\ monitor.health_status \in HealthStatus
         /\ monitor.consecutive_failures \in Nat
         /\ monitor.consecutive_successes \in Nat
         /\ monitor.last_checked_at \in Nat
BY DEF TypeOK, MonitorRow

\* So has every incident.
LEMMA IncidentFields ==
  ASSUME NEW table \in Seq(IncidentRow), NEW i \in DOMAIN table
  PROVE  /\ table[i] \in IncidentRow
         /\ table[i].status \in {"OPEN", "ACKNOWLEDGED", "RESOLVED"}
         /\ table[i].started_at \in Nat \ {0}
         /\ table[i].resolved_at \in Nat
<1>1. table[i] \in IncidentRow
  OBVIOUS
<1> QED BY <1>1 DEF IncidentRow

\* The last transition happened at some instant, or at 0.
LEMMA LastBoundaryType ==
  ASSUME TypeOK
  PROVE  LastBoundary \in Nat
<1>1. incidents # << >> => Len(incidents) \in DOMAIN incidents
  BY DEF TypeOK
<1> QED BY <1>1, IncidentFields DEF LastBoundary, TypeOK

\* A monitor that is DOWN has an incident, the last, and it is open.
LEMMA DownHasIncident ==
  ASSUME TypeOK, DownIffOpenIncident, monitor.health_status = "DOWN"
  PROVE  /\ Len(incidents) \in DOMAIN incidents
         /\ incidents # << >>
         /\ Len(incidents) # 0
<1>1. Len(incidents) \in DOMAIN incidents
  BY DEF DownIffOpenIncident, OpenIncidents
<1> QED BY <1>1 DEF TypeOK

\* An open incident is the last, and its monitor is DOWN.
LEMMA OpenIncidentIsLast ==
  ASSUME DownIffOpenIncident
  PROVE  OpenIncidentForMonitor =
           IF monitor.health_status = "DOWN" THEN Len(incidents) ELSE 0
BY DEF DownIffOpenIncident, OpenIncidentForMonitor

-----------------------------------------------------------------------------
(* Steps that leave the tables alone.                                      *)

\* The streaks may be reset: that only makes less of them to cover.
LEMMA QuietStep ==
  ASSUME EngineInvariant, TypeOK', TransactionsIsolated', NoStaleWriter',
         UNCHANGED <<results, incidents>>,
         monitor'.health_status = monitor.health_status,
         monitor'.last_checked_at = monitor.last_checked_at,
         monitor'.consecutive_failures \in {monitor.consecutive_failures, 0},
         monitor'.consecutive_successes \in {monitor.consecutive_successes, 0}
  PROVE  EngineInvariant'
<1> USE DEF EngineInvariant
<1>1. DownIffOpenIncident'
  BY DEF DownIffOpenIncident, OpenIncidents, IsOpen
<1>2. OutagesDisjoint'
  BY DEF OutagesDisjoint, IsOpen
<1>3. ResultsApplied'
  BY DEF ResultsApplied
<1>4. StreakCovered'
  <2>1. LastBoundary' = LastBoundary
    BY DEF LastBoundary
  <2>2. \A s : RowsAfter(results, s, LastBoundary)'
                 = RowsAfter(results, s, LastBoundary)
    BY <2>1 DEF RowsAfter
  <2>3. \A s : Cardinality(RowsAfter(results, s, LastBoundary)) \in Nat
    BY RowsAfterFinite DEF TypeOK
  <2>4. /\ monitor.consecutive_failures \in Nat
        /\ monitor.consecutive_successes \in Nat
    BY MonitorFields
  <2>5. /\ LastBoundary' <= monitor'.last_checked_at
        /\ monitor'.consecutive_failures <= monitor.consecutive_failures
        /\ monitor'.consecutive_successes <= monitor.consecutive_successes
    BY <2>1, <2>4 DEF StreakCovered
  <2>8. \A a, b \in Nat : a >= b => \A c \in {b, 0} : a >= c
    OBVIOUS
  <2>6. CASE monitor.health_status = "DOWN"
    <3>1. Cardinality(RowsAfter(results, TRUE, LastBoundary))
            >= monitor.consecutive_successes
      BY <2>6 DEF StreakCovered
    <3>2. Cardinality(RowsAfter(results, TRUE, LastBoundary))
            >= monitor'.consecutive_successes
      BY <2>3, <2>4, <2>8, <3>1
    <3> QED BY <2>1, <2>2, <2>5, <2>6, <3>2 DEF StreakCovered
  <2>7. CASE monitor.health_status # "DOWN"
    <3>1. Cardinality(RowsAfter(results, FALSE, LastBoundary))
            >= monitor.consecutive_failures
      BY <2>7 DEF StreakCovered
    <3>2. Cardinality(RowsAfter(results, FALSE, LastBoundary))
            >= monitor'.consecutive_failures
      BY <2>3, <2>4, <2>8, <3>1
    <3> QED BY <2>1, <2>2, <2>5, <2>7, <3>2 DEF StreakCovered
  <2> QED BY <2>6, <2>7
<1> QED BY <1>1, <1>2, <1>3, <1>4

\* The same where the row is left alone.
LEMMA UnchangedMonitorStep ==
  ASSUME EngineInvariant, TypeOK', TransactionsIsolated', NoStaleWriter',
         UNCHANGED <<monitor, results, incidents>>
  PROVE  EngineInvariant'
BY QuietStep

\* A worker that leaves its transaction, or never was in one.
LEMMA LeaveTransaction ==
  ASSUME TypeOK, TransactionsIsolated, NEW w \in Workers, NEW u,
         u.pc # "txn", worker' = [worker EXCEPT ![w] = u],
         UNCHANGED <<monitor, incidents>>
  PROVE  TransactionsIsolated'
BY DEF TransactionsIsolated, TypeOK

\* A step outside any transaction, while there is none.
LEMMA NoTransaction ==
  ASSUME TypeOK, ~RowLocked, UNCHANGED worker
  PROVE  TransactionsIsolated'
BY DEF TransactionsIsolated, RowLocked

-----------------------------------------------------------------------------
(* What a transaction computes.                                            *)

\* A transaction writes a result of an instant that has come.
LEMMA TransactionInstant ==
  ASSUME TypeOK, NEW w \in Workers, worker[w].pc = "txn"
  PROVE  worker[w].checked_at \in Nat \ {0}
<1>1. worker[w].checked_at \in 1..MaxClock
  BY TransactionTypes
<1> QED BY <1>1

\* A result that is not stale is newer than every row and than the last
\* transition, so it adds to what the streaks may count.
LEMMA FreshResult ==
  ASSUME EngineInvariant, NEW w \in Workers, worker[w].pc = "txn", ~Stale(w)
  PROVE  /\ worker[w].checked_at > monitor.last_checked_at
         /\ worker[w].checked_at > LastBoundary
         /\ \A i \in DOMAIN NewResults(w) :
              NewResults(w)[i].checked_at <= worker[w].checked_at
<1> DEFINE t == worker[w].checked_at
<1>1. TypeOK /\ results \in Seq(Row)
  BY DEF EngineInvariant, TypeOK
<1>2. t \in Nat \ {0} /\ monitor.last_checked_at \in Nat /\ LastBoundary \in Nat
  BY <1>1, TransactionInstant, MonitorFields, LastBoundaryType
<1>3. t > monitor.last_checked_at
  BY <1>2 DEF Stale
<1>4. LastBoundary <= monitor.last_checked_at
  BY DEF EngineInvariant, StreakCovered
<1>5. ASSUME NEW i \in DOMAIN NewResults(w)
      PROVE  NewResults(w)[i].checked_at <= t
  <2>1. CASE i \in DOMAIN results
    <3>1. NewResults(w)[i] = results[i]
      BY <1>1, <2>1 DEF NewResults
    <3>2. /\ results[i].checked_at <= monitor.last_checked_at
          /\ results[i].checked_at \in Nat
      BY <1>1, <2>1, RowFields DEF EngineInvariant, ResultsApplied
    <3> QED BY <1>2, <1>3, <3>1, <3>2
  <2>2. CASE i \notin DOMAIN results
    <3>1. NewResults(w)[i] = [checked_at |-> t, success |-> Success(w)]
      BY <1>1, <2>2 DEF NewResults
    <3> QED BY <1>2, <3>1
  <2> QED BY <2>1, <2>2
<1> QED BY <1>2, <1>3, <1>4, <1>5

\* The rows newer than an instant that a commit leaves, counted.
LEMMA RowsCounted ==
  ASSUME TypeOK, NEW w \in Workers, worker[w].pc = "txn",
         NEW s \in BOOLEAN, NEW t \in Nat
  PROVE  /\ Cardinality(RowsAfter(NewResults(w), s, t)) \in Nat
         /\ Cardinality(RowsAfter(results, s, t)) \in Nat
         /\ Cardinality(RowsAfter(NewResults(w), s, t))
              >= Cardinality(RowsAfter(results, s, t))
         /\ Success(w) = s /\ worker[w].checked_at > t =>
              Cardinality(RowsAfter(NewResults(w), s, t))
                = Cardinality(RowsAfter(results, s, t)) + 1
<1> DEFINE row == [checked_at |-> worker[w].checked_at, success |-> Success(w)]
<1>1. results \in Seq(Row) /\ row \in Row
  BY TransactionTypes DEF TypeOK
<1>2. row.checked_at = worker[w].checked_at /\ row.success = Success(w)
  OBVIOUS
<1>3. NewResults(w) = Append(results, row)
  BY DEF NewResults
<1> HIDE DEF row
<1>4. Cardinality(RowsAfter(results, s, t)) \in Nat
  BY <1>1, RowsAfterFinite
<1> QED BY <1>1, <1>2, <1>3, <1>4, RowsAfterAppend

\* The counters that Applied leaves are covered by the rows that are there
\* once the result has been added.
LEMMA StreakStillCovered ==
  ASSUME EngineInvariant, NEW w \in Workers, worker[w].pc = "txn", ~Stale(w)
  PROVE  /\ monitor.health_status = "DOWN" =>
              Cardinality(RowsAfter(NewResults(w), TRUE, LastBoundary))
                >= Applied(w).consecutive_successes
         /\ monitor.health_status # "DOWN" =>
              Cardinality(RowsAfter(NewResults(w), FALSE, LastBoundary))
                >= Applied(w).consecutive_failures
<1>1. TypeOK
  BY DEF EngineInvariant
<1>2. /\ Success(w) \in BOOLEAN
      /\ worker[w].checked_at \in Nat
      /\ LastBoundary \in Nat
      /\ worker[w].checked_at > LastBoundary
  BY <1>1, TransactionInstant, LastBoundaryType, FreshResult DEF Success
<1>3. /\ monitor.consecutive_failures \in Nat
      /\ monitor.consecutive_successes \in Nat
  BY <1>1, MonitorFields
<1>4. CASE monitor.health_status = "DOWN"
  <2> DEFINE old == Cardinality(RowsAfter(results, TRUE, LastBoundary))
             new == Cardinality(RowsAfter(NewResults(w), TRUE, LastBoundary))
  <2>1. old >= monitor.consecutive_successes
    BY <1>4 DEF EngineInvariant, StreakCovered
  <2>2. /\ old \in Nat /\ new \in Nat
        /\ Success(w) => new = old + 1
    BY <1>1, <1>2, RowsCounted
  <2>3. Applied(w).consecutive_successes =
          IF Success(w) THEN monitor.consecutive_successes + 1 ELSE 0
    BY <1>1, <1>2, AppliedFields
  <2> HIDE DEF old, new
  <2>4. new >= Applied(w).consecutive_successes
    BY <1>3, <2>1, <2>2, <2>3
  <2> QED BY <1>4, <2>4 DEF new
<1>5. CASE monitor.health_status # "DOWN"
  <2> DEFINE old == Cardinality(RowsAfter(results, FALSE, LastBoundary))
             new == Cardinality(RowsAfter(NewResults(w), FALSE, LastBoundary))
  <2>1. old >= monitor.consecutive_failures
    BY <1>5 DEF EngineInvariant, StreakCovered
  <2>2. /\ old \in Nat /\ new \in Nat
        /\ ~Success(w) => new = old + 1
    BY <1>1, <1>2, RowsCounted
  <2>3. Applied(w).consecutive_failures =
          IF Success(w) THEN 0 ELSE monitor.consecutive_failures + 1
    BY <1>1, <1>2, AppliedFields
  <2> HIDE DEF old, new
  <2>4. new >= Applied(w).consecutive_failures
    BY <1>3, <2>1, <2>2, <2>3
  <2> QED BY <1>5, <2>4 DEF new
<1> QED BY <1>4, <1>5

\* A transition is dated after the one before it and not after its check.
LEMMA TransitionDates ==
  ASSUME EngineInvariant, NEW w \in Workers, worker[w].pc = "txn", ~Stale(w)
  PROVE  /\ monitor.health_status # "DOWN" =>
              OutageStart(w) \in (LastBoundary + 1)..worker[w].checked_at
         /\ monitor.health_status = "DOWN" =>
              OutageEnd(w) \in (LastBoundary + 1)..worker[w].checked_at
<1> DEFINE t == worker[w].checked_at
           b == LastBoundary
<1>1. TypeOK
  BY DEF EngineInvariant
<1>2. /\ NewResults(w) \in Seq(Row)
      /\ t \in Nat \ {0}
      /\ b \in Nat
      /\ Applied(w).consecutive_failures \in Nat
      /\ Applied(w).consecutive_successes \in Nat
  <2>1. NewResults(w) \in Seq(Row) /\ Applied(w) \in MonitorRow
    BY <1>1, TransactionTypes
  <2>2. t \in Nat \ {0} /\ b \in Nat
    BY <1>1, TransactionInstant, LastBoundaryType
  <2> QED BY <2>1, <2>2 DEF MonitorRow
<1>3. /\ t > b
      /\ \A i \in DOMAIN NewResults(w) : NewResults(w)[i].checked_at <= t
  BY FreshResult
<1>4. OutageStart(w) \in Nat /\ OutageEnd(w) \in Nat
  BY <1>1, TransactionTypes
<1>5. OutageStart(w) <= t /\ OutageEnd(w) <= t
  <2>1. t \in Nat /\ t <= t
    BY <1>2
  <2> QED BY <1>2, <1>3, <2>1, StreakStartNotAfter DEF OutageStart, OutageEnd
<1>6. ASSUME monitor.health_status # "DOWN" PROVE OutageStart(w) > b
  <2>1. Cardinality(RowsAfter(NewResults(w), FALSE, b))
          >= Applied(w).consecutive_failures
    BY <1>6, StreakStillCovered
  <2> HIDE DEF b, t
  <2>2. StreakStart(NewResults(w), FALSE, Applied(w).consecutive_failures, t) > b
    BY <1>2, <1>3, <2>1, StreakStartAfter
  <2> QED BY <2>2 DEF OutageStart, t
<1>7. ASSUME monitor.health_status = "DOWN" PROVE OutageEnd(w) > b
  <2>1. Cardinality(RowsAfter(NewResults(w), TRUE, b))
          >= Applied(w).consecutive_successes
    BY <1>7, StreakStillCovered
  <2> HIDE DEF b, t
  <2>2. StreakStart(NewResults(w), TRUE, Applied(w).consecutive_successes, t) > b
    BY <1>2, <1>3, <2>1, StreakStartAfter
  <2> QED BY <2>2 DEF OutageEnd, t
<1> HIDE DEF b, t
<1> QED BY <1>2, <1>4, <1>5, <1>6, <1>7 DEF b, t

\* Which incident a transition found: none for an outage that begins, the
\* last one for an outage that ends.
LEMMA TransactionReads ==
  ASSUME EngineInvariant, NEW w \in Workers, worker[w].pc = "txn"
  PROVE  /\ monitor.exists
         /\ worker[w].seen =
              IF monitor.health_status = "DOWN" THEN Len(incidents) ELSE 0
         /\ OpenIncidents =
              IF monitor.health_status = "DOWN" THEN {Len(incidents)} ELSE {}
         /\ monitor.health_status = "DOWN" =>
              /\ Len(incidents) \in DOMAIN incidents
              /\ Len(incidents) # 0
              /\ LastBoundary = incidents[Len(incidents)].started_at
<1>1. monitor.health_status = "DOWN" =>
        /\ Len(incidents) \in DOMAIN incidents
        /\ Len(incidents) # 0
        /\ incidents # << >>
  BY DownHasIncident DEF EngineInvariant
<1> QED BY <1>1 DEF EngineInvariant, TransactionsIsolated, LastBoundary,
                    DownIffOpenIncident

\* No constraint on incidents ever refuses a measurement.
LEMMA NoIntegrityError ==
  ASSUME EngineInvariant, NEW w \in Workers, worker[w].pc = "txn"
  PROVE  ~IntegrityError(w)
<1>1. ~(CrossesTo(w, "DOWN") /\ worker[w].seen = 0 /\ OpenIncidents # {})
  BY TransactionReads DEF CrossesTo
<1>2. ASSUME CrossesTo(w, "UP"), worker[w].seen # 0
      PROVE  ~(OutageEnd(w) < incidents[worker[w].seen].started_at)
  <2>1. /\ monitor.health_status = "DOWN"
        /\ incidents[worker[w].seen].started_at = LastBoundary
    BY <1>2, TransactionReads
  <2>2. OutageEnd(w) \in (LastBoundary + 1)..worker[w].checked_at
    BY <1>2, <2>1, TransitionDates DEF CrossesTo
  <2>3. LastBoundary \in Nat
    BY LastBoundaryType DEF EngineInvariant
  <2> QED BY <2>1, <2>2, <2>3
<1> QED BY <1>1, <1>2 DEF IntegrityError

\* A commit ends the only transaction there is.
LEMMA CommitIsolation ==
  ASSUME EngineInvariant, NEW w \in Workers, Commit(w)
  PROVE  TransactionsIsolated'
<1> DEFINE u == IF worker[w].outcome = "internal_error"
                     /\ worker[w].retries < MaxRetries
                THEN Retrying(worker[w].retries) ELSE Finishing
<1>1. u.pc # "txn"
  BY DEF Retrying, Finishing, IdleWorker
<1>2. worker' = [worker EXCEPT ![w] = u] /\ worker[w].pc = "txn"
  BY DEF Commit
<1> HIDE DEF u
<1>3. \A v \in Workers : worker'[v].pc # "txn"
  BY <1>1, <1>2 DEF EngineInvariant, TypeOK, TransactionsIsolated
<1> QED BY <1>3 DEF TransactionsIsolated

\* What a commit appends is not newer than what it applies.
LEMMA CommitResults ==
  ASSUME EngineInvariant, NEW w \in Workers, Commit(w), ~Stale(w),
         monitor' = Applied(w)
  PROVE  /\ monitor'.last_checked_at = worker[w].checked_at
         /\ ResultsApplied'
<1>1. monitor'.last_checked_at = worker[w].checked_at
  BY TransactionInstant, AppliedFields DEF Commit, EngineInvariant
<1>2. results' = NewResults(w) /\ worker[w].pc = "txn"
  BY DEF Commit
<1> QED BY <1>1, <1>2, FreshResult DEF ResultsApplied

\* A stale result is history and nothing else.
LEMMA RecordStaleSafe ==
  ASSUME EngineInvariant, TypeOK', NEW w \in Workers, RecordStale(w)
  PROVE  EngineInvariant'
<1>1. /\ TypeOK /\ worker[w].pc = "txn" /\ Stale(w) /\ Commit(w)
      /\ results' = NewResults(w)
      /\ UNCHANGED <<monitor, incidents, request>>
  BY DEF RecordStale, Commit, EngineInvariant
<1>2. DownIffOpenIncident' /\ OutagesDisjoint' /\ NoStaleWriter'
  BY <1>1 DEF EngineInvariant, DownIffOpenIncident, OpenIncidents, IsOpen,
              OutagesDisjoint, NoStaleWriter
<1>3. ResultsApplied'
  <2>1. worker[w].checked_at <= monitor.last_checked_at
    BY <1>1 DEF Stale
  <2>2. ASSUME NEW i \in DOMAIN results'
        PROVE  results'[i].checked_at <= monitor.last_checked_at
    <3>1. results \in Seq(Row)
      BY <1>1 DEF TypeOK
    <3>2. CASE i \in DOMAIN results
      <4>1. results'[i] = results[i]
        BY <1>1, <3>1, <3>2 DEF NewResults
      <4> QED BY <3>2, <4>1 DEF EngineInvariant, ResultsApplied
    <3>3. CASE i \notin DOMAIN results
      <4>1. results'[i] = [checked_at |-> worker[w].checked_at,
                           success |-> Success(w)]
        BY <1>1, <3>1, <3>3 DEF NewResults
      <4> QED BY <2>1, <4>1
    <3> QED BY <3>2, <3>3
  <2> QED BY <1>1, <2>2 DEF ResultsApplied
<1>4. StreakCovered'
  <2>1. LastBoundary' = LastBoundary /\ LastBoundary \in Nat
    BY <1>1, LastBoundaryType DEF LastBoundary
  <2>2. \A s \in BOOLEAN :
          /\ Cardinality(RowsAfter(results', s, LastBoundary)) \in Nat
          /\ Cardinality(RowsAfter(results, s, LastBoundary)) \in Nat
          /\ Cardinality(RowsAfter(results', s, LastBoundary))
               >= Cardinality(RowsAfter(results, s, LastBoundary))
    BY <1>1, <2>1, RowsCounted
  <2>3. \A s : RowsAfter(results, s, LastBoundary)'
                 = RowsAfter(results', s, LastBoundary)
    BY <2>1 DEF RowsAfter
  <2>4. /\ monitor.consecutive_failures \in Nat
        /\ monitor.consecutive_successes \in Nat
    BY <1>1, MonitorFields
  <2>5. \A a, b, c \in Nat : a >= b /\ b >= c => a >= c
    OBVIOUS
  <2>6. CASE monitor.health_status = "DOWN"
    <3>1. Cardinality(RowsAfter(results, TRUE, LastBoundary))
            >= monitor.consecutive_successes
      BY <2>6 DEF EngineInvariant, StreakCovered
    <3>2. Cardinality(RowsAfter(results', TRUE, LastBoundary))
            >= monitor.consecutive_successes
      BY <2>2, <2>4, <2>5, <3>1
    <3> QED BY <1>1, <2>1, <2>3, <2>6, <3>2 DEF EngineInvariant, StreakCovered
  <2>7. CASE monitor.health_status # "DOWN"
    <3>1. Cardinality(RowsAfter(results, FALSE, LastBoundary))
            >= monitor.consecutive_failures
      BY <2>7 DEF EngineInvariant, StreakCovered
    <3>2. Cardinality(RowsAfter(results', FALSE, LastBoundary))
            >= monitor.consecutive_failures
      BY <2>2, <2>4, <2>5, <3>1
    <3> QED BY <1>1, <2>1, <2>3, <2>7, <3>2 DEF EngineInvariant, StreakCovered
  <2> QED BY <2>6, <2>7
<1> QED BY <1>1, <1>2, <1>3, <1>4, CommitIsolation DEF EngineInvariant

\* A result that moves no status keeps the invariant.
LEMMA RecordSameStatusSafe ==
  ASSUME EngineInvariant, TypeOK', NEW w \in Workers, RecordSameStatus(w)
  PROVE  EngineInvariant'
<1>1. /\ TypeOK /\ worker[w].pc = "txn" /\ ~Stale(w) /\ Commit(w)
      /\ results' = NewResults(w) /\ monitor' = Applied(w)
      /\ monitor'.health_status = monitor.health_status
      /\ UNCHANGED <<incidents, request>>
  BY DEF RecordSameStatus, Commit, EngineInvariant
<1>2. DownIffOpenIncident' /\ OutagesDisjoint' /\ NoStaleWriter'
  BY <1>1 DEF EngineInvariant, DownIffOpenIncident, OpenIncidents, IsOpen,
              OutagesDisjoint, NoStaleWriter
<1>3. ResultsApplied' /\ monitor'.last_checked_at = worker[w].checked_at
  BY <1>1, CommitResults
<1>4. StreakCovered'
  <2>1. LastBoundary' = LastBoundary
    BY <1>1 DEF LastBoundary
  <2>2. LastBoundary <= worker[w].checked_at
    BY <1>1, FreshResult, LastBoundaryType, TransactionInstant
  <2>3. \A s : RowsAfter(results, s, LastBoundary)'
                 = RowsAfter(NewResults(w), s, LastBoundary)
    BY <1>1, <2>1 DEF RowsAfter
  <2> QED BY <1>1, <1>3, <2>1, <2>2, <2>3, StreakStillCovered DEF StreakCovered
<1> QED BY <1>1, <1>2, <1>3, <1>4, CommitIsolation DEF EngineInvariant

-----------------------------------------------------------------------------
(* Transitions.                                                            *)

\* What a transition to DOWN does to the tables: the incident is new.
LEMMA OutageBegins ==
  ASSUME EngineInvariant, NEW w \in Workers, RecordDown(w)
  PROVE  /\ monitor.health_status # "DOWN"
         /\ monitor'.health_status = "DOWN"
         /\ OpenIncidents = {}
         /\ incidents' = Append(incidents, NewIncident(OutageStart(w)))
         /\ outbox' = Enqueued(Len(incidents'), "INCIDENT_OPENED")
         /\ OutageStart(w) \in (LastBoundary + 1)..worker[w].checked_at
         /\ OutageStart(w) \in 1..MaxClock
<1>1. /\ worker[w].pc = "txn" /\ CrossesTo(w, "DOWN")
      /\ monitor.health_status # "DOWN" /\ monitor'.health_status = "DOWN"
      /\ ~Stale(w)
  BY DEF RecordDown, Commit, CrossesTo
<1>2. worker[w].seen = 0 /\ OpenIncidents = {}
  BY <1>1, TransactionReads
<1>3. OutageStart(w) \in (LastBoundary + 1)..worker[w].checked_at
  BY <1>1, TransitionDates
<1>4. LastBoundary \in Nat /\ worker[w].checked_at \in 1..MaxClock
  BY <1>1, LastBoundaryType, TransactionTypes DEF EngineInvariant
<1>5. OutageStart(w) \in 1..MaxClock
  <2>1. \A b, m \in Nat : \A t \in 1..m : (b + 1)..t \subseteq 1..m
    OBVIOUS
  <2> QED BY <1>3, <1>4, <2>1, EngineAssumption DEF EngineAssumption
<1> QED BY <1>1, <1>2, <1>3, <1>5 DEF RecordDown

\* The incidents of the past are over before what comes after the boundary.
LEMMA PastIncidents ==
  ASSUME EngineInvariant, monitor.health_status # "DOWN", NEW i \in DOMAIN incidents
  PROVE  /\ ~IsOpen(i)
         /\ incidents[i].resolved_at \in 1..LastBoundary
<1>1. TypeOK /\ incidents \in Seq(IncidentRow) /\ OutagesDisjoint
  BY DEF EngineInvariant, TypeOK
<1>2. \A j \in DOMAIN incidents : ~IsOpen(j)
  BY DEF EngineInvariant, DownIffOpenIncident, OpenIncidents
<1>3. /\ Len(incidents) \in DOMAIN incidents
      /\ incidents # << >>
      /\ i <= Len(incidents)
  BY <1>1
<1>4. \A j \in DOMAIN incidents :
        /\ incidents[j].started_at \in Nat \ {0}
        /\ incidents[j].resolved_at \in Nat
        /\ incidents[j].resolved_at > incidents[j].started_at
  BY <1>1, <1>2, IncidentFields DEF OutagesDisjoint
<1>5. LastBoundary = incidents[Len(incidents)].resolved_at
  BY <1>3 DEF LastBoundary
<1>6. CASE i = Len(incidents)
  BY <1>2, <1>4, <1>5, <1>6
<1>7. CASE i < Len(incidents)
  <2>1. incidents[i].resolved_at
          \in 1..(incidents[Len(incidents)].started_at - 1)
    BY <1>1, <1>3, <1>7 DEF OutagesDisjoint
  <2> QED BY <1>2, <1>3, <1>4, <1>5, <2>1
<1> QED BY <1>1, <1>3, <1>6, <1>7

\* So does one that opens an incident,
LEMMA RecordDownSafe ==
  ASSUME EngineInvariant, TypeOK', NEW w \in Workers, RecordDown(w)
  PROVE  EngineInvariant'
<1> DEFINE start == OutageStart(w)
           n     == Len(incidents) + 1
<1>1. /\ TypeOK /\ worker[w].pc = "txn" /\ ~Stale(w) /\ Commit(w)
      /\ results' = NewResults(w) /\ monitor' = Applied(w)
      /\ request' = request
  BY DEF RecordDown, Commit, CrossesTo, EngineInvariant
<1>2. /\ monitor.health_status # "DOWN"
      /\ monitor'.health_status = "DOWN"
      /\ incidents' = Append(incidents, NewIncident(start))
      /\ start \in (LastBoundary + 1)..worker[w].checked_at
      /\ start \in Nat \ {0}
  BY <1>1, OutageBegins, TransactionTypes
<1>3. /\ incidents \in Seq(IncidentRow)
      /\ LastBoundary \in Nat
      /\ worker[w].checked_at \in Nat
  BY <1>1, LastBoundaryType, TransactionInstant DEF TypeOK
<1> HIDE DEF start
<1>4. /\ Len(incidents') = n
      /\ n \in DOMAIN incidents'
      /\ DOMAIN incidents' = DOMAIN incidents \cup {n}
      /\ incidents'[n] = NewIncident(start)
      /\ \A i \in DOMAIN incidents : /\ incidents'[i] = incidents[i]
                                     /\ i \in Nat /\ i < n
  BY <1>2, <1>3
<1>5. /\ incidents'[n].status = "OPEN"
      /\ incidents'[n].started_at = start
      /\ incidents'[n].resolved_at = 0
  BY <1>4 DEF NewIncident
<1>6. \A i \in DOMAIN incidents :
        /\ incidents[i].status = "RESOLVED"
        /\ incidents[i].resolved_at \in 1..LastBoundary
  BY <1>2, PastIncidents DEF IsOpen
<1>7. DownIffOpenIncident'
  BY <1>2, <1>4, <1>5, <1>6 DEF DownIffOpenIncident, OpenIncidents, IsOpen
<1>8. OutagesDisjoint'
  <2>1. ASSUME NEW i \in DOMAIN incidents'
        PROVE  IsOpen(i)' \/ incidents'[i].resolved_at > incidents'[i].started_at
    <3>1. CASE i = n
      BY <1>5, <3>1 DEF IsOpen
    <3>2. CASE i \in DOMAIN incidents
      BY <1>2, <1>4, <3>2, PastIncidents DEF EngineInvariant, OutagesDisjoint
    <3> QED BY <1>4, <3>1, <3>2
  <2>2. ASSUME NEW i \in DOMAIN incidents', NEW j \in DOMAIN incidents', i < j
        PROVE  incidents'[i].resolved_at \in 1..(incidents'[j].started_at - 1)
    <3>1. i \in DOMAIN incidents
      BY <1>3, <1>4, <2>2
    <3>2. CASE j = n
      <4>1. incidents'[i].resolved_at \in 1..LastBoundary
        BY <1>4, <1>6, <3>1
      <4> QED BY <1>2, <1>3, <1>5, <3>2, <4>1
    <3>3. CASE j \in DOMAIN incidents
      <4>1. incidents[i].resolved_at \in 1..(incidents[j].started_at - 1)
        BY <2>2, <3>1, <3>3 DEF EngineInvariant, OutagesDisjoint
      <4> QED BY <1>4, <3>1, <3>3, <4>1
    <3> QED BY <1>4, <3>2, <3>3
  <2> QED BY <2>1, <2>2 DEF OutagesDisjoint
<1>9. ResultsApplied' /\ monitor'.last_checked_at = worker[w].checked_at
  BY <1>1, CommitResults
<1>10. StreakCovered'
  <2>1. LastBoundary' = start
    BY <1>2, <1>4, <1>5 DEF LastBoundary
  <2>2. LastBoundary' <= monitor'.last_checked_at
    BY <1>2, <1>3, <1>9, <2>1
  <2>3. monitor'.consecutive_successes = 0
    <3>1. worker[w].checked_at \in Nat
      BY <1>3
    <3>2. Success(w) => Applied(w).health_status \in {"UP", monitor.health_status}
      BY <1>1, <3>1, AppliedFields
    <3>3. ~Success(w)
      BY <1>1, <1>2, <3>2
    <3> QED BY <1>1, <3>1, <3>3, AppliedFields
  <2>4. Cardinality(RowsAfter(results, TRUE, LastBoundary)') \in Nat
    <3>1. results' \in Seq(Row)
      BY DEF TypeOK
    <3>2. Cardinality(RowsAfter(results', TRUE, start)) \in Nat
      BY <3>1, RowsAfterFinite
    <3>3. RowsAfter(results, TRUE, LastBoundary)'
            = RowsAfter(results', TRUE, start)
      BY <2>1 DEF RowsAfter
    <3> QED BY <3>2, <3>3
  <2>5. Cardinality(RowsAfter(results, TRUE, LastBoundary)')
          >= monitor'.consecutive_successes
    <3>1. \A c \in Nat : c >= 0
      OBVIOUS
    <3> QED BY <2>3, <2>4, <3>1
  <2> QED BY <1>2, <2>2, <2>5 DEF StreakCovered
<1>11. NoStaleWriter'
  BY <1>1 DEF EngineInvariant, NoStaleWriter
<1> QED BY <1>1, <1>7, <1>8, <1>9, <1>10, <1>11, CommitIsolation
        DEF EngineInvariant

\* What a transition to UP does to the tables: it closes the outage that
\* lasts, or there is none (the monitor was NEW).
LEMMA OutageEnds ==
  ASSUME EngineInvariant, NEW w \in Workers, RecordUp(w)
  PROVE  /\ monitor'.health_status = "UP"
         /\ monitor.health_status # "DOWN" => UNCHANGED <<incidents, outbox>>
         /\ monitor.health_status = "DOWN" =>
              /\ Len(incidents) \in DOMAIN incidents
              /\ incidents' = [incidents EXCEPT ![Len(incidents)] =
                                 ResolveIncident(@, OutageEnd(w))]
              /\ outbox' = Enqueued(Len(incidents), "INCIDENT_RESOLVED")
              /\ OutageEnd(w) \in (LastBoundary + 1)..worker[w].checked_at
              /\ OutageEnd(w) \in 1..MaxClock
              /\ LastBoundary = incidents[Len(incidents)].started_at
<1>1. /\ worker[w].pc = "txn" /\ CrossesTo(w, "UP")
      /\ monitor'.health_status = "UP"
      /\ ~Stale(w)
  BY DEF RecordUp, Commit, CrossesTo
<1>2. ASSUME monitor.health_status # "DOWN" PROVE UNCHANGED <<incidents, outbox>>
  <2>1. worker[w].seen = 0
    BY <1>1, <1>2, TransactionReads
  <2> QED BY <2>1 DEF RecordUp
<1>3. ASSUME monitor.health_status = "DOWN"
      PROVE  /\ Len(incidents) \in DOMAIN incidents
             /\ incidents' = [incidents EXCEPT ![Len(incidents)] =
                                 ResolveIncident(@, OutageEnd(w))]
             /\ outbox' = Enqueued(Len(incidents), "INCIDENT_RESOLVED")
             /\ OutageEnd(w) \in (LastBoundary + 1)..worker[w].checked_at
             /\ OutageEnd(w) \in 1..MaxClock
             /\ LastBoundary = incidents[Len(incidents)].started_at
  <2>1. /\ worker[w].seen = Len(incidents) /\ Len(incidents) # 0
        /\ Len(incidents) \in DOMAIN incidents
        /\ LastBoundary = incidents[Len(incidents)].started_at
    BY <1>1, <1>3, TransactionReads
  <2>2. OutageEnd(w) \in (LastBoundary + 1)..worker[w].checked_at
    BY <1>1, <1>3, TransitionDates
  <2>3. LastBoundary \in Nat /\ worker[w].checked_at \in 1..MaxClock
    BY <1>1, LastBoundaryType, TransactionTypes DEF EngineInvariant
  <2>4. OutageEnd(w) \in 1..MaxClock
    <3>1. \A b, m \in Nat : \A t \in 1..m : (b + 1)..t \subseteq 1..m
      OBVIOUS
    <3> QED BY <2>2, <2>3, <3>1, EngineAssumption DEF EngineAssumption
  <2> QED BY <2>1, <2>2, <2>4 DEF RecordUp
<1> QED BY <1>1, <1>2, <1>3

\* and one that resolves it.
LEMMA RecordUpSafe ==
  ASSUME EngineInvariant, TypeOK', NEW w \in Workers, RecordUp(w)
  PROVE  EngineInvariant'
<1> DEFINE end == OutageEnd(w)
           n   == Len(incidents)
<1>1. /\ TypeOK /\ worker[w].pc = "txn" /\ ~Stale(w) /\ Commit(w)
      /\ results' = NewResults(w) /\ monitor' = Applied(w)
      /\ request' = request
  BY DEF RecordUp, Commit, CrossesTo, EngineInvariant
<1>2. monitor'.health_status = "UP"
  BY OutageEnds
<1>3. /\ incidents \in Seq(IncidentRow)
      /\ LastBoundary \in Nat
      /\ worker[w].checked_at \in Nat
      /\ end \in Nat
  BY <1>1, LastBoundaryType, TransactionInstant, TransactionTypes DEF TypeOK
<1>4. ResultsApplied' /\ monitor'.last_checked_at = worker[w].checked_at
  BY <1>1, CommitResults
<1>5. monitor'.consecutive_failures = 0
  <2>1. /\ ~Success(w) => Applied(w).health_status \in {"DOWN", monitor.health_status}
        /\ Success(w) => Applied(w).consecutive_failures = 0
    BY <1>1, <1>3, AppliedFields
  <2>2. CrossesTo(w, "UP")
    BY DEF RecordUp
  <2> QED BY <1>1, <1>2, <2>1, <2>2 DEF CrossesTo
\* No failure counts yet, so it is enough to place the boundary.
<1>6. ASSUME LastBoundary' <= worker[w].checked_at, LastBoundary' \in Nat
      PROVE  StreakCovered'
  <2>1. results' \in Seq(Row)
    BY DEF TypeOK
  <2>2. Cardinality(RowsAfter(results', FALSE, LastBoundary')) \in Nat
    BY <2>1, RowsAfterFinite
  <2>3. RowsAfter(results, FALSE, LastBoundary)'
          = RowsAfter(results', FALSE, LastBoundary')
    BY DEF RowsAfter
  <2>4. Cardinality(RowsAfter(results, FALSE, LastBoundary)')
          >= monitor'.consecutive_failures
    <3>1. \A c \in Nat : c >= 0
      OBVIOUS
    <3> QED BY <1>5, <2>2, <2>3, <3>1
  <2> QED BY <1>2, <1>4, <1>6, <2>4 DEF StreakCovered
<1>7. NoStaleWriter' /\ TransactionsIsolated'
  BY <1>1, CommitIsolation DEF EngineInvariant, NoStaleWriter
<1>8. CASE monitor.health_status # "DOWN"
  <2>1. incidents' = incidents
    BY <1>8, OutageEnds
  <2>2. DownIffOpenIncident' /\ OutagesDisjoint'
    BY <1>2, <1>8, <2>1 DEF EngineInvariant, DownIffOpenIncident,
                            OpenIncidents, IsOpen, OutagesDisjoint
  <2>3. LastBoundary' = LastBoundary
    BY <1>2, <1>8, <2>1 DEF LastBoundary
  <2>4. LastBoundary <= worker[w].checked_at
    BY <1>1, <1>3, FreshResult
  <2> QED BY <1>1, <1>3, <1>4, <1>6, <1>7, <2>2, <2>3, <2>4
          DEF EngineInvariant
<1>9. CASE monitor.health_status = "DOWN"
  <2>1. /\ n \in DOMAIN incidents
        /\ incidents' = [incidents EXCEPT ![n] = ResolveIncident(@, end)]
        /\ end \in (LastBoundary + 1)..worker[w].checked_at
        /\ LastBoundary = incidents[n].started_at
    BY <1>9, OutageEnds
  <2> HIDE DEF end
  <2>2. /\ incidents[n] \in IncidentRow
        /\ incidents[n].started_at \in Nat \ {0}
    BY <1>3, <2>1, IncidentFields
  <2>3. /\ ResolveIncident(incidents[n], end).status = "RESOLVED"
        /\ ResolveIncident(incidents[n], end).resolved_at = end
        /\ ResolveIncident(incidents[n], end).started_at
             = incidents[n].started_at
    BY <2>2 DEF ResolveIncident, IncidentRow
  <2>4. /\ DOMAIN incidents' = DOMAIN incidents
        /\ Len(incidents') = n
        /\ incidents' # << >>
        /\ incidents'[n] = ResolveIncident(incidents[n], end)
        /\ \A i \in DOMAIN incidents : /\ i # n => incidents'[i] = incidents[i]
                                       /\ i \in Nat /\ i <= n
    <3> HIDE DEF end
    <3> QED BY <1>3, <2>1
  <2>5. \A i \in DOMAIN incidents : i # n => incidents[i].status = "RESOLVED"
    BY <1>9 DEF EngineInvariant, DownIffOpenIncident, OpenIncidents, IsOpen
  <2>6. DownIffOpenIncident'
    BY <1>2, <2>3, <2>4, <2>5
       DEF DownIffOpenIncident, OpenIncidents, IsOpen
  <2>7. OutagesDisjoint'
    <3>1. ASSUME NEW i \in DOMAIN incidents'
          PROVE  incidents'[i].resolved_at > incidents'[i].started_at
      <4>1. CASE i = n
        BY <1>3, <2>1, <2>2, <2>3, <2>4, <4>1
      <4>2. CASE i # n
        BY <2>4, <2>5, <4>2 DEF EngineInvariant, OutagesDisjoint, IsOpen
      <4> QED BY <4>1, <4>2
    <3>2. ASSUME NEW i \in DOMAIN incidents', NEW j \in DOMAIN incidents', i < j
          PROVE  incidents'[i].resolved_at \in 1..(incidents'[j].started_at - 1)
      <4>1. i # n
        BY <1>3, <2>4, <3>2
      <4>2. incidents[i].resolved_at \in 1..(incidents[j].started_at - 1)
        BY <2>4, <3>2 DEF EngineInvariant, OutagesDisjoint
      <4>3. incidents'[j].started_at = incidents[j].started_at
        BY <2>3, <2>4
      <4> QED BY <2>4, <4>1, <4>2, <4>3
    <3> QED BY <3>1, <3>2 DEF OutagesDisjoint
  <2>8. LastBoundary' = end
    BY <1>2, <2>3, <2>4 DEF LastBoundary
  <2>9. end <= worker[w].checked_at
    BY <1>3, <2>1
  <2> QED BY <1>1, <1>3, <1>4, <1>6, <1>7, <2>6, <2>7, <2>8, <2>9
          DEF EngineInvariant
<1> QED BY <1>8, <1>9

-----------------------------------------------------------------------------
(* Every step.                                                             *)

\* A step of run_check keeps the invariant.
LEMMA CheckStepSafe ==
  ASSUME EngineInvariant, TypeOK', NEW w \in Workers, CheckNext(w)
  PROVE  EngineInvariant'
<1> USE DEF EngineInvariant
<1>1. ASSUME NEW r \in 0..MaxRetries, SkipCheck(w, r) PROVE EngineInvariant'
  <2>1. TransactionsIsolated' /\ NoStaleWriter'
    BY <1>1 DEF SkipCheck, TransactionsIsolated, NoStaleWriter
  <2> QED BY <1>1, <2>1, UnchangedMonitorStep DEF SkipCheck
<1>2. ASSUME NEW r \in 0..MaxRetries, StartProbe(w, r) PROVE EngineInvariant'
  <2>1. PICK t \in Now : worker' = [worker EXCEPT ![w] = ProbeSince(t, r)]
    BY <1>2 DEF StartProbe
  <2>2. ProbeSince(t, r).pc # "txn"
    BY DEF ProbeSince
  <2>3. UNCHANGED <<monitor, results, incidents, request>>
    BY <1>2 DEF StartProbe
  <2>4. TransactionsIsolated' /\ NoStaleWriter'
    BY <2>1, <2>2, <2>3, LeaveTransaction DEF NoStaleWriter
  <2> QED BY <2>3, <2>4, UnchangedMonitorStep
<1>3. ASSUME BeginTransaction(w) PROVE EngineInvariant'
  <2>1. /\ monitor.exists /\ ~RowLocked
        /\ UNCHANGED <<monitor, results, incidents, request>>
    BY <1>3 DEF BeginTransaction
  <2>2. \A v \in Workers : v # w => worker'[v].pc # "txn"
    BY <1>3, <2>1 DEF BeginTransaction, RowLocked, TypeOK
  <2>3. worker'[w].seen = OpenIncidentForMonitor
    <3>1. PICK o \in Outcome :
            worker' = [worker EXCEPT ![w] =
                         [worker[w] EXCEPT !.pc = "txn", !.outcome = o,
                                           !.seen = OpenIncidentForMonitor]]
      BY <1>3 DEF BeginTransaction
    <3>2. worker[w] \in WorkerState /\ w \in DOMAIN worker
      BY DEF TypeOK
    <3>3. ASSUME NEW x \in WorkerState, NEW i
          PROVE  [x EXCEPT !.pc = "txn", !.outcome = o, !.seen = i].seen = i
      BY DEF WorkerState
    <3> QED BY <3>1, <3>2, <3>3
  <2>4. TransactionsIsolated'
    BY <2>1, <2>2, <2>3, OpenIncidentIsLast DEF TransactionsIsolated
  <2>5. NoStaleWriter'
    BY <2>1 DEF NoStaleWriter
  <2> QED BY <2>1, <2>4, <2>5, UnchangedMonitorStep
<1>4. ASSUME NothingToRecord(w) \/ ProbeRaises(w) \/ RollBack(w)
             \/ RetryCheck(w)
                \/ FinishCheck(w) \/ CrashWorker(w)
      PROVE  EngineInvariant'
  <2>1. /\ UNCHANGED <<monitor, results, incidents, request>>
        /\ \E u \in {IdleWorker, Finishing} : worker' = [worker EXCEPT ![w] = u]
    BY <1>4 DEF NothingToRecord, ProbeRaises, RollBack, RetryCheck,
       FinishCheck, CrashWorker
  <2>2. IdleWorker.pc # "txn" /\ Finishing.pc # "txn"
    BY DEF IdleWorker, Finishing
  <2>3. TransactionsIsolated' /\ NoStaleWriter'
    BY <2>1, <2>2, LeaveTransaction DEF NoStaleWriter
  <2> QED BY <2>1, <2>3, UnchangedMonitorStep
<1> QED
  BY <1>1, <1>2, <1>3, <1>4, RecordStaleSafe, RecordSameStatusSafe,
     RecordDownSafe, RecordUpSafe DEF CheckNext

\* A handler never has an open incident of a monitor that is UP to
\* reconcile, and does not do the rest of what would write back old state.
LEMMA LoadSafe ==
  ASSUME EngineAlone, EngineInvariant, NEW h \in Requests,
         LoadMonitor(h) \/ LoadIncident(h)
  PROVE  /\ NoStaleWriter'
         /\ UNCHANGED <<monitor, results, incidents, worker>>
<1>1. ASSUME NEW op \in MonitorOps \cup IncidentOps, NEW row, NEW i,
             Load(h, op, row, i), op # "reconcile"
      PROVE  NoStaleWriter'
  <2>1. op \notin {"patch", "acknowledge", "force_resolve", "reconcile"}
    BY <1>1 DEF EngineAlone, Load
  <2>2. \A g \in Requests : request'[g].op = IF g = h THEN op ELSE request[g].op
    BY <1>1 DEF Load, EngineInvariant, TypeOK
  <2> QED BY <2>1, <2>2 DEF EngineInvariant, NoStaleWriter
<1>2. CASE LoadMonitor(h)
  <2>1. \E op \in MonitorOps :
          op # "reconcile" /\ (Load(h, op, NoRow, 0) \/ Load(h, op, monitor, 0))
    BY <1>2 DEF LoadMonitor, MonitorOps
  <2> QED BY <1>1, <2>1 DEF Load
<1>3. CASE LoadIncident(h)
  <2>1. PICK i \in DOMAIN incidents :
          \/ \E op \in IncidentOps \ {"reconcile"} : Load(h, op, NoRow, i)
          \/ IsOpen(i) /\ monitor.health_status = "UP"
    BY <1>3 DEF LoadIncident, IncidentOps
  <2>2. ~(IsOpen(i) /\ monitor.health_status = "UP")
    BY DEF EngineInvariant, DownIffOpenIncident, OpenIncidents
  <2> QED BY <1>1, <2>1, <2>2 DEF Load
<1> QED BY <1>2, <1>3

\* A step of a handler keeps it.
LEMMA RequestStepSafe ==
  ASSUME EngineAlone, EngineInvariant, TypeOK', NEW h \in Requests,
         RequestNext(h)
  PROVE  EngineInvariant'
<1>1. TypeOK /\ TransactionsIsolated /\ NoStaleWriter
  BY DEF EngineInvariant
<1>2. ASSUME NEW op, Saving(h, op) PROVE NoStaleWriter'
  BY <1>1, <1>2 DEF Saving, IdleRequest, NoStaleWriter, TypeOK
<1>3. ASSUME LoadMonitor(h) \/ LoadIncident(h) PROVE EngineInvariant'
  <2>1. NoStaleWriter' /\ UNCHANGED <<monitor, results, incidents, worker>>
    BY <1>3, LoadSafe
  <2>2. TransactionsIsolated'
    BY <1>1, <2>1 DEF TransactionsIsolated
  <2> QED BY <2>1, <2>2, UnchangedMonitorStep
<1>4. ASSUME SavePause(h) PROVE EngineInvariant'
  <2>1. NoStaleWriter' /\ TransactionsIsolated'
    BY <1>1, <1>2, <1>4, NoTransaction DEF SavePause
  <2>2. /\ monitor'.health_status = monitor.health_status
        /\ monitor'.last_checked_at = monitor.last_checked_at
        /\ monitor'.consecutive_failures = monitor.consecutive_failures
        /\ monitor'.consecutive_successes = monitor.consecutive_successes
    BY <1>1, <1>4 DEF SavePause, TypeOK, MonitorRow
  <2> QED BY <1>4, <2>1, <2>2, QuietStep DEF SavePause
<1>5. ASSUME SaveResume(h) PROVE EngineInvariant'
  <2>1. NoStaleWriter' /\ TransactionsIsolated'
    BY <1>1, <1>2, <1>5, NoTransaction DEF SaveResume
  <2>2. /\ monitor'.health_status = monitor.health_status
        /\ monitor'.last_checked_at = monitor.last_checked_at
        /\ monitor'.consecutive_failures = 0
        /\ monitor'.consecutive_successes = 0
    BY <1>1, <1>5 DEF SaveResume, TypeOK, MonitorRow
  <2> QED BY <1>5, <2>1, <2>2, QuietStep DEF SaveResume
<1>6. ASSUME SaveDelete(h) PROVE EngineInvariant'
  <2>1. /\ monitor' = NoRow /\ results' = << >> /\ incidents' = << >>
        /\ ~RowLocked /\ UNCHANGED worker
    BY <1>6 DEF SaveDelete
  <2>2. TransactionsIsolated'
    BY <1>1, <2>1, NoTransaction
  <2>3. NoStaleWriter'
    <3>1. IdleRequest.op = "none"
      BY DEF IdleRequest
    <3>2. ASSUME NEW g \in Requests PROVE request'[g].op \in {"none", request[g].op}
      <4>1. request[g] \in RequestState
        BY <1>1 DEF TypeOK
      <4>2. [request[g] EXCEPT !.incident = 0].op = request[g].op
        BY <4>1 DEF RequestState
      <4> QED BY <1>6, <3>1, <4>2 DEF SaveDelete
    <3> QED BY <1>1, <3>2 DEF NoStaleWriter
  <2>4. DownIffOpenIncident' /\ OutagesDisjoint' /\ ResultsApplied'
    BY <2>1 DEF NoRow, DownIffOpenIncident, OpenIncidents, OutagesDisjoint,
                ResultsApplied
  <2>5. StreakCovered'
    <3>1. /\ LastBoundary' = 0
          /\ monitor'.last_checked_at = 0
          /\ monitor'.health_status # "DOWN"
          /\ monitor'.consecutive_failures = 0
      BY <2>1 DEF LastBoundary, NoRow
    <3>2. RowsAfter(results, FALSE, LastBoundary)' = {}
      BY <2>1 DEF RowsAfter
    <3>3. Cardinality(RowsAfter(results, FALSE, LastBoundary)') = 0
      BY <3>2, FS_EmptySet
    <3>4. 0 <= 0 /\ 0 >= 0
      OBVIOUS
    <3> QED BY <3>1, <3>3, <3>4, Zenon DEF StreakCovered
  <2> QED BY <2>2, <2>3, <2>4, <2>5 DEF EngineInvariant
<1>7. ASSUME PublishCheck(h) PROVE EngineInvariant'
  <2>1. NoStaleWriter' /\ TransactionsIsolated'
    BY <1>1, <1>2, <1>7 DEF PublishCheck, TransactionsIsolated
  <2> QED BY <1>7, <2>1, UnchangedMonitorStep DEF PublishCheck
<1>8. ~(\/ SavePatch(h) \/ SaveAcknowledge(h)
        \/ SaveResolve(h, "force_resolve") \/ SaveResolve(h, "reconcile"))
  BY <1>1 DEF NoStaleWriter, SavePatch, SaveAcknowledge, SaveResolve, Saving
<1> QED BY <1>3, <1>4, <1>5, <1>6, <1>7, <1>8 DEF RequestNext

\* A monitor just created has it.
LEMMA InvariantInit == Init => EngineInvariant
<1> SUFFICES ASSUME Init PROVE EngineInvariant
  OBVIOUS
<1>1. TypeOK
  BY TypeInit
<1>2. /\ monitor.health_status = "NEW"
      /\ monitor.last_checked_at = 0
      /\ monitor.consecutive_failures = 0
      /\ incidents = << >> /\ results = << >>
  BY DEF Init, NoRow
<1>3. DownIffOpenIncident /\ OutagesDisjoint /\ ResultsApplied
  BY <1>2 DEF DownIffOpenIncident, OpenIncidents, OutagesDisjoint,
              ResultsApplied
<1>4. StreakCovered
  <2>1. RowsAfter(results, FALSE, LastBoundary) = {}
    BY <1>2 DEF RowsAfter
  <2>2. Cardinality(RowsAfter(results, FALSE, LastBoundary)) = 0
    BY <2>1, FS_EmptySet
  <2>3. LastBoundary = 0
    BY <1>2 DEF LastBoundary
  <2>4. 0 <= 0 /\ 0 >= 0
    OBVIOUS
  <2> QED BY <1>2, <2>2, <2>3, <2>4, Zenon DEF StreakCovered
<1>5. TransactionsIsolated /\ NoStaleWriter
  BY DEF Init, IdleWorker, IdleRequest, TransactionsIsolated, NoStaleWriter
<1> QED BY <1>1, <1>3, <1>4, <1>5 DEF EngineInvariant

\* Every step keeps it.
LEMMA InvariantNext ==
  ASSUME EngineAlone, EngineInvariant, [Next]_vars
  PROVE  EngineInvariant'
<1>1. TypeOK'
  BY TypeNext DEF EngineInvariant
<1>2. ASSUME UNCHANGED <<monitor, results, incidents, worker, request>>
      PROVE  EngineInvariant'
  <2>1. TransactionsIsolated' /\ NoStaleWriter'
    BY <1>2 DEF EngineInvariant, TransactionsIsolated, NoStaleWriter
  <2> QED BY <1>1, <1>2, <2>1, UnchangedMonitorStep
<1>3. CASE \/ UNCHANGED vars \/ DispatchDueCheck \/ LockExpires \/ EditChannels
           \/ \E r \in 0..MaxRetries : Redeliver(r)
  BY <1>2, <1>3 DEF vars, DispatchDueCheck, LockExpires, EditChannels,
     Redeliver
<1>4. CASE \E w \in Workers : CheckNext(w)
  BY <1>1, <1>4, CheckStepSafe
<1>5. CASE \E h \in Requests : RequestNext(h)
  BY <1>1, <1>5, RequestStepSafe
<1> QED BY <1>3, <1>4, <1>5 DEF Next

\* The engine keeps its invariant, whatever the numbers of workers, handlers,
\* retries and messages and whatever the thresholds, as long as no handler
\* writes back a row that it loaded earlier.
THEOREM EngineInvariantHolds == EngineAlone => (Spec => []EngineInvariant)
<1> SUFFICES ASSUME EngineAlone PROVE Spec => []EngineInvariant
  OBVIOUS
<1>1. EngineInvariant /\ [Next]_vars => EngineInvariant'
  BY InvariantNext
<1> QED BY <1>1, InvariantInit, PTL DEF Spec

(***************************************************************************)
(* processor.py:100-136.  The two sides of a transition, the row and its   *)
(* incident, never come apart, however many checks, pauses, resumes and    *)
(* crashes interleave.                                                     *)
(***************************************************************************)
THEOREM DownMeansOpenIncident == EngineAlone => (Spec => []DownIffOpenIncident)
<1> SUFFICES ASSUME EngineAlone PROVE Spec => []DownIffOpenIncident
  OBVIOUS
<1>1. EngineInvariant => DownIffOpenIncident
  BY DEF EngineInvariant
<1>2. Spec => []EngineInvariant
  BY EngineInvariantHolds
<1> QED BY <1>1, <1>2, PTL

(***************************************************************************)
(* selectors.py:48-67 with incidents/services.py:46-63.  The dates that    *)
(* streak_start_at finds make outages of positive length, one after the    *)
(* other, although results may be recorded late and out of order.          *)
(***************************************************************************)
THEOREM OutagesAreDisjoint == EngineAlone => (Spec => []OutagesDisjoint)
<1> SUFFICES ASSUME EngineAlone PROVE Spec => []OutagesDisjoint
  OBVIOUS
<1>1. EngineInvariant => OutagesDisjoint
  BY DEF EngineInvariant
<1>2. Spec => []EngineInvariant
  BY EngineInvariantHolds
<1> QED BY <1>1, <1>2, PTL

-----------------------------------------------------------------------------
(* Action properties.                                                      *)

\* A transaction ends, other than by a crash, only by its own commit.
LEMMA EndsByCommit ==
  ASSUME EngineInvariant, [Next]_vars, NEW w \in Workers, TransactionEnds(w)
  PROVE  Commit(w)
<1>1. /\ worker[w].pc = "txn" /\ worker'[w].pc \in {"retrying", "finishing"}
      /\ worker'[w] # worker[w]
  BY DEF TransactionEnds
<1>2. TypeOK
  BY DEF EngineInvariant
<1>3. CASE \E v \in Workers : CheckNext(v)
  <2>1. PICK v \in Workers : CheckNext(v)
    BY <1>3
  <2>2. ASSUME Commit(v) PROVE v = w
    BY <1>1, <1>2, <2>2 DEF Commit, TypeOK
  <2>3. ASSUME NEW r \in 0..MaxRetries, SkipCheck(v, r) \/ StartProbe(v, r)
        PROVE  FALSE
    BY <1>1, <1>2, <2>3 DEF SkipCheck, StartProbe, Receive, TypeOK
  <2>4. ASSUME \/ BeginTransaction(v) \/ NothingToRecord(v) \/ ProbeRaises(v)
               \/ RetryCheck(v)
               \/ FinishCheck(v)
        PROVE  FALSE
    BY <1>1, <1>2, <2>4
       DEF BeginTransaction, NothingToRecord, ProbeRaises, RetryCheck,
           FinishCheck, TypeOK
  <2>5. ASSUME CrashWorker(v) PROVE FALSE
    BY <1>1, <1>2, <2>5 DEF CrashWorker, IdleWorker, TypeOK
  <2>6. ~RollBack(v)
    BY NoIntegrityError DEF RollBack
  <2> QED BY <2>1, <2>2, <2>3, <2>4, <2>5, <2>6
          DEF CheckNext, RecordStale, RecordSameStatus, RecordDown, RecordUp
<1>4. CASE \E h \in Requests : RequestNext(h)
  BY <1>1, <1>4
     DEF RequestNext, LoadMonitor, LoadIncident, Load, SavePause, SaveResume,
         SavePatch, SaveDelete, PublishCheck, SaveAcknowledge, SaveResolve
<1>5. CASE ~(\/ \E v \in Workers : CheckNext(v)
             \/ \E h \in Requests : RequestNext(h))
  BY <1>1, <1>5 DEF Next, vars, DispatchDueCheck, Redeliver, LockExpires,
                          EditChannels
<1> QED BY <1>3, <1>4, <1>5

\* A delete leaves no row.
LEMMA DeleteLeavesNoRow ==
  ASSUME NEW h \in Requests, SaveDelete(h)
  PROVE  ~monitor'.exists
<1>1. NoRow.exists = FALSE
  BY DEF NoRow
<1>2. monitor' = NoRow
  BY DEF SaveDelete
<1> QED BY <1>1, <1>2, Zenon

\* Rows are added by commits, and only a delete takes them away.
LEMMA ResultsChange ==
  ASSUME EngineInvariant, [Next]_vars, results' # results, monitor'.exists
  PROVE  \E w \in Workers : TransactionEnds(w)
<1>1. CASE \E w \in Workers : CheckNext(w)
  <2>1. PICK w \in Workers : CheckNext(w)
    BY <1>1
  <2>2. Commit(w)
    BY <2>1 DEF CheckNext, SkipCheck, StartProbe, BeginTransaction,
                NothingToRecord, ProbeRaises, RecordStale, RecordSameStatus,
                RecordDown,
                RecordUp, RollBack, RetryCheck, FinishCheck, CrashWorker
  <2> DEFINE u == IF worker[w].outcome = "internal_error"
                       /\ worker[w].retries < MaxRetries
                  THEN Retrying(worker[w].retries) ELSE Finishing
  <2>3. u.pc \in {"retrying", "finishing"}
    BY DEF Retrying, Finishing, IdleWorker
  <2>4. worker' = [worker EXCEPT ![w] = u] /\ worker[w].pc = "txn"
    BY <2>2 DEF Commit
  <2> HIDE DEF u
  <2>5. worker'[w] = u
    BY <2>4 DEF EngineInvariant, TypeOK
  <2> QED BY <2>3, <2>4, <2>5 DEF TransactionEnds
<1>2. CASE \E h \in Requests : RequestNext(h)
  BY <1>2, DeleteLeavesNoRow
     DEF RequestNext, LoadMonitor, LoadIncident, Load, SavePause, SaveResume,
         SavePatch, PublishCheck, SaveAcknowledge, SaveResolve
<1>3. CASE ~(\/ \E v \in Workers : CheckNext(v)
             \/ \E h \in Requests : RequestNext(h))
  BY <1>3 DEF Next, vars, DispatchDueCheck, Redeliver, LockExpires,
                          EditChannels
<1> QED BY <1>1, <1>2, <1>3

(***************************************************************************)
(* processor.py:45-138.  A probe whose transaction runs to its end leaves  *)
(* exactly its own row: the unique index and the column types of incidents *)
(* never roll a measurement back.                                          *)
(***************************************************************************)
THEOREM MeasurementsRecorded ==
  EngineAlone => (Spec => EveryMeasurementRecorded)
<1> SUFFICES ASSUME EngineAlone PROVE Spec => EveryMeasurementRecorded
  OBVIOUS
<1>1. Spec => []EngineInvariant
  BY EngineInvariantHolds
<1> DEFINE A == /\ \A w \in Workers :
                     TransactionEnds(w) => results' = NewResults(w)
                /\ results' # results /\ monitor'.exists
                     => \E w \in Workers : TransactionEnds(w)
<1>2. EngineInvariant /\ [Next]_vars => [A]_vars
  BY EndsByCommit, ResultsChange DEF Commit
<1>3. Spec => [][A]_vars
  BY <1>1, <1>2, PTL DEF Spec
<1> QED BY <1>3 DEF EveryMeasurementRecorded

\* What a fresh result, and nothing else, does to the row.
LEMMA StatusStep ==
  ASSUME EngineInvariant, EngineAlone, [Next]_vars,
         monitor.exists, monitor'.exists
  PROVE  /\ monitor'.last_checked_at >= monitor.last_checked_at
         /\ \/ monitor'.health_status # monitor.health_status
            \/ monitor'.consecutive_failures > monitor.consecutive_failures
            \/ monitor'.consecutive_successes > monitor.consecutive_successes
            => monitor'.last_checked_at > monitor.last_checked_at
<1>1. TypeOK /\ monitor \in MonitorRow
  BY DEF EngineInvariant, TypeOK
<1>2. /\ monitor.last_checked_at \in Nat
      /\ monitor.consecutive_failures \in Nat
      /\ monitor.consecutive_successes \in Nat
  BY <1>1, MonitorFields
<1>3. CASE monitor' = monitor
  BY <1>2, <1>3
<1>4. CASE \E w \in Workers : RecordSameStatus(w) \/ RecordDown(w) \/ RecordUp(w)
  <2>1. PICK w \in Workers : /\ Commit(w) /\ ~Stale(w)
                             /\ monitor' = Applied(w)
    BY <1>4 DEF RecordSameStatus, RecordDown, RecordUp, CrossesTo
  <2>2. monitor'.last_checked_at = worker[w].checked_at
    BY <2>1, CommitResults
  <2>3. /\ worker[w].checked_at > monitor.last_checked_at
        /\ worker[w].checked_at \in Nat
    BY <1>1, <2>1, FreshResult, TransactionInstant DEF Commit
  <2> QED BY <1>2, <2>2, <2>3
<1>5. CASE \E h \in Requests : SavePause(h) \/ SaveResume(h)
  <2>1. /\ monitor'.health_status = monitor.health_status
        /\ monitor'.last_checked_at = monitor.last_checked_at
        /\ monitor'.consecutive_failures \in {0, monitor.consecutive_failures}
        /\ monitor'.consecutive_successes \in {0, monitor.consecutive_successes}
    BY <1>1, <1>5 DEF SavePause, SaveResume, MonitorRow
  <2> QED BY <1>2, <2>1
<1>6. \A h \in Requests : ~SaveDelete(h) /\ ~SavePatch(h)
  BY DeleteLeavesNoRow DEF EngineInvariant, NoStaleWriter, SavePatch, Saving
<1>7. CASE \E w \in Workers : CheckNext(w)
  BY <1>3, <1>4, <1>7
     DEF CheckNext, SkipCheck, StartProbe, BeginTransaction, NothingToRecord,
         ProbeRaises,
         RecordStale, RollBack, RetryCheck, FinishCheck, CrashWorker
<1>8. CASE \E h \in Requests : RequestNext(h)
  BY <1>3, <1>5, <1>6, <1>8
     DEF RequestNext, LoadMonitor, LoadIncident, Load, PublishCheck,
         SaveAcknowledge, SaveResolve
<1>9. CASE ~(\/ \E v \in Workers : CheckNext(v)
             \/ \E h \in Requests : RequestNext(h))
  BY <1>3, <1>9 DEF Next, vars, DispatchDueCheck, Redeliver, LockExpires,
                          EditChannels
<1> QED BY <1>7, <1>8, <1>9

(***************************************************************************)
(* processor.py:59-66.  A result that is late, by whatever way it took,    *)
(* never moves the status or lengthens a streak.                           *)
(***************************************************************************)
THEOREM LateResultsChangeNothing == EngineAlone => (Spec => StatusMovesForward)
<1> SUFFICES ASSUME EngineAlone PROVE Spec => StatusMovesForward
  OBVIOUS
<1>1. Spec => []EngineInvariant
  BY EngineInvariantHolds
<1> DEFINE A ==
      monitor.exists /\ monitor'.exists =>
       /\ monitor'.last_checked_at >= monitor.last_checked_at
       /\ \/ monitor'.health_status # monitor.health_status
          \/ monitor'.consecutive_failures > monitor.consecutive_failures
          \/ monitor'.consecutive_successes > monitor.consecutive_successes
          => monitor'.last_checked_at > monitor.last_checked_at
<1>2. EngineInvariant /\ [Next]_vars => [A]_vars
  BY StatusStep
<1>3. Spec => [][A]_vars
  BY <1>1, <1>2, PTL DEF Spec
<1> QED BY <1>3 DEF StatusMovesForward

-----------------------------------------------------------------------------
(* The cache lock.                                                         *)

\* While the lock outlives the runs, it belongs to the only run there is.
LockOwned ==
  ~Overrun =>
    \A w \in Workers : worker[w].pc # "idle" =>
      /\ lock
      /\ \A v \in Workers : worker[v].pc # "idle" => v = w

\* A lock that outlives its probe keeps belonging to whoever probes.
LEMMA LockOwnedNext ==
  ASSUME TypeOK, LockOwned, [Next]_vars
  PROVE  LockOwned'
<1> SUFFICES ASSUME ~Overrun PROVE LockOwned'
  BY DEF LockOwned
<1> USE DEF LockOwned, TypeOK
<1>1. CASE UNCHANGED <<lock, worker>>
  BY <1>1
\* A run that goes on keeps the lock.
<1>2. ASSUME NEW w \in Workers, NEW u, worker[w].pc # "idle", lock' = lock,
             worker' = [worker EXCEPT ![w] = u]
      PROVE  LockOwned'
  BY <1>2
\* A run that ends was the only one.
<1>3. ASSUME NEW w \in Workers, worker[w].pc # "idle",
             worker' = [worker EXCEPT ![w] = IdleWorker]
      PROVE  LockOwned'
  BY <1>3 DEF IdleWorker
<1>4. ASSUME NEW w \in Workers, NEW r \in 0..MaxRetries, StartProbe(w, r)
      PROVE  LockOwned'
  <2>1. \A v \in Workers : worker[v].pc = "idle"
    BY <1>4 DEF StartProbe
  <2>2. PICK u : worker' = [worker EXCEPT ![w] = u]
    BY <1>4 DEF StartProbe
  <2> QED BY <1>4, <2>1, <2>2 DEF StartProbe
<1>5. CASE LockExpires
  BY <1>5 DEF LockExpires
<1>6. CASE \E w \in Workers : CheckNext(w)
  <2>1. PICK w \in Workers : CheckNext(w)
    BY <1>6
  <2>2. CASE \E r \in 0..MaxRetries : SkipCheck(w, r)
    BY <1>1, <2>2 DEF SkipCheck
  <2>3. CASE BeginTransaction(w) \/ NothingToRecord(w) \/ ProbeRaises(w)
             \/ RollBack(w)
    <3>1. worker[w].pc # "idle" /\ lock' = lock
      BY <2>3 DEF BeginTransaction, NothingToRecord, ProbeRaises, RollBack
    <3>2. \E u : worker' = [worker EXCEPT ![w] = u]
      BY <2>3 DEF BeginTransaction, NothingToRecord, ProbeRaises, RollBack
    <3> QED BY <1>2, <3>1, <3>2
  <2>4. CASE Commit(w)
    BY <1>2, <2>4 DEF Commit
  <2>5. CASE RetryCheck(w) \/ FinishCheck(w) \/ CrashWorker(w)
    <3>1. /\ worker[w].pc # "idle"
          /\ worker' = [worker EXCEPT ![w] = IdleWorker]
      BY <2>5 DEF RetryCheck, FinishCheck, CrashWorker
    <3> QED BY <1>3, <3>1
  <2> QED BY <1>4, <2>1, <2>2, <2>3, <2>4, <2>5
          DEF CheckNext, RecordStale, RecordSameStatus, RecordDown, RecordUp
<1>7. CASE \E h \in Requests : RequestNext(h)
  BY <1>1, <1>7
     DEF RequestNext, LoadMonitor, LoadIncident, Load, SavePause, SaveResume,
         SavePatch, SaveDelete, PublishCheck, SaveAcknowledge, SaveResolve
<1>8. CASE UNCHANGED vars \/ DispatchDueCheck \/ EditChannels
             \/ \E r \in 0..MaxRetries : Redeliver(r)
  BY <1>1, <1>8 DEF vars, DispatchDueCheck, EditChannels, Redeliver
<1> QED BY <1>5, <1>6, <1>7, <1>8 DEF Next

(***************************************************************************)
(* checks/tasks.py:72-79,126-127.  As long as its TTL outlives a run, the  *)
(* cache lock lets no two probes of a monitor overlap, whatever is queued, *)
(* redelivered, retried, crashed, paused, deleted or edited meanwhile.     *)
(***************************************************************************)
THEOREM ProbesApart == Spec => []OneProbeAtATime
<1>1. Init => LockOwned
  BY DEF Init, IdleWorker, LockOwned
<1>2. TypeOK /\ LockOwned /\ [Next]_vars => LockOwned'
  BY LockOwnedNext
<1>3. TypeOK /\ LockOwned => OneProbeAtATime
  <2> SUFFICES ASSUME TypeOK, LockOwned, ~Overrun
               PROVE  Cardinality(Probing) <= 1
    BY DEF OneProbeAtATime
  <2>1. CASE Probing = {}
    BY <2>1, FS_EmptySet
  <2>2. CASE Probing # {}
    <3>1. PICK w \in Probing : TRUE
      BY <2>2
    <3>2. Probing = {w}
      BY <3>1 DEF LockOwned, Probing
    <3>3. Cardinality({w}) = 1
      BY FS_Singleton
    <3> QED BY <3>2, <3>3
  <2> QED BY <2>1, <2>2
<1>4. Spec => []TypeOK
  BY TypeCorrect
<1> QED BY <1>1, <1>2, <1>3, <1>4, PTL DEF Spec

-----------------------------------------------------------------------------
(* A streak is a run of consecutive checks, as long as results come in the *)
(* order of their checks.  Then no result is ever stale, so every row      *)
(* counts into the streak of the monitor row.                              *)

InOrder(rows) ==
  \A i, j \in DOMAIN rows : i < j => rows[i].checked_at < rows[j].checked_at

\* The last n rows are failures.
FailuresLast(n, rows) ==
  /\ n <= Len(rows)
  /\ \A i \in DOMAIN rows : i + n > Len(rows) => ~rows[i].success

\* last_checked_at is NULL or the instant of some row.
NewestApplied ==
  monitor.last_checked_at # 0 =>
    \E i \in DOMAIN results : results[i].checked_at = monitor.last_checked_at

StreakLast ==
  InOrder(results) => FailuresLast(monitor.consecutive_failures, results)

\* In a table in order, the streak of the n last rows, all failures, begins
\* with one of them: each row before them has n failures after it.
LEMMA StreakStartInOrder ==
  ASSUME NEW rows \in Seq(Row), InOrder(rows), NEW n \in Nat \ {0},
         FailuresLast(n, rows), NEW now,
         NEW i \in DOMAIN rows,
         rows[i].checked_at >= StreakStart(rows, FALSE, n, now)
  PROVE  ~rows[i].success
<1> DEFINE latest == LatestInstants(rows, FALSE, n)
<1>1. PICK m \in Nat : m = Len(rows)
  OBVIOUS
<1>2. /\ DOMAIN rows = 1..m /\ n <= m
      /\ \A j \in 1..m : j + n > m => ~rows[j].success
      /\ \A j \in 1..m : rows[j].checked_at \in Nat /\ rows[j].success \in BOOLEAN
  <2>1. DOMAIN rows = 1..m
    BY <1>1
  <2>2. n <= m /\ \A j \in 1..m : j + n > m => ~rows[j].success
    BY <1>1, <2>1 DEF FailuresLast
  <2>3. \A j \in 1..m : rows[j].checked_at \in Nat /\ rows[j].success \in BOOLEAN
    BY <2>1, RowFields
  <2> QED BY <2>1, <2>2, <2>3
<1>3. m \in 1..m /\ rows[m].success = FALSE
  BY <1>2
<1>4. RowsAfter(rows, FALSE, rows[m].checked_at) = {}
  <2> SUFFICES ASSUME NEW j \in 1..m, rows[j].checked_at > rows[m].checked_at
               PROVE  FALSE
    BY <1>2 DEF RowsAfter
  <2>1. j = m \/ j < m
    OBVIOUS
  <2>2. j < m => rows[j].checked_at < rows[m].checked_at
    BY <1>2, <1>3 DEF InOrder
  <2> QED BY <1>2, <1>3, <2>1, <2>2
<1>5. rows[m].checked_at \in latest
  <2>1. Cardinality(RowsAfter(rows, FALSE, rows[m].checked_at)) < n
    <3>1. Cardinality({}) = 0
      BY FS_EmptySet
    <3>2. Cardinality(RowsAfter(rows, FALSE, rows[m].checked_at)) = 0
      BY <1>4, <3>1, Zenon
    <3>3. 0 < n
      OBVIOUS
    <3> QED BY <3>2, <3>3, Zenon
  <2> QED BY <1>2, <1>3, <2>1 DEF LatestInstants
<1>6. latest \subseteq Nat
  BY RowFields DEF LatestInstants
<1>7. StreakStart(rows, FALSE, n, now) \in latest
  <2> HIDE DEF latest
  <2>1. latest # {} /\ Earliest(latest) \in latest
    BY <1>5, <1>6, EarliestIsLeast
  <2> QED BY <2>1 DEF StreakStart, latest
<1>8. PICK k \in 1..m :
        /\ rows[k].checked_at = StreakStart(rows, FALSE, n, now)
        /\ Cardinality(RowsAfter(rows, FALSE, rows[k].checked_at)) < n
  BY <1>2, <1>7 DEF LatestInstants
<1>9. k + n > m
  <2> SUFFICES ASSUME k <= m - n PROVE FALSE
    BY <1>2
  <2> DEFINE after == RowsAfter(rows, FALSE, rows[k].checked_at)
             a == m - n + 1
  <2>1. a..m \subseteq after
    <3> SUFFICES ASSUME NEW j \in a..m
                 PROVE  /\ j \in 1..m /\ rows[j].success = FALSE
                        /\ rows[j].checked_at > rows[k].checked_at
      BY <1>2 DEF RowsAfter
    <3>1. j \in 1..m /\ j + n > m /\ k < j
      BY <1>2
    <3>2. rows[k].checked_at < rows[j].checked_at
      BY <1>2, <3>1 DEF InOrder
    <3> QED BY <1>2, <3>1, <3>2
  <2>2. IsFiniteSet(after) /\ Cardinality(after) \in Nat /\ Cardinality(after) < n
    BY <1>8, RowsAfterFinite
  <2>3. a \in Int /\ m \in Int /\ a <= m /\ m - a + 1 = n
    BY <1>2
  <2> HIDE DEF after, a
  <2>4. Cardinality(a..m) = n
    BY <2>3, FS_Interval
  <2>5. Cardinality(a..m) <= Cardinality(after)
    BY <2>1, <2>2, FS_Subset
  <2> QED BY <2>2, <2>4, <2>5
<1>10. i >= k
  <2>1. i \in 1..m /\ rows[i].checked_at >= rows[k].checked_at
    BY <1>2, <1>8
  <2>2. i < k => rows[i].checked_at < rows[k].checked_at
    BY <1>2, <2>1 DEF InOrder
  <2> QED BY <1>2, <2>1, <2>2
<1> QED BY <1>2, <1>9, <1>10

\* What a row more makes of a table in order.
LEMMA InOrderAppend ==
  ASSUME NEW rows \in Seq(Row), NEW row \in Row, NEW n \in Nat,
         InOrder(Append(rows, row))
  PROVE  /\ InOrder(rows)
         /\ \A i \in DOMAIN rows : rows[i].checked_at < row.checked_at
         /\ FailuresLast(0, Append(rows, row))
         /\ FailuresLast(n, rows) /\ ~row.success =>
              FailuresLast(n + 1, Append(rows, row))
<1> DEFINE new == Append(rows, row)
<1>1. PICK m \in Nat : m = Len(rows)
  OBVIOUS
<1>2. /\ DOMAIN rows = 1..m /\ DOMAIN new = 1..(m + 1) /\ Len(new) = m + 1
      /\ \A i \in 1..m : new[i] = rows[i]
      /\ new[m + 1] = row
  BY <1>1
<1>3. InOrder(rows)
  BY <1>2 DEF InOrder
<1>4. \A i \in DOMAIN rows : rows[i].checked_at < row.checked_at
  BY <1>2 DEF InOrder
<1>5. FailuresLast(0, new)
  BY <1>2 DEF FailuresLast
<1>6. ASSUME FailuresLast(n, rows), ~row.success PROVE FailuresLast(n + 1, new)
  <2>1. n <= m /\ \A i \in 1..m : i + n > m => ~rows[i].success
    BY <1>1, <1>2, <1>6 DEF FailuresLast
  <2>2. ASSUME NEW i \in 1..(m + 1), i + (n + 1) > m + 1 PROVE ~new[i].success
    <3>1. CASE i = m + 1
      BY <1>2, <1>6, <3>1
    <3>2. CASE i # m + 1
      <4>1. i \in 1..m /\ i + n > m
        BY <2>2, <3>2
      <4> QED BY <1>2, <2>1, <4>1
    <3> QED BY <3>1, <3>2
  <2> HIDE DEF new
  <2> QED BY <1>2, <2>1, <2>2 DEF FailuresLast
<1> QED BY <1>3, <1>4, <1>5, <1>6

\* A result that is applied keeps both.
LEMMA AppliedStreak ==
  ASSUME EngineInvariant, NewestApplied, StreakLast, NEW w \in Workers,
         Commit(w), monitor' = Applied(w)
  PROVE  NewestApplied' /\ StreakLast'
<1>1. /\ worker[w].pc = "txn" /\ results' = NewResults(w)
      /\ TypeOK /\ results \in Seq(Row)
  BY DEF Commit, EngineInvariant, TypeOK
<1>2. worker[w].checked_at \in Nat \ {0}
  BY <1>1, TransactionInstant DEF EngineInvariant
<1>3. monitor.consecutive_failures \in Nat
  BY <1>1, MonitorFields DEF TypeOK
<1>4. PICK row : row = [checked_at |-> worker[w].checked_at,
                        success |-> Success(w)]
  OBVIOUS
<1>5. /\ row \in Row /\ row.checked_at = worker[w].checked_at
      /\ row.success = Success(w)
  BY <1>2, <1>4 DEF Row, Success
<1>6. results' = Append(results, row)
  BY <1>1, <1>4 DEF NewResults
<1>7. /\ monitor'.last_checked_at = worker[w].checked_at
      /\ Success(w) => monitor'.consecutive_failures = 0
      /\ ~Success(w) => monitor'.consecutive_failures =
                          monitor.consecutive_failures + 1
  BY <1>1, <1>2, AppliedFields
<1>8. NewestApplied'
  <2>1. Len(results) + 1 \in DOMAIN results' /\ results'[Len(results) + 1] = row
    BY <1>1, <1>6
  <2> QED BY <1>5, <1>7, <2>1 DEF NewestApplied
<1>9. StreakLast'
  <2> SUFFICES ASSUME InOrder(results')
               PROVE  FailuresLast(monitor'.consecutive_failures, results')
    BY DEF StreakLast
  <2>1. /\ InOrder(results) /\ FailuresLast(0, results')
        /\ FailuresLast(monitor.consecutive_failures, results) /\ ~row.success =>
             FailuresLast(monitor.consecutive_failures + 1, results')
    BY <1>1, <1>3, <1>5, <1>6, InOrderAppend
  <2> QED BY <1>5, <1>7, <2>1 DEF StreakLast
<1> QED BY <1>8, <1>9

\* A stale result keeps them: it puts the table out of order for good.
LEMMA StaleStreak ==
  ASSUME EngineInvariant, NewestApplied, StreakLast, NEW w \in Workers,
         RecordStale(w)
  PROVE  NewestApplied' /\ StreakLast'
<1>1. /\ worker[w].pc = "txn" /\ results' = NewResults(w) /\ monitor' = monitor
      /\ TypeOK /\ results \in Seq(Row)
      /\ monitor.last_checked_at # 0
      /\ worker[w].checked_at <= monitor.last_checked_at
  BY DEF RecordStale, Stale, Commit, EngineInvariant, TypeOK
<1>2. worker[w].checked_at \in Nat \ {0}
  BY <1>1, TransactionInstant DEF EngineInvariant
<1>3. PICK row : row = [checked_at |-> worker[w].checked_at,
                        success |-> Success(w)]
  OBVIOUS
<1>4. row \in Row /\ row.checked_at = worker[w].checked_at
  BY <1>2, <1>3 DEF Row, Success
<1>5. results' = Append(results, row)
  BY <1>1, <1>3 DEF NewResults
<1>6. PICK i \in DOMAIN results :
        results[i].checked_at = monitor.last_checked_at
  BY <1>1 DEF NewestApplied
<1>7. i \in DOMAIN results' /\ results'[i] = results[i]
  BY <1>1, <1>5
<1>8. NewestApplied'
  BY <1>1, <1>6, <1>7 DEF NewestApplied
<1>9. ~InOrder(results')
  <2> SUFFICES ASSUME InOrder(results') PROVE FALSE
    OBVIOUS
  <2>1. results[i].checked_at < row.checked_at
    BY <1>1, <1>4, <1>5, InOrderAppend
  <2>2. results[i].checked_at \in Nat
    BY <1>1, RowFields
  <2> QED BY <1>1, <1>2, <1>4, <1>6, <2>1, <2>2
<1> QED BY <1>8, <1>9 DEF StreakLast

\* Steps that leave the table, and at most reset the streak.
LEMMA QuietStreak ==
  ASSUME TypeOK, NewestApplied, StreakLast, results' = results,
         monitor'.last_checked_at = monitor.last_checked_at,
         monitor'.consecutive_failures \in {0, monitor.consecutive_failures}
  PROVE  NewestApplied' /\ StreakLast'
<1>1. NewestApplied'
  BY DEF NewestApplied
<1>2. FailuresLast(0, results)
  <2>1. results \in Seq(Row)
    BY DEF TypeOK
  <2> QED BY <2>1 DEF FailuresLast
<1>3. StreakLast'
  BY <1>2 DEF StreakLast
<1> QED BY <1>1, <1>3

\* Every step keeps last_checked_at at the newest row, and the streak at the last.
LEMMA StreakNext ==
  ASSUME EngineInvariant, EngineAlone, NewestApplied, StreakLast, [Next]_vars
  PROVE  NewestApplied' /\ StreakLast'
<1>1. TypeOK /\ monitor \in MonitorRow
  BY DEF EngineInvariant, TypeOK
<1>2. CASE results' = results /\ monitor' = monitor
  BY <1>1, <1>2, QuietStreak
<1>3. ASSUME NEW w \in Workers, CheckNext(w)
      PROVE  NewestApplied' /\ StreakLast'
  <2>1. CASE RecordSameStatus(w) \/ RecordDown(w) \/ RecordUp(w)
    <3>1. Commit(w) /\ monitor' = Applied(w)
      BY <2>1 DEF RecordSameStatus, RecordDown, RecordUp
    <3> QED BY <3>1, AppliedStreak
  <2>2. CASE RecordStale(w)
    BY <2>2, StaleStreak
  <2> QED BY <1>2, <1>3, <2>1, <2>2
          DEF CheckNext, SkipCheck, StartProbe, BeginTransaction,
              NothingToRecord, ProbeRaises, RollBack, RetryCheck,
              FinishCheck, CrashWorker
<1>4. ASSUME NEW h \in Requests, RequestNext(h)
      PROVE  NewestApplied' /\ StreakLast'
  <2>1. CASE SavePause(h) \/ SaveResume(h)
    <3>1. /\ results' = results
          /\ monitor'.last_checked_at = monitor.last_checked_at
          /\ monitor'.consecutive_failures \in {0, monitor.consecutive_failures}
      BY <1>1, <2>1 DEF SavePause, SaveResume, MonitorRow
    <3> QED BY <1>1, <3>1, QuietStreak
  <2>2. CASE SaveDelete(h)
    <3>1. results' = << >> /\ monitor' = NoRow
      BY <2>2 DEF SaveDelete
    <3>2. NoRow.last_checked_at = 0 /\ NoRow.consecutive_failures = 0
      BY DEF NoRow
    <3>3. NewestApplied'
      BY <3>1, <3>2 DEF NewestApplied
    <3>4. StreakLast'
      BY <3>1, <3>2 DEF StreakLast, FailuresLast
    <3> QED BY <3>3, <3>4
  <2>3. ~SavePatch(h)
    BY DEF EngineInvariant, NoStaleWriter, SavePatch, Saving
  <2> QED BY <1>2, <1>4, <2>1, <2>2, <2>3
          DEF RequestNext, LoadMonitor, LoadIncident, Load, PublishCheck,
              SaveAcknowledge, SaveResolve
<1>5. CASE \/ UNCHANGED vars \/ DispatchDueCheck \/ LockExpires \/ EditChannels
           \/ \E r \in 0..MaxRetries : Redeliver(r)
  BY <1>2, <1>5 DEF vars, DispatchDueCheck, LockExpires, EditChannels,
     Redeliver
<1> QED BY <1>3, <1>4, <1>5 DEF Next

\* The only step that opens an incident is a commit that finds none.
LEMMA OpeningByCommit ==
  ASSUME EngineInvariant, EngineAlone, [Next]_vars, Opening
  PROVE  \E w \in Workers : RecordDown(w)
<1>1. incidents \in Seq(IncidentRow) /\ Len(incidents') > Len(incidents)
  BY DEF Opening, EngineInvariant, TypeOK
<1>2. ASSUME incidents' = incidents PROVE FALSE
  BY <1>1, <1>2
<1>3. ASSUME NEW i, NEW row, incidents' = [incidents EXCEPT ![i] = row]
      PROVE  FALSE
  <2>1. Len(incidents') = Len(incidents)
    BY <1>1, <1>3
  <2> QED BY <1>1, <2>1
<1>4. ASSUME NEW w \in Workers, CheckNext(w) PROVE RecordDown(w)
  <2>1. ~RecordUp(w)
    <3> SUFFICES ASSUME RecordUp(w) PROVE FALSE
      OBVIOUS
    <3> QED BY <1>2, <1>3 DEF RecordUp
  <2> QED BY <1>2, <1>4, <2>1
          DEF CheckNext, SkipCheck, StartProbe, BeginTransaction,
              NothingToRecord, ProbeRaises, RecordStale, RecordSameStatus,
              RollBack,
              RetryCheck, FinishCheck, CrashWorker
<1>5. ASSUME NEW h \in Requests, RequestNext(h) PROVE FALSE
  <2>1. ~SaveAcknowledge(h)
    BY <1>2, <1>3 DEF SaveAcknowledge
  <2>2. \A op : ~SaveResolve(h, op)
    BY <1>2, <1>3 DEF SaveResolve
  <2>3. ~SaveDelete(h)
    BY DeleteLeavesNoRow DEF Opening
  <2> QED BY <1>2, <1>5, <2>1, <2>2, <2>3
          DEF RequestNext, LoadMonitor, LoadIncident, Load, SavePause,
              SaveResume, SavePatch, PublishCheck
<1>6. CASE \/ UNCHANGED vars \/ DispatchDueCheck \/ LockExpires \/ EditChannels
           \/ \E r \in 0..MaxRetries : Redeliver(r)
  BY <1>2, <1>6 DEF vars, DispatchDueCheck, LockExpires, EditChannels,
     Redeliver
<1> QED BY <1>4, <1>5, <1>6 DEF Next

(***************************************************************************)
(* selectors.py:49-60.  An incident opens at the first of a run of         *)
(* failures that no success interrupts, if results came in order.          *)
(***************************************************************************)
THEOREM StreaksAreConsecutive ==
  EngineAlone => (Spec => StreakIsConsecutiveInOrder)
<1> SUFFICES ASSUME EngineAlone PROVE Spec => StreakIsConsecutiveInOrder
  OBVIOUS
<1> DEFINE A == Opening /\ (\A i, j \in DOMAIN results' :
                    i < j => results'[i].checked_at < results'[j].checked_at)
                  => StreakUninterrupted
<1>1. Spec => []EngineInvariant
  BY EngineInvariantHolds
<1>2. Init => NewestApplied /\ StreakLast
  <2> SUFFICES ASSUME Init PROVE NewestApplied /\ StreakLast
    OBVIOUS
  <2>1. results = << >> /\ \E f, s : monitor =
          [NoRow EXCEPT !.exists = TRUE, !.is_enabled = TRUE,
                        !.failure_threshold = f, !.success_threshold = s]
    BY DEF Init
  <2>2. monitor.last_checked_at = 0 /\ monitor.consecutive_failures = 0
    BY <2>1 DEF NoRow
  <2> QED BY <2>1, <2>2 DEF NewestApplied, StreakLast, FailuresLast
<1>3. EngineInvariant /\ NewestApplied /\ StreakLast /\ [Next]_vars =>
        (NewestApplied /\ StreakLast)'
  BY StreakNext
<1>4. EngineInvariant /\ EngineInvariant' /\ NewestApplied /\ StreakLast
        /\ [Next]_vars => [A]_vars
  <2> SUFFICES ASSUME EngineInvariant, EngineInvariant', NewestApplied,
                      StreakLast, [Next]_vars, Opening, InOrder(results')
               PROVE  StreakUninterrupted
    BY DEF InOrder
  <2>1. PICK w \in Workers : RecordDown(w)
    BY OpeningByCommit
  <2>2. /\ worker[w].pc = "txn" /\ monitor' = Applied(w)
        /\ results' = NewResults(w) /\ CrossesTo(w, "DOWN")
    BY <2>1 DEF RecordDown, Commit
  <2>3. incidents \in Seq(IncidentRow) /\ monitor \in MonitorRow /\ TypeOK
        /\ results' \in Seq(Row)
    BY DEF EngineInvariant, TypeOK
  <2>4. incidents' = Append(incidents, NewIncident(OutageStart(w)))
    BY <2>1, OutageBegins
  <2>5. incidents'[Len(incidents')].started_at = OutageStart(w)
    <3>1. incidents'[Len(incidents')] = NewIncident(OutageStart(w))
      BY <2>3, <2>4
    <3> QED BY <3>1 DEF NewIncident
  <2>6. worker[w].checked_at \in Nat /\ monitor.consecutive_failures \in Nat
    BY <2>2, <2>3, TransactionInstant, MonitorFields DEF EngineInvariant
  <2>7. monitor'.consecutive_failures \in Nat \ {0}
    <3>1. ~Success(w)
      BY <2>2, <2>3, <2>6, AppliedFields DEF CrossesTo
    <3> QED BY <2>2, <2>3, <2>6, <3>1, AppliedFields
  <2>8. FailuresLast(monitor'.consecutive_failures, results')
    BY StreakNext DEF StreakLast
  <2>9. OutageStart(w) = StreakStart(results', FALSE,
                           monitor'.consecutive_failures, worker[w].checked_at)
    BY <2>2 DEF OutageStart
  <2> QED BY <2>3, <2>5, <2>7, <2>8, <2>9, StreakStartInOrder
          DEF StreakUninterrupted
<1>5. Spec => [](NewestApplied /\ StreakLast)
  BY <1>1, <1>2, <1>3, PTL DEF Spec
<1>6. Spec => [][A]_vars
  <2>1. EngineInvariant /\ EngineInvariant' /\ (NewestApplied /\ StreakLast)
          /\ [Next]_vars => [A]_vars
    BY <1>4
  <2> QED BY <1>1, <1>5, <2>1, PTL DEF Spec
<1> QED BY <1>6 DEF StreakIsConsecutiveInOrder

-----------------------------------------------------------------------------
(***************************************************************************)
(* What holds whatever the handlers do: the outbox keeps, for every        *)
(* incident of the table, a row for each channel that was listening when   *)
(* it was opened.  A handler may write over an incident, reopen it or      *)
(* resolve it again; it never changes which incident it is.                *)
(***************************************************************************)

AllAnnounced ==
  \A i \in DOMAIN incidents : \A c \in incidents[i].audience :
    <<i, c, "INCIDENT_OPENED">> \in outbox

\* An update of an incident, by the engine or by a handler, leaves its
\* audience; an id that is not in the table updates nothing.
LEMMA UpdateKeepsAudience ==
  ASSUME TypeOK, NEW i \in Nat, NEW t,
         \/ incidents' = [incidents EXCEPT ![i] = ResolveIncident(@, t)]
         \/ incidents' = [incidents EXCEPT ![i] = AcknowledgeIncident(@)]
  PROVE  /\ DOMAIN incidents' = DOMAIN incidents
         /\ \A k \in DOMAIN incidents :
              incidents'[k].audience = incidents[k].audience
<1>1. incidents \in Seq(IncidentRow)
  BY DEF TypeOK
<1>2. ASSUME NEW k \in DOMAIN incidents
      PROVE  /\ ResolveIncident(incidents[k], t).audience = incidents[k].audience
             /\ AcknowledgeIncident(incidents[k]).audience
                  = incidents[k].audience
  <2>1. incidents[k] \in IncidentRow
    BY <1>1, <1>2, IncidentFields
  <2> QED BY <2>1 DEF ResolveIncident, AcknowledgeIncident, IncidentRow
<1>3. DOMAIN incidents' = DOMAIN incidents
  BY <1>1
<1>4. ASSUME NEW k \in DOMAIN incidents
      PROVE  \/ incidents'[k] = incidents[k]
             \/ incidents'[k] = ResolveIncident(incidents[k], t)
             \/ incidents'[k] = AcknowledgeIncident(incidents[k])
  BY <1>1, <1>4
<1>5. ASSUME NEW k \in DOMAIN incidents
      PROVE  incidents'[k].audience = incidents[k].audience
  BY <1>2, <1>4, <1>5
<1> QED BY <1>3, <1>5

\* A step that adds no incident keeps them announced,
LEMMA AnnouncedKept ==
  ASSUME AllAnnounced, outbox \subseteq outbox',
         DOMAIN incidents' = DOMAIN incidents,
         \A k \in DOMAIN incidents :
           incidents'[k].audience = incidents[k].audience
  PROVE  AllAnnounced'
BY DEF AllAnnounced

\* and the one that adds an incident announces it.
LEMMA AnnouncedWhenOpened ==
  ASSUME TypeOK, AllAnnounced, NEW t,
         incidents' = Append(incidents, NewIncident(t)),
         outbox' = Enqueued(Len(incidents'), "INCIDENT_OPENED")
  PROVE  AllAnnounced'
<1>1. incidents \in Seq(IncidentRow)
  BY DEF TypeOK
<1>2. PICK row : row = NewIncident(t)
  OBVIOUS
<1>3. PICK n : n = Len(incidents) + 1
  OBVIOUS
<1>4. /\ DOMAIN incidents' = DOMAIN incidents \cup {n} /\ Len(incidents') = n
      /\ incidents'[n] = row /\ n \notin DOMAIN incidents
      /\ \A i \in DOMAIN incidents : incidents'[i] = incidents[i]
  BY <1>1, <1>2, <1>3
<1>5. row.audience = listeners
  BY <1>2 DEF NewIncident
<1>6. \A c \in incidents'[n].audience : <<n, c, "INCIDENT_OPENED">> \in outbox'
  BY <1>4, <1>5 DEF Enqueued
<1>7. ASSUME NEW i \in DOMAIN incidents, NEW c \in incidents'[i].audience
      PROVE  <<i, c, "INCIDENT_OPENED">> \in outbox'
  BY <1>4, <1>7 DEF AllAnnounced, Enqueued
<1> QED BY <1>4, <1>6, <1>7 DEF AllAnnounced

\* A step of run_check keeps them,
LEMMA AnnouncedCheck ==
  ASSUME TypeOK, AllAnnounced, NEW w \in Workers, CheckNext(w)
  PROVE  AllAnnounced'
<1>1. CASE UNCHANGED <<incidents, outbox>>
  BY <1>1, AnnouncedKept
<1>2. CASE RecordDown(w)
  <2>1. CASE worker[w].seen = 0
    BY <1>2, <2>1, AnnouncedWhenOpened DEF RecordDown
  <2>2. CASE worker[w].seen # 0
    BY <1>2, <2>2, AnnouncedKept DEF RecordDown, Enqueued
  <2> QED BY <2>1, <2>2
<1>3. CASE RecordUp(w)
  <2>1. CASE worker[w].seen = 0
    BY <1>3, <2>1, AnnouncedKept DEF RecordUp
  <2>2. CASE worker[w].seen # 0
    <3>1. worker[w].seen \in Nat
      BY DEF TypeOK, WorkerState
    <3>2. /\ outbox \subseteq outbox'
          /\ incidents' = [incidents EXCEPT
               ![worker[w].seen] = ResolveIncident(@, OutageEnd(w))]
      BY <1>3, <2>2 DEF RecordUp, Enqueued
    <3> QED BY <3>1, <3>2, UpdateKeepsAudience, AnnouncedKept
  <2> QED BY <2>1, <2>2
<1>4. CASE \/ \E r \in 0..MaxRetries : SkipCheck(w, r) \/ StartProbe(w, r)
           \/ BeginTransaction(w) \/ ProbeRaises(w) \/ NothingToRecord(w)
           \/ RecordStale(w) \/ RecordSameStatus(w) \/ RollBack(w)
           \/ RetryCheck(w) \/ FinishCheck(w) \/ CrashWorker(w)
  BY <1>1, <1>4
     DEF SkipCheck, StartProbe, BeginTransaction, ProbeRaises, NothingToRecord,
         RecordStale, RecordSameStatus, RollBack, RetryCheck, FinishCheck,
         CrashWorker
<1> QED BY <1>2, <1>3, <1>4 DEF CheckNext

\* and so does one of a handler.
LEMMA AnnouncedRequest ==
  ASSUME TypeOK, AllAnnounced, NEW h \in Requests, RequestNext(h)
  PROVE  AllAnnounced'
<1>1. request[h].incident \in Nat
  BY DEF TypeOK, RequestState
<1>2. CASE UNCHANGED <<incidents, outbox>>
  BY <1>2, AnnouncedKept
<1>3. CASE \/ LoadMonitor(h) \/ LoadIncident(h) \/ SavePause(h) \/ SaveResume(h)
           \/ SavePatch(h) \/ PublishCheck(h)
  BY <1>2, <1>3 DEF LoadMonitor, LoadIncident, Load, SavePause, SaveResume,
                    SavePatch, PublishCheck
<1>4. CASE SaveDelete(h)
  BY <1>4 DEF SaveDelete, AllAnnounced
<1>5. CASE SaveAcknowledge(h)
  <2>1. /\ outbox' = outbox
        /\ \/ UNCHANGED incidents
           \/ incidents' = [incidents EXCEPT
                ![request[h].incident] = AcknowledgeIncident(@)]
    BY <1>5 DEF SaveAcknowledge
  <2> QED BY <1>1, <1>2, <2>1, UpdateKeepsAudience, AnnouncedKept
<1>6. ASSUME NEW op, SaveResolve(h, op) PROVE AllAnnounced'
  <2>1. /\ outbox' = outbox
        /\ \/ UNCHANGED incidents
           \/ incidents' = [incidents EXCEPT
                ![request[h].incident] = ResolveIncident(@, clock')]
    BY <1>6 DEF SaveResolve
  <2> QED BY <1>1, <1>2, <2>1, UpdateKeepsAudience, AnnouncedKept
<1> QED BY <1>3, <1>4, <1>5, <1>6 DEF RequestNext

(***************************************************************************)
(* processor.py:100-136 with notifications/services.py:130-134.  Whoever   *)
(* was listening when an incident was opened is not told of its end        *)
(* without having been told of its beginning: for every number of channels *)
(* and whatever is done to the channels and to the incident in between.    *)
(***************************************************************************)
THEOREM EndsFollowBeginnings == Spec => []ResolvedOnlyAfterOpened
<1>1. Init => AllAnnounced
  BY DEF Init, AllAnnounced
<1>2. TypeOK /\ AllAnnounced /\ [Next]_vars => AllAnnounced'
  <2> SUFFICES ASSUME TypeOK, AllAnnounced, [Next]_vars PROVE AllAnnounced'
    OBVIOUS
  <2>1. CASE \/ UNCHANGED vars \/ DispatchDueCheck \/ LockExpires
             \/ EditChannels \/ \E r \in 0..MaxRetries : Redeliver(r)
    <3>1. UNCHANGED <<incidents, outbox>>
      BY <2>1 DEF vars, DispatchDueCheck, LockExpires, EditChannels, Redeliver
    <3> QED BY <3>1, AnnouncedKept
  <2> QED BY <2>1, AnnouncedCheck, AnnouncedRequest DEF Next
<1>3. AllAnnounced => ResolvedOnlyAfterOpened
  BY DEF AllAnnounced, ResolvedOnlyAfterOpened
<1> QED BY <1>1, <1>2, <1>3, TypeCorrect, PTL DEF Spec

-----------------------------------------------------------------------------
(* MonitorEngine implements OutageLog, as long as no handler writes back   *)
(* what it loaded earlier.                                                 *)

Outage == [began : Nat \ {0}, ended : Nat]

\* The log of a table of incidents has an entry for each.
LEMMA LoggedShape ==
  ASSUME NEW table \in Seq(IncidentRow)
  PROVE  /\ Logged(table) \in Seq(Outage)
         /\ Len(Logged(table)) = Len(table)
         /\ DOMAIN Logged(table) = DOMAIN table
         /\ \A i \in DOMAIN table :
              /\ Logged(table)[i].began = table[i].started_at
              /\ Logged(table)[i].ended = table[i].resolved_at
         /\ table = << >> => Logged(table) = << >>
<1>1. DOMAIN table = 1..Len(table) /\ Len(table) \in Nat
  OBVIOUS
<1>2. \A i \in DOMAIN table :
        [began |-> table[i].started_at, ended |-> table[i].resolved_at]
          \in Outage
  BY IncidentFields DEF Outage
<1>3. Logged(table) \in [1..Len(table) -> Outage]
  BY <1>1, <1>2 DEF Logged
<1>4. Logged(table) \in Seq(Outage) /\ Len(Logged(table)) = Len(table)
  BY <1>1, <1>3
<1>5. table = << >> => Logged(table) = << >>
  BY <1>4
<1> QED BY <1>1, <1>4, <1>5 DEF Logged

\* A monitor just created has an empty log.
LEMMA LogInit == Init => Log!Init
<1> SUFFICES ASSUME Init PROVE Log!Init
  OBVIOUS
<1>1. /\ monitor.health_status = "NEW" /\ incidents = << >> /\ outbox = {}
      /\ listeners \in SUBSET Channels
  BY DEF Init, NoRow
<1>2. Logged(incidents) = << >>
  BY <1>1, LoggedShape, TypeInit DEF TypeOK
<1> QED BY <1>1, <1>2 DEF Log!Init

\* The step that opens an incident begins an outage.
LEMMA BeginStep ==
  ASSUME EngineInvariant, TypeOK', NEW w \in Workers, RecordDown(w)
  PROVE  Log!Begin(OutageStart(w)) /\ OutageStart(w) \in 1..MaxClock
<1> DEFINE t == OutageStart(w)
<1>1. TypeOK /\ incidents \in Seq(IncidentRow) /\ LastBoundary \in Nat
  BY LastBoundaryType DEF EngineInvariant, TypeOK
<1>2. /\ monitor.health_status # "DOWN"
      /\ monitor'.health_status = "DOWN"
      /\ incidents' = Append(incidents, NewIncident(t))
      /\ outbox' = Enqueued(Len(incidents'), "INCIDENT_OPENED")
      /\ listeners' = listeners
      /\ t \in (LastBoundary + 1)..worker[w].checked_at
      /\ t \in 1..MaxClock
  BY OutageBegins DEF RecordDown, Commit
<1> HIDE DEF t
<1>3. /\ Logged(incidents) \in Seq(Outage)
      /\ Logged(incidents') \in Seq(Outage)
      /\ Len(Logged(incidents)) = Len(incidents)
      /\ Len(Logged(incidents')) = Len(incidents')
  BY <1>1, LoggedShape DEF TypeOK
<1>4. Logged(incidents') = Append(Logged(incidents), [began |-> t, ended |-> 0])
  <2>1. /\ Len(incidents') = Len(incidents) + 1
        /\ DOMAIN incidents' = DOMAIN incidents \cup {Len(incidents) + 1}
        /\ incidents'[Len(incidents) + 1] = NewIncident(t)
        /\ \A i \in DOMAIN incidents : incidents'[i] = incidents[i]
    BY <1>1, <1>2
  <2>2. \A i \in DOMAIN incidents : Logged(incidents')[i] = Logged(incidents)[i]
    BY <2>1 DEF Logged
  <2>3. Logged(incidents')[Len(incidents) + 1] = [began |-> t, ended |-> 0]
    BY <2>1 DEF Logged, NewIncident
  <2>4. DOMAIN Logged(incidents) = DOMAIN incidents
    BY DEF Logged
  <2> QED BY <1>3, <2>1, <2>2, <2>3, <2>4
<1>5. Logged(incidents) # << >> => t > Logged(incidents)[Len(Logged(incidents))].ended
  <2>1. SUFFICES ASSUME Logged(incidents) # << >>
                 PROVE  t > Logged(incidents)[Len(Logged(incidents))].ended
    OBVIOUS
  <2>2. incidents # << >> /\ Len(incidents) \in DOMAIN incidents
    BY <1>1, <2>1, LoggedShape
  <2>3. Logged(incidents)[Len(Logged(incidents))].ended = LastBoundary
    BY <1>1, <1>2, <1>3, <2>2, LoggedShape DEF LastBoundary
  <2> QED BY <1>1, <1>2, <2>3
<1>6. Log!Begin(t)
  BY <1>2, <1>3, <1>4, <1>5 DEF Log!Begin, Log!Last, Log!Told, Enqueued
<1> QED BY <1>2, <1>6 DEF t

\* The step that resolves it ends the outage.
LEMMA EndStep ==
  ASSUME EngineInvariant, TypeOK', NEW w \in Workers, RecordUp(w),
         monitor.health_status = "DOWN"
  PROVE  Log!End(OutageEnd(w)) /\ OutageEnd(w) \in 1..MaxClock
<1> DEFINE t == OutageEnd(w)
           n == Len(incidents)
<1>1. TypeOK /\ incidents \in Seq(IncidentRow) /\ LastBoundary \in Nat
  BY LastBoundaryType DEF EngineInvariant, TypeOK
<1>2. /\ monitor'.health_status = "UP"
      /\ n \in DOMAIN incidents
      /\ incidents' = [incidents EXCEPT ![n] = ResolveIncident(@, t)]
      /\ outbox' = Enqueued(n, "INCIDENT_RESOLVED")
      /\ listeners' = listeners
      /\ t \in (LastBoundary + 1)..worker[w].checked_at
      /\ t \in 1..MaxClock
      /\ LastBoundary = incidents[n].started_at
  BY OutageEnds DEF RecordUp, Commit
<1> HIDE DEF t
<1>3. /\ Logged(incidents) \in Seq(Outage)
      /\ Len(Logged(incidents)) = n
      /\ DOMAIN Logged(incidents) = DOMAIN incidents
      /\ Logged(incidents)[n].began = LastBoundary
  BY <1>1, <1>2, LoggedShape
<1>4. Logged(incidents') = [Logged(incidents) EXCEPT ![n].ended = t]
  <2>1. /\ DOMAIN incidents' = DOMAIN incidents
        /\ \A i \in DOMAIN incidents :
             incidents'[i] = IF i = n THEN ResolveIncident(incidents[n], t)
                             ELSE incidents[i]
    BY <1>2
  <2>2. /\ ResolveIncident(incidents[n], t).started_at = incidents[n].started_at
        /\ ResolveIncident(incidents[n], t).resolved_at = t
    BY <1>1, <1>2, IncidentFields DEF ResolveIncident, IncidentRow
  <2>3. Logged(incidents') =
          [i \in DOMAIN incidents |->
             [began |-> incidents'[i].started_at,
              ended |-> incidents'[i].resolved_at]]
    BY <2>1 DEF Logged
  <2>4. \A i \in DOMAIN incidents :
          Logged(incidents)[i] = [began |-> incidents[i].started_at,
                              ended |-> incidents[i].resolved_at]
    BY DEF Logged
  <2>5. \A i \in DOMAIN incidents :
          Logged(incidents')[i] = [Logged(incidents) EXCEPT ![n].ended = t][i]
    <3>1. ASSUME NEW i \in DOMAIN incidents, i # n
          PROVE  Logged(incidents')[i] = [Logged(incidents) EXCEPT ![n].ended = t][i]
      BY <1>3, <2>1, <2>3, <2>4, <3>1
    <3>2. Logged(incidents')[n] =
            [began |-> incidents[n].started_at, ended |-> t]
      BY <1>2, <2>1, <2>2, <2>3
    <3>3. [Logged(incidents) EXCEPT ![n].ended = t][n] =
            [Logged(incidents)[n] EXCEPT !.ended = t]
      BY <1>2, <1>3
    <3>4. [Logged(incidents)[n] EXCEPT !.ended = t] =
            [began |-> incidents[n].started_at, ended |-> t]
      <4>1. \A b, e : [[began |-> b, ended |-> e] EXCEPT !.ended = t]
                        = [began |-> b, ended |-> t]
        OBVIOUS
      <4>2. Logged(incidents)[n] = [began |-> incidents[n].started_at,
                                    ended |-> incidents[n].resolved_at]
        BY <1>2, <2>4
      <4> QED BY <4>1, <4>2, Zenon
    <3> QED BY <3>1, <3>2, <3>3, <3>4
  <2>6. DOMAIN Logged(incidents') = DOMAIN [Logged(incidents) EXCEPT ![n].ended = t]
    BY <1>3, <2>3
  <2> QED BY <1>3, <2>3, <2>5, <2>6 DEF Logged
<1>5. t > Logged(incidents)[Len(Logged(incidents))].began
  BY <1>1, <1>2, <1>3
<1>6. Log!End(t)
  BY <1>2, <1>3, <1>4, <1>5 DEF Log!End, Log!Last, Log!Told, Enqueued
<1> QED BY <1>2, <1>6 DEF t

\* Every step is a step of the log or leaves it as it is.
LEMMA LogNext ==
  ASSUME EngineAlone, EngineInvariant, [Next]_vars
  PROVE  [Log!Next]_(Log!logVars)
<1>1. TypeOK' /\ TypeOK
  BY TypeNext DEF EngineInvariant
<1>2. ASSUME monitor'.health_status = monitor.health_status,
             UNCHANGED <<incidents, outbox, listeners>>
      PROVE  [Log!Next]_(Log!logVars)
  <2>1. Logged(incidents') = Logged(incidents)
    BY <1>2 DEF Logged
  <2> QED BY <1>2, <2>1 DEF Log!logVars
<1>3. CASE \E w \in Workers : RecordDown(w)
  BY <1>1, <1>3, BeginStep DEF Log!Next
<1>4. CASE \E w \in Workers : RecordUp(w)
  <2>1. PICK w \in Workers : RecordUp(w)
    BY <1>4
  <2>2. CASE monitor.health_status = "DOWN"
    BY <1>1, <2>1, <2>2, EndStep DEF Log!Next
  <2>3. CASE monitor.health_status # "DOWN"
    <3>1. /\ UNCHANGED <<incidents, outbox, listeners>>
          /\ (monitor'.health_status = "DOWN") = (monitor.health_status = "DOWN")
      BY <2>1, <2>3, OutageEnds DEF RecordUp, Commit
    <3>2. Logged(incidents') = Logged(incidents)
      BY <3>1 DEF Logged
    <3> QED BY <3>1, <3>2 DEF Log!logVars
  <2> QED BY <2>2, <2>3
<1>5. CASE \E h \in Requests : SaveDelete(h)
  <2>1. /\ monitor' = NoRow /\ incidents' = << >> /\ outbox' = {}
        /\ listeners' = {}
    BY <1>5 DEF SaveDelete
  <2>2. Logged(incidents') = << >> /\ monitor'.health_status # "DOWN"
    <3>1. << >> \in Seq(IncidentRow)
      OBVIOUS
    <3>2. Logged(<< >>) = << >>
      BY <3>1, LoggedShape
    <3>3. NoRow.health_status = "NEW"
      BY DEF NoRow
    <3> QED BY <2>1, <3>2, <3>3
  <2>3. Log!Forget
    BY <2>1, <2>2 DEF Log!Forget
  <2> QED BY <2>3 DEF Log!Next
<1>6. CASE \E h \in Requests : SavePause(h) \/ SaveResume(h)
  <2>1. monitor \in MonitorRow
    BY <1>1 DEF TypeOK
  <2> QED BY <1>2, <1>6, <2>1 DEF SavePause, SaveResume, MonitorRow
<1>7. \A h \in Requests : /\ ~SavePatch(h) /\ ~SaveAcknowledge(h)
                          /\ ~SaveResolve(h, "force_resolve")
                          /\ ~SaveResolve(h, "reconcile")
  BY DEF EngineInvariant, NoStaleWriter, SavePatch, SaveAcknowledge,
         SaveResolve, Saving
<1>8. CASE \E w \in Workers : CheckNext(w)
  <2>1. ASSUME NEW w \in Workers, RecordSameStatus(w) \/ RecordStale(w)
        PROVE  [Log!Next]_(Log!logVars)
    BY <1>2, <2>1 DEF RecordSameStatus, RecordStale, Commit
  <2> QED BY <1>2, <1>3, <1>4, <1>8, <2>1
          DEF CheckNext, SkipCheck, StartProbe, BeginTransaction,
              NothingToRecord, ProbeRaises, RollBack, RetryCheck,
              FinishCheck, CrashWorker
<1>9. CASE \E h \in Requests : RequestNext(h)
  BY <1>2, <1>5, <1>6, <1>7, <1>9
     DEF RequestNext, LoadMonitor, LoadIncident, Load, PublishCheck
<1>10. CASE EditChannels
  <2>1. Logged(incidents') = Logged(incidents)
    BY <1>10 DEF EditChannels, Logged
  <2>2. Log!Listen
    BY <1>10, <2>1 DEF EditChannels, Log!Listen
  <2> QED BY <2>2 DEF Log!Next
<1>11. CASE ~(\/ EditChannels
              \/ \E v \in Workers : CheckNext(v)
              \/ \E h \in Requests : RequestNext(h))
  BY <1>2, <1>11 DEF Next, vars, DispatchDueCheck, Redeliver, LockExpires
<1> QED BY <1>8, <1>9, <1>10, <1>11

(***************************************************************************)
(* Every behaviour of the engine is one of the outage log: outages begin   *)
(* and end one after the other, each is announced, by the step that begins *)
(* it and by the step that ends it, to exactly the channels listening at   *)
(* that moment, and no other step touches the log.                         *)
(***************************************************************************)
THEOREM Refinement == EngineAlone => (Spec => ImplementsOutageLog)
<1> SUFFICES ASSUME EngineAlone PROVE Spec => ImplementsOutageLog
  OBVIOUS
<1>1. Spec => []EngineInvariant
  BY EngineInvariantHolds
<1>2. EngineInvariant /\ [Next]_vars => [Log!Next]_(Log!logVars)
  BY LogNext
<1> QED BY <1>1, <1>2, LogInit, PTL DEF Spec, ImplementsOutageLog, Log!Spec
=============================================================================
