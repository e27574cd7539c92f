--------------------------- MODULE MonitorEngine ---------------------------
(***************************************************************************)
(* Everything that reads or writes one Monitor row and what hangs off it:  *)
(*                                                                         *)
(*   - Celery workers running apps.checks.tasks.run_check and, inside it,  *)
(*     apps.checks.processor.process_check_result;                         *)
(*   - the incidents that apps.incidents.services opens and resolves, and  *)
(*     the outbox rows apps.notifications.services enqueues with them;     *)
(*   - the HTTP endpoints, admin actions and the reconciliation task, each *)
(*     of which loads a row in one statement and saves it in a later one,  *)
(*     outside any transaction (the settings have no ATOMIC_REQUESTS).     *)
(*                                                                         *)
(* Time is a counter of distinguishable instants; 0 stands for NULL.       *)
(***************************************************************************)
EXTENDS CheckDomain

CONSTANTS
  Workers,            \* Celery worker processes consuming the checks queue
  Requests,           \* HTTP, admin or beat handlers that may be in flight
  Ops,                \* which of the handlers' operations are exercised
  Channels,           \* the account's notification channels
  FailureThresholds,  \* values a user may give failure_threshold
  SuccessThresholds,  \* values a user may give success_threshold
  Overrun,            \* may the TTL of the check lock pass during a probe?
  MaxRetries,         \* run_check's max_retries
  MaxQueue,           \* bound: run_check messages waiting in the broker
  MaxClock            \* bound: the last instant

MonitorOps  == {"pause", "resume", "patch", "delete", "check"}
IncidentOps == {"acknowledge", "force_resolve", "reconcile"}
ChannelOps  == {"channels"}

ASSUME EngineAssumption ==
  /\ Ops \subseteq MonitorOps \cup IncidentOps \cup ChannelOps
  /\ FailureThresholds \subseteq Nat \ {0}
  /\ SuccessThresholds \subseteq Nat \ {0}
  /\ Overrun \in BOOLEAN
  /\ MaxRetries \in Nat
  /\ MaxQueue \in Nat
  /\ MaxClock \in Nat

VARIABLES
  clock,      \* the latest instant anything has read from timezone.now()
  monitor,    \* the Monitor row
  results,    \* the monitor's CheckResult rows, in insertion order
  incidents,  \* its Incident rows, in insertion order
  listeners,  \* its channels that are attached, verified and active now
  outbox,     \* NotificationDelivery rows, <<incident, channel, event_type>>
  queue,      \* run_check messages in the broker, counted by retry number
  lock,       \* is the cache key check:lock:<monitor> present?
  worker,     \* what each worker process is doing
  request     \* what each handler has loaded and is about to save

vars == <<clock, monitor, results, incidents, listeners, outbox, queue, lock,
          worker, request>>

Outcome == {"success", "failure", "internal_error"}

\* The Monitor row, reduced to the fields the engine reads or writes.
MonitorRow ==
  [exists : BOOLEAN, is_enabled : BOOLEAN, health_status : HealthStatus,
   consecutive_failures : Nat, consecutive_successes : Nat,
   failure_threshold : Nat, success_threshold : Nat, last_checked_at : Nat]

NoRow ==
  [exists |-> FALSE, is_enabled |-> FALSE, health_status |-> "NEW",
   consecutive_failures |-> 0, consecutive_successes |-> 0,
   failure_threshold |-> 0, success_threshold |-> 0, last_checked_at |-> 0]

\* audience is no column but history: who was listening when it was opened.
IncidentRow ==
  [status : {"OPEN", "ACKNOWLEDGED", "RESOLVED"},
   started_at : Nat \ {0}, resolved_at : Nat, audience : SUBSET Channels]

WorkerState ==
  [pc : {"idle", "probing", "txn", "retrying", "finishing"}, checked_at : Nat,
   outcome : Outcome, retries : 0..MaxRetries, seen : Nat]

RequestState ==
  [op : MonitorOps \cup IncidentOps \cup {"none"}, row : MonitorRow,
   incident : Nat]

IdleWorker ==
  [pc |-> "idle", checked_at |-> 0, outcome |-> "success", retries |-> 0,
   seen |-> 0]

\* A run_check, the r-th retry, that began to probe at t.
ProbeSince(t, r) ==
  [pc |-> "probing", checked_at |-> t, outcome |-> "success", retries |-> r,
   seen |-> 0]

\* What is left of a run_check whose transaction is over: its finally
\* clause, or `raise self.retry` and then the finally clause.
Finishing == [IdleWorker EXCEPT !.pc = "finishing"]

Retrying(retries) ==
  [IdleWorker EXCEPT !.pc = "retrying", !.retries = retries]

IdleRequest == [op |-> "none", row |-> NoRow, incident |-> 0]

-----------------------------------------------------------------------------

\* OPEN_STATUSES: an acknowledged incident is still an open one.
IsOpen(i) == incidents[i].status # "RESOLVED"

OpenIncidents == {i \in DOMAIN incidents : IsOpen(i)}

\* open_incident_for_monitor: its id, or 0 for None.
OpenIncidentForMonitor ==
  IF OpenIncidents = {} THEN 0 ELSE CHOOSE i \in OpenIncidents : TRUE

\* Fault: the monitor is fetched without select_for_update.
NoRowLock == FALSE

\* A processing transaction holds the monitor row FOR UPDATE.
RowLocked == \E w \in Workers : worker[w].pc = "txn"

Probing == {w \in Workers : worker[w].pc = "probing"}

\* What timezone.now() may return: a new instant or, for checks that begin
\* at the same moment on two workers, the same one.
Now ==
  {t \in {clock, clock + 1} :
     /\ t <= MaxClock
     /\ t = clock => /\ \E w \in Probing : worker[w].checked_at = t
                     /\ \A i \in DOMAIN results : results[i].checked_at # t}

Queued(r) == [queue EXCEPT ![r] = @ + 1]

\* The two writes of incidents/services.py to an incident that exists.
ResolveIncident(row, resolved_at) ==
  [row EXCEPT !.status = "RESOLVED", !.resolved_at = resolved_at]

AcknowledgeIncident(row) == [row EXCEPT !.status = "ACKNOWLEDGED"]

\* ... and the one that creates it.
NewIncident(started_at) ==
  [status |-> "OPEN", started_at |-> started_at, resolved_at |-> 0,
   audience |-> listeners]

\* Fault: the channels are not filtered by is_verified and is_active.
EnqueuedForAll(i, event_type) ==
  outbox \cup {<<i, c, event_type>> : c \in Channels}

\* enqueue_incident_notifications: a row, got or created, for each channel
\* that is attached, verified and active at that moment.
Enqueued(i, event_type) ==
  outbox \cup {<<i, c, event_type>> : c \in listeners}

TypeOK ==
  /\ clock \in Nat
  /\ monitor \in MonitorRow
  /\ results \in Seq(Row)
  /\ incidents \in Seq(IncidentRow)
  /\ listeners \subseteq Channels
  /\ outbox \subseteq
       Nat \X Channels \X {"INCIDENT_OPENED", "INCIDENT_RESOLVED"}
  /\ queue \in [0..MaxRetries -> Nat]
  /\ lock \in BOOLEAN
  /\ worker \in [Workers -> WorkerState]
  /\ \A w \in Workers : worker[w].pc \in {"probing", "txn"}
                           => worker[w].checked_at \in 1..MaxClock
  /\ request \in [Requests -> RequestState]

\* create_monitor: a new monitor is enabled and has no history; the channels
\* it is given are set in the same request.
Init ==
  /\ clock = 0
  /\ \E f \in FailureThresholds, s \in SuccessThresholds :
       monitor = [NoRow EXCEPT !.exists = TRUE, !.is_enabled = TRUE,
                               !.failure_threshold = f,
                               !.success_threshold = s]
  /\ results = << >>
  /\ incidents = << >>
  /\ listeners \in SUBSET Channels
  /\ outbox = {}
  /\ queue = [r \in 0..MaxRetries |-> 0]
  /\ lock = FALSE
  /\ worker = [w \in Workers |-> IdleWorker]
  /\ request = [h \in Requests |-> IdleRequest]

-----------------------------------------------------------------------------
(***************************************************************************)
(* Messages.  The dispatcher claims the monitor with SKIP LOCKED and       *)
(* publishes after its commit; which instant that is belongs to another    *)
(* module.  The broker delivers at least once.                             *)
(***************************************************************************)

DispatchDueCheck ==
  /\ monitor.exists /\ monitor.is_enabled
  /\ ~RowLocked
  /\ queue[0] < MaxQueue
  /\ queue' = Queued(0)
  /\ UNCHANGED <<clock, monitor, results, incidents, outbox, lock, worker,
                 request, listeners>>

Redeliver(r) ==
  /\ queue[r] \in 1..(MaxQueue - 1)
  /\ queue' = Queued(r)
  /\ UNCHANGED <<clock, monitor, results, incidents, outbox, lock, worker,
                 request, listeners>>

-----------------------------------------------------------------------------
(***************************************************************************)
(* run_check.  acks_late=False: a message is gone once a worker takes it.  *)
(***************************************************************************)

Receive(w, r) ==
  /\ worker[w].pc = "idle"
  /\ queue[r] > 0
  /\ queue' = [queue EXCEPT ![r] = @ - 1]

\* Deleted or paused since being claimed, or another run holds the lock.
SkipCheck(w, r) ==
  /\ Receive(w, r)
  /\ ~monitor.exists \/ ~monitor.is_enabled \/ lock
  /\ UNCHANGED <<clock, monitor, results, incidents, outbox, lock, worker,
                 request, listeners>>

\* Fault: the lock is set without looking whether it was there.
StartProbeUnlocked(w, r) ==
  /\ Receive(w, r)
  /\ monitor.exists /\ monitor.is_enabled
  /\ lock' = TRUE
  /\ \E t \in Now :
       /\ clock' = t
       /\ worker' = [worker EXCEPT ![w] = ProbeSince(t, r)]
  /\ UNCHANGED <<monitor, results, incidents, outbox, request, listeners>>

StartProbe(w, r) ==
  /\ Receive(w, r)
  /\ monitor.exists /\ monitor.is_enabled
  /\ ~lock
  /\ lock' = TRUE
  /\ \E t \in Now :
       /\ clock' = t
       /\ worker' = [worker EXCEPT ![w] = ProbeSince(t, r)]
  /\ UNCHANGED <<monitor, results, incidents, outbox, request, listeners>>

\* The probe has an outcome; process_check_result takes the row lock and
\* looks up the open incident that a transition would need.
BeginTransaction(w) ==
  /\ worker[w].pc = "probing"
  /\ monitor.exists
  /\ ~RowLocked
  /\ \E o \in Outcome :
       worker' = [worker EXCEPT ![w] =
                       [@ EXCEPT !.pc = "txn", !.outcome = o,
                                 !.seen = OpenIncidentForMonitor]]
  /\ UNCHANGED <<clock, monitor, results, incidents, outbox, queue, lock,
                 request, listeners>>

\* probe() raises, as it does when a connection breaks in the body: run_check
\* catches nothing, so only its finally clause is left, and no CheckResult.
ProbeRaises(w) ==
  /\ worker[w].pc = "probing"
  /\ worker' = [worker EXCEPT ![w] = Finishing]
  /\ UNCHANGED <<clock, monitor, results, incidents, outbox, queue, lock,
                 request, listeners>>

\* Monitor.DoesNotExist: deleted while the probe was running.
NothingToRecord(w) ==
  /\ worker[w].pc = "probing"
  /\ ~monitor.exists
  /\ worker' = [worker EXCEPT ![w] = Finishing]
  /\ UNCHANGED <<clock, monitor, results, incidents, outbox, queue, lock,
                 request, listeners>>

\* `raise self.retry`, then the finally clause: the lock is deleted
\* whoever holds it by now.
RetryCheck(w) ==
  /\ worker[w].pc = "retrying"
  /\ queue' = Queued(worker[w].retries + 1)
  /\ lock' = FALSE
  /\ worker' = [worker EXCEPT ![w] = IdleWorker]
  /\ UNCHANGED <<clock, monitor, results, incidents, outbox, request,
                 listeners>>

FinishCheck(w) ==
  /\ worker[w].pc = "finishing"
  /\ lock' = FALSE
  /\ worker' = [worker EXCEPT ![w] = IdleWorker]
  /\ UNCHANGED <<clock, monitor, results, incidents, outbox, queue, request,
                 listeners>>

\* The process dies: an open transaction rolls back, the lock stays.
CrashWorker(w) ==
  /\ worker[w].pc # "idle"
  /\ worker' = [worker EXCEPT ![w] = IdleWorker]
  /\ UNCHANGED <<clock, monitor, results, incidents, outbox, queue, lock,
                 request, listeners>>

LockExpires ==
  /\ lock
  /\ Overrun \/ \A w \in Workers : worker[w].pc = "idle"
  /\ lock' = FALSE
  /\ UNCHANGED <<clock, monitor, results, incidents, outbox, queue, worker,
                 request, listeners>>

-----------------------------------------------------------------------------
(***************************************************************************)
(* The rest of process_check_result, up to its commit or its rollback.     *)
(***************************************************************************)

Success(w) == worker[w].outcome = "success"

NewResults(w) ==
  Append(results, [checked_at |-> worker[w].checked_at,
                   success |-> Success(w)])

\* Faults: the staleness guard is missing, or lets a tie through.
NeverStale(w) == FALSE

StaleButTies(w) ==
  /\ monitor.last_checked_at # 0
  /\ worker[w].checked_at < monitor.last_checked_at

Stale(w) ==
  /\ monitor.last_checked_at # 0
  /\ worker[w].checked_at <= monitor.last_checked_at

Applied(w) ==
  [ApplyCheckOutcome(monitor, Success(w)) EXCEPT
     !.last_checked_at = worker[w].checked_at]

\* A result that is not stale moves the health status to s.
CrossesTo(w, s) ==
  /\ ~Stale(w)
  /\ Applied(w).health_status = s
  /\ monitor.health_status # s

\* Fault: one row too many is taken for the streak.
OutageStartTooEarly(w) ==
  StreakStart(NewResults(w), FALSE, Applied(w).consecutive_failures + 1,
              worker[w].checked_at)

OutageStart(w) ==
  StreakStart(NewResults(w), FALSE, Applied(w).consecutive_failures,
              worker[w].checked_at)

OutageEnd(w) ==
  StreakStart(NewResults(w), TRUE, Applied(w).consecutive_successes,
              worker[w].checked_at)

\* Two ways the database refuses the transaction: a second open incident
\* (the partial unique index) and a negative duration (PositiveInteger).
IntegrityError(w) ==
  \/ CrossesTo(w, "DOWN") /\ worker[w].seen = 0 /\ OpenIncidents # {}
  \/ /\ CrossesTo(w, "UP") /\ worker[w].seen # 0
     /\ OutageEnd(w) < incidents[worker[w].seen].started_at

Commit(w) ==
  /\ worker[w].pc = "txn"
  /\ ~IntegrityError(w)
  /\ results' = NewResults(w)
  /\ worker' = [worker EXCEPT ![w] =
                   IF worker[w].outcome = "internal_error"
                        /\ worker[w].retries < MaxRetries
                     THEN Retrying(worker[w].retries) ELSE Finishing]
  /\ UNCHANGED <<clock, queue, lock, request, listeners>>

RecordStale(w) ==
  /\ Commit(w)
  /\ Stale(w)
  /\ UNCHANGED <<monitor, incidents, outbox>>

RecordSameStatus(w) ==
  /\ Commit(w)
  /\ ~Stale(w)
  /\ Applied(w).health_status = monitor.health_status
  /\ monitor' = Applied(w)
  /\ UNCHANGED <<incidents, outbox>>

\* Fault: a notification is enqueued only for an incident found open.
RecordDownSilently(w) ==
  /\ Commit(w)
  /\ CrossesTo(w, "DOWN")
  /\ monitor' = Applied(w)
  /\ IF worker[w].seen = 0
       THEN /\ incidents' = Append(incidents, NewIncident(OutageStart(w)))
            /\ UNCHANGED outbox
       ELSE /\ outbox' = Enqueued(worker[w].seen, "INCIDENT_OPENED")
            /\ UNCHANGED incidents

\* open_incident returns the incident that is already there, if any.
RecordDown(w) ==
  /\ Commit(w)
  /\ CrossesTo(w, "DOWN")
  /\ monitor' = Applied(w)
  /\ IF worker[w].seen = 0
       THEN /\ incidents' = Append(incidents, NewIncident(OutageStart(w)))
            /\ outbox' = Enqueued(Len(incidents'), "INCIDENT_OPENED")
       ELSE /\ outbox' = Enqueued(worker[w].seen, "INCIDENT_OPENED")
            /\ UNCHANGED incidents

RecordUp(w) ==
  /\ Commit(w)
  /\ CrossesTo(w, "UP")
  /\ monitor' = Applied(w)
  /\ IF worker[w].seen = 0
       THEN UNCHANGED <<incidents, outbox>>
       ELSE /\ incidents' = [incidents EXCEPT
                 ![worker[w].seen] = ResolveIncident(@, OutageEnd(w))]
            /\ outbox' = Enqueued(worker[w].seen, "INCIDENT_RESOLVED")

\* The measurement is lost together with everything else.
RollBack(w) ==
  /\ worker[w].pc = "txn"
  /\ IntegrityError(w)
  /\ worker' = [worker EXCEPT ![w] = Finishing]
  /\ UNCHANGED <<clock, monitor, results, incidents, outbox, queue, lock,
                 request, listeners>>

-----------------------------------------------------------------------------
(***************************************************************************)
(* Handlers.  Loading takes no lock; the check on what was loaded happens  *)
(* then, the write later and whatever the row has become.                  *)
(***************************************************************************)

Load(h, op, row, i) ==
  /\ op \in Ops
  /\ request[h].op = "none"
  /\ request' = [request EXCEPT ![h] =
                   [op |-> op, row |-> row, incident |-> i]]
  /\ UNCHANGED <<clock, monitor, results, incidents, outbox, queue, lock,
                 worker, listeners>>

LoadMonitor(h) ==
  /\ monitor.exists
  /\ \/ monitor.is_enabled  /\ Load(h, "pause", NoRow, 0)
     \/ ~monitor.is_enabled /\ Load(h, "resume", NoRow, 0)
     \/ monitor.is_enabled  /\ Load(h, "check", NoRow, 0)
     \/ Load(h, "delete", NoRow, 0)
     \/ Load(h, "patch", monitor, 0)

LoadIncident(h) ==
  \E i \in DOMAIN incidents :
    \/ incidents[i].status = "OPEN" /\ Load(h, "acknowledge", NoRow, i)
    \/ IsOpen(i) /\ Load(h, "force_resolve", NoRow, i)
    \/ /\ IsOpen(i) /\ monitor.health_status = "UP"
       /\ Load(h, "reconcile", NoRow, i)

Saving(h, op) ==
  /\ request[h].op = op
  /\ request' = [request EXCEPT ![h] = IdleRequest]

\* An UPDATE of some columns; it fails, changing nothing, if the row is gone.
SavePause(h) ==
  /\ Saving(h, "pause")
  /\ ~RowLocked
  /\ monitor' = [monitor EXCEPT !.is_enabled = FALSE]
  /\ UNCHANGED <<clock, results, incidents, outbox, queue, lock, worker,
                 listeners>>

SaveResume(h) ==
  /\ Saving(h, "resume")
  /\ ~RowLocked
  /\ monitor' = [monitor EXCEPT !.is_enabled = monitor.exists,
                                !.consecutive_failures = 0,
                                !.consecutive_successes = 0]
  /\ UNCHANGED <<clock, results, incidents, outbox, queue, lock, worker,
                 listeners>>

\* update_monitor saves every column as it was loaded, and inserts the row
\* if there is none to update.
SavePatch(h) ==
  /\ Saving(h, "patch")
  /\ ~RowLocked
  /\ \E f \in FailureThresholds, s \in SuccessThresholds :
       monitor' = [request[h].row EXCEPT !.failure_threshold = f,
                                         !.success_threshold = s]
  /\ UNCHANGED <<clock, results, incidents, outbox, queue, lock, worker,
                 listeners>>

\* Fault: the incidents outlive their monitor.
SaveDeleteOrphans(h) ==
  /\ request[h].op = "delete"
  /\ ~RowLocked
  /\ monitor' = NoRow
  /\ results' = << >>
  /\ request' = [request EXCEPT ![h] = IdleRequest]
  /\ UNCHANGED <<clock, incidents, outbox, queue, lock, worker, listeners>>

\* The delete cascades; handlers that hold an incident hold a row that is
\* gone, which 0 stands for.
SaveDelete(h) ==
  /\ request[h].op = "delete"
  /\ ~RowLocked
  /\ monitor' = NoRow
  /\ results' = << >>
  /\ incidents' = << >>
  /\ outbox' = {}
  /\ listeners' = {}
  /\ request' = [g \in Requests |->
                   IF g = h THEN IdleRequest
                            ELSE [request[g] EXCEPT !.incident = 0]]
  /\ UNCHANGED <<clock, queue, lock, worker>>

\* request_immediate_check publishes without looking at the row again.
PublishCheck(h) ==
  /\ Saving(h, "check")
  /\ queue[0] < MaxQueue
  /\ queue' = Queued(0)
  /\ UNCHANGED <<clock, monitor, results, incidents, outbox, lock, worker,
                 listeners>>

\* The unique index refuses to make a resolved incident the second open one.
SaveAcknowledge(h) ==
  LET i == request[h].incident
  IN  /\ Saving(h, "acknowledge")
      /\ IF i # 0 /\ OpenIncidents \subseteq {i}
           THEN incidents' = [incidents EXCEPT ![i] = AcknowledgeIncident(@)]
           ELSE UNCHANGED incidents
      /\ UNCHANGED <<clock, monitor, results, outbox, queue, lock, worker,
                     listeners>>

\* resolve_incident at timezone.now(), from the admin action or from
\* close_stale_incidents; neither enqueues a notification.
SaveResolve(h, op) ==
  LET i == request[h].incident
  IN  /\ Saving(h, op)
      /\ clock' = clock + 1 /\ clock' <= MaxClock
      /\ IF i # 0
           THEN incidents' = [incidents EXCEPT
                                ![i] = ResolveIncident(@, clock')]
           ELSE UNCHANGED incidents
      /\ UNCHANGED <<monitor, results, outbox, queue, lock, worker, listeners>>

\* The user attaches, detaches, verifies, edits or switches channels: whatever
\* the statements, the engine sees who is listening when an event occurs.
EditChannels ==
  /\ "channels" \in Ops
  /\ monitor.exists
  /\ listeners' \in SUBSET Channels
  /\ UNCHANGED <<clock, monitor, results, incidents, outbox, queue, lock,
                 worker, request>>

-----------------------------------------------------------------------------

CheckNext(w) ==
  \/ \E r \in 0..MaxRetries : SkipCheck(w, r) \/ StartProbe(w, r)
  \/ BeginTransaction(w)
  \/ ProbeRaises(w)
  \/ NothingToRecord(w)
  \/ RecordStale(w)
  \/ RecordSameStatus(w)
  \/ RecordDown(w)
  \/ RecordUp(w)
  \/ RollBack(w)
  \/ RetryCheck(w)
  \/ FinishCheck(w)
  \/ CrashWorker(w)

RequestNext(h) ==
  \/ LoadMonitor(h)
  \/ LoadIncident(h)
  \/ SavePause(h)
  \/ SaveResume(h)
  \/ SavePatch(h)
  \/ SaveDelete(h)
  \/ PublishCheck(h)
  \/ SaveAcknowledge(h)
  \/ SaveResolve(h, "force_resolve")
  \/ SaveResolve(h, "reconcile")

Next ==
  \/ DispatchDueCheck
  \/ \E r \in 0..MaxRetries : Redeliver(r)
  \/ LockExpires
  \/ EditChannels
  \/ \E w \in Workers : CheckNext(w)
  \/ \E h \in Requests : RequestNext(h)

Spec == Init /\ [][Next]_vars

-----------------------------------------------------------------------------
(***************************************************************************)
(* Properties.  The first group is about the engine proper and holds as    *)
(* long as no handler writes back what it loaded earlier, which is what    *)
(* "patch", "acknowledge" and "force_resolve" do.                          *)
(***************************************************************************)

EngineAlone == Ops \cap {"patch", "acknowledge", "force_resolve"} = {}

\* A monitor is DOWN exactly while it has an open incident, and then the
\* open incident is one, and the latest (processor.py:100-136).
DownIffOpenIncident ==
  OpenIncidents = IF monitor.health_status = "DOWN" THEN {Len(incidents)}
                                                    ELSE {}

\* Every outage has a positive length, and begins after the one before it
\* was over, although the two instants come from two separate queries over
\* a history in which late results are out of order.
OutagesDisjoint ==
  /\ \A i \in DOMAIN incidents :
       IsOpen(i) \/ incidents[i].resolved_at > incidents[i].started_at
  /\ \A i \in DOMAIN incidents : \A j \in DOMAIN incidents :
       i < j => incidents[i].resolved_at \in 1..(incidents[j].started_at - 1)

\* Where the last outage began, if it lasts, or ended; 0 before the first.
LastBoundary ==
  IF incidents = << >> THEN 0
  ELSE IF monitor.health_status = "DOWN"
         THEN incidents[Len(incidents)].started_at
         ELSE incidents[Len(incidents)].resolved_at

\* No result is newer than the newest one applied to the row.
ResultsApplied ==
  \A i \in DOMAIN results : results[i].checked_at <= monitor.last_checked_at

\* The streak that may cause the next transition is made of checks that are
\* all newer than the last one.
StreakCovered ==
  /\ LastBoundary <= monitor.last_checked_at
  /\ IF monitor.health_status = "DOWN"
       THEN Cardinality(RowsAfter(results, TRUE, LastBoundary))
              >= monitor.consecutive_successes
       ELSE Cardinality(RowsAfter(results, FALSE, LastBoundary))
              >= monitor.consecutive_failures

\* What a transaction read of the row and its incidents is still so.
TransactionsIsolated ==
  \A w \in Workers : worker[w].pc = "txn" =>
    /\ monitor.exists
    /\ worker[w].seen =
         IF monitor.health_status = "DOWN" THEN Len(incidents) ELSE 0
    /\ \A v \in Workers : worker[v].pc = "txn" => v = w

NoStaleWriter ==
  \A h \in Requests :
    request[h].op \notin {"patch", "acknowledge", "force_resolve", "reconcile"}

\* The reason why the two invariants hold: together they are inductive.
EngineInvariant ==
  /\ TypeOK
  /\ DownIffOpenIncident
  /\ OutagesDisjoint
  /\ ResultsApplied
  /\ StreakCovered
  /\ TransactionsIsolated
  /\ NoStaleWriter

\* The transaction of w commits or rolls back, other than by a crash.
TransactionEnds(w) ==
  /\ worker[w].pc = "txn"
  /\ worker'[w].pc \in {"retrying", "finishing"}

\* A measurement that reached the database transaction is recorded once: no
\* constraint on incidents ever rolls it back (incidents/services.py:23-31),
\* and no other step adds or drops a row unless the monitor is deleted.
EveryMeasurementRecorded ==
  [][/\ \A w \in Workers :
          TransactionEnds(w)
            => results' = NewResults(w)
     /\ results' # results /\ monitor'.exists
          => \E w \in Workers : TransactionEnds(w)]_vars

\* Only a result newer than every result applied before moves the status or
\* the streaks upwards: a late one never revives an old state.
StatusMovesForward ==
  [][monitor.exists /\ monitor'.exists =>
       /\ monitor'.last_checked_at >= monitor.last_checked_at
       /\ \/ monitor'.health_status # monitor.health_status
          \/ monitor'.consecutive_failures > monitor.consecutive_failures
          \/ monitor'.consecutive_successes > monitor.consecutive_successes
          => monitor'.last_checked_at > monitor.last_checked_at]_vars

Opening ==
  /\ monitor'.exists
  /\ Len(incidents') > Len(incidents)

\* What streak_start_at says of itself (selectors.py:49-60): an outage
\* begins with a run of failures that no success interrupts.
StreakUninterrupted ==
  LET start == incidents'[Len(incidents')].started_at
  IN  \A i \in DOMAIN results' :
        results'[i].checked_at >= start => ~results'[i].success

\* This holds where checks did not overlap, so that results came in order: a
\* late failure counts although a success came between.
StreakIsConsecutiveInOrder ==
  [][Opening /\ (\A i, j \in DOMAIN results' :
                    i < j => results'[i].checked_at < results'[j].checked_at)
     => StreakUninterrupted]_vars

\* The engine keeps the promise of OutageLog.
Logged(table) ==
  [i \in DOMAIN table |-> [began |-> table[i].started_at,
                           ended |-> table[i].resolved_at]]

Log ==
  INSTANCE OutageLog WITH
    Instant   <- 1..MaxClock,
    down      <- monitor.health_status = "DOWN",
    outages   <- Logged(incidents),
    Reader    <- Channels,
    audience  <- listeners,
    announced <- outbox

ImplementsOutageLog == Log!Spec

(***************************************************************************)
(* The second group holds whatever the handlers do.                        *)
(***************************************************************************)

\* The cache lock keeps probes of one monitor apart as long as it outlives
\* them: neither retries, redelivery nor crashes defeat it.
OneProbeAtATime == ~Overrun => Cardinality(Probing) <= 1

\* A channel that was listening when an incident was opened is not told that
\* it is over without having been told that it began, however the channels
\* are edited in between and whichever handler has written to the incident.
\* (One that began to listen in between is, by services.py:130-134.)
ResolvedOnlyAfterOpened ==
  \A i \in DOMAIN incidents : \A c \in incidents[i].audience :
    <<i, c, "INCIDENT_RESOLVED">> \in outbox
      => <<i, c, "INCIDENT_OPENED">> \in outbox

(***************************************************************************)
(* The third group is what the code's own text says and its handlers break.*)
(***************************************************************************)

\* monitors/models.py:93: health_status is owned by the monitoring engine.
OnlyEngineMovesHealth ==
  [][monitor.exists /\ monitor'.exists
     /\ monitor'.health_status # monitor.health_status
       => \E w \in Workers : TransactionEnds(w)]_vars

\* incidents/services.py:3-5: RESOLVED is terminal.
ResolvedIsTerminal ==
  [][monitor'.exists => \A i \in DOMAIN incidents :
       incidents[i].status = "RESOLVED" => incidents'[i].status = "RESOLVED"]_vars
=============================================================================
