# Verification of MonitoringPlatform

A website-monitoring service: users register monitors (a URL and an interval),
Celery workers probe them, runs of failures open incidents, and e-mail or
Telegram channels are told about every opening and resolution. This directory
holds TLA+ models of the parts where the order of events decides whether the
service is right, the TLC runs that check them, and TLAPS proofs of what matters
most. Paths below are relative to the repository.

## 1. The system

| Component | State it keeps | Operations | Where it gets hard | What makes it correct |
|---|---|---|---|---|
| Scheduler and dispatch (`apps/checks/scheduler.py`, `tasks.py:30-49`) | `Monitor.next_check_at` | `dispatch_due_checks` every 30 s, `claim_due_monitors` | overlapping passes, `SKIP LOCKED`, a batch limit, publication after commit | one claim per interval; the most overdue first |
| Check engine (`apps/checks/tasks.py:52-127`, `processor.py`, `domain.py`, `selectors.py`) | `Monitor` status and streaks, `CheckResult`, cache lock `check:lock:<id>` | `run_check`, `process_check_result` | two checks of one monitor at once, late results, lock expiry, retries, redelivery, crashes | status agrees with incidents; late results change nothing; nothing measured is lost |
| Incidents (`apps/incidents/`) | `Incident` rows, a partial unique index | open, resolve, acknowledge, force-resolve, `close_stale_incidents` | handlers that decide on a row read earlier | one open incident; outages disjoint; RESOLVED is terminal |
| Monitors API (`apps/monitors/`) | `Monitor` configuration, its channels | create, update, pause, resume, delete, check now | load-then-save without a lock, beside the engine, the dispatcher and other requests; quota counted before the insert; channels set after the save | must not undo what the engine wrote; stored rows are valid; quota |
| HTTP probe and SSRF guard (`integrations/http_probe/`, `apps/common/validators.py`) | none | `probe`, `check_target_is_allowed`, `validate_monitor_url` | the name is resolved twice; exceptions belong to several classes | a denied address that was seen is never contacted; the measurement says what happened |
| Notification outbox (`apps/notifications/services.py`, `tasks.py`) | `NotificationDelivery` rows | enqueue, publish, `deliver_notification`, `attempt_delivery`, `mark_delivery_failed` | `acks_late`, redelivery, ambiguous failures, crashes, retries | one sender; SENT is true; duplicates only when unavoidable; every row decided |
| Notification channels | `NotificationChannel` rows | create, update, verify, delete, new link | the channel changes between enqueueing and sending, and between a test message and the save of its success | only destinations that were tried are called verified |
| Telegram handshake (`services.py:200-`, `tasks.py:100-`) | `TelegramClaim`, poll offset, poll lock | issue claim, poll, resolve claim | overlapping polls, an offset moved after the batch, a lost cache | a chat is bound once, by the latest link; no Start is lost |
| Rollup and retention (`apps/checks/tasks.py:130-`) | `MonitorHourlyStat` | hourly rollup, daily purge | late results, three queries per summary, overlapping executions, purge windows | a summary describes its hour; nothing is purged that was not summarised |
| Statistics (`apps/checks/stats.py`, `apps/monitors/views.py:264-`) | none | aggregation | boundaries of the period, rounding | agrees with the checks themselves |
| Browser session (`frontend/src/api/client.ts`, `auth/`) with the token endpoints (`apps/accounts/views.py`) | refresh cookie (shared by tabs), an access token, a refresh promise and requests in each tab | login, refresh, logout, retry after 401, reload | a refresh that answers after a logout, two tabs that rotate one cookie | a logout stays one; nobody logs in needlessly; no request waits for a refresh that is gone |
| Registration, browser UI, common infrastructure, mail and Telegram protocols | none of their own | rendering, validation, I/O | - | - |

How they interact: the dispatcher claims monitors in a transaction and, after its
commit, publishes one `run_check` message for each. A worker takes the message,
the cache lock, and probes; the processing transaction then takes the monitor row
`FOR UPDATE`, appends the result, moves status and streaks, opens or resolves the
incident and adds outbox rows, all or nothing. After that commit one
`deliver_notification` message per row goes out; a worker claims the row with a
conditional UPDATE, sends, and saves the outcome. HTTP handlers work beside all
this: the settings have no `ATOMIC_REQUESTS`, so each loads a row in one
statement and saves it in a later one. Every hour a task summarises the results,
and every day another deletes the raw rows behind the summaries.

The hazards, each at its line, are listed in `PROJECT.json`.

## 2. The modules

| Module | Models | Used by |
|---|---|---|
| `CheckDomain` | the pure decisions: `apply_check_outcome`, `compute_next_check_at`, `streak_start_at` | `MonitorEngine`, `Scheduler` |
| `OutageLog` | abstract specification: outages begin and end in turn, each announced in the same step to exactly the readers who are listening then | implemented by `MonitorEngine` |
| `MonitorEngine`, `MCMonitorEngine` | one monitor: `run_check`, `process_check_result`, incidents, outbox rows, all handlers | |
| `NotificationDelivery` | the outbox of one channel, from the enqueueing transaction to the recipient | |
| `Scheduler`, `MCScheduler` | many monitors' schedules, overlapping dispatcher passes, handlers | |
| `HourlyStats` | the pure functions of `domain.py` and `stats.py`: percentile, averages, downtime, period and series | `Rollup` |
| `Rollup`, `MCRollup` | hourly rollup, purge and the statistics endpoint, beside checks, incidents and deletions | |
| `ChannelVerification`, `MCChannelVerification` | one channel: its handlers, its Telegram link, the poller | |
| `HttpProbe` | the decisions of the probe: validator, guard, exceptions to error types, capped body | `MonitorsApi` |
| `MonitorsApi`, `MCMonitorsApi` | overlapping POST, PATCH and DELETE requests on monitors and their channels, and probes of what is stored | |
| `Session`, `MCSession` | the tabs of one browser and the token endpoints | |
| `MonitorEngineProofs` | lemmas about `CheckDomain`, theorems about the engine, its refinement of `OutageLog` | |
| `NotificationDeliveryProofs`, `SchedulerProofs`, `ChannelVerificationProofs`, `MonitorsApiProofs`, `SessionProofs` | theorems about the outbox, the scheduler, the channel with its link, the API with its probe, and the session | |
| `HourlyStatsProofs` | lemmas about sums over sets, percentiles, averages and downtime | `RollupProofs` |
| `RollupProofs` | theorems about the rollup, the purge and the statistics | |

### MonitorEngine

State: the monitor's row, its `CheckResult` and `Incident` rows (an incident's index
is its identity), the channels that are attached, verified and active now
(`listeners`), the outbox rows, one per incident, channel and event, the messages in
the broker counted by retry number, the cache lock, and what each worker and each
handler is doing. The one history variable is a field: an incident's `audience` is
who was listening when it was opened.

* *Granularity.* A step ends where another process can see or change something:
  the taking of the lock and the start of the probe; the row lock together with
  the reading of the open incident (`BeginTransaction`); the commit (`Record...`)
  or the rollback; the finally clause, which deletes the lock whoever holds it.
  `run_check` reads the monitor and takes the cache lock in one step
  (`StartProbe`); a pause or a deletion that falls between the two is the same as
  one that falls just after, because the row is not written before the
  transaction, which reads it again.
* *Time* is a counter of distinguishable instants. `timezone.now()` returns a new
  one, or, for two checks that begin at once, the same one.
* *Results out of order* come from two workers probing at the same time. With
  `Overrun` true, the time to live of the cache lock may pass while a probe runs;
  with `Overrun` false it passes only once no worker is busy.
* *Handlers.* `Load...` reads and checks, `Save...` writes later. A handler that
  loaded an incident whose monitor was deleted meanwhile holds a row that is
  gone. `update_monitor` writes every column as loaded and inserts the row again
  when there is none to update, as `Model.save()` does.
* *Channels.* An opening and a resolution each enqueue a row for every channel
  listening in that step; `EditChannels` changes who listens at any time between.
  Reading the channels and the commit are one step: the deletion of a channel in
  that window is not modelled (section 5).
* *Database constraints* are guards: the partial unique index on open incidents
  and the non-negative duration roll a processing transaction back
  (`IntegrityError`, `RollBack`).
* *A probe that raises* (`ProbeRaises`) leaves no result: the exception passes
  through `run_check`, whose finally clause deletes the lock.
* Messages of `run_check` are acknowledged on receipt (`acks_late=False`), so a
  crash loses them; the broker may deliver one twice (`Redeliver`).

### NotificationDelivery

State: the channel's row, status and number of attempts of each delivery,
`on_commit` callbacks still to run, messages in the broker, workers, and, outside
the program, what the recipient has received (`inbox`) and which of those sends
looked like failures (`unsure`).

* `acks_late=True`: a message is gone only when its task is over. When the worker
  dies it comes back, except that for the death of a child process Celery
  acknowledges it (`task_reject_on_worker_lost` is off); `Crash` allows both. A
  second copy of a message in work (`Redeliver`) is the broker's visibility
  timeout.
* A success reached the recipient, a permanent error did not, a temporary one
  (a timeout, a dropped connection) may have.
* `ProviderRaises`: an exception the clients do not catch (a line break in the
  subject) passes through `attempt_delivery`. The row stays on SENDING, and the
  failed task is acknowledged; `raised` remembers such deliveries.
* Edits of the channel are single steps: what a delivery can see of them is the
  row afterwards. The races inside `verify_channel` are in `ChannelVerification`.

### Scheduler

State: the schedule columns of every monitor, the passes, the handlers, and a history
variable, `lastClaim`: when a monitor was claimed on its present schedule; a resume,
an edit or a deletion starts a new one.

* The claim's SELECT is several steps, as PostgreSQL executes it: a snapshot of
  the rows that are due, sorted by the `next_check_at` seen there; then row by row
  a lock, passing over a row that is locked and one whose latest version is not
  due any more. `SkipLocked` is always possible, because `process_check_result`
  too takes the row `FOR UPDATE`, and its transactions are not part of this module.
* `update_monitor` is two operations here: `change_interval`, which also makes the
  monitor due, and `patch`, which saves `next_check_at` as it was loaded.
* Publishing happens after the commit, message by message. `PublishFails` is a
  `delay()` that raises there, which drops the messages still to come although no
  process dies; `CrashPass` is the death of one. Neither takes a claim back.
* `create_monitor` is in the initial states: any interval, due now or later,
  enabled or paused.

### Rollup and HourlyStats

State: the clock in ticks, the monitors, a check under way for each, the rows of
`CheckResult`, `Incident` and `MonitorHourlyStat`, what each execution of the
rollup has read so far, and the hours the purge still has to go through. History
variables say which checks, incidents and hours a summary could not know of
(`late`, `restated`, `torn`).

* Neither task runs in a transaction: listing the active monitors, the two counts,
  the response times, the incident windows and `update_or_create` are a step each,
  and so is every DELETE of the purge. A deleted monitor fails the save and ends
  the rollup.
* A rollup works on any hour that is over, because the task takes one as an
  argument; two executions may work on the same hour. A worker may die anywhere.
* Of the engine there is what these tasks can see: a check begins, commits up to
  `MaxLag` ticks later, and may begin or end an outage dated back to an earlier
  check of the same outcome.
* `RollupAssumption` asks for `Retention >= Hour + MaxLag`: the settings keep raw
  rows for days, and a check takes seconds. A response time may be 0; `timed` tells
  an average of 0 from the NULL of an hour without successes.

### ChannelVerification

State: the channel and its claim, the handlers, what Telegram keeps (the Starts
pressed, and the number below which it has forgotten them), the cache (offset and
lock), and the pollers.

* `claim_telegram_chat` is one transaction that locks both rows, and one step; the
  statements of the handlers are steps of their own, `issue_telegram_claim` two.
* The lock may expire under its holder, whose finally clause then deletes another's;
  the cache may be lost; a poll may fail, or its worker die, at any point.
* A PATCH may change `config`, `type` or both: the serializer leaves `type` writable and
  `update_channel` takes back `is_verified` only for a new `config`. A claim survives
  a change of type. `is_active` is left out: nothing here reads it.
* `proven` is history: the destinations a test message or a Start has reached.
  `MaxEvents` bounds requests, Starts and failures together.

### MonitorsApi and HttpProbe

State: the monitors' configurations, the many-to-many table, the channels, the
requests and the probes. `Requests` are the handlers that can be at work at one time;
each serves one request after the other. A request validates and counts, inserts or saves, reads
the attachments and writes them, each a step; `save()` writes every column as loaded
and inserts the row when it is gone. A probe reads the row, has the guard resolve the
name, resolves it again to connect, and reads a body of bounded size. The networks
of the policy are sets of addresses, given as constants; which exception classes
`requests` raises for a failure (`Raised`) is an assumption about that library.
`timeout_seconds` and `interval_seconds`, whose ranges cannot meet, are left out.

### Session

State: the browser's cookie, the pairs the server issued and which have expired, and
per tab its page, its refresh and its requests. JavaScript runs to the next `await`,
so the answers are the steps. A refresh or a login may be overtaken by anything;
fetch may reject; the server may be unavailable. A reload aborts the tab's requests,
whose answers then set no cookie: an abstraction of what browsers do. One account.

## 3. The runs

| Run | Instance | Shows |
|---|---|---|
| `engine_core` | 2 workers, no handlers, failure threshold 2, lock may expire, 5 instants | status iff open incident, disjoint outages, no measurement lost to a constraint on incidents, late results change nothing, streaks consecutive when results come in order |
| `engine_handlers` | the same with one handler (pause, resume, delete, check, reconcile), threshold 1, 3 instants, one channel that listens or does not | the inductive invariant of the proofs, and the refinement of `OutageLog` |
| `engine_any_handler` | all operations, edits of the channel among them, one retry, redelivery, lock outlives its probe | one probe at a time; a channel that listened at the opening hears of no end without a beginning |
| `engine_patch`, `engine_acknowledge` | 2 workers, at most one handler with the operation in question | disagreements, see section 6 |
| `delivery` | 1 delivery, 2 workers, 1 retry, 1 extra copy, 1 crash, channel edits, fairness | the inductive invariant, one sender, SENT is true, duplicates only by ambiguity, bounded attempts, the one way to overwrite an outcome, liveness |
| `delivery_crash` | the same, without copies or edits | a disagreement, see section 6 |
| `scheduler` | 2 monitors, 2 passes, 1 handler with 1 request, intervals 1 and 2, batches of 1 and 2, failing publications, 1 crash, 2 ticks | the inductive invariant (disjoint claims are part of it), one claim per interval, most overdue first |
| `rollup` | 2 monitors, 2 checks, 2 overlapping rollups, 1 purge, 1 deletion, 5 ticks of which 2 are an hour | summaries exact, the purge loses late checks and no others, statistics agree with the checks, percentile is nearest rank for samples of 1 to 60 |
| `channels` | 1 channel of a type that PATCH may change, 2 addresses, 2 chats, 2 handlers, 2 pollers, 3 events | the three ways to a verified channel whose destination is untried, bound by the latest link, no Start lost |
| `requests` | 1 account with quota 1, 3 keys, 1 channel, 2 handlers that serve requests without end, 1 probe, 8 URLs that each break one rule, a name with changing answers | attachments exist and are the account's, rows stay valid, quota overshoot bounded, denied addresses contacted only if unseen, measurements truthful |
| `session` | 2 tabs, one with two requests and one with one, 3 pairs of tokens | every request that waits has a refresh to wait for, a logout stays one, no needless login |

Why the bounds are enough. Two workers give every overlap of two checks; a third
adds no new pair. Five instants allow an outage of two failures, its end, and a
late result on either side; three allow open, resolve and open again with
threshold 1. The outbox rows of a channel meet only in the workers, and a worker
busy with another row is one that has not yet taken its message, so a single
delivery shows every interleaving. Two passes, of which one holds or has changed a
row the other saw in its snapshot, are the scheduler's interesting pair; with batch
sizes 1 and 2 over two monitors both a full and a partial batch occur, and in two
ticks a monitor of interval 1 is rightly claimed a second time. `MaxQueue`,
`MaxClock`, `MaxTime`, `MaxCopies`, `MaxCrashes` and `MaxEdits` are bounds of the
models, not of the program; the theorems hold for every value of them.
Two checks in five ticks give a late check, a streak of two and an outage over the
boundary of an hour; two rollups and one purge give each pair of overlapping tasks.
The percentile's samples go past 20, 40 and 60, where the rank leaves the maximum.
Three events are a link, a Start and an edit, or a failure in place of one, and two
pollers are an expired lock and its successor. Two handlers and quota 1 give an overshoot of exactly one, the bound of the property;
because handlers take request after request, without the count a third key would be
filled too, and that is one over the bound. The run follows a probe only from states
with no request in flight and one key used (`ProbesAlone`): after its first step, which
reads the row, a probe shares nothing with a request, so its steps commute with theirs
and nothing is hidden by leaving the mixtures out. Three pairs of tokens let both tabs
rotate the cookie after one login, and a tab with two requests is the least in which a
refresh is shared.
`CHECK_DEADLOCK FALSE` is set everywhere because an instance stops when its clock,
messages or crashes are used up. Symmetry is used only where no liveness is checked.

*Fairness.* Only `NotificationDelivery` states a liveness property
(`EventuallyDecided`), under `FairSpec`: weak fairness of each `on_commit` callback
and of each worker's next step. A process that lives runs its callbacks; the broker
hands a message to a free worker; a send ends because the clients have timeouts.
There is no fairness of crashes, copies, edits or enqueueing, and the property
excuses runs in which a process has died or an attempt at the delivery has raised: the
code has no sweeper that would find such a row again (run `delivery_crash`).

Every property of a passing run is matched with a fault in the model (definitions
commented "Fault:", named in `PROJECT.json`) that breaks it: a missing row lock, a
staleness guard that lets ties through, a claim that takes the row as it was seen,
a message for a channel that is not listening, and so on.

## 4. What is proved

All theorems hold for every number of workers, handlers, deliveries, monitors and
passes, every threshold and every bound. They rest on the named assumptions on the
constants, which TLC evaluates on every run:

* sorts, positive thresholds, intervals and hours, and "no one" values outside the
  sets they stand beside (`EngineAssumption`, `DeliveryAssumption`,
  `SchedulerAssumption`, `ChannelAssumption`, `SessionAssumption`,
  `HttpProbeAssumption`);
* `MonitorsApiAssumption`: besides those, there is a handler, and the handlers at work at
  one time are finitely many (both only for the bound on the quota, which is stated in
  their number);
* `RollupAssumption`: besides those, a raw row is retained for longer than an hour and
  the longest check (`Retention >= Hour + MaxLag`; the setting is in days, the
  timeouts of a check are in seconds).

*Engine.* `TypeCorrect` and `ProbesApart` hold for every choice of `Ops`. So does
`EndsFollowBeginnings`: the outbox has, for every incident of the table, the opening
for each channel that was listening then (`AllAnnounced`), and no handler changes which
incident a row is or takes an outbox row away, whatever it writes to its status. A
channel that began to listen later has no such promise (section 6).

The others (`EngineInvariantHolds`, `DownMeansOpenIncident`, `OutagesAreDisjoint`,
`MeasurementsRecorded`, `LateResultsChangeNothing`, `StreaksAreConsecutive`,
`Refinement`) assume `EngineAlone`: none of `patch`, `acknowledge`, `force_resolve`, the
handlers that write back what they loaded, is in use (runs `engine_patch` and
`engine_acknowledge` show what two of them break). The inductive invariant is
`EngineInvariant`:

* `DownIffOpenIncident` and `OutagesDisjoint` are what we want. They are not
  inductive: whether a new outage begins after the last one ended depends on the
  history the streak is read from.
* `ResultsApplied`: no row of the history is newer than `last_checked_at`. Thus a
  result that is not stale is strictly newer than every row.
* `StreakCovered`: the checks that the streak counter counts are all newer than the
  last boundary. Hence `streak_start_at`, which takes as many of the newest rows
  with the wanted outcome, ends after that boundary; late results only add rows,
  and can only move its answer to a later instant. This is the key step; the
  lemmas about `StreakStart` at the head of the module carry it.
* `TransactionsIsolated`: what a processing transaction has read under the row lock
  is still so when it commits.
* `NoStaleWriter`: no handler that would write back a loaded row is in flight. It
  names `reconcile` too: `close_stale_incidents` resolves only open incidents of
  monitors that are UP, and under the invariant there are none.

`StreaksAreConsecutive` adds two facts to it. `last_checked_at` is the instant of some
row (`NewestApplied`), so in a history that is in order no result was ever stale; hence
the streak counter counts exactly the last rows, all of them failures (`StreakLast`), and
`streak_start_at` finds the first of them (`StreakStartInOrder`). `MeasurementsRecorded`
is about the constraints on incidents: it says that no transaction meets one of them.

`Refinement` maps each engine step to `Begin`, `End`, `Listen`, `Forget` or a stutter of
`OutageLog`, the listening channels to its readers; the guards `t > Last.ended` and `t > Last.began` are where
`StreakCovered` is needed again.

*Outbox.* `DeliveryInvariant` says per delivery: at most one sender, and nobody can
claim the row meanwhile; received copies equal the ambiguous ones, plus one exactly
when an attempt ended in success; after that success the row cannot be claimed, and
the only worker left on it is the one about to save the success. It yields
`OneSenderHolds`, `SentMeansReceivedHolds` and `NoOtherDuplicates`, for any number
of redeliveries and crashes. `AttemptsAreBounded` needs an account of everything that
may still lead to an attempt: a callback, a queued message and a worker are tokens
(`Tokens`), each of which stands for a chain of retries, and only a redelivery or a
crash makes a new chain (`Accounted`). `OverwritesExplained` has two halves: while neither
has happened there is one chain, and its row is not decided before its end (`Lucky`,
`StatusFits`); afterwards `DeliveryInvariant` leaves nobody who could overwrite a SENT
row but a worker whose own last retry failed.

*Scheduler.* `SchedulerInvariant`: claims are disjoint; what a pass holds is due at
the pass's cutoff; a claimed monitor's next check is an interval after the claim.
`LockRow` needs both `SKIP LOCKED` and the second look at the WHERE clause, saves
need to wait for the row lock, and the commit needs `now + interval`. It yields
`ClaimedOncePerInterval`, whatever the handlers do and whichever publications fail.
`MostOverdueAreFirst` rests on `TakenInOrder` (what a pass has left of its snapshot is not
more overdue than what it took).

*Channels.* Three layers. `PollingFits`: everything that an offset leaves behind, in the
cache, at Telegram or in the hands of a poller that has lost its lock, was answered; it
yields `EveryStartAnswered`. `RowsFit`, on top of it: the types, that a handler whose
test message arrived has proven the destination it sent to, and that a claim belongs to a
channel that exists. It yields `TypeCorrect` and, action by action, `UnprovenIsExplained`:
a save of a verification, an update, a handler's write-back and a Start each lead to a
verified channel whose destination is untried only in the way the property names.
`LinksFit`: each binding was by the link that was the latest then; it yields
`ChatsAreBoundOnce`.

*Rollup.* `HourlyStatsProofs` first makes the folds of `HourlyStats` usable: the library
defines a sum over a set by recursion on an arbitrary order, so the module builds the
table of all partial sums once, by induction over finite sets with the induction's
property given as a set, and derives that sums add over disjoint sets, are bounded
and agree when their summands do. On that rest the nearest-rank percentile
(`NthSmallestExists`), the rounded mean, and that downtime is the number of ticks covered
by incidents that do not overlap (`DowntimeIsCoverage`). `PercentileHolds` is then a lemma
about `compute_response_time_stats` for every sample. `RollupInv` says what an execution
in the middle of its queries knows (`RunFits`: what it read is of its hour, and holds
every check that was on time), that the purge deletes only hours no check can be added
to any more (`PurgeFits`), and that outages do not overlap; without `PurgeFits` a
repeated rollup might find a part of its hour purged. It yields `SummariesAreExact` and
`PurgeLosesOnlyLateChecks`, for any number of overlapping rollups, purges and crashes.
`StatisticsAreRight` rests on these and on sums of sums: the checks of a period are parted
by their hours, as the rows are (`PeriodExact`), and the rows by their buckets
(`SeriesAddUp`); an average rounded once for each hour stays within half of a check's
weight for every check, and so do their sums (`SumsStayNear`, `WeightedAverageNear`).

*Monitors API and probe.* `KindsInvariant` adds to the types that every row about to
be written was validated as a whole (`RequestsSound`) and that the addresses a probe
has had judged are not denied (`ProbesSound`). It yields `StoredRowsValid` and
`GuardLeavesOneWindow`. That no monitor has another account's channel
(`AttachmentsCorrect`) is not inductive: a save may insert a row that was deleted, at a
moment when another request is about to attach channels to it. What holds it together
is that a primary key keeps its account; `OwnersInvariant` says that there is such an
assignment of accounts to keys, with which every request in flight agrees.
`QuotaHolds` counts what an account has, what its handlers are about to insert and what
their saves may bring back, and bounds the sum of the three by the number of handlers
that can be at work at one time, not by the requests they have served
(`QuotaInvariant`); a creation enters the sum only if the count it made allowed it.
`ProbesTellTheTruth` follows each failure through the exception classes it belongs to
(`TruthInvariant`).

*Session.* `SessionTypeCorrect` includes that a request that waits has a refresh of
its tab to wait for; each action that ends a refresh empties the set of those waiting.
`LogoutsHold` is inductive with the types: the server accepts no refresh without a
cookie, and after a logout every new refresh is one. `NoLoginWithoutCause` rests on
`RefusedRightly`, that a refused refresh carried no token or an expired one, which is
true because a rotated token stays good.

## 5. What is only model-checked, and what is not modelled

Every safety invariant and every action property of the passing runs is a theorem of
section 4. Model-checked only:

* `EventuallyDecided`, which is liveness under fairness. That, ENABLED, induction over
  data with an operator for the property, and RECURSIVE operators are out of the
  prover's reach; no module declares a RECURSIVE operator.

No other liveness is stated: the scheduler, the rollup and the poller are started by a
calendar the models do not follow, and nothing in the code promises that they catch up
(a missed rollup is made up for only by hand); the session waits for the network.

Not modelled:

* registration (one INSERT behind a serializer and a unique index) and `/me`;
* the deletion of a channel between the SELECT of the channels to tell
  (`apps/notifications/services.py:132`) and the commit of the processing transaction: the
  foreign key of its outbox row then fails the transaction, measurement included.
  `EveryMeasurementRecorded` does not speak of it;
* sockets, TLS and the bytes of a body; SMTP and the Telegram protocol, where a send
  is its outcome and whether it arrived; texts of messages;
* pagination, filtering and serialisation; throttling, health endpoints and request
  ids, which are stateless or kept by libraries; what a 429 does to a session is in
  `Session`;
* the minute at which the beat calendar starts a task: a task may start at any time,
  which includes every calendar;
* the user interface's rendering and forms, migrations, settings other than those
  named as constants.

## 6. Where the code and its own text disagree

| Run | What happens | What the repository says |
|---|---|---|
| `engine_patch` | `update_monitor` saves a row loaded earlier and undoes a status the engine wrote meanwhile (`apps/monitors/services.py:80`) | `apps/monitors/models.py:93` "owned by the monitoring engine" |
| `engine_acknowledge` | an acknowledgement decided on an old read reopens a resolved incident (`apps/incidents/services.py:66`) | `apps/incidents/services.py:3-5` "RESOLVED is terminal" |
| `delivery_crash` | a worker dies while sending; the redelivered message finds SENDING and drops the delivery (`apps/notifications/services.py:151`) | `apps/notifications/services.py:142-144` |

Met while modelling, and not runs of their own. For those of the first list a passing
property says that the way described is the only one there is; its statement names it.

* *An outcome is overwritten.* A worker at its last retry fails; before it writes, a
  second copy of its message is claimed, sent and saved as SENT; the first worker then
  writes FAILED over it (`apps/notifications/services.py:180`). `services.py:146-149` says
  that a second execution finds nothing to claim and stops, and `tasks.py:41-47` that
  executing twice does no harm. `OutcomeOverwritten`.
* *The purge deletes data that no summary has.* A check that commits after the rollup of its
  hour began is missing from the summary, and the purge asks only whether the summary
  exists (`apps/checks/tasks.py:209`), where `tasks.py:189-191` gives the order of the two
  as the reason that no data is lost. `OnlyLateChecksAreLost`.
* *Verified, and never tried.* A success saved by `verify_channel` after another request
  changed the destination (`apps/notifications/services.py:104`); a PATCH that changes the
  type alone, with a config that serves both, keeps `is_verified` (`services.py:60`), and
  the one that turns a Telegram channel into an e-mail channel keeps a claim whose Start
  then verifies it (`services.py:319-329`); `services.py:58-59` says that a new destination
  has not been proven reachable. `UnprovenExplained`.
* *An end without a beginning.* `enqueue_incident_notifications` picks the channels that are
  verified and active at each event (`services.py:130-134`), so one attached or verified
  after the opening is told RESOLVED alone. The code says nothing of it;
  `ResolvedOnlyAfterOpened` is stated for the channels that listened at the opening.
* *A refresh in flight at the logout* brings the session back when it answers
  (`frontend/src/api/client.ts:37`), against `apps/accounts/views.py:35-36`; only a browser
  that drops the answer would not. `LoggedOutStaysOut` says that nothing else does.

These two are steps of the models whose consequences the properties exempt by name:

* *A provider raises.* `integrations/email/client.py:20` catches `SMTPException` and
  `OSError`, where `apps/notifications/providers.py:35` and the module's own docstring
  (`email/client.py:4-6`) turn every failure into a result. A line break in the subject
  raises a `ValueError`; the row stays on SENDING, nobody having died (`ProviderRaises`,
  `EventuallyDecided`).
* *A probe raises.* A connection that breaks while the body is read raises out of `probe()`
  (`integrations/http_probe/requests_probe.py:140`; its lines 4-5 say every exception is
  turned into a result). `run_check` has no handler for it: the exception escapes, the
  finally clause deletes the lock, and no `CheckResult` is left (`ProbeRaises` of
  `MonitorEngine`, the state "raised" of `MonitorsApi`). A slow body may outlive the
  check's cache lock.

Less definite, or limits rather than disagreements:

* `force_resolve` and `close_stale_incidents` close an incident without telling
  anybody, where `README.md:27-28` speaks of "every incident open/resolve".
* A failure that arrives late is counted into the streak, so an outage may be dated
  back over a success (`apps/checks/selectors.py:57-60` "exactly the streak that just
  crossed"); `StreakIsConsecutiveInOrder` therefore exempts late results.
* `attempt_delivery` does not look at `is_verified` again: a delivery enqueued before an
  edit goes to the new destination (`apps/notifications/views.py:59-60`).
* `frontend/src/api/client.ts:19` calls the refresh token one-time-use, but
  `BLACKLIST_AFTER_ROTATION` is off; `NoNeedlessLogin` depends on its being off.
* Two registrations with one e-mail address at once: the second meets the unique index
  behind the serializer's check.

## 7. Plan

Done: the modules of section 2, the runs of section 3 and the theorems of section 4.
What is left:

* An abstract specification of the outbox (a message that is owed, tried and decided) and
  of the claims of the scheduler, as `OutageLog` is for the engine, with their
  refinements. What they would promise is stated by the invariants and action properties
  of those modules already.
* Some hazards have no property, because the code makes no promise about them that could
  be kept without a sweeper, a second look or a transaction it does not have. Their steps
  are in the models: a process that dies between a commit and its `on_commit` callback
  (`apps/notifications/services.py:136`, `LosePublish`), a failed publication or a death
  between the claim's commit and its messages (`apps/checks/tasks.py:49`, `PublishFails`,
  `CrashPass`), a channel that changes between the incident and the message
  (`apps/notifications/services.py:132`, `UpdateConfig`), a provider and a probe that raise
  (`integrations/email/client.py:20`, `integrations/http_probe/requests_probe.py:140`), a
  refresh in flight at the logout (`frontend/src/api/client.ts:37`), channels set after the
  save (`apps/monitors/services.py:61`) and a forced resolution
  (`apps/incidents/admin.py:36`).
* One more is not in the models: a channel deleted inside the processing transaction
  (`apps/notifications/services.py:132`). It needs the SELECT of the channels and the commit
  as two steps of `MonitorEngine`, and the outbox row's foreign key as a third constraint.
