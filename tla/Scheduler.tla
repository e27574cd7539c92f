----------------------------- MODULE Scheduler -----------------------------
(***************************************************************************)
(* Which monitors are checked when: overlapping passes of the periodic     *)
(* task apps.checks.tasks.dispatch_due_checks, each one running            *)
(* apps.checks.scheduler.claim_due_monitors, and the API handlers that     *)
(* move a monitor's schedule meanwhile.                                    *)
(*                                                                         *)
(* The claim is one SELECT ... ORDER BY next_check_at LIMIT n FOR UPDATE   *)
(* SKIP LOCKED.  PostgreSQL finds and sorts the rows of a snapshot, then   *)
(* locks them one by one, passing over a row that is locked and one whose  *)
(* latest version does not satisfy the WHERE clause any more.              *)
(*                                                                         *)
(* Time is counted in ticks from 1; 0 stands for never.                    *)
(***************************************************************************)
EXTENDS CheckDomain, Integers

CONSTANTS
  Monitors,
  Passes,      \* executions of dispatch_due_checks that may overlap
  Requests,    \* HTTP handlers that may be in flight
  Ops,         \* which of the handlers' operations are exercised
  Intervals,   \* ALLOWED_INTERVALS, in ticks
  BatchSizes,  \* values of the argument batch_size of claim_due_monitors
  MaxEdits,    \* bound: requests the handlers take
  MaxCrashes,  \* bound: workers that die
  MaxTime      \* bound: the last tick

ScheduleOps == {"pause", "resume", "change_interval", "patch", "delete"}

ASSUME SchedulerAssumption ==
  /\ Monitors # {}
  /\ Ops \subseteq ScheduleOps
  /\ Intervals \subseteq Nat \ {0}
  /\ BatchSizes \subseteq Nat \ {0}
  /\ MaxEdits \in Nat
  /\ MaxCrashes \in Nat
  /\ MaxTime \in Nat

VARIABLES
  now,        \* timezone.now()
  monitor,    \* the Monitor rows
  pass,       \* what each pass is doing
  request,    \* what each handler has loaded and is about to save
  lastClaim,  \* history: when m was last claimed on its present schedule
  edits,      \* requests taken
  crashes     \* workers that have died

vars == <<now, monitor, pass, request, lastClaim, edits, crashes>>

MonitorRow ==
  [exists : BOOLEAN, is_enabled : BOOLEAN, interval_seconds : Intervals \cup {0},
   next_check_at : Nat]

NoRow ==
  [exists |-> FALSE, is_enabled |-> FALSE, interval_seconds |-> 0,
   next_check_at |-> 0]

\* seen[m] is the next_check_at of m in the snapshot; pending are the rows
\* still to be locked, skipped those found locked, due those locked and read,
\* unsent the messages still to be published.
PassState ==
  [pc : {"idle", "selecting", "publishing"}, batch_size : Nat, cutoff : Nat,
   seen : [Monitors -> Nat], pending : SUBSET Monitors,
   skipped : SUBSET Monitors, due : SUBSET Monitors, unsent : SUBSET Monitors]

IdlePass ==
  [pc |-> "idle", batch_size |-> 0, cutoff |-> 0,
   seen |-> [m \in Monitors |-> 0], pending |-> {}, skipped |-> {},
   due |-> {}, unsent |-> {}]

\* A pass whose claim of the monitors in due is committed.
Publishing(due) == [IdlePass EXCEPT !.pc = "publishing", !.unsent = due]

RequestState ==
  [op : ScheduleOps \cup {"none"}, id : Monitors, row : MonitorRow]

IdleRequest ==
  [op |-> "none", id |-> CHOOSE m \in Monitors : TRUE, row |-> NoRow]

TypeOK ==
  /\ now \in Nat \ {0}
  /\ monitor \in [Monitors -> MonitorRow]
  /\ pass \in [Passes -> PassState]
  /\ request \in [Requests -> RequestState]
  /\ lastClaim \in [Monitors -> Nat]
  /\ edits \in Nat
  /\ crashes \in Nat

\* The rows whose locks a pass holds: it is inside its transaction.
Held(p) == pass[p].due

Locked(m) == \E p \in Passes : m \in Held(p)

\* is_enabled = TRUE AND next_check_at <= t
IsDue(row, t) == row.exists /\ row.is_enabled /\ row.next_check_at <= t

\* Monitors that were created, and claimed or paused, a while ago.
Init ==
  /\ now = 1
  /\ monitor \in [Monitors ->
       [exists : {TRUE}, is_enabled : BOOLEAN, interval_seconds : Intervals,
        next_check_at : 1..MaxTime]]
  /\ pass = [p \in Passes |-> IdlePass]
  /\ request = [h \in Requests |-> IdleRequest]
  /\ lastClaim = [m \in Monitors |-> 0]
  /\ edits = 0
  /\ crashes = 0

Tick ==
  /\ now < MaxTime
  /\ now' = now + 1
  /\ UNCHANGED <<monitor, pass, request, lastClaim, edits, crashes>>

-----------------------------------------------------------------------------
(* One pass of the dispatcher                                              *)

\* The transaction opens, timezone.now() is read and the SELECT begins.
BeginPass(p) ==
  /\ pass[p].pc = "idle"
  /\ \E n \in BatchSizes :
       pass' = [pass EXCEPT ![p] =
         [IdlePass EXCEPT
            !.pc = "selecting", !.batch_size = n, !.cutoff = now,
            !.seen = [m \in Monitors |-> monitor[m].next_check_at],
            !.pending = {m \in Monitors : IsDue(monitor[m], now)}]]
  /\ UNCHANGED <<now, monitor, request, lastClaim, edits, crashes>>

\* Fault: any row of the snapshot may come first.
Unordered(p) == pass[p].pending

\* ORDER BY next_check_at, as the snapshot has it.
Foremost(p) ==
  {m \in pass[p].pending :
     \A n \in pass[p].pending : pass[p].seen[m] <= pass[p].seen[n]}

\* [:batch_size]
BatchFull(p) == Cardinality(pass[p].due) >= pass[p].batch_size

\* Fault: the row is taken the way the snapshot had it.
LockRowAsSeen(p, m) ==
  /\ pass[p].pc = "selecting" /\ ~BatchFull(p) /\ m \in Foremost(p)
  /\ ~Locked(m)
  /\ pass' = [pass EXCEPT ![p].pending = @ \ {m}, ![p].due = @ \cup {m}]
  /\ UNCHANGED <<now, monitor, request, lastClaim, edits, crashes>>

\* The next row is free, and its latest version is still due.
LockRow(p, m) ==
  /\ pass[p].pc = "selecting" /\ ~BatchFull(p) /\ m \in Foremost(p)
  /\ ~Locked(m)
  /\ IsDue(monitor[m], pass[p].cutoff)
  /\ pass' = [pass EXCEPT ![p].pending = @ \ {m}, ![p].due = @ \cup {m}]
  /\ UNCHANGED <<now, monitor, request, lastClaim, edits, crashes>>

\* SKIP LOCKED: another pass has the row, or process_check_result, which
\* also takes it FOR UPDATE, has it at this moment.
SkipLocked(p, m) ==
  /\ pass[p].pc = "selecting" /\ ~BatchFull(p) /\ m \in Foremost(p)
  /\ pass' = [pass EXCEPT ![p].pending = @ \ {m}, ![p].skipped = @ \cup {m}]
  /\ UNCHANGED <<now, monitor, request, lastClaim, edits, crashes>>

\* Paused, deleted, claimed or rescheduled since the snapshot.
PassOver(p, m) ==
  /\ pass[p].pc = "selecting" /\ ~BatchFull(p) /\ m \in Foremost(p)
  /\ ~Locked(m)
  /\ ~IsDue(monitor[m], pass[p].cutoff)
  /\ pass' = [pass EXCEPT ![p].pending = @ \ {m}]
  /\ UNCHANGED <<now, monitor, request, lastClaim, edits, crashes>>

Selected(p) ==
  pass[p].pc = "selecting" /\ (BatchFull(p) \/ pass[p].pending = {})

NothingDue(p) ==
  /\ Selected(p) /\ pass[p].due = {}
  /\ pass' = [pass EXCEPT ![p] = IdlePass]
  /\ UNCHANGED <<now, monitor, request, lastClaim, edits, crashes>>

\* The monitors in due are claimed now.
Claimed(due) ==
  lastClaim' = [m \in Monitors |-> IF m \in due THEN now ELSE lastClaim[m]]

\* Fault: the next check is computed from the one that was due.
CommitClaimCatchingUp(p) ==
  LET due == pass[p].due
  IN  /\ Selected(p) /\ due # {}
      /\ monitor' = [m \in Monitors |->
           IF m \in due
             THEN [monitor[m] EXCEPT !.next_check_at =
                     ComputeNextCheckAt(@, monitor[m].interval_seconds)]
             ELSE monitor[m]]
      /\ Claimed(due)
      /\ pass' = [pass EXCEPT ![p] = Publishing(due)]
      /\ UNCHANGED <<now, request, edits, crashes>>

\* timezone.now() is read a second time, bulk_update writes next_check_at,
\* and the transaction commits.
CommitClaim(p) ==
  LET due == pass[p].due
  IN  /\ Selected(p) /\ due # {}
      /\ monitor' = [m \in Monitors |->
           IF m \in due
             THEN [monitor[m] EXCEPT !.next_check_at =
                     ComputeNextCheckAt(now, monitor[m].interval_seconds)]
             ELSE monitor[m]]
      /\ Claimed(due)
      /\ pass' = [pass EXCEPT ![p] = Publishing(due)]
      /\ UNCHANGED <<now, request, edits, crashes>>

\* The pass without one message it had to send; over when that was the last.
Sent(p, m) ==
  IF pass[p].unsent = {m} THEN IdlePass
                          ELSE [pass[p] EXCEPT !.unsent = @ \ {m}]

\* on_commit: run_check.delay(monitor_id)
PublishCheck(p, m) ==
  /\ m \in pass[p].unsent
  /\ pass' = [pass EXCEPT ![p] = Sent(p, m)]
  /\ UNCHANGED <<now, monitor, request, lastClaim, edits, crashes>>

\* delay() raises (the broker is out of reach): the exception leaves
\* dispatch_due_checks, and the callbacks that have not run are not run.  The
\* worker lives, and the claims stand.
PublishFails(p) ==
  /\ pass[p].pc = "publishing"
  /\ pass' = [pass EXCEPT ![p] = IdlePass]
  /\ UNCHANGED <<now, monitor, request, lastClaim, edits, crashes>>

\* The worker dies: its transaction rolls back, or, once that is committed,
\* the messages not yet published are lost.
CrashPass(p) ==
  /\ pass[p].pc # "idle"
  /\ crashes < MaxCrashes
  /\ crashes' = crashes + 1
  /\ pass' = [pass EXCEPT ![p] = IdlePass]
  /\ UNCHANGED <<now, monitor, request, lastClaim, edits>>

-----------------------------------------------------------------------------
(* Handlers.  What is loaded is loaded without a lock; an UPDATE or DELETE *)
(* waits for the pass that holds the row.                                  *)

Load(h, m) ==
  /\ request[h].op = "none"
  /\ monitor[m].exists
  /\ edits < MaxEdits
  /\ edits' = edits + 1
  /\ \E op \in Ops :
       /\ op = "pause" => monitor[m].is_enabled
       /\ op = "resume" => ~monitor[m].is_enabled
       /\ request' = [request EXCEPT ![h] =
                        [op |-> op, id |-> m,
                         row |-> IF op \in {"patch", "change_interval"}
                                   THEN monitor[m] ELSE NoRow]]
  /\ UNCHANGED <<now, monitor, pass, lastClaim, crashes>>

Saving(h, op) ==
  /\ request[h].op = op
  /\ ~Locked(request[h].id)
  /\ request' = [request EXCEPT ![h] = IdleRequest]

NewSchedule(m) == lastClaim' = [lastClaim EXCEPT ![m] = 0]

\* save(update_fields=["is_enabled", ...]); a row that is gone stays gone.
SavePause(h) ==
  /\ Saving(h, "pause")
  /\ monitor' = [monitor EXCEPT ![request[h].id].is_enabled = FALSE]
  /\ UNCHANGED <<now, pass, lastClaim, edits, crashes>>

SaveResume(h) ==
  LET m == request[h].id
  IN  /\ Saving(h, "resume")
      /\ monitor' = [monitor EXCEPT ![m] = IF @.exists
                       THEN [@ EXCEPT !.is_enabled = TRUE, !.next_check_at = now]
                       ELSE @]
      /\ NewSchedule(m)
      /\ UNCHANGED <<now, pass, edits, crashes>>

\* update_monitor with another interval: due at once; every other column is
\* saved as it was loaded, and the row is inserted again if it is gone.
SaveInterval(h) ==
  LET m == request[h].id
  IN  /\ Saving(h, "change_interval")
      /\ \E i \in Intervals \ {request[h].row.interval_seconds} :
           monitor' = [monitor EXCEPT ![m] =
             [request[h].row EXCEPT !.interval_seconds = i,
                                    !.next_check_at = now]]
      /\ NewSchedule(m)
      /\ UNCHANGED <<now, pass, edits, crashes>>

\* update_monitor with the interval left alone: next_check_at too is saved
\* as it was loaded, even when the monitor has been claimed since.
SavePatch(h) ==
  LET m == request[h].id
  IN  /\ Saving(h, "patch")
      /\ monitor' = [monitor EXCEPT ![m] = request[h].row]
      /\ NewSchedule(m)
      /\ UNCHANGED <<now, pass, edits, crashes>>

SaveDelete(h) ==
  LET m == request[h].id
  IN  /\ Saving(h, "delete")
      /\ monitor' = [monitor EXCEPT ![m] = NoRow]
      /\ NewSchedule(m)
      /\ UNCHANGED <<now, pass, edits, crashes>>

-----------------------------------------------------------------------------
ClaimNext(p) ==
  \/ \E m \in Monitors : LockRow(p, m) \/ SkipLocked(p, m) \/ PassOver(p, m)
  \/ NothingDue(p)
  \/ CommitClaim(p)
  \/ \E m \in Monitors : PublishCheck(p, m)
  \/ PublishFails(p)

RequestNext(h) ==
  \/ \E m \in Monitors : Load(h, m)
  \/ SavePause(h)
  \/ SaveResume(h)
  \/ SaveInterval(h)
  \/ SavePatch(h)
  \/ SaveDelete(h)

Next ==
  \/ Tick
  \/ \E p \in Passes : BeginPass(p) \/ ClaimNext(p) \/ CrashPass(p)
  \/ \E h \in Requests : RequestNext(h)

Spec == Init /\ [][Next]_vars

-----------------------------------------------------------------------------
(* Properties                                                              *)

\* However the passes overlap, no monitor is in two claims at once.
ClaimsDisjoint ==
  \A p, q \in Passes : p # q => Held(p) \cap Held(q) = {}

\* claim_due_monitors (scheduler.py:24-31): a monitor is claimed again only
\* when its interval has passed since it was claimed before, unless a user
\* resumed or edited it meanwhile.
OncePerInterval ==
  \A p \in Passes : \A m \in Held(p) :
    lastClaim[m] # 0 =>
      pass[p].cutoff >= lastClaim[m] + monitor[m].interval_seconds

\* A monitor that has been claimed on its present schedule is not due before
\* its interval is over.
NextCheckLater ==
  \A m \in Monitors :
    lastClaim[m] # 0 =>
      monitor[m].next_check_at >= lastClaim[m] + monitor[m].interval_seconds

\* A row that a pass holds was due at its cutoff, and is unchanged.
HeldAreDue ==
  \A p \in Passes : \A m \in Held(p) :
    monitor[m].next_check_at <= pass[p].cutoff

\* Inductive: why no two passes claim the same monitor, and none claims one
\* too early.
SchedulerInvariant ==
  /\ TypeOK
  /\ ClaimsDisjoint
  /\ NextCheckLater
  /\ HeldAreDue

\* The batch limit passes over nobody who waited longer: a row that was due
\* when the pass began and that it did not get to was kept out by a full batch
\* of monitors that had been waiting at least as long.
MostOverdueFirst ==
  \A p \in Passes : Selected(p) =>
    \A n \in pass[p].pending :
      /\ BatchFull(p)
      /\ \A m \in pass[p].due : pass[p].seen[m] <= pass[p].seen[n]
=============================================================================
