-------------------------- MODULE SchedulerProofs --------------------------
(***************************************************************************)
(* Theorems about Scheduler for every number of monitors, overlapping      *)
(* passes, handlers, intervals and batch sizes.                            *)
(***************************************************************************)
EXTENDS Scheduler, TLAPS

\* A pass at rest, one that publishes, and a free handler are of their types.
LEMMA IdleTypes ==
  /\ IdlePass \in PassState
  /\ \A due \in SUBSET Monitors : Publishing(due) \in PassState
  /\ NoRow \in MonitorRow
  /\ IdleRequest \in RequestState
<1>1. IdlePass \in PassState
  BY DEF IdlePass, PassState
<1>2. \A due \in SUBSET Monitors : Publishing(due) \in PassState
  BY <1>1 DEF IdlePass, PassState, Publishing
<1>3. NoRow \in MonitorRow
  BY DEF NoRow, MonitorRow
<1>4. (CHOOSE m \in Monitors : TRUE) \in Monitors
  BY SchedulerAssumption DEF SchedulerAssumption
<1>5. IdleRequest \in RequestState
  BY <1>3, <1>4 DEF IdleRequest, RequestState
<1> QED BY <1>1, <1>2, <1>3, <1>5

\* The scheduler starts with its types
LEMMA TypeInit == Init => TypeOK
<1> SUFFICES ASSUME Init PROVE TypeOK
  OBVIOUS
<1>1. \A t \in 1..MaxTime : t \in Nat
  BY SchedulerAssumption DEF SchedulerAssumption
<1>2. monitor \in [Monitors -> MonitorRow]
  BY <1>1 DEF Init, MonitorRow
<1> QED BY <1>2, IdleTypes DEF Init, TypeOK

\* A handler's save keeps the types of what it does not write.
LEMMA SavingType ==
  ASSUME TypeOK, NEW h \in Requests, NEW op, Saving(h, op)
  PROVE  /\ request' \in [Requests -> RequestState]
         /\ request[h].id \in Monitors
         /\ request[h].row \in MonitorRow
  BY IdleTypes DEF Saving, TypeOK, RequestState

\* and so does forgetting the last claim.
LEMMA NewScheduleType ==
  ASSUME TypeOK, NEW m \in Monitors, NewSchedule(m)
  PROVE  lastClaim' \in [Monitors -> Nat]
  BY DEF NewSchedule, TypeOK

\* A pass that takes a row from those pending keeps its type.
LEMMA PendingType ==
  ASSUME NEW s \in PassState, NEW m \in Monitors
  PROVE  /\ [s EXCEPT !.pending = @ \ {m}] \in PassState
         /\ [s EXCEPT !.pending = @ \ {m}, !.due = @ \cup {m}] \in PassState
         /\ [s EXCEPT !.pending = @ \ {m}, !.skipped = @ \cup {m}] \in PassState
         /\ [s EXCEPT !.unsent = @ \ {m}] \in PassState
  BY DEF PassState

\* An interval is a number
LEMMA IntervalType ==
  ASSUME TypeOK, NEW m \in Monitors
  PROVE  monitor[m].interval_seconds \in Nat
<1>1. monitor[m] \in MonitorRow
  BY DEF TypeOK
<1>2. monitor[m].interval_seconds \in Intervals \cup {0}
  BY <1>1 DEF MonitorRow
<1>3. \A i \in Intervals \cup {0} : i \in Nat
  BY SchedulerAssumption DEF SchedulerAssumption
<1> QED BY <1>2, <1>3

\* and the next check an instant.
LEMMA NextCheckType ==
  ASSUME TypeOK, NEW m \in Monitors
  PROVE  ComputeNextCheckAt(now, monitor[m].interval_seconds) \in Nat
<1> QED BY IntervalType DEF TypeOK, ComputeNextCheckAt

\* A step of a pass keeps the types.
LEMMA TypeClaimNext ==
  ASSUME TypeOK, NEW p \in Passes, BeginPass(p) \/ ClaimNext(p) \/ CrashPass(p)
  PROVE  TypeOK'
<1>1. CASE BeginPass(p)
  <2>1. PICK n \in BatchSizes :
          pass' = [pass EXCEPT ![p] =
            [IdlePass EXCEPT
               !.pc = "selecting", !.batch_size = n, !.cutoff = now,
               !.seen = [m \in Monitors |-> monitor[m].next_check_at],
               !.pending = {m \in Monitors : IsDue(monitor[m], now)}]]
    BY <1>1 DEF BeginPass
  <2>2. [m \in Monitors |-> monitor[m].next_check_at] \in [Monitors -> Nat]
    BY DEF TypeOK, MonitorRow
  <2>3. n \in Nat /\ now \in Nat
    BY SchedulerAssumption DEF SchedulerAssumption, TypeOK
  <2>4. [IdlePass EXCEPT
               !.pc = "selecting", !.batch_size = n, !.cutoff = now,
               !.seen = [m \in Monitors |-> monitor[m].next_check_at],
               !.pending = {m \in Monitors : IsDue(monitor[m], now)}]
          \in PassState
    BY <2>2, <2>3, IdleTypes DEF PassState
  <2>5. pass' \in [Passes -> PassState]
    BY <2>1, <2>4 DEF TypeOK
  <2> QED BY <1>1, <2>5 DEF TypeOK, BeginPass
<1>2. CASE \E m \in Monitors : LockRow(p, m) \/ SkipLocked(p, m) \/ PassOver(p, m)
  <2>1. PICK m \in Monitors : LockRow(p, m) \/ SkipLocked(p, m) \/ PassOver(p, m)
    BY <1>2
  <2>2. pass[p] \in PassState
    BY DEF TypeOK
  <2>3. CASE LockRow(p, m)
    <3>1. pass' = [pass EXCEPT ![p] =
                     [pass[p] EXCEPT !.pending = @ \ {m}, !.due = @ \cup {m}]]
      BY <2>3, <2>2 DEF LockRow, TypeOK, PassState
    <3>2. pass' \in [Passes -> PassState]
      BY <3>1, <2>2, PendingType DEF TypeOK
    <3> QED BY <3>2, <2>3 DEF TypeOK, LockRow
  <2>4. CASE SkipLocked(p, m)
    <3>1. pass' = [pass EXCEPT ![p] =
                     [pass[p] EXCEPT !.pending = @ \ {m}, !.skipped = @ \cup {m}]]
      BY <2>4, <2>2 DEF SkipLocked, TypeOK, PassState
    <3>2. pass' \in [Passes -> PassState]
      BY <3>1, <2>2, PendingType DEF TypeOK
    <3> QED BY <3>2, <2>4 DEF TypeOK, SkipLocked
  <2>5. CASE PassOver(p, m)
    <3>1. pass' = [pass EXCEPT ![p] = [pass[p] EXCEPT !.pending = @ \ {m}]]
      BY <2>5, <2>2 DEF PassOver, TypeOK, PassState
    <3>2. pass' \in [Passes -> PassState]
      BY <3>1, <2>2, PendingType DEF TypeOK
    <3> QED BY <3>2, <2>5 DEF TypeOK, PassOver
  <2> QED BY <2>1, <2>3, <2>4, <2>5
<1>3. CASE NothingDue(p) \/ PublishFails(p) \/ CrashPass(p)
  BY <1>3, IdleTypes DEF TypeOK, NothingDue, PublishFails, CrashPass
<1>4. CASE CommitClaim(p)
  <2> DEFINE due == pass[p].due
  <2>1. due \in SUBSET Monitors
    BY DEF TypeOK, PassState
  <2>2. pass' \in [Passes -> PassState]
    BY <1>4, <2>1, IdleTypes DEF TypeOK, CommitClaim
  <2>3. ASSUME NEW m \in Monitors
        PROVE  [monitor[m] EXCEPT !.next_check_at =
                  ComputeNextCheckAt(now, monitor[m].interval_seconds)]
                 \in MonitorRow
    BY NextCheckType DEF TypeOK, MonitorRow
  <2>4. monitor' \in [Monitors -> MonitorRow]
    BY <1>4, <2>3 DEF TypeOK, CommitClaim
  <2>5. lastClaim' \in [Monitors -> Nat]
    BY <1>4 DEF TypeOK, CommitClaim, Claimed
  <2> QED BY <1>4, <2>2, <2>4, <2>5 DEF TypeOK, CommitClaim
<1>5. CASE \E m \in Monitors : PublishCheck(p, m)
  <2>1. PICK m \in Monitors : PublishCheck(p, m)
    BY <1>5
  <2>2. Sent(p, m) \in PassState
    BY IdleTypes, PendingType DEF Sent, TypeOK
  <2> QED BY <2>1, <2>2 DEF TypeOK, PublishCheck
<1> QED BY <1>1, <1>2, <1>3, <1>4, <1>5 DEF ClaimNext

\* A step of a handler keeps the types,
LEMMA TypeRequestNext ==
  ASSUME TypeOK, NEW h \in Requests, RequestNext(h)
  PROVE  TypeOK'
<1>1. CASE \E m \in Monitors : Load(h, m)
  <2>1. PICK m \in Monitors : Load(h, m)
    BY <1>1
  <2>2. PICK op \in Ops :
          request' = [request EXCEPT ![h] =
                        [op |-> op, id |-> m,
                         row |-> IF op \in {"patch", "change_interval"}
                                   THEN monitor[m] ELSE NoRow]]
    BY <2>1 DEF Load
  <2>3. [op |-> op, id |-> m,
         row |-> IF op \in {"patch", "change_interval"}
                   THEN monitor[m] ELSE NoRow] \in RequestState
    BY IdleTypes, SchedulerAssumption
    DEF RequestState, SchedulerAssumption, TypeOK
  <2>4. request' \in [Requests -> RequestState]
    BY <2>2, <2>3 DEF TypeOK
  <2>5. edits' \in Nat
    BY <2>1 DEF Load, TypeOK
  <2> QED BY <2>1, <2>4, <2>5 DEF Load, TypeOK
<1>2. CASE SavePause(h)
  BY <1>2, SavingType DEF SavePause, TypeOK, MonitorRow
<1>3. CASE SaveResume(h)
  <2>1. monitor' \in [Monitors -> MonitorRow]
    BY <1>3 DEF SaveResume, TypeOK, MonitorRow
  <2>2. lastClaim' \in [Monitors -> Nat]
    BY <1>3 DEF SaveResume, NewSchedule, TypeOK
  <2>3. request' \in [Requests -> RequestState]
    BY <1>3, SavingType DEF SaveResume
  <2> QED BY <1>3, <2>1, <2>2, <2>3 DEF SaveResume, TypeOK
<1>4. CASE SaveInterval(h)
  <2>1. monitor' \in [Monitors -> MonitorRow]
    <3>1. request[h].row \in MonitorRow
      BY <1>4, SavingType DEF SaveInterval
    <3>2. PICK i \in Intervals :
            monitor' = [monitor EXCEPT ![request[h].id] =
              [request[h].row EXCEPT !.interval_seconds = i,
                                     !.next_check_at = now]]
      BY <1>4 DEF SaveInterval
    <3>3. [request[h].row EXCEPT !.interval_seconds = i, !.next_check_at = now]
            \in MonitorRow
      BY <3>1 DEF MonitorRow, TypeOK
    <3> QED BY <3>2, <3>3 DEF TypeOK
  <2>2. lastClaim' \in [Monitors -> Nat]
    BY <1>4 DEF SaveInterval, NewSchedule, TypeOK
  <2>3. request' \in [Requests -> RequestState]
    BY <1>4, SavingType DEF SaveInterval
  <2> QED BY <1>4, <2>1, <2>2, <2>3 DEF SaveInterval, TypeOK
<1>5. CASE SavePatch(h)
  <2>1. monitor' \in [Monitors -> MonitorRow]
    BY <1>5, SavingType DEF SavePatch, TypeOK
  <2>2. lastClaim' \in [Monitors -> Nat]
    BY <1>5 DEF SavePatch, NewSchedule, TypeOK
  <2>3. request' \in [Requests -> RequestState]
    BY <1>5, SavingType DEF SavePatch
  <2> QED BY <1>5, <2>1, <2>2, <2>3 DEF SavePatch, TypeOK
<1>6. CASE SaveDelete(h)
  <2>1. monitor' \in [Monitors -> MonitorRow]
    BY <1>6, IdleTypes DEF SaveDelete, TypeOK
  <2>2. lastClaim' \in [Monitors -> Nat]
    BY <1>6 DEF SaveDelete, NewSchedule, TypeOK
  <2>3. request' \in [Requests -> RequestState]
    BY <1>6, SavingType DEF SaveDelete
  <2> QED BY <1>6, <2>1, <2>2, <2>3 DEF SaveDelete, TypeOK
<1> QED BY <1>1, <1>2, <1>3, <1>4, <1>5, <1>6 DEF RequestNext

\* and every step keeps them.
LEMMA TypeNext == TypeOK /\ [Next]_vars => TypeOK'
<1> SUFFICES ASSUME TypeOK, [Next]_vars PROVE TypeOK'
  OBVIOUS
<1>1. CASE Tick
  BY <1>1 DEF Tick, TypeOK
<1>2. CASE UNCHANGED vars
  BY <1>2 DEF vars, TypeOK
<1> QED BY <1>1, <1>2, TypeClaimNext, TypeRequestNext DEF Next

\* Every variable of the scheduler keeps its type.
THEOREM SchedulerTypeCorrect == Spec => []TypeOK
<1> QED BY TypeInit, TypeNext, PTL DEF Spec

-----------------------------------------------------------------------------
(* Claims                                                                  *)

\* What the invariant says beyond the types.
ClaimSafe == ClaimsDisjoint /\ NextCheckLater /\ HeldAreDue

\* A pass that locks no further row, and the rows as they were, keep it.
LEMMA PassKeepsClaims ==
  ASSUME TypeOK, ClaimSafe, NEW p \in Passes, NEW s \in PassState,
         pass' = [pass EXCEPT ![p] = s],
         s.due = {} \/ (s.due = pass[p].due /\ s.cutoff = pass[p].cutoff),
         UNCHANGED <<monitor, lastClaim>>
  PROVE  ClaimSafe'
<1>1. /\ pass'[p] = s
      /\ \A q \in Passes : q # p => pass'[q] = pass[q]
  BY DEF TypeOK
<1>2. \A q \in Passes :
        \/ Held(q)' = {}
        \/ Held(q)' = Held(q) /\ pass'[q].cutoff = pass[q].cutoff
  BY <1>1 DEF Held
<1>3. ClaimsDisjoint'
  BY <1>2 DEF ClaimSafe, ClaimsDisjoint
<1>4. NextCheckLater'
  BY DEF ClaimSafe, NextCheckLater
<1>5. HeldAreDue'
  BY <1>2 DEF ClaimSafe, HeldAreDue
<1> QED BY <1>3, <1>4, <1>5 DEF ClaimSafe

\* Locking a row that is free and still due keeps it: SKIP LOCKED and the
\* second look at the WHERE clause are both needed here.
LEMMA LockKeepsClaims ==
  ASSUME TypeOK, ClaimSafe, NEW p \in Passes, NEW m \in Monitors, LockRow(p, m)
  PROVE  ClaimSafe'
<1>1. /\ pass'[p].due = pass[p].due \cup {m}
      /\ pass'[p].cutoff = pass[p].cutoff
      /\ \A q \in Passes : q # p => pass'[q] = pass[q]
  BY DEF LockRow, TypeOK, PassState
<1>2. \A q \in Passes : m \notin Held(q)
  BY DEF LockRow, Locked
<1>3. UNCHANGED <<monitor, lastClaim>>
  BY DEF LockRow
<1>4. monitor[m].next_check_at <= pass[p].cutoff
  BY DEF LockRow, IsDue
<1>5. ClaimsDisjoint'
  BY <1>1, <1>2 DEF ClaimSafe, ClaimsDisjoint, Held
<1>6. NextCheckLater'
  BY <1>3 DEF ClaimSafe, NextCheckLater
<1>7. HeldAreDue'
  BY <1>1, <1>3, <1>4 DEF ClaimSafe, HeldAreDue, Held
<1> QED BY <1>5, <1>6, <1>7 DEF ClaimSafe

\* Committing a claim keeps it: the rows written are nobody else's, and they
\* are pushed an interval beyond the instant of the claim.
LEMMA CommitKeepsClaims ==
  ASSUME TypeOK, ClaimSafe, NEW p \in Passes, CommitClaim(p)
  PROVE  ClaimSafe'
<1> DEFINE due == pass[p].due
<1>1. due \subseteq Monitors
  BY DEF TypeOK, PassState
<1>2. /\ pass'[p] = Publishing(due)
      /\ \A q \in Passes : q # p => pass'[q] = pass[q]
  BY DEF CommitClaim, TypeOK
<1>3. Held(p)' = {}
  BY <1>2 DEF Held, Publishing, IdlePass
<1>4. \A q \in Passes : q # p => Held(q)' = Held(q) /\ Held(q) \cap due = {}
  BY <1>2 DEF Held, ClaimSafe, ClaimsDisjoint
<1>5. ASSUME NEW m \in Monitors
      PROVE  /\ m \in due => /\ lastClaim'[m] = now
                            /\ monitor'[m].interval_seconds
                                 = monitor[m].interval_seconds
                            /\ monitor'[m].next_check_at =
                                 now + monitor[m].interval_seconds
             /\ m \notin due => /\ lastClaim'[m] = lastClaim[m]
                               /\ monitor'[m] = monitor[m]
  <2>1. monitor[m] \in MonitorRow
    BY DEF TypeOK
  <2>2. /\ monitor'[m] =
             IF m \in due
               THEN [monitor[m] EXCEPT !.next_check_at =
                       ComputeNextCheckAt(now, monitor[m].interval_seconds)]
               ELSE monitor[m]
        /\ lastClaim'[m] = IF m \in due THEN now ELSE lastClaim[m]
    BY DEF CommitClaim, Claimed
  <2> QED BY <2>1, <2>2 DEF MonitorRow, ComputeNextCheckAt
<1>6. ClaimsDisjoint'
  BY <1>3, <1>4 DEF ClaimSafe, ClaimsDisjoint
<1>7. NextCheckLater'
  <2> SUFFICES ASSUME NEW m \in Monitors, lastClaim'[m] # 0
               PROVE  monitor'[m].next_check_at >=
                        lastClaim'[m] + monitor'[m].interval_seconds
    BY DEF NextCheckLater
  <2>1. CASE m \in due
    <3>1. monitor[m].interval_seconds \in Nat
      BY IntervalType
    <3>2. now \in Nat
      BY DEF TypeOK
    <3>3. \A a, b \in Nat : a + b >= a + b
      OBVIOUS
    <3> QED BY <2>1, <1>5, <3>1, <3>2, <3>3
  <2>2. CASE m \notin due
    BY <2>2, <1>5 DEF ClaimSafe, NextCheckLater
  <2> QED BY <2>1, <2>2
<1>8. HeldAreDue'
  <2> SUFFICES ASSUME NEW q \in Passes, NEW m \in Held(q)'
               PROVE  monitor'[m].next_check_at <= pass'[q].cutoff
    BY DEF HeldAreDue
  <2>1. q # p
    BY <1>3
  <2>2. m \in Held(q) /\ m \notin due
    BY <2>1, <1>4
  <2>3. m \in Monitors
    BY <2>2 DEF Held, TypeOK, PassState
  <2>4. monitor'[m] = monitor[m] /\ pass'[q] = pass[q]
    BY <2>1, <2>2, <2>3, <1>2, <1>5
  <2> QED BY <2>2, <2>4 DEF ClaimSafe, HeldAreDue
<1> QED BY <1>6, <1>7, <1>8 DEF ClaimSafe

\* A handler that writes a row nobody holds keeps it, if it starts a new
\* schedule or leaves the schedule alone.
LEMMA SaveKeepsClaims ==
  ASSUME TypeOK, ClaimSafe, NEW m \in Monitors, ~Locked(m),
         UNCHANGED pass,
         \A n \in Monitors : n # m => /\ monitor'[n] = monitor[n]
                                     /\ lastClaim'[n] = lastClaim[n],
         \/ lastClaim'[m] = 0
         \/ /\ lastClaim'[m] = lastClaim[m]
            /\ monitor'[m].next_check_at = monitor[m].next_check_at
            /\ monitor'[m].interval_seconds = monitor[m].interval_seconds
  PROVE  ClaimSafe'
<1>1. ClaimsDisjoint'
  BY DEF ClaimSafe, ClaimsDisjoint, Held
<1>2. NextCheckLater'
  BY DEF ClaimSafe, NextCheckLater
<1>3. HeldAreDue'
  <2> SUFFICES ASSUME NEW q \in Passes, NEW n \in Held(q)'
               PROVE  monitor'[n].next_check_at <= pass'[q].cutoff
    BY DEF HeldAreDue
  <2>1. n \in Held(q)
    BY DEF Held
  <2>2. n # m
    BY <2>1 DEF Locked
  <2>3. n \in Monitors
    BY <2>1 DEF Held, TypeOK, PassState
  <2> QED BY <2>1, <2>2, <2>3 DEF ClaimSafe, HeldAreDue
<1> QED BY <1>1, <1>2, <1>3 DEF ClaimSafe

\* Every step keeps it.
LEMMA ClaimNextSafe ==
  ASSUME TypeOK, ClaimSafe, NEW p \in Passes,
         BeginPass(p) \/ ClaimNext(p) \/ CrashPass(p)
  PROVE  ClaimSafe'
<1>0. pass[p] \in PassState
  BY DEF TypeOK
<1>t. pass'[p] \in PassState
  BY TypeClaimNext DEF TypeOK
<1>1. CASE BeginPass(p)
  <2>1. PICK n \in BatchSizes :
          pass' = [pass EXCEPT ![p] =
            [IdlePass EXCEPT
               !.pc = "selecting", !.batch_size = n, !.cutoff = now,
               !.seen = [m \in Monitors |-> monitor[m].next_check_at],
               !.pending = {m \in Monitors : IsDue(monitor[m], now)}]]
    BY <1>1 DEF BeginPass
  <2>2. pass' = [pass EXCEPT ![p] = pass'[p]] /\ pass'[p].due = {}
    BY <2>1 DEF IdlePass, TypeOK
  <2> QED BY <1>1, <1>t, <2>2, PassKeepsClaims DEF BeginPass
<1>2. CASE \E m \in Monitors : LockRow(p, m)
  BY <1>2, LockKeepsClaims
<1>3. CASE \E m \in Monitors : SkipLocked(p, m) \/ PassOver(p, m)
  <2>1. /\ pass' = [pass EXCEPT ![p] = pass'[p]]
        /\ pass'[p].due = pass[p].due
        /\ pass'[p].cutoff = pass[p].cutoff
    BY <1>0, <1>3 DEF SkipLocked, PassOver, TypeOK, PassState
  <2>2. UNCHANGED <<monitor, lastClaim>>
    BY <1>3 DEF SkipLocked, PassOver
  <2> QED BY <1>t, <2>1, <2>2, PassKeepsClaims
<1>4. CASE NothingDue(p) \/ PublishFails(p) \/ CrashPass(p)
  <2>1. pass' = [pass EXCEPT ![p] = IdlePass] /\ IdlePass.due = {}
    BY <1>4 DEF NothingDue, PublishFails, CrashPass, IdlePass
  <2>2. UNCHANGED <<monitor, lastClaim>>
    BY <1>4 DEF NothingDue, PublishFails, CrashPass
  <2> QED BY <2>1, <2>2, IdleTypes, PassKeepsClaims
<1>5. CASE CommitClaim(p)
  BY <1>5, CommitKeepsClaims
<1>6. CASE \E m \in Monitors : PublishCheck(p, m)
  <2>1. PICK m \in Monitors : PublishCheck(p, m)
    BY <1>6
  <2>2. pass' = [pass EXCEPT ![p] = Sent(p, m)]
    BY <2>1 DEF PublishCheck
  <2>3. /\ Sent(p, m) \in PassState
        /\ Sent(p, m).due = {} \/ /\ Sent(p, m).due = pass[p].due
                                  /\ Sent(p, m).cutoff = pass[p].cutoff
    BY <1>0, IdleTypes, PendingType DEF Sent, IdlePass, PassState
  <2>4. UNCHANGED <<monitor, lastClaim>>
    BY <2>1 DEF PublishCheck
  <2> QED BY <2>2, <2>3, <2>4, PassKeepsClaims
<1> QED BY <1>1, <1>2, <1>3, <1>4, <1>5, <1>6 DEF ClaimNext

\* A handler's step keeps it: it waits for the lock of the row it writes.
LEMMA RequestNextSafe ==
  ASSUME TypeOK, ClaimSafe, NEW h \in Requests, RequestNext(h)
  PROVE  ClaimSafe'
<1> DEFINE m == request[h].id
<1>0. m \in Monitors
  BY DEF TypeOK, RequestState
<1>1. CASE \E n \in Monitors : Load(h, n)
  BY <1>1 DEF Load, ClaimSafe, ClaimsDisjoint, NextCheckLater, HeldAreDue, Held
<1>2. CASE SavePause(h)
  <2>1. /\ ~Locked(m) /\ UNCHANGED <<pass, lastClaim>>
        /\ monitor' = [monitor EXCEPT ![m].is_enabled = FALSE]
    BY <1>2 DEF SavePause, Saving
  <2>2. /\ \A n \in Monitors : n # m => monitor'[n] = monitor[n]
        /\ monitor'[m].next_check_at = monitor[m].next_check_at
        /\ monitor'[m].interval_seconds = monitor[m].interval_seconds
    BY <1>0, <2>1 DEF TypeOK, MonitorRow
  <2> HIDE DEF m
  <2> QED BY <1>0, <2>1, <2>2, SaveKeepsClaims
<1>3. CASE SaveResume(h) \/ SaveInterval(h) \/ SavePatch(h) \/ SaveDelete(h)
  <2>1. /\ ~Locked(m) /\ UNCHANGED pass
        /\ lastClaim' = [lastClaim EXCEPT ![m] = 0]
        /\ \E row : monitor' = [monitor EXCEPT ![m] = row]
    BY <1>3
    DEF SaveResume, SaveInterval, SavePatch, SaveDelete, Saving, NewSchedule
  <2>2. /\ \A n \in Monitors : n # m => /\ monitor'[n] = monitor[n]
                                        /\ lastClaim'[n] = lastClaim[n]
        /\ lastClaim'[m] = 0
    BY <1>0, <2>1 DEF TypeOK
  <2> HIDE DEF m
  <2> QED BY <1>0, <2>1, <2>2, SaveKeepsClaims
<1> QED BY <1>1, <1>2, <1>3 DEF RequestNext

\* The invariant holds at the start
LEMMA SchedulerInit == Init => SchedulerInvariant
<1> SUFFICES ASSUME Init PROVE SchedulerInvariant
  OBVIOUS
<1>1. \A p \in Passes : Held(p) = {}
  BY DEF Init, Held, IdlePass
<1>2. \A m \in Monitors : lastClaim[m] = 0
  BY DEF Init
<1> QED BY <1>1, <1>2, TypeInit
        DEF SchedulerInvariant, ClaimsDisjoint, NextCheckLater, HeldAreDue

\* and every step keeps it.
LEMMA SchedulerNext == SchedulerInvariant /\ [Next]_vars => SchedulerInvariant'
<1> SUFFICES ASSUME SchedulerInvariant, [Next]_vars PROVE SchedulerInvariant'
  OBVIOUS
<1>1. TypeOK /\ ClaimSafe
  BY DEF SchedulerInvariant, ClaimSafe
<1>2. TypeOK'
  BY <1>1, TypeNext
<1>3. CASE Tick \/ UNCHANGED vars
  <2>1. UNCHANGED <<monitor, pass, lastClaim>>
    BY <1>3 DEF Tick, vars
  <2>2. ClaimSafe'
    BY <1>1, <2>1
    DEF ClaimSafe, ClaimsDisjoint, NextCheckLater, HeldAreDue, Held
  <2> QED BY <1>2, <2>2 DEF SchedulerInvariant, ClaimSafe
<1>4. CASE \E p \in Passes : BeginPass(p) \/ ClaimNext(p) \/ CrashPass(p)
  BY <1>1, <1>2, <1>4, ClaimNextSafe DEF SchedulerInvariant, ClaimSafe
<1>5. CASE \E h \in Requests : RequestNext(h)
  BY <1>1, <1>2, <1>5, RequestNextSafe DEF SchedulerInvariant, ClaimSafe
<1> QED BY <1>3, <1>4, <1>5 DEF Next

\* The inductive invariant of the scheduler holds in every reachable state,
\* whatever the handlers do.
THEOREM SchedulerInvariantHolds == Spec => []SchedulerInvariant
<1> QED BY SchedulerInit, SchedulerNext, PTL DEF Spec

\* No pass claims a monitor again before its interval is over
\* (scheduler.py:24-31),
\* unless a user resumed or edited it meanwhile.
THEOREM ClaimedOncePerInterval == Spec => []OncePerInterval
<1>1. SchedulerInvariant => OncePerInterval
  <2> SUFFICES ASSUME SchedulerInvariant, NEW p \in Passes, NEW m \in Held(p),
                      lastClaim[m] # 0
               PROVE  pass[p].cutoff >=
                        lastClaim[m] + monitor[m].interval_seconds
    BY DEF OncePerInterval
  <2>1. m \in Monitors
    BY DEF Held, SchedulerInvariant, TypeOK, PassState
  <2>2. monitor[m].next_check_at >= lastClaim[m] + monitor[m].interval_seconds
    BY <2>1 DEF SchedulerInvariant, NextCheckLater
  <2>3. monitor[m].next_check_at <= pass[p].cutoff
    BY DEF SchedulerInvariant, HeldAreDue
  <2>4. /\ monitor[m].next_check_at \in Nat
        /\ pass[p].cutoff \in Nat
        /\ lastClaim[m] \in Nat
        /\ monitor[m].interval_seconds \in Nat
    BY <2>1, IntervalType DEF SchedulerInvariant, TypeOK, MonitorRow, PassState
  <2>5. \A a, b, c, d \in Nat : a >= b + c /\ a <= d => d >= b + c
    OBVIOUS
  <2> QED BY <2>2, <2>3, <2>4, <2>5
<1> QED BY <1>1, SchedulerInvariantHolds, PTL
-----------------------------------------------------------------------------
(* The order of a batch                                                    *)

\* Inductive: a pass has taken nothing that is less overdue than a row still
\* before it.
TakenInOrder ==
  \A p \in Passes : \A m \in pass[p].due, n \in pass[p].pending :
    pass[p].seen[m] <= pass[p].seen[n]

\* Leaving rows of the snapshot out keeps the order of a batch.
LEMMA SmallerBatchInOrder ==
  ASSUME TypeOK, TakenInOrder, NEW p \in Passes, NEW s,
         pass' = [pass EXCEPT ![p] = s],
         s.due = {} \/ /\ s.due = pass[p].due
                       /\ s.pending \subseteq pass[p].pending
                       /\ s.seen = pass[p].seen
  PROVE  TakenInOrder'
<1>1. /\ pass'[p] = s
      /\ \A q \in Passes : q # p => pass'[q] = pass[q]
  BY DEF TypeOK
<1> SUFFICES ASSUME NEW q \in Passes, NEW m \in pass'[q].due,
                    NEW n \in pass'[q].pending
             PROVE  pass'[q].seen[m] <= pass'[q].seen[n]
  BY DEF TakenInOrder
<1>2. CASE q = p
  BY <1>1, <1>2 DEF TakenInOrder
<1>3. CASE q # p
  BY <1>1, <1>3 DEF TakenInOrder
<1> QED BY <1>2, <1>3

\* Taking the foremost row keeps it, which is what ORDER BY is for.
LEMMA ForemostKeepsOrder ==
  ASSUME TypeOK, TakenInOrder, NEW p \in Passes, NEW m \in Monitors, LockRow(p, m)
  PROVE  TakenInOrder'
<1>1. /\ pass'[p].due = pass[p].due \cup {m}
      /\ pass'[p].pending = pass[p].pending \ {m}
      /\ pass'[p].seen = pass[p].seen
      /\ \A q \in Passes : q # p => pass'[q] = pass[q]
  BY DEF LockRow, TypeOK, PassState
<1>2. \A n \in pass[p].pending : pass[p].seen[m] <= pass[p].seen[n]
  BY DEF LockRow, Foremost
<1> SUFFICES ASSUME NEW q \in Passes, NEW a \in pass'[q].due,
                    NEW n \in pass'[q].pending
             PROVE  pass'[q].seen[a] <= pass'[q].seen[n]
  BY DEF TakenInOrder
<1>3. CASE q # p
  BY <1>1, <1>3 DEF TakenInOrder
<1>4. CASE q = p /\ a = m
  BY <1>1, <1>2, <1>4
<1>5. CASE q = p /\ a # m
  BY <1>1, <1>5 DEF TakenInOrder
<1> QED BY <1>3, <1>4, <1>5

\* Every batch starts empty
LEMMA OrderInit == Init => TakenInOrder
  BY DEF Init, TakenInOrder, IdlePass

\* and every step keeps its order.
LEMMA OrderNext == TypeOK /\ TakenInOrder /\ [Next]_vars => TakenInOrder'
<1> SUFFICES ASSUME TypeOK, TakenInOrder, [Next]_vars PROVE TakenInOrder'
  OBVIOUS
<1>1. CASE UNCHANGED pass
  BY <1>1 DEF TakenInOrder
<1>2. ASSUME NEW p \in Passes, BeginPass(p) PROVE TakenInOrder'
  <2>1. PICK n \in BatchSizes :
          pass' = [pass EXCEPT ![p] =
            [IdlePass EXCEPT
               !.pc = "selecting", !.batch_size = n, !.cutoff = now,
               !.seen = [m \in Monitors |-> monitor[m].next_check_at],
               !.pending = {m \in Monitors : IsDue(monitor[m], now)}]]
    BY <1>2 DEF BeginPass
  <2>2. [IdlePass EXCEPT
               !.pc = "selecting", !.batch_size = n, !.cutoff = now,
               !.seen = [m \in Monitors |-> monitor[m].next_check_at],
               !.pending = {m \in Monitors : IsDue(monitor[m], now)}].due = {}
    BY DEF IdlePass
  <2> QED BY <2>1, <2>2, SmallerBatchInOrder
<1>3. ASSUME NEW p \in Passes, NEW m \in Monitors, LockRow(p, m)
      PROVE  TakenInOrder'
  BY <1>3, ForemostKeepsOrder
<1>4. ASSUME NEW p \in Passes, NEW m \in Monitors,
             SkipLocked(p, m) \/ PassOver(p, m)
      PROVE  TakenInOrder'
  <2>1. /\ pass' = [pass EXCEPT ![p] = pass'[p]]
        /\ pass'[p].due = pass[p].due
        /\ pass'[p].pending \subseteq pass[p].pending
        /\ pass'[p].seen = pass[p].seen
    BY <1>4 DEF SkipLocked, PassOver, TypeOK, PassState
  <2> QED BY <2>1, SmallerBatchInOrder
<1>5. ASSUME NEW p \in Passes, NothingDue(p) \/ CommitClaim(p) \/ PublishFails(p)
                                 \/ CrashPass(p)
      PROVE  TakenInOrder'
  <2>1. \E s : s.due = {} /\ pass' = [pass EXCEPT ![p] = s]
    BY <1>5 DEF NothingDue, CommitClaim, PublishFails, CrashPass, IdlePass,
                Publishing
  <2> QED BY <2>1, SmallerBatchInOrder
<1>6. ASSUME NEW p \in Passes, NEW m \in Monitors, PublishCheck(p, m)
      PROVE  TakenInOrder'
  <2>1. pass' = [pass EXCEPT ![p] = Sent(p, m)]
    BY <1>6 DEF PublishCheck
  <2>2. \/ Sent(p, m).due = {}
        \/ /\ Sent(p, m).due = pass[p].due
           /\ Sent(p, m).pending \subseteq pass[p].pending
           /\ Sent(p, m).seen = pass[p].seen
    BY DEF Sent, IdlePass, TypeOK, PassState
  <2> QED BY <2>1, <2>2, SmallerBatchInOrder
<1>7. ASSUME NEW h \in Requests, RequestNext(h) PROVE UNCHANGED pass
  BY <1>7 DEF RequestNext, Load, SavePause, SaveResume, SaveInterval,
              SavePatch, SaveDelete
<1>8. CASE Tick \/ UNCHANGED vars
  BY <1>1, <1>8 DEF Tick, vars
<1> QED BY <1>1, <1>2, <1>3, <1>4, <1>5, <1>6, <1>7, <1>8 DEF Next, ClaimNext

\* The batch limit passes over nobody who waited longer: a row a pass did not
\* get to was kept out by a full batch of rows at least as overdue
\* (scheduler.py:24-31).
THEOREM MostOverdueAreFirst == Spec => []MostOverdueFirst
<1>1. TakenInOrder => MostOverdueFirst
  BY DEF TakenInOrder, MostOverdueFirst, Selected
<1> QED BY <1>1, OrderInit, OrderNext, SchedulerTypeCorrect, PTL DEF Spec
=============================================================================
