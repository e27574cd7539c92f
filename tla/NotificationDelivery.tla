------------------------ MODULE NotificationDelivery ------------------------
(***************************************************************************)
(* The outbox of one notification channel: the NotificationDelivery rows   *)
(* that apps.notifications.services.enqueue_incident_notifications commits *)
(* with an incident, the deliver_notification messages published after the *)
(* commit, and the Celery workers that turn a row into a message sent.     *)
(*                                                                         *)
(* acks_late=True: a message stays with the broker until its task is over. *)
(* When the worker dies the message comes back, unless it was the child    *)
(* process that died, for which Celery acknowledges it; the broker may     *)
(* also hand a message out a second time while the first is being worked   *)
(* on.  Countdowns are delays, so they are not modelled.                   *)
(***************************************************************************)
EXTENDS Naturals, FiniteSets

CONSTANTS
  Deliveries,   \* the (incident, event_type) pairs the channel is told about
  Workers,      \* Celery workers consuming the notifications queue
  MaxRetries,   \* MAX_RETRIES
  ChannelEdits, \* may the user edit, verify, toggle or delete the channel?
  MaxCopies,    \* bound: messages the broker delivers twice
  MaxCrashes    \* bound: processes that die

ASSUME DeliveryAssumption ==
  /\ Deliveries # {}
  /\ MaxRetries \in Nat
  /\ ChannelEdits \in BOOLEAN
  /\ MaxCopies \in Nat
  /\ MaxCrashes \in Nat

VARIABLES
  channel,      \* the NotificationChannel row
  status,       \* status[d] of each NotificationDelivery row, or "none"
  attempts,     \* attempts[d]
  publishing,   \* rows committed whose on_commit callback has not run yet
  queue,        \* queue[d][r]: messages in the broker for the r-th retry
  worker,       \* what each worker is doing
  inbox,        \* inbox[d]: messages about d that reached the recipient
  unsure,       \* unsure[d]: of those, how many looked like failures
  copies,       \* messages the broker has delivered twice
  crashes,      \* processes that have died
  raised        \* history: deliveries an attempt at which raised an exception

vars == <<channel, status, attempts, publishing, queue, worker, inbox, unsure,
          copies, crashes, raised>>

Status  == {"none", "PENDING", "SENDING", "SENT", "FAILED"}
Outcome == {"success", "permanent", "temporary"}

ChannelRow == [exists : BOOLEAN, is_verified : BOOLEAN, is_active : BOOLEAN]

WorkerState ==
  [pc : {"idle", "loaded", "claimed", "sending", "answered", "deciding",
         "acking"},
   delivery : Deliveries, retries : 0..MaxRetries, outcome : Outcome]

TypeOK ==
  /\ channel \in ChannelRow
  /\ status \in [Deliveries -> Status]
  /\ attempts \in [Deliveries -> Nat]
  /\ publishing \subseteq Deliveries
  /\ queue \in [Deliveries -> [0..MaxRetries -> Nat]]
  /\ worker \in [Workers -> WorkerState]
  /\ inbox \in [Deliveries -> Nat]
  /\ unsure \in [Deliveries -> Nat]
  /\ copies \in 0..MaxCopies
  /\ crashes \in 0..MaxCrashes
  /\ raised \subseteq Deliveries

Busy == {w \in Workers : worker[w].pc # "idle"}

\* The workers between the UPDATE to SENDING and the save of its outcome.
Senders(d) ==
  {w \in Workers : /\ worker[w].pc \in {"claimed", "sending", "answered"}
                   /\ worker[w].delivery = d}

\* Fault: a row that is being sent can be claimed too.
ClaimableUnlessDone(d) == status[d] \in {"PENDING", "SENDING"}

Claimable(d) == status[d] = "PENDING"

\* Fault: only a temporary failure is told from a success.
StatusAfterAnyAnswer(result) ==
  IF result = "temporary" THEN "PENDING" ELSE "SENT"

\* Fault: a temporary failure leaves the row on SENDING.
StatusAfterLeftOnSending(result) ==
  CASE result = "success"   -> "SENT"
    [] result = "permanent" -> "FAILED"
    [] result = "temporary" -> "SENDING"

StatusAfter(result) ==
  CASE result = "success"   -> "SENT"
    [] result = "permanent" -> "FAILED"
    [] result = "temporary" -> "PENDING"

IdleWorker ==
  [pc |-> "idle", delivery |-> CHOOSE d \in Deliveries : TRUE, retries |-> 0,
   outcome |-> "success"]

Queued(d, r) == [queue EXCEPT ![d][r] = @ + 1]

At(w, pc) == worker[w].pc = pc

GoTo(w, pc) == worker' = [worker EXCEPT ![w].pc = pc]

Init ==
  /\ channel = [exists |-> TRUE, is_verified |-> TRUE, is_active |-> TRUE]
  /\ status = [d \in Deliveries |-> "none"]
  /\ attempts = [d \in Deliveries |-> 0]
  /\ publishing = {}
  /\ queue = [d \in Deliveries |-> [r \in 0..MaxRetries |-> 0]]
  /\ worker = [w \in Workers |-> IdleWorker]
  /\ inbox = [d \in Deliveries |-> 0]
  /\ unsure = [d \in Deliveries |-> 0]
  /\ copies = 0
  /\ crashes = 0
  /\ raised = {}

-----------------------------------------------------------------------------
(* The transaction that opens or resolves the incident, and its on_commit  *)

\* Fault: update_or_create in place of get_or_create.
EnqueueAnew(d) ==
  /\ channel.exists /\ channel.is_verified /\ channel.is_active
  /\ status' = [status EXCEPT ![d] = "PENDING"]
  /\ publishing' = publishing \cup {d}
  /\ UNCHANGED <<channel, attempts, queue, worker, inbox, unsure, copies,
                 crashes, raised>>

\* enqueue_incident_notifications: get_or_create of the row, in the
\* incident's transaction, for a channel that is verified and active.
Enqueue(d) ==
  /\ channel.exists /\ channel.is_verified /\ channel.is_active
  /\ status[d] = "none"
  /\ status' = [status EXCEPT ![d] = "PENDING"]
  /\ publishing' = publishing \cup {d}
  /\ UNCHANGED <<channel, attempts, queue, worker, inbox, unsure, copies,
                 crashes, raised>>

\* transaction.on_commit(lambda: deliver_notification.delay(delivery_id))
Publish(d) ==
  /\ d \in publishing
  /\ publishing' = publishing \ {d}
  /\ queue' = Queued(d, 0)
  /\ UNCHANGED <<channel, status, attempts, worker, inbox, unsure, copies,
                 crashes, raised>>

\* The process that committed the row dies before its callback runs.
LosePublish(d) ==
  /\ d \in publishing
  /\ crashes < MaxCrashes
  /\ publishing' = publishing \ {d}
  /\ crashes' = crashes + 1
  /\ UNCHANGED <<channel, status, attempts, queue, worker, inbox, unsure,
                 copies, raised>>

-----------------------------------------------------------------------------
(* The broker                                                              *)

\* A message being worked on is handed out again (its visibility timeout
\* passed).
Redeliver(w) ==
  /\ w \in Busy
  /\ copies < MaxCopies
  /\ copies' = copies + 1
  /\ queue' = Queued(worker[w].delivery, worker[w].retries)
  /\ UNCHANGED <<channel, status, attempts, publishing, worker, inbox, unsure,
                 crashes, raised>>

\* The worker starts deliver_notification: it ends at once when the row is
\* gone.
Take(w, d, r) ==
  /\ At(w, "idle")
  /\ queue[d][r] > 0
  /\ queue' = [queue EXCEPT ![d][r] = @ - 1]
  /\ worker' = [worker EXCEPT ![w] =
       [@ EXCEPT !.pc = IF status[d] = "none" THEN "acking" ELSE "loaded",
                 !.delivery = d, !.retries = r]]
  /\ UNCHANGED <<channel, status, attempts, publishing, inbox, unsure, copies,
                 crashes, raised>>

\* The task is over and its message acknowledged.
Ack(w) ==
  /\ At(w, "acking")
  /\ worker' = [worker EXCEPT ![w] = IdleWorker]
  /\ UNCHANGED <<channel, status, attempts, publishing, queue, inbox, unsure,
                 copies, crashes, raised>>

\* The worker dies.  Its message comes back, or is gone when only the child
\* process died (task_reject_on_worker_lost is off).
Crash(w) ==
  /\ w \in Busy
  /\ crashes < MaxCrashes
  /\ crashes' = crashes + 1
  /\ worker' = [worker EXCEPT ![w] = IdleWorker]
  /\ \/ queue' = Queued(worker[w].delivery, worker[w].retries)
     \/ UNCHANGED queue
  /\ UNCHANGED <<channel, status, attempts, publishing, inbox, unsure, copies,
                 raised>>

-----------------------------------------------------------------------------
(* deliver_notification and attempt_delivery                               *)

\* UPDATE ... SET status = SENDING, attempts = attempts + 1
\* WHERE id = ... AND status = PENDING.
Claim(w) ==
  LET d == worker[w].delivery
  IN  /\ At(w, "loaded")
      /\ Claimable(d)
      /\ status' = [status EXCEPT ![d] = "SENDING"]
      /\ attempts' = [attempts EXCEPT ![d] = @ + 1]
      /\ GoTo(w, "claimed")
      /\ UNCHANGED <<channel, publishing, queue, inbox, unsure, copies,
                     crashes, raised>>

\* The UPDATE matched no row: attempt_delivery returns None.
NotClaimed(w) ==
  /\ At(w, "loaded")
  /\ ~Claimable(worker[w].delivery)
  /\ GoTo(w, "acking")
  /\ UNCHANGED <<channel, status, attempts, publishing, queue, inbox, unsure,
                 copies, crashes, raised>>

\* refresh_from_db() drops the cached relations, so the channel is read now;
\* it raises when the row is gone.
ReadChannel(w) ==
  /\ At(w, "claimed")
  /\ worker' = [worker EXCEPT ![w] =
       [@ EXCEPT !.pc = IF channel.exists THEN "sending" ELSE "acking"]]
  /\ UNCHANGED <<channel, status, attempts, publishing, queue, inbox, unsure,
                 copies, crashes, raised>>

\* provider.send: a success reached the recipient, a permanent error did not,
\* a temporary one (a timeout, a dropped connection) may have.
Send(w) ==
  LET d == worker[w].delivery
  IN  /\ At(w, "sending")
      /\ \E result \in Outcome, reached \in BOOLEAN :
           /\ result = "success" => reached
           /\ result = "permanent" => ~reached
           /\ worker' = [worker EXCEPT ![w] =
                           [@ EXCEPT !.pc = "answered", !.outcome = result]]
           /\ inbox' = [inbox EXCEPT ![d] = IF reached THEN @ + 1 ELSE @]
           /\ unsure' = [unsure EXCEPT ![d] =
                           IF reached /\ result = "temporary" THEN @ + 1 ELSE @]
      /\ UNCHANGED <<channel, status, attempts, publishing, queue, copies,
                     crashes, raised>>

\* An attempt that raises: send_email catches what SMTP and the network do,
\* not the ValueError of a header with a line break in it (a monitor's name
\* may hold one), and _render_message needs the resolved_at that a lost
\* update may have taken away.  Nothing catches it: the row stays on SENDING,
\* and the task, having failed, is acknowledged.
ProviderRaises(w) ==
  /\ At(w, "sending")
  /\ raised' = raised \cup {worker[w].delivery}
  /\ GoTo(w, "acking")
  /\ UNCHANGED <<channel, status, attempts, publishing, queue, inbox, unsure,
                 copies, crashes>>

\* delivery.save(update_fields=["status", ...]), whatever the row says by
\* now; it raises when the row is gone.
Record(w) ==
  LET d == worker[w].delivery
      result == worker[w].outcome
  IN  /\ At(w, "answered")
      /\ status' = [status EXCEPT ![d] =
                      IF @ = "none" THEN "none" ELSE StatusAfter(result)]
      /\ GoTo(w, IF status[d] # "none" /\ result = "temporary"
                   THEN "deciding" ELSE "acking")
      /\ UNCHANGED <<channel, attempts, publishing, queue, inbox, unsure,
                     copies, crashes, raised>>

\* Fault: the new message does not count as a retry.
RetryUncounted(w) ==
  /\ At(w, "deciding")
  /\ worker[w].retries < MaxRetries
  /\ queue' = Queued(worker[w].delivery, worker[w].retries)
  /\ GoTo(w, "acking")
  /\ UNCHANGED <<channel, status, attempts, publishing, inbox, unsure, copies,
                 crashes, raised>>

\* raise self.retry(...): a new message, one retry further.
Retry(w) ==
  /\ At(w, "deciding")
  /\ worker[w].retries < MaxRetries
  /\ queue' = Queued(worker[w].delivery, worker[w].retries + 1)
  /\ GoTo(w, "acking")
  /\ UNCHANGED <<channel, status, attempts, publishing, inbox, unsure, copies,
                 crashes, raised>>

\* mark_delivery_failed: again whatever the row says by now.
GiveUp(w) ==
  LET d == worker[w].delivery
  IN  /\ At(w, "deciding")
      /\ worker[w].retries >= MaxRetries
      /\ status' = [status EXCEPT ![d] = IF @ = "none" THEN "none" ELSE "FAILED"]
      /\ GoTo(w, "acking")
      /\ UNCHANGED <<channel, attempts, publishing, queue, inbox, unsure,
                     copies, crashes, raised>>

-----------------------------------------------------------------------------
(* The user's changes to the channel, each the effect on the row of one    *)
(* call of the API                                                         *)

Edit(row) ==
  /\ ChannelEdits
  /\ channel.exists
  /\ channel' = row
  /\ UNCHANGED <<attempts, publishing, queue, worker, inbox, unsure, copies,
                 crashes, raised>>

\* update_channel with another config: nobody has proved it reachable yet.
UpdateConfig ==
  Edit([channel EXCEPT !.is_verified = FALSE]) /\ UNCHANGED status

\* update_channel(is_active=...)
ToggleActive ==
  Edit([channel EXCEPT !.is_active = ~@]) /\ UNCHANGED status

\* verify_channel, its test message delivered
VerifyChannel ==
  Edit([channel EXCEPT !.is_verified = TRUE]) /\ UNCHANGED status

\* delete_channel: on_delete=CASCADE takes the deliveries along.
DeleteChannel ==
  /\ Edit([channel EXCEPT !.exists = FALSE])
  /\ status' = [d \in Deliveries |-> "none"]

-----------------------------------------------------------------------------
Execute(w) ==
  \/ \E d \in Deliveries, r \in 0..MaxRetries : Take(w, d, r)
  \/ Ack(w)
  \/ Claim(w)
  \/ NotClaimed(w)
  \/ ReadChannel(w)
  \/ Send(w)
  \/ ProviderRaises(w)
  \/ Record(w)
  \/ Retry(w)
  \/ GiveUp(w)

Next ==
  \/ \E d \in Deliveries : Enqueue(d) \/ Publish(d) \/ LosePublish(d)
  \/ \E w \in Workers : Redeliver(w) \/ Crash(w) \/ Execute(w)
  \/ UpdateConfig \/ ToggleActive \/ VerifyChannel \/ DeleteChannel

Spec == Init /\ [][Next]_vars

\* A process that lives runs its callbacks and its tasks; the broker hands
\* out what it holds to a worker that is free, and a send times out.
FairSpec ==
  /\ Spec
  /\ \A d \in Deliveries : WF_vars(Publish(d))
  /\ \A w \in Workers : WF_vars(Execute(w))

-----------------------------------------------------------------------------
(* Properties                                                              *)

Lucky == copies + crashes = 0

\* attempt_delivery (services.py:146-149): however often a message is handed
\* out, two workers are never between claiming one row and saving what came
\* of it, and meanwhile nobody can claim it.
OneSender ==
  \A d \in Deliveries :
    /\ Cardinality(Senders(d)) <= 1
    /\ Senders(d) # {} => ~Claimable(d)

\* The row of a delivery says SENT only when the recipient has the message.
SentMeansReceived ==
  \A d \in Deliveries : status[d] = "SENT" => inbox[d] > 0

\* A second copy of a message needs an attempt that reached the recipient and
\* yet looked like a temporary failure: neither retries, nor redelivery, nor
\* crashes send one otherwise.
DuplicatesOnlyByAmbiguity ==
  \A d \in Deliveries : inbox[d] <= unsure[d] + 1

\* The invariant behind the three above.  At most one worker sends, and no one
\* can claim the row meanwhile; once an attempt ended in success, the copy it
\* sent is counted, the row cannot be claimed again, and whoever is still at
\* work on it is the one about to save that success.  A row not yet written
\* has not been touched.
Delivered(d) == inbox[d] = unsure[d] + 1

DeliverySafe(d) ==
  /\ \A v, w \in Senders(d) : v = w
  /\ Senders(d) # {} => ~Claimable(d)
  /\ Delivered(d) \/ inbox[d] = unsure[d]
  /\ status[d] = "SENT" => Delivered(d)
  /\ Delivered(d) => ~Claimable(d)
  /\ \A w \in Senders(d) :
       (At(w, "answered") /\ worker[w].outcome = "success") <=> Delivered(d)
  /\ (channel.exists /\ status[d] = "none") =>
       Senders(d) = {} /\ ~Delivered(d)

DeliveryInvariant == TypeOK /\ \A d \in Deliveries : DeliverySafe(d)

\* MAX_RETRIES (tasks.py:24-26): one chain of retries makes at most
\* MAX_RETRIES + 1 attempts; each message handed out twice and each crash
\* can start at most one more chain.
AttemptsBounded ==
  \A d \in Deliveries :
    attempts[d] <= (MaxRetries + 1) * (1 + copies + crashes)

\* The saves of attempt_delivery and mark_delivery_failed are unconditional
\* (services.py:175, :183), so a row that says SENT or FAILED can be written
\* again; what stands is this.  It takes a message handed out twice or a crash,
\* a SENT row becomes nothing but FAILED, and only by a worker giving up after
\* its own last retry failed.
LastRetryFailed(d) ==
  \E w \in Workers : /\ At(w, "deciding")
                     /\ worker[w].delivery = d
                     /\ worker[w].retries >= MaxRetries

OutcomeOverwritten ==
  [][ \A d \in Deliveries :
        status[d] \in {"SENT", "FAILED"} /\ status'[d] \notin {status[d], "none"} =>
          /\ copies + crashes > 0
          /\ status[d] = "SENT" => status'[d] = "FAILED" /\ LastRetryFailed(d) ]_vars

\* A committed row is worked off: delivered, given up on, or gone with its
\* channel, unless a process dies or an attempt raises.
EventuallyDecided ==
  \A d \in Deliveries :
    (status[d] = "PENDING") ~> \/ status[d] \in {"SENT", "FAILED", "none"}
                               \/ crashes > 0
                               \/ d \in raised

\* attempt_delivery's docstring (services.py:142-144): there is nothing to do
\* for a delivery only when it is already sent, already failed, or being
\* attempted by another worker right now.
NothingLeftToDo ==
  [][ \A w \in Workers :
        LET d == worker[w].delivery
        IN  (At(w, "loaded") /\ worker'[w].pc = "acking") =>
              status[d] \in {"SENT", "FAILED", "none"} \/ Senders(d) # {} ]_vars
=============================================================================
