--------------------- MODULE NotificationDeliveryProofs ---------------------
(***************************************************************************)
(* Theorems about NotificationDelivery for every number of deliveries,     *)
(* workers, retries, redeliveries and crashes.                             *)
(***************************************************************************)
EXTENDS NotificationDelivery, FiniteSetTheorems, TLAPS

\* A free worker is in a state of its type.
LEMMA IdleIsAState == IdleWorker \in WorkerState
<1>1. 0 \in 0..MaxRetries
  BY DeliveryAssumption DEF DeliveryAssumption
<1>2. (CHOOSE d \in Deliveries : TRUE) \in Deliveries
  BY DeliveryAssumption DEF DeliveryAssumption
<1> QED BY <1>1, <1>2 DEF IdleWorker, WorkerState, Outcome

\* One more message in the queue is still a queue.
LEMMA QueuedType ==
  ASSUME queue \in [Deliveries -> [0..MaxRetries -> Nat]],
         NEW d \in Deliveries, NEW r \in 0..MaxRetries
  PROVE  Queued(d, r) \in [Deliveries -> [0..MaxRetries -> Nat]]
<1> DEFINE row == [queue[d] EXCEPT ![r] = @ + 1]
<1>1. queue[d] \in [0..MaxRetries -> Nat]
  OBVIOUS
<1>2. \A n \in Nat : n + 1 \in Nat
  OBVIOUS
<1>3. queue[d][r] + 1 \in Nat
  BY <1>1, <1>2
<1>4. row \in [0..MaxRetries -> Nat]
  BY <1>1, <1>3
<1>5. Queued(d, r) = [queue EXCEPT ![d] = row]
  BY DEF Queued
<1> HIDE DEF row
<1> QED BY <1>4, <1>5

\* One more attempt, or one more message received.
LEMMA OneMore ==
  ASSUME NEW counts \in [Deliveries -> Nat], NEW d \in Deliveries
  PROVE  [counts EXCEPT ![d] = @ + 1] \in [Deliveries -> Nat]
<1>1. \A n \in Nat : n + 1 \in Nat
  OBVIOUS
<1>2. counts[d] + 1 \in Nat
  BY <1>1
<1> QED BY <1>2

\* Counting up below a bound.
LEMMA CountUp == \A n, m \in Nat : \A k \in 0..m : k < m => k + 1 \in 0..m
  OBVIOUS

-----------------------------------------------------------------------------
(* Types                                                                   *)

\* The outbox starts with its types
LEMMA TypeInit == Init => TypeOK
  BY DeliveryAssumption, IdleIsAState
  DEF Init, TypeOK, DeliveryAssumption, ChannelRow, Status

\* and every step keeps them.
LEMMA TypeNext == TypeOK /\ [Next]_vars => TypeOK'
<1> SUFFICES ASSUME TypeOK, [Next]_vars PROVE TypeOK'
  OBVIOUS
<1> USE DeliveryAssumption DEF DeliveryAssumption, TypeOK
<1>1. ASSUME NEW d \in Deliveries, Enqueue(d) PROVE TypeOK'
  BY <1>1 DEF Enqueue, Status
<1>2. ASSUME NEW d \in Deliveries, Publish(d) PROVE TypeOK'
  <2>1. 0 \in 0..MaxRetries
    OBVIOUS
  <2>2. queue' \in [Deliveries -> [0..MaxRetries -> Nat]]
    BY <1>2, <2>1, QueuedType DEF Publish
  <2> QED BY <1>2, <2>2 DEF Publish
<1>3. ASSUME NEW d \in Deliveries, LosePublish(d) PROVE TypeOK'
  <2>1. crashes' \in 0..MaxCrashes
    BY <1>3, CountUp DEF LosePublish
  <2> QED BY <1>3, <2>1 DEF LosePublish
<1>4. ASSUME NEW w \in Workers, Redeliver(w) PROVE TypeOK'
  <2>1. worker[w].delivery \in Deliveries /\ worker[w].retries \in 0..MaxRetries
    BY DEF WorkerState
  <2>2. queue' \in [Deliveries -> [0..MaxRetries -> Nat]]
    BY <1>4, <2>1, QueuedType DEF Redeliver
  <2>3. copies' \in 0..MaxCopies
    BY <1>4, CountUp DEF Redeliver
  <2> QED BY <1>4, <2>2, <2>3 DEF Redeliver
<1>5. ASSUME NEW w \in Workers, Crash(w) PROVE TypeOK'
  <2>1. worker[w].delivery \in Deliveries /\ worker[w].retries \in 0..MaxRetries
    BY DEF WorkerState
  <2>2. queue' \in [Deliveries -> [0..MaxRetries -> Nat]]
    <3>1. Queued(worker[w].delivery, worker[w].retries)
            \in [Deliveries -> [0..MaxRetries -> Nat]]
      BY <2>1, QueuedType
    <3>2. queue' \in {queue, Queued(worker[w].delivery, worker[w].retries)}
      BY <1>5 DEF Crash
    <3> QED BY <3>1, <3>2
  <2>3. worker' \in [Workers -> WorkerState]
    BY <1>5, IdleIsAState DEF Crash
  <2>4. crashes' \in 0..MaxCrashes
    BY <1>5, CountUp DEF Crash
  <2> QED BY <1>5, <2>2, <2>3, <2>4 DEF Crash
<1>6. ASSUME NEW w \in Workers, Execute(w) PROVE TypeOK'
  <2>1. worker[w] \in WorkerState
    OBVIOUS
  <2>2. /\ worker[w].delivery \in Deliveries
        /\ worker[w].retries \in 0..MaxRetries
        /\ worker[w].outcome \in Outcome
    BY <2>1 DEF WorkerState
  <2>3. ASSUME NEW d \in Deliveries, NEW r \in 0..MaxRetries,
               Take(w, d, r)
        PROVE  TypeOK'
    <3>1. worker' \in [Workers -> WorkerState]
      BY <2>1, <2>3 DEF Take, WorkerState
    <3>2. queue' \in [Deliveries -> [0..MaxRetries -> Nat]]
      BY <2>3 DEF Take
    <3> QED BY <2>3, <3>1, <3>2 DEF Take
  <2>4. CASE Ack(w)
    BY <2>4, IdleIsAState DEF Ack
  <2>5. CASE Claim(w)
    <3>1. attempts' \in [Deliveries -> Nat]
      BY <2>2, <2>5, OneMore DEF Claim
    <3>2. status' \in [Deliveries -> Status]
      BY <2>2, <2>5 DEF Claim, Status
    <3>3. worker' \in [Workers -> WorkerState]
      BY <2>1, <2>5 DEF Claim, GoTo, WorkerState
    <3> QED BY <2>5, <3>1, <3>2, <3>3 DEF Claim
  <2>6. CASE NotClaimed(w) \/ ProviderRaises(w)
    <3>1. worker' \in [Workers -> WorkerState]
      <4>1. worker' = [worker EXCEPT ![w].pc = "acking"]
        BY <2>6 DEF NotClaimed, ProviderRaises, GoTo
      <4>2. [worker[w] EXCEPT !.pc = "acking"] \in WorkerState
        BY <2>1 DEF WorkerState
      <4> QED BY <4>1, <4>2
    <3>2. raised' \subseteq Deliveries
      BY <2>2, <2>6 DEF NotClaimed, ProviderRaises
    <3> QED BY <2>6, <3>1, <3>2 DEF NotClaimed, ProviderRaises
  <2>7. CASE ReadChannel(w)
    BY <2>1, <2>7 DEF ReadChannel, WorkerState, ChannelRow
  <2>8. CASE Send(w)
    <3> DEFINE d == worker[w].delivery
    <3>1. /\ inbox' \in {inbox, [inbox EXCEPT ![d] = @ + 1]}
          /\ unsure' \in {unsure, [unsure EXCEPT ![d] = @ + 1]}
      BY <2>8 DEF Send
    <3>2. inbox' \in [Deliveries -> Nat]
      <4>1. [inbox EXCEPT ![d] = @ + 1] \in [Deliveries -> Nat]
        BY <2>2, OneMore
      <4> QED BY <3>1, <4>1
    <3>3. unsure' \in [Deliveries -> Nat]
      <4>1. [unsure EXCEPT ![d] = @ + 1] \in [Deliveries -> Nat]
        BY <2>2, OneMore
      <4> QED BY <3>1, <4>1
    <3>4. PICK result \in Outcome :
            worker' = [worker EXCEPT ![w] =
                         [@ EXCEPT !.pc = "answered", !.outcome = result]]
      BY <2>8 DEF Send
    <3>5. worker' \in [Workers -> WorkerState]
      BY <2>1, <3>4 DEF WorkerState
    <3> QED BY <2>8, <3>2, <3>3, <3>5 DEF Send
  <2>9. CASE Record(w)
    <3>1. StatusAfter(worker[w].outcome) \in Status
      BY <2>2 DEF StatusAfter, Outcome, Status
    <3> QED BY <2>1, <2>2, <2>9, <3>1 DEF Record, GoTo, WorkerState, Status
  <2>10. CASE Retry(w)
    <3>1. worker[w].retries + 1 \in 0..MaxRetries
      BY <2>2, <2>10, CountUp DEF Retry
    <3>2. queue' \in [Deliveries -> [0..MaxRetries -> Nat]]
      BY <2>2, <2>10, <3>1, QueuedType DEF Retry
    <3> QED BY <2>1, <2>10, <3>2 DEF Retry, GoTo, WorkerState
  <2>11. CASE GiveUp(w)
    BY <2>1, <2>2, <2>11 DEF GiveUp, GoTo, WorkerState, Status
  <2> QED BY <1>6, <2>3, <2>4, <2>5, <2>6, <2>7, <2>8, <2>9, <2>10, <2>11 DEF Execute
<1>7. CASE UpdateConfig \/ ToggleActive \/ VerifyChannel
  BY <1>7 DEF UpdateConfig, ToggleActive, VerifyChannel, Edit, ChannelRow
<1>8. CASE DeleteChannel
  BY <1>8 DEF DeleteChannel, Edit, ChannelRow, Status
<1>9. CASE UNCHANGED vars
  BY <1>9 DEF vars
<1> QED BY <1>1, <1>2, <1>3, <1>4, <1>5, <1>6, <1>7, <1>8, <1>9 DEF Next

\* Type correctness: every variable keeps its type, whatever the numbers of
\* deliveries, workers, retries, redeliveries and crashes.
THEOREM DeliveryTypeCorrect == Spec => []TypeOK
<1> QED BY TypeInit, TypeNext, PTL DEF Spec

-----------------------------------------------------------------------------
(* One sender, and no copy beyond those an ambiguous failure explains      *)

\* Who is a sender, member by member.
LEMMA SendersAre ==
  \A d : \A v : v \in Senders(d) <=>
    /\ v \in Workers
    /\ worker[v].pc \in {"claimed", "sending", "answered"}
    /\ worker[v].delivery = d
  BY DEF Senders

\* The same after a step.
LEMMA SendersWillBe ==
  \A d : \A v : v \in Senders(d)' <=>
    /\ v \in Workers
    /\ worker'[v].pc \in {"claimed", "sending", "answered"}
    /\ worker'[v].delivery = d
  BY DEF Senders

\* A step that sends nothing, makes no one a sender, lets a sender at most
\* read the channel, and leaves the row alone or ends it keeps the delivery safe.
LEMMA Undisturbed ==
  ASSUME NEW d \in Deliveries, DeliverySafe(d),
         status'[d] = status[d] \/ status'[d] = "FAILED" \/ ~channel'.exists,
         status'[d] # status[d] => status'[d] \in {"FAILED", "none"},
         inbox'[d] = inbox[d], unsure'[d] = unsure[d],
         channel'.exists => channel.exists,
         \A v \in Senders(d)' :
           /\ v \in Senders(d)
           /\ \/ worker'[v] = worker[v]
              \/ worker[v].pc = "claimed" /\ worker'[v].pc = "sending"
  PROVE  DeliverySafe(d)'
<1>1. Delivered(d)' <=> Delivered(d)
  BY DEF Delivered
<1>2. Claimable(d)' => Claimable(d)
  BY DEF Claimable
<1>3. \A v, w \in Senders(d)' : v = w
  BY DEF DeliverySafe
<1>4. Senders(d)' # {} => ~Claimable(d)'
  BY <1>2 DEF DeliverySafe
<1>5. Delivered(d)' \/ inbox'[d] = unsure'[d]
  BY <1>1 DEF DeliverySafe
<1>6. status'[d] = "SENT" => Delivered(d)'
  BY <1>1 DEF DeliverySafe
<1>7. Delivered(d)' => ~Claimable(d)'
  BY <1>1, <1>2 DEF DeliverySafe
<1>8. \A w \in Senders(d)' :
        (At(w, "answered")' /\ worker'[w].outcome = "success") <=> Delivered(d)'
  BY <1>1 DEF DeliverySafe, At
<1>9. (channel'.exists /\ status'[d] = "none") =>
        Senders(d)' = {} /\ ~Delivered(d)'
  BY <1>1 DEF DeliverySafe
<1> QED BY <1>3, <1>4, <1>5, <1>6, <1>7, <1>8, <1>9 DEF DeliverySafe

\* A delivery is safe before its row is written.
LEMMA SafeInit == Init => \A d \in Deliveries : DeliverySafe(d)
<1> SUFFICES ASSUME Init, NEW d \in Deliveries PROVE DeliverySafe(d)
  OBVIOUS
<1>1. Senders(d) = {}
  BY DEF Init, Senders, IdleWorker
<1>2. inbox[d] = 0 /\ unsure[d] = 0 /\ status[d] = "none"
  BY DEF Init
<1>3. ~Delivered(d) /\ ~Claimable(d)
  BY <1>2 DEF Delivered, Claimable
<1> QED BY <1>1, <1>2, <1>3 DEF DeliverySafe

\* Every step keeps every delivery safe.
LEMMA SafeNext ==
  DeliveryInvariant /\ [Next]_vars => \A d \in Deliveries : DeliverySafe(d)'
<1> SUFFICES ASSUME DeliveryInvariant, [Next]_vars, NEW d \in Deliveries
             PROVE  DeliverySafe(d)'
  OBVIOUS
<1>0. TypeOK /\ DeliverySafe(d)
  BY DEF DeliveryInvariant
<1>t. /\ worker \in [Workers -> WorkerState]
      /\ status \in [Deliveries -> Status]
      /\ channel \in ChannelRow
      /\ inbox \in [Deliveries -> Nat]
      /\ unsure \in [Deliveries -> Nat]
  BY <1>0 DEF TypeOK
<1>1. ASSUME NEW e \in Deliveries, Enqueue(e) PROVE DeliverySafe(d)'
  <2>1. /\ channel.exists /\ UNCHANGED <<channel, worker, inbox, unsure>>
        /\ status[e] = "none"
        /\ status' = [status EXCEPT ![e] = "PENDING"]
    BY <1>1 DEF Enqueue
  <2>2. CASE d = e
    <3>1. Senders(d) = {} /\ ~Delivered(d) /\ inbox[d] = unsure[d]
      BY <1>0, <2>1, <2>2 DEF DeliverySafe
    <3>2. Senders(d)' = {}
      BY <2>1, <3>1 DEF Senders
    <3>3. ~Delivered(d)' /\ inbox'[d] = unsure'[d]
      BY <2>1, <3>1 DEF Delivered
    <3>4. status'[d] = "PENDING"
      BY <1>t, <2>1, <2>2
    <3> QED BY <3>2, <3>3, <3>4 DEF DeliverySafe
  <2>3. CASE d # e
    <3>1. status'[d] = status[d]
      BY <1>t, <2>1, <2>3
    <3>2. \A v \in Senders(d)' : v \in Senders(d) /\ worker'[v] = worker[v]
      BY <2>1 DEF Senders
    <3> QED BY <1>0, <2>1, <3>1, <3>2, Undisturbed
  <2> QED BY <2>2, <2>3
<1>2. CASE \/ \E e \in Deliveries : Publish(e) \/ LosePublish(e)
           \/ \E w \in Workers : Redeliver(w)
           \/ UNCHANGED vars
  <2>1. UNCHANGED <<channel, status, worker, inbox, unsure>>
    BY <1>2 DEF Publish, LosePublish, Redeliver, vars
  <2>2. \A v \in Senders(d)' : v \in Senders(d) /\ worker'[v] = worker[v]
    BY <2>1 DEF Senders
  <2> QED BY <1>0, <2>1, <2>2, Undisturbed
\* Steps after which the worker is no sender.
<1>3. ASSUME NEW w \in Workers,
             \/ Crash(w) \/ Ack(w) \/ NotClaimed(w) \/ ProviderRaises(w)
             \/ Retry(w) \/ GiveUp(w)
             \/ \E e \in Deliveries, r \in 0..MaxRetries : Take(w, e, r)
      PROVE  DeliverySafe(d)'
  <2>1. UNCHANGED <<channel, inbox, unsure>>
    BY <1>3 DEF Crash, Ack, NotClaimed, ProviderRaises, Retry, GiveUp, Take
  <2>2. status'[d] = status[d] \/ (status[d] # "none" /\ status'[d] = "FAILED")
    <3>1. CASE GiveUp(w)
      BY <1>t, <3>1 DEF GiveUp
    <3>2. CASE ~GiveUp(w)
      BY <1>3, <3>2 DEF Crash, Ack, NotClaimed, ProviderRaises, Retry, Take
    <3> QED BY <3>1, <3>2
  <2>3. \A v \in Workers \ {w} : worker'[v] = worker[v]
    BY <1>3, <1>t DEF Crash, Ack, NotClaimed, ProviderRaises, Retry, GiveUp,
                      Take, GoTo
  <2>4. worker'[w].pc \in {"idle", "loaded", "acking"}
    <3>1. CASE Crash(w) \/ Ack(w)
      BY <1>t, <3>1 DEF Crash, Ack, IdleWorker
    <3>2. CASE NotClaimed(w) \/ ProviderRaises(w) \/ Retry(w) \/ GiveUp(w)
      BY <1>t, <3>2 DEF NotClaimed, ProviderRaises, Retry, GiveUp, GoTo, WorkerState
    <3>3. CASE \E e \in Deliveries, r \in 0..MaxRetries : Take(w, e, r)
      BY <1>t, <3>3 DEF Take, WorkerState
    <3> QED BY <1>3, <3>1, <3>2, <3>3
  <2>5. \A v \in Senders(d)' : v \in Senders(d) /\ worker'[v] = worker[v]
    BY <2>3, <2>4, SendersAre, SendersWillBe
  <2> QED BY <1>0, <2>1, <2>2, <2>5, Undisturbed
<1>4. CASE UpdateConfig \/ ToggleActive \/ VerifyChannel \/ DeleteChannel
  <2>1. /\ UNCHANGED <<worker, inbox, unsure>>
        /\ channel.exists
        /\ \/ UNCHANGED status
           \/ ~channel'.exists /\ status'[d] = "none"
    BY <1>4, <1>t DEF UpdateConfig, ToggleActive, VerifyChannel, DeleteChannel,
                      Edit, ChannelRow
  <2>2. \A v \in Senders(d)' : v \in Senders(d) /\ worker'[v] = worker[v]
    BY <2>1 DEF Senders
  <2> QED BY <1>0, <2>1, <2>2, Undisturbed
<1>5. ASSUME NEW w \in Workers, Claim(w) PROVE DeliverySafe(d)'
  <2> DEFINE e == worker[w].delivery
  <2>1. /\ UNCHANGED <<channel, inbox, unsure>>
        /\ worker[w].pc = "loaded" /\ Claimable(e)
        /\ status' = [status EXCEPT ![e] = "SENDING"]
        /\ worker' = [worker EXCEPT ![w].pc = "claimed"]
    BY <1>5 DEF Claim, At, GoTo
  <2>2. \A v \in Workers \ {w} : worker'[v] = worker[v]
    BY <1>t, <2>1
  <2>3. worker'[w].pc = "claimed" /\ worker'[w].delivery = e
    BY <1>t, <2>1 DEF WorkerState
  <2>4. CASE d = e
    <3>1. Senders(d) = {} /\ ~Delivered(d) /\ inbox[d] = unsure[d]
      BY <1>0, <2>1, <2>4 DEF DeliverySafe
    <3>2. \A v \in Senders(d)' : v = w
      BY <2>2, <3>1, SendersAre, SendersWillBe
    <3>3. ~Delivered(d)' /\ inbox'[d] = unsure'[d]
      BY <2>1, <3>1 DEF Delivered
    <3>4. status'[d] = "SENDING" /\ ~Claimable(d)'
      BY <1>t, <2>1, <2>4 DEF Claimable
    <3>5. ~At(w, "answered")'
      BY <2>3 DEF At
    <3> QED BY <3>2, <3>3, <3>4, <3>5 DEF DeliverySafe
  <2>5. CASE d # e
    <3>1. status'[d] = status[d]
      BY <1>t, <2>1, <2>5
    <3>2. \A v \in Senders(d)' : v \in Senders(d) /\ worker'[v] = worker[v]
      BY <2>2, <2>3, <2>5, SendersAre, SendersWillBe
    <3> QED BY <1>0, <2>1, <3>1, <3>2, Undisturbed
  <2> QED BY <2>4, <2>5
<1>6. ASSUME NEW w \in Workers, ReadChannel(w) PROVE DeliverySafe(d)'
  <2>1. /\ UNCHANGED <<channel, status, inbox, unsure>>
        /\ worker[w].pc = "claimed"
    BY <1>6 DEF ReadChannel, At
  <2>2. \A v \in Workers \ {w} : worker'[v] = worker[v]
    BY <1>6, <1>t DEF ReadChannel
  <2>3. /\ worker'[w].pc \in {"sending", "acking"}
        /\ worker'[w].delivery = worker[w].delivery
    BY <1>6, <1>t DEF ReadChannel, WorkerState
  <2>4. \A v \in Senders(d)' :
          /\ v \in Senders(d)
          /\ \/ worker'[v] = worker[v]
             \/ worker[v].pc = "claimed" /\ worker'[v].pc = "sending"
    BY <2>1, <2>2, <2>3, SendersAre, SendersWillBe
  <2> QED BY <1>0, <2>1, <2>4, Undisturbed
<1>7. ASSUME NEW w \in Workers, Send(w) PROVE DeliverySafe(d)'
  <2> DEFINE e == worker[w].delivery
  <2>1. PICK result \in Outcome, reached \in BOOLEAN :
          /\ result = "success" => reached
          /\ result = "permanent" => ~reached
          /\ worker' = [worker EXCEPT ![w] =
                          [@ EXCEPT !.pc = "answered", !.outcome = result]]
          /\ inbox' = [inbox EXCEPT ![e] = IF reached THEN @ + 1 ELSE @]
          /\ unsure' = [unsure EXCEPT ![e] =
                          IF reached /\ result = "temporary" THEN @ + 1 ELSE @]
    BY <1>7 DEF Send
  <2>2. UNCHANGED <<channel, status>> /\ worker[w].pc = "sending"
    BY <1>7 DEF Send, At
  <2>3. \A v \in Workers \ {w} : worker'[v] = worker[v]
    BY <1>t, <2>1
  <2>4. /\ worker'[w].pc = "answered" /\ worker'[w].delivery = e
        /\ worker'[w].outcome = result
    BY <1>t, <2>1 DEF WorkerState
  <2>5. CASE d = e
    <3>1. w \in Senders(d) /\ ~At(w, "answered")
      BY <2>2, <2>5, SendersAre DEF At
    <3>2. ~Delivered(d) /\ inbox[d] = unsure[d] /\ ~Claimable(d)
      BY <1>0, <3>1 DEF DeliverySafe
    <3>3. status[d] # "SENT" /\ ~(channel.exists /\ status[d] = "none")
      BY <1>0, <3>1, <3>2 DEF DeliverySafe
    <3>4. \A v \in Senders(d)' : v = w
      BY <1>0, <2>3, <3>1, SendersAre, SendersWillBe DEF DeliverySafe
    <3>5. (result = "success" <=> Delivered(d)')
          /\ (Delivered(d)' \/ inbox'[d] = unsure'[d])
      <4>1. /\ inbox'[d] = IF reached THEN inbox[d] + 1 ELSE inbox[d]
            /\ unsure'[d] = IF reached /\ result = "temporary"
                            THEN unsure[d] + 1 ELSE unsure[d]
        BY <1>t, <2>1, <2>5
      <4>2. inbox[d] \in Nat /\ unsure[d] \in Nat
        BY <1>t
      <4>3. \A n \in Nat : n # n + 1
        OBVIOUS
      <4>4. CASE result = "success"
        BY <2>1, <3>2, <4>1, <4>4 DEF Delivered
      <4>5. CASE result = "permanent"
        BY <2>1, <3>2, <4>1, <4>2, <4>3, <4>5 DEF Delivered
      <4>6. CASE result = "temporary"
        <5>1. inbox'[d] = unsure'[d] /\ unsure'[d] \in Nat
          BY <3>2, <4>1, <4>2, <4>6
        <5> QED BY <4>3, <4>6, <5>1 DEF Delivered
      <4> QED BY <4>4, <4>5, <4>6 DEF Outcome
    <3>6. ~Claimable(d)' /\ status'[d] = status[d] /\ channel' = channel
      BY <2>2, <3>2 DEF Claimable
    <3> QED BY <2>4, <3>3, <3>4, <3>5, <3>6 DEF DeliverySafe, At
  <2>6. CASE d # e
    <3>1. inbox'[d] = inbox[d] /\ unsure'[d] = unsure[d]
      BY <1>t, <2>1, <2>6
    <3>2. \A v \in Senders(d)' : v \in Senders(d) /\ worker'[v] = worker[v]
      BY <2>3, <2>4, <2>6, SendersAre, SendersWillBe
    <3> QED BY <1>0, <2>2, <3>1, <3>2, Undisturbed
  <2> QED BY <2>5, <2>6
<1>8. ASSUME NEW w \in Workers, Record(w) PROVE DeliverySafe(d)'
  <2> DEFINE e == worker[w].delivery
             result == worker[w].outcome
  <2>1. /\ UNCHANGED <<channel, inbox, unsure>>
        /\ worker[w].pc = "answered"
        /\ status' = [status EXCEPT ![e] =
                        IF @ = "none" THEN "none" ELSE StatusAfter(result)]
    BY <1>8 DEF Record, At
  <2>2. \A v \in Workers \ {w} : worker'[v] = worker[v]
    BY <1>8, <1>t DEF Record, GoTo
  <2>3. worker'[w].pc \in {"deciding", "acking"}
    BY <1>8, <1>t DEF Record, GoTo, WorkerState
  <2>4. \A v \in Senders(d)' : v # w /\ v \in Senders(d) /\ worker'[v] = worker[v]
    BY <2>2, <2>3, SendersAre, SendersWillBe
  <2>5. CASE d = e
    <3>1. w \in Senders(d) /\ At(w, "answered")
      BY <2>1, <2>5, SendersAre DEF At
    <3>2. Senders(d)' = {}
      BY <1>0, <2>4, <3>1 DEF DeliverySafe
    <3>3. /\ result = "success" <=> Delivered(d)
          /\ Delivered(d) \/ inbox[d] = unsure[d]
      BY <1>0, <3>1 DEF DeliverySafe
    <3>4. Delivered(d)' <=> Delivered(d)
      BY <2>1 DEF Delivered
    <3>5. status'[d] = IF status[d] = "none" THEN "none" ELSE StatusAfter(result)
      BY <1>t, <2>1, <2>5
    <3>6. result \in Outcome
      BY <1>t DEF WorkerState
    <3>7. /\ StatusAfter(result) # "none"
          /\ StatusAfter(result) = "SENT" => result = "success"
          /\ result = "success" => StatusAfter(result) # "PENDING"
      BY <3>6 DEF StatusAfter, Outcome
    <3>8. status[d] = "none" => ~channel.exists
      BY <1>0, <3>1 DEF DeliverySafe
    <3>9. /\ status'[d] = "SENT" => Delivered(d)'
          /\ Delivered(d)' => ~Claimable(d)'
          /\ status'[d] = "none" => ~channel'.exists
      BY <2>1, <3>3, <3>4, <3>5, <3>7, <3>8 DEF Claimable
    <3>10. Delivered(d)' \/ inbox'[d] = unsure'[d]
      BY <2>1, <3>3, <3>4
    <3> QED BY <3>2, <3>9, <3>10 DEF DeliverySafe
  <2>6. CASE d # e
    <3>1. status'[d] = status[d]
      BY <1>t, <2>1, <2>6
    <3> QED BY <1>0, <2>1, <2>4, <3>1, Undisturbed
  <2> QED BY <2>5, <2>6
<1> QED BY <1>1, <1>2, <1>3, <1>4, <1>5, <1>6, <1>7, <1>8 DEF Next, Execute

\* The inductive invariant: every delivery stays safe.
THEOREM DeliveryInvariantHolds == Spec => []DeliveryInvariant
<1>1. Init => DeliveryInvariant
  BY TypeInit, SafeInit DEF DeliveryInvariant
<1>2. DeliveryInvariant /\ [Next]_vars => DeliveryInvariant'
  BY TypeNext, SafeNext DEF DeliveryInvariant
<1> QED BY <1>1, <1>2, PTL DEF Spec

\* However often a message is handed out, and whoever dies, two workers are
\* never sending for one delivery, nor can a third start to.
THEOREM OneSenderHolds == Spec => []OneSender
<1>1. DeliveryInvariant => OneSender
  <2> SUFFICES ASSUME DeliveryInvariant, NEW d \in Deliveries
               PROVE  /\ Cardinality(Senders(d)) <= 1
                      /\ Senders(d) # {} => ~Claimable(d)
    BY DEF OneSender
  <2>1. DeliverySafe(d)
    BY DEF DeliveryInvariant
  <2>2. CASE Senders(d) = {}
    BY <2>2, FS_EmptySet
  <2>3. CASE Senders(d) # {}
    <3>1. PICK w : w \in Senders(d)
      BY <2>3
    <3>2. Senders(d) = {w}
      BY <2>1, <3>1 DEF DeliverySafe
    <3>3. Cardinality({w}) = 1
      BY FS_Singleton
    <3> QED BY <2>1, <3>2, <3>3 DEF DeliverySafe
  <2> QED BY <2>2, <2>3
<1> QED BY <1>1, DeliveryInvariantHolds, PTL

\* A row that says SENT stands for a message that reached the recipient.
THEOREM SentMeansReceivedHolds == Spec => []SentMeansReceived
<1>1. DeliveryInvariant => SentMeansReceived
  <2> SUFFICES ASSUME DeliveryInvariant, NEW d \in Deliveries, status[d] = "SENT"
               PROVE  inbox[d] > 0
    BY DEF SentMeansReceived
  <2>1. inbox[d] = unsure[d] + 1
    BY DEF DeliveryInvariant, DeliverySafe, Delivered
  <2>2. unsure[d] \in Nat
    BY DEF DeliveryInvariant, TypeOK
  <2> QED BY <2>1, <2>2
<1> QED BY <1>1, DeliveryInvariantHolds, PTL

\* The recipient has at most one copy more than there were attempts that
\* reached it and looked like temporary failures.
THEOREM NoOtherDuplicates == Spec => []DuplicatesOnlyByAmbiguity
<1>1. DeliveryInvariant => DuplicatesOnlyByAmbiguity
  <2> SUFFICES ASSUME DeliveryInvariant, NEW d \in Deliveries
               PROVE  inbox[d] <= unsure[d] + 1
    BY DEF DuplicatesOnlyByAmbiguity
  <2>1. inbox[d] = unsure[d] + 1 \/ inbox[d] = unsure[d]
    BY DEF DeliveryInvariant, DeliverySafe, Delivered
  <2>2. unsure[d] \in Nat
    BY DEF DeliveryInvariant, TypeOK
  <2> QED BY <2>1, <2>2
<1> QED BY <1>1, DeliveryInvariantHolds, PTL
-----------------------------------------------------------------------------
(* Attempts are bounded                                                    *)

\* Whatever can still lead to attempts at a delivery is a token: the callback
\* to come, a message in the broker, a worker between taking a message and
\* acknowledging it.  Its last component says which of the MAX_RETRIES + 1
\* attempts of its chain are behind it.
CallbackTokens(d) == {<<"callback", 0, 0, 0>> : e \in publishing \cap {d}}

QueueTokens(d) ==
  UNION {{<<"queue", r, i, r>> : i \in 1..queue[d][r]} : r \in 0..MaxRetries}

Engaged(w, d) ==
  /\ worker[w].delivery = d
  /\ worker[w].pc \in {"loaded", "claimed", "sending", "answered", "deciding"}

Behind(w) == IF At(w, "loaded") THEN worker[w].retries ELSE worker[w].retries + 1

WorkerToken(w) == <<"worker", w, 0, Behind(w)>>

WorkerTokens(d) == {WorkerToken(w) : w \in {v \in Workers : Engaged(v, d)}}

Tokens(d) == CallbackTokens(d) \cup QueueTokens(d) \cup WorkerTokens(d)

\* n attempts are explained by k chains: each was made by one chain at one of
\* its retries, and every token drives a chain of its own, which has made none
\* of the attempts still before the token.
Explained(tokens, n, k) ==
  \E made \in SUBSET ((1..k) \X (0..MaxRetries)), chain \in [tokens -> 1..k] :
    /\ Cardinality(made) = n
    /\ \A t, u \in tokens : chain[t] = chain[u] => t = u
    /\ \A t \in tokens, j \in 0..MaxRetries :
         <<chain[t], j>> \in made => j < t[4]

\* Inductive: the attempts at a delivery are explained by as many chains as
\* messages were published, handed out again, or lost with their worker.
Accounted(d) ==
  /\ Explained(Tokens(d), attempts[d], 1 + copies + crashes)
  /\ (channel.exists /\ status[d] = "none") =>
       /\ Tokens(d) = {} /\ attempts[d] = 0
       /\ \A w \in Busy : worker[w].delivery # d

\* The attempts of k chains are finitely many, and bounded.
LEMMA ExplainedIsBounded ==
  ASSUME NEW tokens, NEW n, NEW k \in Nat, Explained(tokens, n, k)
  PROVE  n \in Nat /\ n <= (MaxRetries + 1) * k
<1>1. PICK made \in SUBSET ((1..k) \X (0..MaxRetries)) : Cardinality(made) = n
  BY DEF Explained
<1>2. MaxRetries \in Nat
  BY DeliveryAssumption DEF DeliveryAssumption
<1>3. IsFiniteSet(1..k) /\ Cardinality(1..k) = k
  BY FS_Interval
<1>4. IsFiniteSet(0..MaxRetries) /\ Cardinality(0..MaxRetries) = MaxRetries + 1
  BY <1>2, FS_Interval
<1>5. /\ IsFiniteSet((1..k) \X (0..MaxRetries))
      /\ Cardinality((1..k) \X (0..MaxRetries)) = k * (MaxRetries + 1)
  BY <1>3, <1>4, FS_Product
<1>6. IsFiniteSet(made) /\ Cardinality(made) <= k * (MaxRetries + 1)
  BY <1>1, <1>5, FS_Subset
<1>7. k * (MaxRetries + 1) = (MaxRetries + 1) * k
  BY <1>2
<1>8. Cardinality(made) \in Nat
  BY <1>6, FS_CardinalityType
<1> QED BY <1>1, <1>6, <1>7, <1>8

\* A token is gone.
LEMMA TokenGone ==
  ASSUME NEW tokens, NEW fewer \in SUBSET tokens, NEW n, NEW k \in Nat,
         Explained(tokens, n, k)
  PROVE  Explained(fewer, n, k)
<1>1. PICK made \in SUBSET ((1..k) \X (0..MaxRetries)), chain \in [tokens -> 1..k] :
        /\ Cardinality(made) = n
        /\ \A t, u \in tokens : chain[t] = chain[u] => t = u
        /\ \A t \in tokens, j \in 0..MaxRetries :
             <<chain[t], j>> \in made => j < t[4]
  BY DEF Explained
<1> DEFINE rest == [t \in fewer |-> chain[t]]
<1>2. rest \in [fewer -> 1..k] /\ \A t \in fewer : rest[t] = chain[t]
  OBVIOUS
<1> HIDE DEF rest
<1>3. /\ \A t, u \in fewer : rest[t] = rest[u] => t = u
      /\ \A t \in fewer, j \in 0..MaxRetries :
           <<rest[t], j>> \in made => j < t[4]
  BY <1>1, <1>2
<1> QED BY <1>1, <1>2, <1>3 DEF Explained

\* The chain of one token goes on with another that has no less behind it.
LEMMA TokenMoves ==
  ASSUME NEW tokens, NEW t \in tokens, NEW u, NEW n, NEW k \in Nat,
         NEW next \in SUBSET ((tokens \ {t}) \cup {u}),
         Explained(tokens, n, k),
         t[4] \in Nat, u[4] \in Nat, t[4] <= u[4]
  PROVE  Explained(next, n, k)
<1>1. PICK made \in SUBSET ((1..k) \X (0..MaxRetries)), chain \in [tokens -> 1..k] :
        /\ Cardinality(made) = n
        /\ \A x, y \in tokens : chain[x] = chain[y] => x = y
        /\ \A x \in tokens, j \in 0..MaxRetries :
             <<chain[x], j>> \in made => j < x[4]
  BY DEF Explained
<1> DEFINE heir == [x \in next |-> IF x = u THEN chain[t] ELSE chain[x]]
<1>2. /\ heir \in [next -> 1..k]
      /\ \A x \in next : x # u => heir[x] = chain[x] /\ x \in tokens \ {t}
      /\ u \in next => heir[u] = chain[t]
  OBVIOUS
<1> HIDE DEF heir
<1>3. \A x, y \in next : heir[x] = heir[y] => x = y
  BY <1>1, <1>2
<1>4. ASSUME NEW x \in next, NEW j \in 0..MaxRetries, <<heir[x], j>> \in made
      PROVE  j < x[4]
  <2>1. CASE x # u
    BY <1>1, <1>2, <1>4, <2>1
  <2>2. CASE x = u
    <3>1. j < t[4]
      BY <1>1, <1>2, <1>4, <2>2
    <3> QED BY <2>2, <3>1
  <2> QED BY <2>1, <2>2
<1> QED BY <1>1, <1>2, <1>3, <1>4 DEF Explained

\* A message handed out again, or put back, starts a chain of its own.
LEMMA TokenAppears ==
  ASSUME NEW tokens, NEW u, NEW n, NEW k \in Nat,
         NEW next \in SUBSET (tokens \cup {u}),
         Explained(tokens, n, k)
  PROVE  Explained(next, n, k + 1)
<1>1. PICK made \in SUBSET ((1..k) \X (0..MaxRetries)), chain \in [tokens -> 1..k] :
        /\ Cardinality(made) = n
        /\ \A x, y \in tokens : chain[x] = chain[y] => x = y
        /\ \A x \in tokens, j \in 0..MaxRetries :
             <<chain[x], j>> \in made => j < x[4]
  BY DEF Explained
<1> DEFINE more == [x \in next |-> IF x = u THEN k + 1 ELSE chain[x]]
<1>2. 1..k \subseteq 1..(k + 1) /\ k + 1 \in 1..(k + 1) /\ k + 1 \notin 1..k
  OBVIOUS
<1>3. /\ more \in [next -> 1..(k + 1)]
      /\ \A x \in next : x # u => more[x] = chain[x] /\ x \in tokens
      /\ u \in next => more[u] = k + 1
  BY <1>2
<1>4. made \in SUBSET ((1..(k + 1)) \X (0..MaxRetries))
  BY <1>1, <1>2
<1> HIDE DEF more
<1>5. \A x \in tokens : chain[x] \in 1..k
  OBVIOUS
<1>6. \A x, y \in next : more[x] = more[y] => x = y
  BY <1>1, <1>2, <1>3, <1>5
<1>7. \A j : <<k + 1, j>> \notin made
  BY <1>1, <1>2
<1>8. ASSUME NEW x \in next, NEW j \in 0..MaxRetries, <<more[x], j>> \in made
      PROVE  j < x[4]
  <2>1. CASE x # u
    BY <1>1, <1>3, <1>8, <2>1
  <2>2. CASE x = u
    BY <1>3, <1>7, <1>8, <2>2
  <2> QED BY <2>1, <2>2
<1> QED BY <1>1, <1>3, <1>4, <1>6, <1>8 DEF Explained

\* One more attempt, at the retry the token had before it.
LEMMA TokenSpends ==
  ASSUME NEW tokens, NEW t \in tokens, NEW u, NEW n, NEW k \in Nat,
         NEW next \in SUBSET ((tokens \ {t}) \cup {u}),
         Explained(tokens, n, k),
         t[4] \in 0..MaxRetries, u[4] = t[4] + 1
  PROVE  Explained(next, n + 1, k)
<1>1. PICK made \in SUBSET ((1..k) \X (0..MaxRetries)), chain \in [tokens -> 1..k] :
        /\ Cardinality(made) = n
        /\ \A x, y \in tokens : chain[x] = chain[y] => x = y
        /\ \A x \in tokens, j \in 0..MaxRetries :
             <<chain[x], j>> \in made => j < x[4]
  BY DEF Explained
<1> DEFINE heir == [x \in next |-> IF x = u THEN chain[t] ELSE chain[x]]
           more == made \cup {<<chain[t], t[4]>>}
<1>m. MaxRetries \in Nat
  BY DeliveryAssumption DEF DeliveryAssumption
<1>2. /\ heir \in [next -> 1..k]
      /\ \A x \in next : x # u => heir[x] = chain[x] /\ x \in tokens \ {t}
      /\ u \in next => heir[u] = chain[t]
  OBVIOUS
<1>3. more \in SUBSET ((1..k) \X (0..MaxRetries))
  OBVIOUS
<1>4. <<chain[t], t[4]>> \notin made
  BY <1>m, <1>1
<1>5. IsFiniteSet(made)
  <2>1. IsFiniteSet(1..k) /\ IsFiniteSet(0..MaxRetries)
    BY <1>m, FS_Interval
  <2>2. IsFiniteSet((1..k) \X (0..MaxRetries))
    BY <2>1, FS_Product
  <2> QED BY <1>1, <2>2, FS_Subset
<1>6. Cardinality(more) = n + 1
  BY <1>1, <1>4, <1>5, FS_AddElement
<1> HIDE DEF heir
<1>7. \A x, y \in next : heir[x] = heir[y] => x = y
  BY <1>1, <1>2
<1>8. ASSUME NEW x \in next, NEW j \in 0..MaxRetries, <<heir[x], j>> \in more
      PROVE  j < x[4]
  <2>1. CASE x # u
    <3>1. heir[x] = chain[x] /\ chain[x] # chain[t] /\ x \in tokens
      BY <1>1, <1>2, <2>1
    <3>2. <<heir[x], j>> \in made
      BY <1>8, <3>1
    <3> QED BY <1>1, <3>1, <3>2
  <2>2. CASE x = u
    <3>1. j < t[4] \/ j = t[4]
      BY <1>1, <1>2, <1>8, <2>2
    <3> QED BY <1>m, <2>2, <3>1
  <2> QED BY <2>1, <2>2
<1> HIDE DEF more
<1> QED BY <1>2, <1>3, <1>6, <1>7, <1>8 DEF Explained

\* The first message of a delivery.
LEMMA TokenStarts ==
  ASSUME NEW u, NEW tokens \in SUBSET {u}, NEW k \in Nat \ {0}
  PROVE  Explained(tokens, 0, k)
<1> DEFINE chain == [t \in tokens |-> 1]
<1>1. chain \in [tokens -> 1..k] /\ \A t, y \in tokens : t = y
  OBVIOUS
<1>2. Cardinality({}) = 0 /\ {} \in SUBSET ((1..k) \X (0..MaxRetries))
  BY FS_EmptySet
<1> HIDE DEF chain
<1> QED BY <1>1, <1>2 DEF Explained

\* With one chain there is one token.
LEMMA OneToken ==
  ASSUME NEW tokens, NEW n, Explained(tokens, n, 1)
  PROVE  \A t, u \in tokens : t = u
<1>1. PICK chain \in [tokens -> 1..1] :
        \A t, u \in tokens : chain[t] = chain[u] => t = u
  BY DEF Explained
<1>2. \A t \in tokens : chain[t] = 1
  OBVIOUS
<1> QED BY <1>1, <1>2
\* One message more in the broker is one token more.
LEMMA MoreQueued ==
  ASSUME TypeOK, NEW d \in Deliveries, NEW e \in Deliveries,
         NEW r \in 0..MaxRetries, queue' = Queued(e, r)
  PROVE  /\ QueueTokens(d)' \subseteq
              QueueTokens(d) \cup {<<"queue", r, queue[e][r] + 1, r>>}
         /\ d # e => QueueTokens(d)' = QueueTokens(d)
<1>1. queue \in [Deliveries -> [0..MaxRetries -> Nat]]
  BY DEF TypeOK
<1>2. d # e => queue'[d] = queue[d]
  BY <1>1 DEF Queued
<1>3. ASSUME d = e, NEW q \in 0..MaxRetries
      PROVE  1..queue'[d][q] \subseteq
               1..queue[d][q] \cup (IF q = r THEN {queue[d][r] + 1} ELSE {})
  <2>1. queue'[d][q] = IF q = r THEN queue[d][r] + 1 ELSE queue[d][q]
    BY <1>1, <1>3 DEF Queued
  <2>2. queue[d][q] \in Nat
    BY <1>1
  <2>3. CASE q = r
    <3>1. \A n \in Nat : 1..(n + 1) \subseteq 1..n \cup {n + 1}
      OBVIOUS
    <3> QED BY <2>1, <2>2, <2>3, <3>1
  <2>4. CASE q # r
    BY <2>1, <2>4
  <2> QED BY <2>3, <2>4
<1>4. d # e => QueueTokens(d)' = QueueTokens(d)
  BY <1>2 DEF QueueTokens
<1>5. ASSUME d = e, NEW t \in QueueTokens(d)'
      PROVE  t \in QueueTokens(d) \cup {<<"queue", r, queue[e][r] + 1, r>>}
  <2>1. PICK q \in 0..MaxRetries :
          t \in {<<"queue", q, i, q>> : i \in 1..queue'[d][q]}
    BY <1>5 DEF QueueTokens
  <2>2. PICK i \in 1..queue'[d][q] : t = <<"queue", q, i, q>>
    BY <2>1
  <2>3. i \in 1..queue[d][q] \/ (q = r /\ i = queue[d][r] + 1)
    BY <1>3, <1>5, <2>2
  <2> QED BY <1>5, <2>2, <2>3 DEF QueueTokens
<1> QED BY <1>4, <1>5

\* and one taken out is one token less.
LEMMA LessQueued ==
  ASSUME TypeOK, NEW d \in Deliveries, NEW e \in Deliveries,
         NEW r \in 0..MaxRetries, queue[e][r] > 0,
         queue' = [queue EXCEPT ![e][r] = @ - 1]
  PROVE  /\ d # e => QueueTokens(d)' = QueueTokens(d)
         /\ QueueTokens(e)' \subseteq QueueTokens(e) \ {<<"queue", r, queue[e][r], r>>}
         /\ <<"queue", r, queue[e][r], r>> \in QueueTokens(e)
<1>1. queue \in [Deliveries -> [0..MaxRetries -> Nat]]
  BY DEF TypeOK
<1>2. d # e => queue'[d] = queue[d]
  BY <1>1
<1>3. d # e => QueueTokens(d)' = QueueTokens(d)
  BY <1>2 DEF QueueTokens
<1>4. queue[e][r] \in Nat
  BY <1>1
<1>5. queue[e][r] \in 1..queue[e][r]
  BY <1>4
<1>6. <<"queue", r, queue[e][r], r>> \in QueueTokens(e)
  BY <1>5 DEF QueueTokens
<1>7. ASSUME NEW t \in QueueTokens(e)'
      PROVE  t \in QueueTokens(e) \ {<<"queue", r, queue[e][r], r>>}
  <2>1. PICK q \in 0..MaxRetries :
          t \in {<<"queue", q, i, q>> : i \in 1..queue'[e][q]}
    BY <1>7 DEF QueueTokens
  <2>2. PICK i \in 1..queue'[e][q] : t = <<"queue", q, i, q>>
    BY <2>1
  <2>3. queue'[e][q] = IF q = r THEN queue[e][r] - 1 ELSE queue[e][q]
    BY <1>1
  <2>4. i \in 1..queue[e][q] /\ ~(q = r /\ i = queue[e][r])
    <3>1. CASE q = r
      BY <1>4, <2>2, <2>3, <3>1
    <3>2. CASE q # r
      BY <2>2, <2>3, <3>2
    <3> QED BY <3>1, <3>2
  <2>5. t \in QueueTokens(e)
    BY <2>2, <2>4 DEF QueueTokens
  <2> QED BY <2>2, <2>4, <2>5
<1> QED BY <1>3, <1>6, <1>7

\* When one worker moves, the tokens of the others stay.
LEMMA OthersStay ==
  ASSUME NEW w \in Workers, NEW d,
         \A v \in Workers \ {w} : worker'[v] = worker[v]
  PROVE  /\ WorkerTokens(d)' \subseteq
              (WorkerTokens(d) \ {WorkerToken(w)}) \cup {WorkerToken(w)'}
         /\ ~Engaged(w, d)' =>
              WorkerTokens(d)' \subseteq WorkerTokens(d) \ {WorkerToken(w)}
<1>1. ASSUME NEW t \in WorkerTokens(d)'
      PROVE  \/ t \in WorkerTokens(d) \ {WorkerToken(w)}
             \/ t = WorkerToken(w)' /\ Engaged(w, d)'
  <2>1. PICK v \in Workers : Engaged(v, d)' /\ t = WorkerToken(v)'
    BY <1>1 DEF WorkerTokens
  <2>2. CASE v # w
    <3>1. worker'[v] = worker[v]
      BY <2>2
    <3>2. Engaged(v, d) /\ t = WorkerToken(v)
      BY <2>1, <3>1 DEF Engaged, WorkerToken, Behind, At
    <3>3. WorkerToken(v) # WorkerToken(w)
      BY <2>2 DEF WorkerToken
    <3> QED BY <3>2, <3>3 DEF WorkerTokens
  <2>3. CASE v = w
    BY <2>1, <2>3
  <2> QED BY <2>2, <2>3
<1> QED BY <1>1

\* A worker at work on a delivery has its token among those of the delivery.
LEMMA EngagedHasToken ==
  ASSUME TypeOK, NEW w \in Workers, NEW d, Engaged(w, d)
  PROVE  /\ WorkerToken(w) \in Tokens(d)
         /\ WorkerToken(w)[4] \in Nat
         /\ At(w, "loaded") => WorkerToken(w)[4] = worker[w].retries
         /\ ~At(w, "loaded") => WorkerToken(w)[4] = worker[w].retries + 1
         /\ w \in Busy
<1>1. MaxRetries \in Nat
  BY DeliveryAssumption DEF DeliveryAssumption
<1>2. worker[w].retries \in 0..MaxRetries
  BY DEF TypeOK, WorkerState
<1>3. WorkerToken(w) \in Tokens(d)
  BY DEF Tokens, WorkerTokens
<1>4. w \in Busy
  BY DEF Engaged, Busy
<1>5. WorkerToken(w)[4] = Behind(w)
  BY DEF WorkerToken
<1> QED BY <1>1, <1>2, <1>3, <1>4, <1>5 DEF Behind

\* A delivery to which nothing is added stays accounted for.
LEMMA NothingAdded ==
  ASSUME TypeOK, NEW d \in Deliveries, Accounted(d),
         Tokens(d)' \subseteq Tokens(d),
         UNCHANGED <<copies, crashes>>, attempts'[d] = attempts[d],
         (channel'.exists /\ status'[d] = "none") =>
           /\ channel.exists /\ status[d] = "none"
           /\ (\A w \in Busy : worker[w].delivery # d) =>
                \A w \in Busy' : worker'[w].delivery # d
  PROVE  Accounted(d)'
<1>1. 1 + copies + crashes \in Nat
  BY DEF TypeOK
<1>2. Explained(Tokens(d)', attempts[d], 1 + copies + crashes)
  BY <1>1, TokenGone DEF Accounted
<1>3. Explained(Tokens(d), attempts[d], 1 + copies + crashes)'
  BY <1>2
<1>4. (channel.exists /\ status[d] = "none")' =>
       (/\ Tokens(d) = {} /\ attempts[d] = 0
        /\ \A w \in Busy : worker[w].delivery # d)'
  BY DEF Accounted
<1> QED BY <1>3, <1>4 DEF Accounted

\* A message handed out again, or a process that dies.
BadLuck == \/ copies' = copies + 1 /\ crashes' = crashes
           \/ copies' = copies /\ crashes' = crashes + 1

\* Nor does one more message matter that is handed out again, or put back.
LEMMA OneAddedByBadLuck ==
  ASSUME TypeOK, TypeOK', NEW d \in Deliveries, NEW u, Accounted(d),
         Tokens(d)' \subseteq Tokens(d) \cup {u},
         BadLuck,
         attempts'[d] = attempts[d],
         (channel'.exists /\ status'[d] = "none") =>
           /\ channel.exists /\ status[d] = "none"
           /\ (\A w \in Busy : worker[w].delivery # d) =>
                /\ \A w \in Busy' : worker'[w].delivery # d
                /\ Tokens(d)' \subseteq Tokens(d)
  PROVE  Accounted(d)'
<1>1. copies \in Nat /\ crashes \in Nat
  BY DEF TypeOK
<1>2. 1 + copies + crashes \in Nat /\ 1 + copies' + crashes' = (1 + copies + crashes) + 1
  <2>1. BadLuck
    OBVIOUS
  <2>2. CASE copies' = copies + 1 /\ crashes' = crashes
    BY ONLY <1>1, <2>2
  <2>3. CASE copies' = copies /\ crashes' = crashes + 1
    BY ONLY <1>1, <2>3
  <2> QED BY ONLY <2>1, <2>2, <2>3 DEF BadLuck
<1>3. Explained(Tokens(d), attempts[d], 1 + copies + crashes)
  BY DEF Accounted
<1>4. Explained(Tokens(d)', attempts[d], (1 + copies + crashes) + 1)
  BY <1>2, <1>3, TokenAppears
<1>5. Explained(Tokens(d), attempts[d], 1 + copies + crashes)'
  BY <1>2, <1>4
<1>6. (channel.exists /\ status[d] = "none")' =>
       (/\ Tokens(d) = {} /\ attempts[d] = 0
        /\ \A w \in Busy : worker[w].delivery # d)'
  BY DEF Accounted
<1> QED BY <1>5, <1>6 DEF Accounted

\* The chain of one token goes on.
LEMMA ChainGoesOn ==
  ASSUME TypeOK, NEW d \in Deliveries, NEW t \in Tokens(d), NEW u, Accounted(d),
         Tokens(d)' \subseteq (Tokens(d) \ {t}) \cup {u},
         t[4] \in Nat, u[4] \in Nat, t[4] <= u[4],
         UNCHANGED <<copies, crashes>>, attempts'[d] = attempts[d],
         channel'.exists => channel.exists,
         status'[d] = "none" => status[d] = "none"
  PROVE  Accounted(d)'
<1>1. 1 + copies + crashes \in Nat
  BY DEF TypeOK
<1>2. Explained(Tokens(d)', attempts[d], 1 + copies + crashes)
  BY <1>1, TokenMoves DEF Accounted
<1>3. Explained(Tokens(d), attempts[d], 1 + copies + crashes)'
  BY <1>2
<1>4. ~(channel'.exists /\ status'[d] = "none")
  BY DEF Accounted
<1> QED BY <1>3, <1>4 DEF Accounted
\* The steps of a worker on its own token, and their tokens.
LEMMA WorkerAccounted ==
  ASSUME TypeOK, TypeOK', NEW w \in Workers, Execute(w), NEW d \in Deliveries,
         Accounted(d)
  PROVE  Accounted(d)'
<1> DEFINE e == worker[w].delivery
           r == worker[w].retries
<1>t. /\ worker[w] \in WorkerState /\ worker \in [Workers -> WorkerState]
      /\ e \in Deliveries /\ r \in 0..MaxRetries
      /\ MaxRetries \in Nat
      /\ status \in [Deliveries -> Status]
      /\ attempts \in [Deliveries -> Nat]
  BY DeliveryAssumption DEF TypeOK, WorkerState, DeliveryAssumption
<1>o. /\ \A v \in Workers \ {w} : worker'[v] = worker[v]
      /\ UNCHANGED <<publishing, copies, crashes, channel>>
  BY <1>t DEF Execute, Take, Ack, Claim, NotClaimed, ProviderRaises, ReadChannel,
              Send, Record, Retry, GiveUp, GoTo
<1>c. CallbackTokens(d)' = CallbackTokens(d)
  BY <1>o DEF CallbackTokens
\* steps after which there is nothing that was not there before
<1>1. CASE Ack(w) \/ NotClaimed(w) \/ ProviderRaises(w) \/ GiveUp(w)
             \/ ReadChannel(w) \/ Send(w) \/ Record(w)
  <2>1. UNCHANGED <<queue, attempts>>
    BY <1>1 DEF Ack, NotClaimed, ProviderRaises, GiveUp, ReadChannel, Send, Record
  <2>2. QueueTokens(d)' = QueueTokens(d)
    BY <2>1 DEF QueueTokens
  <2>3. /\ worker'[w].pc \in {"idle", "acking"}
           \/ /\ worker[w].pc \in {"claimed", "sending", "answered"}
              /\ worker'[w].pc \in {"sending", "answered", "deciding"}
              /\ worker'[w].delivery = e /\ worker'[w].retries = r
        /\ worker'[w].delivery = e \/ worker'[w].pc = "idle"
        /\ worker[w].pc # "idle"
    <3>1. CASE Ack(w)
      BY <1>t, <3>1 DEF Ack, At, IdleWorker
    <3>2. CASE NotClaimed(w) \/ ProviderRaises(w) \/ GiveUp(w)
      BY <1>t, <3>2 DEF NotClaimed, ProviderRaises, GiveUp, At, GoTo, WorkerState
    <3>3. CASE ReadChannel(w)
      BY <1>t, <3>3 DEF ReadChannel, At, WorkerState
    <3>4. CASE Send(w)
      <4>1. PICK result \in Outcome :
              worker' = [worker EXCEPT ![w] =
                           [@ EXCEPT !.pc = "answered", !.outcome = result]]
        BY <3>4 DEF Send
      <4>2. worker[w].pc = "sending"
        BY <3>4 DEF Send, At
      <4> QED BY <1>t, <4>1, <4>2 DEF WorkerState
    <3>5. CASE Record(w)
      BY <1>t, <3>5 DEF Record, At, GoTo, WorkerState
    <3> QED BY <1>1, <3>1, <3>2, <3>3, <3>4, <3>5
  <2>4. WorkerTokens(d)' \subseteq WorkerTokens(d)
    <3>1. CASE ~Engaged(w, d)'
      BY <1>o, <3>1, OthersStay
    <3>2. CASE Engaged(w, d)'
      <4>1. /\ worker[w].pc \in {"claimed", "sending", "answered"}
            /\ worker'[w].pc \in {"sending", "answered", "deciding"}
            /\ worker'[w].delivery = e /\ worker'[w].retries = r
            /\ d = e
        BY <2>3, <3>2 DEF Engaged
      <4>2. WorkerToken(w)' = WorkerToken(w) /\ Engaged(w, d)
        BY <4>1 DEF WorkerToken, Behind, At, Engaged
      <4>3. WorkerToken(w) \in WorkerTokens(d)
        BY <4>2 DEF WorkerTokens
      <4> QED BY <1>o, <4>2, <4>3, OthersStay
    <3> QED BY <3>1, <3>2
  <2>5. Tokens(d)' \subseteq Tokens(d)
    BY <1>c, <2>2, <2>4 DEF Tokens
  <2>6. status'[d] = "none" => status[d] = "none"
    <3>1. CASE Record(w)
      <4>1. StatusAfter(worker[w].outcome) # "none"
        BY <1>t DEF WorkerState, Outcome, StatusAfter
      <4> QED BY <1>t, <3>1, <4>1 DEF Record
    <3>2. CASE GiveUp(w)
      BY <1>t, <3>2 DEF GiveUp
    <3>3. CASE ~Record(w) /\ ~GiveUp(w)
      BY <1>1, <3>3 DEF Ack, NotClaimed, ProviderRaises, ReadChannel, Send
    <3> QED BY <3>1, <3>2, <3>3
  <2>7. (\A v \in Busy : worker[v].delivery # d) =>
          \A v \in Busy' : worker'[v].delivery # d
    BY <1>o, <2>3 DEF Busy
  <2> QED BY <1>o, <2>1, <2>5, <2>6, <2>7, NothingAdded
<1>2. ASSUME NEW f \in Deliveries, NEW q \in 0..MaxRetries, Take(w, f, q)
      PROVE  Accounted(d)'
  <2> DEFINE t == <<"queue", q, queue[f][q], q>>
             u == <<"worker", w, 0, q>>
  <2>1. /\ worker[w].pc = "idle" /\ queue[f][q] > 0
        /\ queue' = [queue EXCEPT ![f][q] = @ - 1]
        /\ UNCHANGED <<status, attempts>>
    BY <1>2 DEF Take, At
  <2>2. /\ worker'[w].pc \in {"acking", "loaded"}
        /\ worker'[w].delivery = f /\ worker'[w].retries = q
    BY <1>2, <1>t DEF Take, WorkerState
  <2>3. CASE d = f
    <3>1. /\ QueueTokens(d)' \subseteq QueueTokens(d) \ {t}
          /\ t \in QueueTokens(d)
      BY <2>1, <2>3, LessQueued
    <3>2. WorkerTokens(d)' \subseteq WorkerTokens(d) \cup {u}
      <4>1. CASE ~Engaged(w, d)'
        BY <1>o, <4>1, OthersStay
      <4>2. CASE Engaged(w, d)'
        <5>1. WorkerToken(w)' = u
          BY <2>2, <4>2 DEF WorkerToken, Behind, At, Engaged
        <5> QED BY <1>o, <5>1, OthersStay
      <4> QED BY <4>1, <4>2
    <3>3. t \notin WorkerTokens(d) /\ t \notin CallbackTokens(d)
      BY DEF WorkerTokens, WorkerToken, CallbackTokens
    <3>4. Tokens(d)' \subseteq (Tokens(d) \ {t}) \cup {u} /\ t \in Tokens(d)
      BY <1>c, <3>1, <3>2, <3>3 DEF Tokens
    <3>5. t[4] = q /\ u[4] = q /\ q \in Nat /\ q <= q
      BY <1>t
    <3> HIDE DEF t, u
    <3> QED BY <1>o, <2>1, <3>4, <3>5, ChainGoesOn
  <2>4. CASE d # f
    <3>1. QueueTokens(d)' = QueueTokens(d)
      BY <2>1, <2>4, LessQueued
    <3>2. WorkerTokens(d)' \subseteq WorkerTokens(d)
      BY <1>o, <2>2, <2>4, OthersStay DEF Engaged
    <3>3. Tokens(d)' \subseteq Tokens(d)
      BY <1>c, <3>1, <3>2 DEF Tokens
    <3>4. (\A v \in Busy : worker[v].delivery # d) =>
            \A v \in Busy' : worker'[v].delivery # d
      BY <1>o, <2>2, <2>4 DEF Busy
    <3> QED BY <1>o, <2>1, <3>3, <3>4, NothingAdded
  <2> QED BY <2>3, <2>4
<1>3. CASE Claim(w)
  <2>1. /\ worker[w].pc = "loaded" /\ status[e] = "PENDING"
        /\ UNCHANGED queue
        /\ status' = [status EXCEPT ![e] = "SENDING"]
        /\ attempts' = [attempts EXCEPT ![e] = @ + 1]
    BY <1>3 DEF Claim, At, Claimable
  <2>2. /\ worker'[w].pc = "claimed" /\ worker'[w].delivery = e
        /\ worker'[w].retries = r
    BY <1>3, <1>t DEF Claim, GoTo, WorkerState
  <2>3. QueueTokens(d)' = QueueTokens(d)
    BY <2>1 DEF QueueTokens
  <2>4. CASE d = e
    <3>1. Engaged(w, d) /\ At(w, "loaded")
      BY <2>1, <2>4 DEF Engaged, At
    <3>2. /\ WorkerToken(w) \in Tokens(d)
          /\ WorkerToken(w)[4] = r
      BY <3>1, EngagedHasToken
    <3>3. WorkerToken(w)'[4] = r + 1
      BY <2>2 DEF WorkerToken, Behind, At
    <3>4. /\ WorkerTokens(d)' \subseteq
               (WorkerTokens(d) \ {WorkerToken(w)}) \cup {WorkerToken(w)'}
          /\ WorkerToken(w) \notin QueueTokens(d)
          /\ WorkerToken(w) \notin CallbackTokens(d)
      BY <1>o, OthersStay DEF WorkerToken, QueueTokens, CallbackTokens
    <3>5. Tokens(d)' \subseteq (Tokens(d) \ {WorkerToken(w)}) \cup {WorkerToken(w)'}
      BY <1>c, <2>3, <3>4 DEF Tokens
    <3>6. 1 + copies + crashes \in Nat
      BY DEF TypeOK
    <3>7. Explained(Tokens(d), attempts[d], 1 + copies + crashes)
      BY DEF Accounted
    <3>8. PICK t : t = WorkerToken(w)
      OBVIOUS
    <3>9. PICK u : u = WorkerToken(w)'
      OBVIOUS
    <3>10. Explained(Tokens(d)', attempts[d] + 1, 1 + copies + crashes)
      BY <1>t, <3>2, <3>3, <3>5, <3>6, <3>7, <3>8, <3>9, TokenSpends
    <3>11. attempts'[d] = attempts[d] + 1 /\ status'[d] = "SENDING"
      BY <1>t, <2>1, <2>4
    <3>12. Explained(Tokens(d), attempts[d], 1 + copies + crashes)'
      BY <1>o, <3>10, <3>11
    <3> QED BY <3>11, <3>12 DEF Accounted
  <2>5. CASE d # e
    <3>1. attempts'[d] = attempts[d] /\ status'[d] = status[d]
      BY <1>t, <2>1, <2>5
    <3>2. WorkerTokens(d)' \subseteq WorkerTokens(d)
      BY <1>o, <2>2, <2>5, OthersStay DEF Engaged
    <3>3. Tokens(d)' \subseteq Tokens(d)
      BY <1>c, <2>3, <3>2 DEF Tokens
    <3>4. (\A v \in Busy : worker[v].delivery # d) =>
            \A v \in Busy' : worker'[v].delivery # d
      BY <1>o, <2>2, <2>5 DEF Busy
    <3> QED BY <1>o, <3>1, <3>3, <3>4, NothingAdded
  <2> QED BY <2>4, <2>5
<1>4. CASE Retry(w)
  <2> DEFINE u == <<"queue", r + 1, queue[e][r + 1] + 1, r + 1>>
  <2>1. /\ worker[w].pc = "deciding" /\ r + 1 \in 0..MaxRetries
        /\ queue' = Queued(e, r + 1)
        /\ UNCHANGED <<status, attempts>>
    BY <1>4, <1>t DEF Retry, At
  <2>2. worker'[w].pc = "acking" /\ worker'[w].delivery = e
    BY <1>4, <1>t DEF Retry, GoTo, WorkerState
  <2>3. WorkerTokens(d)' \subseteq WorkerTokens(d) \ {WorkerToken(w)}
    BY <1>o, <2>2, OthersStay DEF Engaged
  <2>4. /\ QueueTokens(d)' \subseteq QueueTokens(d) \cup {u}
        /\ d # e => QueueTokens(d)' = QueueTokens(d)
    BY <1>t, <2>1, MoreQueued
  <2>5. CASE d = e
    <3>1. Engaged(w, d) /\ ~At(w, "loaded")
      BY <2>1, <2>5 DEF Engaged, At
    <3>2. /\ WorkerToken(w) \in Tokens(d)
          /\ WorkerToken(w)[4] = r + 1
      BY <3>1, EngagedHasToken
    <3>3. /\ WorkerToken(w) \notin QueueTokens(d)
          /\ WorkerToken(w) \notin CallbackTokens(d)
      BY DEF WorkerToken, QueueTokens, CallbackTokens
    <3>4. Tokens(d)' \subseteq (Tokens(d) \ {WorkerToken(w)}) \cup {u}
      BY <1>c, <2>3, <2>4, <3>3 DEF Tokens
    <3>5. u[4] = r + 1 /\ r + 1 \in Nat /\ r + 1 <= r + 1
      BY <1>t
    <3> HIDE DEF u
    <3> QED BY <1>o, <2>1, <3>2, <3>4, <3>5, ChainGoesOn
  <2>6. CASE d # e
    <3>1. Tokens(d)' \subseteq Tokens(d)
      BY <1>c, <2>3, <2>4, <2>6 DEF Tokens
    <3>2. (\A v \in Busy : worker[v].delivery # d) =>
            \A v \in Busy' : worker'[v].delivery # d
      BY <1>o, <2>2, <2>6 DEF Busy
    <3> QED BY <1>o, <2>1, <3>1, <3>2, NothingAdded
  <2> QED BY <2>5, <2>6
<1> QED BY <1>1, <1>2, <1>3, <1>4 DEF Execute

\* The steps of the transactions and of the broker.
LEMMA BrokerAccounted ==
  ASSUME TypeOK, TypeOK', NEW d \in Deliveries, Accounted(d),
         \/ \E e \in Deliveries : Enqueue(e) \/ Publish(e) \/ LosePublish(e)
         \/ \E w \in Workers : Redeliver(w) \/ Crash(w)
  PROVE  Accounted(d)'
<1>a. MaxRetries \in Nat
  BY DeliveryAssumption DEF DeliveryAssumption
<1>b. copies \in Nat /\ crashes \in Nat
  BY DEF TypeOK
<1>t. /\ worker \in [Workers -> WorkerState]
      /\ status \in [Deliveries -> Status]
      /\ MaxRetries \in Nat
      /\ copies \in Nat /\ crashes \in Nat
  BY <1>a, <1>b DEF TypeOK
<1>1. ASSUME NEW e \in Deliveries, Enqueue(e) PROVE Accounted(d)'
  <2>1. /\ channel.exists /\ status[e] = "none"
        /\ status' = [status EXCEPT ![e] = "PENDING"]
        /\ publishing' = publishing \cup {e}
        /\ UNCHANGED <<channel, attempts, queue, worker, copies, crashes>>
    BY <1>1 DEF Enqueue
  <2>2. QueueTokens(d)' = QueueTokens(d) /\ WorkerTokens(d)' = WorkerTokens(d)
    BY <2>1 DEF QueueTokens, WorkerTokens, WorkerToken, Behind, Engaged, At
  <2>3. CASE d = e
    <3>1. Tokens(d) = {} /\ attempts[d] = 0
      BY <2>1, <2>3 DEF Accounted
    <3>2. Tokens(d)' \in SUBSET {<<"callback", 0, 0, 0>>}
      BY <2>2, <3>1 DEF Tokens, CallbackTokens
    <3>3. 1 + copies + crashes \in Nat \ {0}
      BY <1>t
    <3>4. Explained(Tokens(d)', 0, 1 + copies + crashes)
      BY <3>2, <3>3, TokenStarts
    <3>5. Explained(Tokens(d), attempts[d], 1 + copies + crashes)'
      BY <2>1, <3>1, <3>4
    <3>6. status'[d] = "PENDING"
      BY <1>t, <2>1, <2>3
    <3> QED BY <3>5, <3>6 DEF Accounted
  <2>4. CASE d # e
    <3>1. status'[d] = status[d]
      BY <1>t, <2>1, <2>4
    <3>2. CallbackTokens(d)' = CallbackTokens(d)
      BY <2>1, <2>4 DEF CallbackTokens
    <3>3. Tokens(d)' \subseteq Tokens(d)
      BY <2>2, <3>2 DEF Tokens
    <3>4. Busy' = Busy
      BY <2>1 DEF Busy
    <3> QED BY <2>1, <3>1, <3>3, <3>4, NothingAdded
  <2> QED BY <2>3, <2>4
<1>2. ASSUME NEW e \in Deliveries, Publish(e) PROVE Accounted(d)'
  <2> DEFINE t == <<"callback", 0, 0, 0>>
             u == <<"queue", 0, queue[e][0] + 1, 0>>
  <2>1. /\ e \in publishing /\ publishing' = publishing \ {e}
        /\ queue' = Queued(e, 0)
        /\ UNCHANGED <<channel, status, attempts, worker, copies, crashes>>
    BY <1>2 DEF Publish
  <2>2. 0 \in 0..MaxRetries
    BY <1>t
  <2>3. /\ QueueTokens(d)' \subseteq QueueTokens(d) \cup {u}
        /\ d # e => QueueTokens(d)' = QueueTokens(d)
    BY <2>1, <2>2, MoreQueued
  <2>4. WorkerTokens(d)' = WorkerTokens(d)
    BY <2>1 DEF WorkerTokens, WorkerToken, Behind, Engaged, At
  <2>5. CASE d = e
    <3>1. CallbackTokens(d)' = {} /\ t \in CallbackTokens(d)
      BY <2>1, <2>5 DEF CallbackTokens
    <3>2. t \notin WorkerTokens(d) /\ t \notin QueueTokens(d)
      BY DEF WorkerTokens, WorkerToken, QueueTokens
    <3>3. Tokens(d)' \subseteq (Tokens(d) \ {t}) \cup {u} /\ t \in Tokens(d)
      BY <2>3, <2>4, <3>1, <3>2 DEF Tokens
    <3>4. t[4] = 0 /\ u[4] = 0 /\ 0 \in Nat /\ 0 <= 0
      OBVIOUS
    <3> HIDE DEF t, u
    <3> QED BY <2>1, <3>3, <3>4, ChainGoesOn
  <2>6. CASE d # e
    <3>1. CallbackTokens(d)' = CallbackTokens(d)
      BY <2>1, <2>6 DEF CallbackTokens
    <3>2. Tokens(d)' \subseteq Tokens(d)
      BY <2>3, <2>4, <2>6, <3>1 DEF Tokens
    <3>3. Busy' = Busy
      BY <2>1 DEF Busy
    <3> QED BY <2>1, <3>2, <3>3, NothingAdded
  <2> QED BY <2>5, <2>6
<1>3. ASSUME NEW e \in Deliveries, LosePublish(e) PROVE Accounted(d)'
  <2>1. /\ publishing' = publishing \ {e}
        /\ crashes' = crashes + 1
        /\ UNCHANGED <<channel, status, attempts, queue, worker, copies>>
    BY <1>3 DEF LosePublish
  <2>2. QueueTokens(d)' = QueueTokens(d) /\ WorkerTokens(d)' = WorkerTokens(d)
    BY <2>1 DEF QueueTokens, WorkerTokens, WorkerToken, Behind, Engaged, At
  <2>3. CallbackTokens(d)' \subseteq CallbackTokens(d)
    BY <2>1 DEF CallbackTokens
  <2>4. Tokens(d)' \subseteq Tokens(d)
    BY <2>2, <2>3 DEF Tokens
  <2>5. BadLuck
    BY <2>1 DEF BadLuck
  <2>6. Busy' = Busy
    BY <2>1 DEF Busy
  <2>7. \A u : Tokens(d)' \subseteq Tokens(d) \cup {u}
    BY <2>4
  <2> QED BY <2>1, <2>4, <2>5, <2>6, <2>7, OneAddedByBadLuck
<1>4. ASSUME NEW w \in Workers, Redeliver(w) \/ Crash(w) PROVE Accounted(d)'
  <2> DEFINE e == worker[w].delivery
             r == worker[w].retries
             u == <<"queue", r, queue[e][r] + 1, r>>
  <2>1. /\ w \in Busy /\ queue' \in {queue, Queued(e, r)}
        /\ UNCHANGED <<channel, status, attempts, publishing>>
        /\ BadLuck
    BY <1>4, <1>t DEF Redeliver, Crash, BadLuck
  <2>2. e \in Deliveries /\ r \in 0..MaxRetries
    BY <1>t DEF WorkerState
  <2>3. /\ QueueTokens(d)' \subseteq QueueTokens(d) \cup {u}
        /\ d # e => QueueTokens(d)' = QueueTokens(d)
    <3>1. CASE queue' = queue
      BY <3>1 DEF QueueTokens
    <3>2. CASE queue' = Queued(e, r)
      BY <2>2, <3>2, MoreQueued
    <3> QED BY <2>1, <3>1, <3>2
  <2>4. CallbackTokens(d)' = CallbackTokens(d)
    BY <2>1 DEF CallbackTokens
  <2>5. /\ WorkerTokens(d)' \subseteq WorkerTokens(d)
        /\ (\A v \in Busy : worker[v].delivery # d) =>
             \A v \in Busy' : worker'[v].delivery # d
    <3>1. CASE Redeliver(w)
      <4>1. worker' = worker
        BY <3>1 DEF Redeliver
      <4> QED BY <4>1 DEF WorkerTokens, WorkerToken, Behind, Engaged, At, Busy
    <3>2. CASE Crash(w)
      <4>1. /\ worker'[w].pc = "idle"
            /\ \A v \in Workers \ {w} : worker'[v] = worker[v]
        BY <1>t, <3>2 DEF Crash, IdleWorker
      <4>2. ~Engaged(w, d)'
        BY <4>1 DEF Engaged
      <4> QED BY <4>1, <4>2, OthersStay DEF Busy
    <3> QED BY <1>4, <3>1, <3>2
  <2>6. /\ Tokens(d)' \subseteq Tokens(d) \cup {u}
        /\ d # e => Tokens(d)' \subseteq Tokens(d)
    BY <2>3, <2>4, <2>5 DEF Tokens
  <2>7. (\A v \in Busy : worker[v].delivery # d) => d # e
    BY <2>1
  <2> HIDE DEF u
  <2> QED BY <2>1, <2>5, <2>6, <2>7, OneAddedByBadLuck
<1> QED BY <1>1, <1>2, <1>3, <1>4
\* Nothing is to be explained at first
LEMMA AccountedInit == Init => \A d \in Deliveries : Accounted(d)
<1> SUFFICES ASSUME Init, NEW d \in Deliveries PROVE Accounted(d)
  OBVIOUS
<1>1. CallbackTokens(d) = {} /\ WorkerTokens(d) = {}
  BY DEF Init, CallbackTokens, WorkerTokens, Engaged, IdleWorker
<1>2. QueueTokens(d) = {}
  <2>1. \A r \in 0..MaxRetries : 1..queue[d][r] = {}
    BY DEF Init
  <2> QED BY <2>1 DEF QueueTokens
<1>3. Tokens(d) = {} /\ attempts[d] = 0
  BY <1>1, <1>2 DEF Tokens, Init
<1>4. 1 + copies + crashes = 1
  BY DEF Init
<1>5. Explained({}, 0, 1)
  BY TokenStarts
<1>6. \A w \in Busy : worker[w].delivery # d
  BY DEF Init, Busy, IdleWorker
<1> QED BY <1>3, <1>4, <1>5, <1>6 DEF Accounted

\* and every step keeps the account of every delivery.
LEMMA AccountedNext ==
  ASSUME TypeOK, [Next]_vars, NEW d \in Deliveries, Accounted(d)
  PROVE  Accounted(d)'
<1>t. TypeOK'
  BY TypeNext
<1>1. CASE UpdateConfig \/ ToggleActive \/ VerifyChannel \/ DeleteChannel
           \/ UNCHANGED vars
  <2>1. UNCHANGED <<attempts, publishing, queue, worker, copies, crashes>>
    BY <1>1 DEF UpdateConfig, ToggleActive, VerifyChannel, DeleteChannel, Edit, vars
  <2>2. (channel'.exists /\ status'[d] = "none") =>
          channel.exists /\ status[d] = "none"
    <3>1. CASE UpdateConfig \/ ToggleActive \/ VerifyChannel
      BY <3>1 DEF UpdateConfig, ToggleActive, VerifyChannel, Edit
    <3>2. CASE DeleteChannel
      BY <3>2 DEF DeleteChannel, Edit, TypeOK, ChannelRow
    <3> QED BY <1>1, <3>1, <3>2 DEF vars
  <2>3. Tokens(d)' \subseteq Tokens(d) /\ Busy' = Busy
    BY <2>1 DEF Tokens, CallbackTokens, QueueTokens, WorkerTokens, WorkerToken,
                Behind, Engaged, At, Busy
  <2> QED BY <2>1, <2>2, <2>3, NothingAdded
<1> QED BY <1>t, <1>1, WorkerAccounted, BrokerAccounted DEF Next

\* Every attempt belongs to a chain that a publication, a message handed out
\* twice or a crash started.
LEMMA AllAccounted == Spec => [](TypeOK /\ \A d \in Deliveries : Accounted(d))
<1> DEFINE Inv == TypeOK /\ \A d \in Deliveries : Accounted(d)
<1>1. Init => Inv
  BY TypeInit, AccountedInit
<1>2. Inv /\ [Next]_vars => Inv'
  BY TypeNext, AccountedNext
<1> QED BY <1>1, <1>2, PTL DEF Spec

\* MAX_RETRIES (tasks.py:24-26) bounds the attempts at one delivery, message
\* by message, whatever the numbers of workers, redeliveries and crashes.
THEOREM AttemptsAreBounded == Spec => []AttemptsBounded
<1>1. TypeOK /\ (\A d \in Deliveries : Accounted(d)) => AttemptsBounded
  <2> SUFFICES ASSUME TypeOK, NEW d \in Deliveries, Accounted(d)
               PROVE  attempts[d] <= (MaxRetries + 1) * (1 + copies + crashes)
    BY DEF AttemptsBounded
  <2>1. 1 + copies + crashes \in Nat
    BY DEF TypeOK
  <2> QED BY <2>1, ExplainedIsBounded DEF Accounted
<1> QED BY <1>1, AllAccounted, PTL

-----------------------------------------------------------------------------
(* When an outcome is written over                                         *)

\* Inductive, while every message is handed out once and nothing dies: the
\* row of a delivery says what its one token is about to do.
StatusFits(d) ==
  /\ CallbackTokens(d) \cup QueueTokens(d) # {} => status[d] \in {"PENDING", "none"}
  /\ \A w \in Workers : Engaged(w, d) =>
       IF At(w, "loaded") \/ At(w, "deciding")
         THEN status[d] \in {"PENDING", "none"}
         ELSE status[d] \in {"SENDING", "none"}

\* A lucky delivery has one token: no second message, no second worker.
LEMMA LuckyMeansAlone ==
  ASSUME TypeOK, Lucky, NEW d \in Deliveries, Accounted(d),
         NEW w \in Workers, Engaged(w, d)
  PROVE  /\ CallbackTokens(d) \cup QueueTokens(d) = {}
         /\ \A v \in Workers : Engaged(v, d) => v = w
         /\ channel.exists => status[d] # "none"
<1>1. 1 + copies + crashes = 1
  BY DEF Lucky, TypeOK
<1>2. \A t, u \in Tokens(d) : t = u
  BY <1>1, OneToken DEF Accounted
<1>3. WorkerToken(w) \in Tokens(d)
  BY EngagedHasToken
<1>4. WorkerToken(w) \notin CallbackTokens(d) \cup QueueTokens(d)
  BY DEF WorkerToken, CallbackTokens, QueueTokens
<1>5. CallbackTokens(d) \cup QueueTokens(d) \subseteq Tokens(d)
  BY DEF Tokens
<1>6. CallbackTokens(d) \cup QueueTokens(d) = {}
  BY <1>2, <1>3, <1>4, <1>5
<1>7. ASSUME NEW v \in Workers, Engaged(v, d) PROVE v = w
  <2>1. WorkerToken(v) = WorkerToken(w)
    BY <1>2, <1>3, <1>7, EngagedHasToken
  <2> QED BY <2>1 DEF WorkerToken
<1>8. channel.exists => status[d] # "none"
  BY <1>3 DEF Accounted
<1> QED BY <1>6, <1>7, <1>8

\* Luck does not come back.
LEMMA LuckIsLost == TypeOK /\ TypeOK' /\ [Next]_vars /\ Lucky' =>
                      Lucky /\ UNCHANGED <<copies, crashes>>
<1> SUFFICES ASSUME TypeOK, TypeOK', [Next]_vars, Lucky'
             PROVE  Lucky /\ UNCHANGED <<copies, crashes>>
  OBVIOUS
<1>1. copies \in Nat /\ crashes \in Nat /\ copies' \in Nat /\ crashes' \in Nat
  BY DEF TypeOK
<1>2. copies' + crashes' = 0
  BY DEF Lucky
<1>3. \/ UNCHANGED <<copies, crashes>>
      \/ copies' = copies + 1 /\ UNCHANGED crashes
      \/ crashes' = crashes + 1 /\ UNCHANGED copies
  <2>1. CASE \E d \in Deliveries : Enqueue(d) \/ Publish(d) \/ LosePublish(d)
    BY <2>1 DEF Enqueue, Publish, LosePublish
  <2>2. CASE \E w \in Workers : Redeliver(w) \/ Crash(w)
    BY <2>2 DEF Redeliver, Crash
  <2>3. CASE \E w \in Workers : Execute(w)
    BY <2>3 DEF Execute, Take, Ack, Claim, NotClaimed, ProviderRaises, ReadChannel,
                Send, Record, Retry, GiveUp
  <2>4. CASE UpdateConfig \/ ToggleActive \/ VerifyChannel \/ DeleteChannel
    BY <2>4 DEF UpdateConfig, ToggleActive, VerifyChannel, DeleteChannel, Edit
  <2>5. CASE UNCHANGED vars
    BY <2>5 DEF vars
  <2> QED BY <2>1, <2>2, <2>3, <2>4, <2>5 DEF Next
<1>4. \A a, b \in Nat : (a + b = 0 => a = 0 /\ b = 0) /\ a + 1 # 0
  OBVIOUS
<1>5. copies' = 0 /\ crashes' = 0
  BY <1>1, <1>2, <1>4
<1>6. UNCHANGED <<copies, crashes>>
  BY <1>1, <1>3, <1>4, <1>5
<1>7. copies + crashes = 0
  BY <1>5, <1>6
<1> QED BY <1>6, <1>7 DEF Lucky

\* Where neither the row nor its tokens change in kind, the row still fits.
LEMMA StillFits ==
  ASSUME NEW d, StatusFits(d), status'[d] = status[d],
         (CallbackTokens(d) \cup QueueTokens(d))' # {} =>
            \/ CallbackTokens(d) \cup QueueTokens(d) # {}
            \/ \E w \in Workers : Engaged(w, d) /\ At(w, "deciding"),
         \A w \in Workers : Engaged(w, d)' =>
            \/ /\ Engaged(w, d)
               /\ (At(w, "loaded") \/ At(w, "deciding"))'
                    <=> At(w, "loaded") \/ At(w, "deciding")
            \/ /\ At(w, "loaded")'
               /\ CallbackTokens(d) \cup QueueTokens(d) # {}
  PROVE  StatusFits(d)'
  BY DEF StatusFits, At
\* A worker's step leaves the row fitting: it is alone, and each step on the
\* row takes the worker to where that status belongs.
LEMMA WorkerFits ==
  ASSUME TypeOK, Lucky, NEW w \in Workers, Execute(w), NEW d \in Deliveries,
         Accounted(d), StatusFits(d)
  PROVE  StatusFits(d)'
<1> DEFINE e == worker[w].delivery
           r == worker[w].retries
<1>t. /\ worker[w] \in WorkerState /\ worker \in [Workers -> WorkerState]
      /\ e \in Deliveries /\ r \in 0..MaxRetries
      /\ MaxRetries \in Nat
      /\ status \in [Deliveries -> Status]
      /\ channel \in ChannelRow
  BY DeliveryAssumption DEF TypeOK, WorkerState, DeliveryAssumption
<1>o. /\ \A v \in Workers \ {w} : worker'[v] = worker[v]
      /\ UNCHANGED publishing
  BY <1>t DEF Execute, Take, Ack, Claim, NotClaimed, ProviderRaises, ReadChannel,
              Send, Record, Retry, GiveUp, GoTo
<1>c. CallbackTokens(d)' = CallbackTokens(d)
  BY <1>o DEF CallbackTokens
<1>v. \A v \in Workers \ {w} :
        /\ Engaged(v, d)' <=> Engaged(v, d)
        /\ At(v, "loaded")' <=> At(v, "loaded")
        /\ At(v, "deciding")' <=> At(v, "deciding")
  BY <1>o DEF Engaged, At
\* steps that leave the row alone and the worker in the same part of its task
<1>1. CASE Ack(w) \/ NotClaimed(w) \/ ProviderRaises(w) \/ ReadChannel(w) \/ Send(w)
  <2>1. UNCHANGED <<queue, status>>
    BY <1>1 DEF Ack, NotClaimed, ProviderRaises, ReadChannel, Send
  <2>2. QueueTokens(d)' = QueueTokens(d)
    BY <2>1 DEF QueueTokens
  <2>3. \/ worker'[w].pc \in {"idle", "acking"}
        \/ /\ worker[w].pc \in {"claimed", "sending"}
           /\ worker'[w].pc \in {"sending", "answered"}
           /\ worker'[w].delivery = e
    <3>1. CASE Ack(w)
      BY <1>t, <3>1 DEF Ack, At, IdleWorker
    <3>2. CASE NotClaimed(w) \/ ProviderRaises(w)
      BY <1>t, <3>2 DEF NotClaimed, ProviderRaises, At, GoTo, WorkerState
    <3>3. CASE ReadChannel(w)
      BY <1>t, <3>3 DEF ReadChannel, At, WorkerState
    <3>4. CASE Send(w)
      <4>1. PICK result \in Outcome :
              worker' = [worker EXCEPT ![w] =
                           [@ EXCEPT !.pc = "answered", !.outcome = result]]
        BY <3>4 DEF Send
      <4>2. worker[w].pc = "sending"
        BY <3>4 DEF Send, At
      <4> QED BY <1>t, <4>1, <4>2 DEF WorkerState
    <3> QED BY <1>1, <3>1, <3>2, <3>3, <3>4
  <2>4. Engaged(w, d)' => /\ Engaged(w, d)
                          /\ ~At(w, "loaded") /\ ~At(w, "deciding")
                          /\ ~At(w, "loaded")' /\ ~At(w, "deciding")'
    BY <2>3 DEF Engaged, At
  <2> QED BY <1>c, <1>v, <2>1, <2>2, <2>4, StillFits
<1>2. ASSUME NEW f \in Deliveries, NEW q \in 0..MaxRetries, Take(w, f, q)
      PROVE  StatusFits(d)'
  <2>1. /\ queue[f][q] > 0 /\ UNCHANGED status
        /\ queue' = [queue EXCEPT ![f][q] = @ - 1]
    BY <1>2 DEF Take
  <2>2. /\ worker'[w].pc \in {"acking", "loaded"}
        /\ worker'[w].delivery = f
    BY <1>2, <1>t DEF Take, WorkerState
  <2>3. /\ d # f => QueueTokens(d)' = QueueTokens(d)
        /\ d = f => /\ QueueTokens(d) # {}
                    /\ QueueTokens(d)' \subseteq QueueTokens(d)
    BY <2>1, LessQueued
  <2>4. Engaged(w, d)' => d = f /\ At(w, "loaded")'
    BY <2>2 DEF Engaged, At
  <2> QED BY <1>c, <1>v, <2>1, <2>3, <2>4, StillFits
<1>3. CASE Claim(w)
  <2>1. /\ worker[w].pc = "loaded"
        /\ UNCHANGED queue
        /\ status' = [status EXCEPT ![e] = "SENDING"]
    BY <1>3 DEF Claim, At
  <2>2. worker'[w].pc = "claimed" /\ worker'[w].delivery = e
    BY <1>3, <1>t DEF Claim, GoTo, WorkerState
  <2>3. QueueTokens(d)' = QueueTokens(d)
    BY <2>1 DEF QueueTokens
  <2>4. CASE d = e
    <3>1. Engaged(w, d)
      BY <2>1, <2>4 DEF Engaged
    <3>2. /\ (CallbackTokens(d) \cup QueueTokens(d))' = {}
          /\ \A v \in Workers : Engaged(v, d)' => v = w
      BY <1>c, <1>v, <2>3, <3>1, LuckyMeansAlone
    <3>3. status'[d] = "SENDING" /\ ~At(w, "loaded")' /\ ~At(w, "deciding")'
      BY <1>t, <2>1, <2>2, <2>4 DEF At
    <3> QED BY <3>2, <3>3 DEF StatusFits
  <2>5. CASE d # e
    <3>1. status'[d] = status[d] /\ ~Engaged(w, d)'
      BY <1>t, <2>1, <2>2, <2>5 DEF Engaged
    <3> QED BY <1>c, <1>v, <2>3, <3>1, StillFits
  <2> QED BY <2>4, <2>5
<1>4. CASE Record(w) \/ GiveUp(w)
  <2>1. UNCHANGED <<queue, channel>>
    BY <1>4 DEF Record, GiveUp
  <2>2. QueueTokens(d)' = QueueTokens(d)
    BY <2>1 DEF QueueTokens
  <2>3. /\ worker[w].pc \in {"answered", "deciding"}
        /\ worker'[w].pc \in {"deciding", "acking"}
        /\ worker'[w].delivery = e
    BY <1>4, <1>t DEF Record, GiveUp, At, GoTo, WorkerState
  <2>4. worker'[w].pc = "deciding" => status'[e] \in {"PENDING", "none"}
    BY <1>4, <1>t DEF Record, GiveUp, GoTo, WorkerState, StatusAfter
  <2>5. CASE d = e
    <3>1. Engaged(w, d)
      BY <2>3, <2>5 DEF Engaged
    <3>2. /\ (CallbackTokens(d) \cup QueueTokens(d))' = {}
          /\ \A v \in Workers : Engaged(v, d)' => v = w
      BY <1>c, <1>v, <2>2, <3>1, LuckyMeansAlone
    <3>3. Engaged(w, d)' => At(w, "deciding")' /\ status'[d] \in {"PENDING", "none"}
      BY <2>3, <2>4, <2>5 DEF Engaged, At
    <3> QED BY <3>2, <3>3 DEF StatusFits
  <2>6. CASE d # e
    <3>1. status'[d] = status[d] /\ ~Engaged(w, d)'
      BY <1>4, <1>t, <2>3, <2>6 DEF Record, GiveUp, Engaged
    <3> QED BY <1>c, <1>v, <2>2, <3>1, StillFits
  <2> QED BY <2>5, <2>6
<1>5. CASE Retry(w)
  <2>1. /\ worker[w].pc = "deciding" /\ r + 1 \in 0..MaxRetries
        /\ queue' = Queued(e, r + 1)
        /\ UNCHANGED status
    BY <1>5, <1>t DEF Retry, At
  <2>2. worker'[w].pc = "acking"
    BY <1>5, <1>t DEF Retry, GoTo, WorkerState
  <2>3. ~Engaged(w, d)'
    BY <2>2 DEF Engaged
  <2>4. d # e => QueueTokens(d)' = QueueTokens(d)
    BY <1>t, <2>1, MoreQueued
  <2>5. d = e => Engaged(w, d) /\ At(w, "deciding")
    BY <2>1 DEF Engaged, At
  <2> QED BY <1>c, <1>v, <2>1, <2>3, <2>4, <2>5, StillFits
<1> QED BY <1>1, <1>2, <1>3, <1>4, <1>5 DEF Execute

\* What is inductive while the delivery is lucky.
LuckyFits == Lucky => \A d \in Deliveries : StatusFits(d)

\* The other steps keep a lucky row fitting, too.
LEMMA FitsNext ==
  TypeOK /\ (\A d \in Deliveries : Accounted(d)) /\ LuckyFits /\ [Next]_vars
    => LuckyFits'
<1> SUFFICES ASSUME TypeOK, \A d \in Deliveries : Accounted(d), LuckyFits,
                    [Next]_vars, Lucky', NEW d \in Deliveries
             PROVE  StatusFits(d)'
  BY DEF LuckyFits
<1>0. TypeOK'
  BY TypeNext
<1>1. Lucky /\ UNCHANGED <<copies, crashes>>
  BY <1>0, LuckIsLost
<1>2. Accounted(d) /\ StatusFits(d)
  BY <1>1 DEF LuckyFits
<1>3. copies \in Nat /\ crashes \in Nat /\ copies # copies + 1 /\ crashes # crashes + 1
  BY DEF TypeOK
<1>4. ASSUME NEW e \in Deliveries, Enqueue(e) PROVE StatusFits(d)'
  <2>1. /\ channel.exists /\ status[e] = "none"
        /\ status' = [status EXCEPT ![e] = "PENDING"]
        /\ publishing' = publishing \cup {e}
        /\ UNCHANGED <<queue, worker>>
    BY <1>4 DEF Enqueue
  <2>2. /\ QueueTokens(d)' = QueueTokens(d)
        /\ \A w \in Workers : /\ Engaged(w, d)' <=> Engaged(w, d)
                              /\ At(w, "loaded")' <=> At(w, "loaded")
                              /\ At(w, "deciding")' <=> At(w, "deciding")
    BY <2>1 DEF QueueTokens, Engaged, At
  <2>3. CASE d = e
    <3>1. Tokens(d) = {}
      BY <1>2, <2>1, <2>3 DEF Accounted
    <3>2. \A w \in Workers : ~Engaged(w, d)'
      BY <2>2, <3>1, EngagedHasToken
    <3>3. status'[d] = "PENDING"
      BY <2>1, <2>3 DEF TypeOK
    <3> QED BY <3>2, <3>3 DEF StatusFits
  <2>4. CASE d # e
    <3>1. status'[d] = status[d]
      BY <2>1, <2>4 DEF TypeOK
    <3>2. CallbackTokens(d)' = CallbackTokens(d)
      BY <2>1, <2>4 DEF CallbackTokens
    <3> QED BY <1>2, <2>2, <3>1, <3>2, StillFits
  <2> QED BY <2>3, <2>4
<1>5. ASSUME NEW e \in Deliveries, Publish(e) PROVE StatusFits(d)'
  <2>1. /\ e \in publishing /\ publishing' = publishing \ {e}
        /\ queue' = Queued(e, 0)
        /\ UNCHANGED <<status, worker>>
    BY <1>5 DEF Publish
  <2>2. \A w \in Workers : /\ Engaged(w, d)' <=> Engaged(w, d)
                           /\ At(w, "loaded")' <=> At(w, "loaded")
                           /\ At(w, "deciding")' <=> At(w, "deciding")
    BY <2>1 DEF Engaged, At
  <2>3. 0 \in 0..MaxRetries
    BY DeliveryAssumption DEF DeliveryAssumption
  <2>4. d # e => QueueTokens(d)' = QueueTokens(d)
    BY <2>1, <2>3, MoreQueued
  <2>5. /\ d # e => CallbackTokens(d)' = CallbackTokens(d)
        /\ d = e => CallbackTokens(d) # {}
    BY <2>1 DEF CallbackTokens
  <2> QED BY <1>2, <2>1, <2>2, <2>4, <2>5, StillFits
<1>6. ASSUME NEW e \in Deliveries PROVE ~LosePublish(e)
  BY <1>1, <1>3 DEF LosePublish
<1>7. ASSUME NEW w \in Workers PROVE ~Redeliver(w) /\ ~Crash(w)
  BY <1>1, <1>3 DEF Redeliver, Crash
<1>8. CASE UpdateConfig \/ ToggleActive \/ VerifyChannel \/ UNCHANGED vars
  <2>1. UNCHANGED <<status, publishing, queue, worker>>
    BY <1>8 DEF UpdateConfig, ToggleActive, VerifyChannel, Edit, vars
  <2> QED BY <1>2, <2>1, StillFits DEF CallbackTokens, QueueTokens, Engaged, At
<1>9. CASE DeleteChannel
  <2>1. status'[d] = "none"
    BY <1>9 DEF DeleteChannel
  <2> QED BY <2>1 DEF StatusFits
<1> QED BY <1>1, <1>2, <1>4, <1>5, <1>6, <1>7, <1>8, <1>9, WorkerFits DEF Next

\* A step that overwrites an outcome would be one on a lucky row that does
\* not fit.
LEMMA FinalStep ==
  ASSUME TypeOK, [Next]_vars, NEW d \in Deliveries, Accounted(d), StatusFits(d),
         status[d] \in {"SENT", "FAILED"}
  PROVE  status'[d] \in {status[d], "none"}
<1>1. status \in [Deliveries -> Status]
  BY DEF TypeOK
<1>2. ASSUME NEW e \in Deliveries, Enqueue(e) PROVE status'[d] = status[d]
  BY <1>1, <1>2 DEF Enqueue
<1>3. ASSUME NEW w \in Workers, Claim(w) PROVE status'[d] = status[d]
  BY <1>1, <1>3 DEF Claim, Claimable
<1>4. ASSUME NEW w \in Workers, Record(w) \/ GiveUp(w)
      PROVE  status'[d] = status[d]
  <2>1. worker[w].pc \in {"answered", "deciding"}
    BY <1>4 DEF Record, GiveUp, At
  <2>2. CASE worker[w].delivery = d
    BY <2>1, <2>2 DEF StatusFits, Engaged
  <2>3. CASE worker[w].delivery # d
    BY <1>1, <1>4, <2>3 DEF Record, GiveUp
  <2> QED BY <2>2, <2>3
<1>5. ASSUME NEW w \in Workers, Execute(w), ~Claim(w), ~Record(w), ~GiveUp(w)
      PROVE  status'[d] = status[d]
  BY <1>5 DEF Execute, Take, Ack, NotClaimed, ProviderRaises, ReadChannel,
              Send, Retry
<1>6. ASSUME NEW e \in Deliveries, Publish(e) \/ LosePublish(e)
      PROVE  status'[d] = status[d]
  BY <1>6 DEF Publish, LosePublish
<1>7. ASSUME NEW w \in Workers, Redeliver(w) \/ Crash(w)
      PROVE  status'[d] = status[d]
  BY <1>7 DEF Redeliver, Crash
<1>8. CASE UpdateConfig \/ ToggleActive \/ VerifyChannel \/ UNCHANGED vars
  BY <1>8 DEF UpdateConfig, ToggleActive, VerifyChannel, vars
<1>9. CASE DeleteChannel
  BY <1>9 DEF DeleteChannel
<1> QED BY <1>2, <1>3, <1>4, <1>5, <1>6, <1>7, <1>8, <1>9 DEF Next

\* A row that says SENT is a safe delivery whose copy is counted, so whoever
\* saves an attempt of it saves that success again: only giving up, after a
\* last retry that failed, writes anything else.
LEMMA SentStep ==
  ASSUME TypeOK, [Next]_vars, NEW d \in Deliveries, DeliverySafe(d),
         status[d] = "SENT", status'[d] \notin {"SENT", "none"}
  PROVE  status'[d] = "FAILED" /\ LastRetryFailed(d)
<1>1. status \in [Deliveries -> Status] /\ worker \in [Workers -> WorkerState]
  BY DEF TypeOK
<1>2. Delivered(d)
  BY DEF DeliverySafe
<1>3. ASSUME NEW e \in Deliveries, Enqueue(e) PROVE FALSE
  BY <1>1, <1>3 DEF Enqueue
<1>4. ASSUME NEW w \in Workers, Claim(w) PROVE FALSE
  BY <1>1, <1>4 DEF Claim, Claimable
<1>5. ASSUME NEW w \in Workers, Record(w) PROVE FALSE
  <2>1. CASE worker[w].delivery = d
    <3>1. w \in Senders(d)
      BY <1>5, <2>1, SendersAre DEF Record, At
    <3>2. worker[w].outcome = "success"
      BY <1>2, <3>1 DEF DeliverySafe
    <3>3. status'[d] = "SENT"
      BY <1>1, <1>5, <2>1, <3>2 DEF Record, StatusAfter
    <3> QED BY <3>3
  <2>2. CASE worker[w].delivery # d
    BY <1>1, <1>5, <2>2 DEF Record
  <2> QED BY <2>1, <2>2
<1>6. ASSUME NEW w \in Workers, GiveUp(w)
      PROVE  status'[d] = "FAILED" /\ LastRetryFailed(d)
  <2>1. worker[w].delivery = d
    BY <1>1, <1>6 DEF GiveUp
  <2> QED BY <1>1, <1>6, <2>1 DEF GiveUp, LastRetryFailed
<1>7. ASSUME NEW w \in Workers, Execute(w), ~Claim(w), ~Record(w), ~GiveUp(w)
      PROVE  FALSE
  BY <1>7 DEF Execute, Take, Ack, NotClaimed, ProviderRaises, ReadChannel,
              Send, Retry
<1>8. ASSUME NEW e \in Deliveries, Publish(e) \/ LosePublish(e) PROVE FALSE
  BY <1>8 DEF Publish, LosePublish
<1>9. ASSUME NEW w \in Workers, Redeliver(w) \/ Crash(w) PROVE FALSE
  BY <1>9 DEF Redeliver, Crash
<1>10. CASE UpdateConfig \/ ToggleActive \/ VerifyChannel \/ UNCHANGED vars
  BY <1>10 DEF UpdateConfig, ToggleActive, VerifyChannel, vars
<1>11. CASE DeleteChannel
  BY <1>11 DEF DeleteChannel
<1> QED BY <1>3, <1>4, <1>5, <1>6, <1>7, <1>8, <1>9, <1>10, <1>11 DEF Next

\* When the unconditional saves of attempt_delivery and mark_delivery_failed
\* write over an outcome: never without a message handed out twice or a
\* crash, and over SENT only FAILED, by a worker whose last retry failed.
THEOREM OverwritesExplained == Spec => OutcomeOverwritten
<1> DEFINE Inv == /\ DeliveryInvariant
                  /\ \A d \in Deliveries : Accounted(d)
                  /\ LuckyFits
<1>1. Init => LuckyFits
  <2> SUFFICES ASSUME Init, NEW d \in Deliveries PROVE StatusFits(d)
    BY DEF LuckyFits
  <2>1. status[d] = "none" /\ \A w \in Workers : ~Engaged(w, d)
    BY DEF Init, IdleWorker, Engaged
  <2> QED BY <2>1 DEF StatusFits
<1>2. Init => Inv
  BY <1>1, TypeInit, SafeInit, AccountedInit DEF DeliveryInvariant
<1>3. Inv /\ [Next]_vars => Inv'
  <2> SUFFICES ASSUME Inv, [Next]_vars PROVE Inv'
    OBVIOUS
  <2>1. TypeOK
    BY DEF DeliveryInvariant
  <2>2. TypeOK'
    BY <2>1, TypeNext
  <2>3. \A d \in Deliveries : DeliverySafe(d)'
    BY SafeNext
  <2>4. \A d \in Deliveries : Accounted(d)'
    BY <2>1, AccountedNext
  <2>5. LuckyFits'
    BY <2>1, FitsNext
  <2> QED BY <2>2, <2>3, <2>4, <2>5 DEF DeliveryInvariant
<1>4. Inv /\ [Next]_vars =>
        [\A d \in Deliveries :
          status[d] \in {"SENT", "FAILED"} /\ status'[d] \notin {status[d], "none"} =>
            /\ copies + crashes > 0
            /\ status[d] = "SENT" =>
                 status'[d] = "FAILED" /\ LastRetryFailed(d)]_vars
  <2> SUFFICES ASSUME Inv, [Next]_vars, NEW d \in Deliveries,
                      status[d] \in {"SENT", "FAILED"},
                      status'[d] \notin {status[d], "none"}
               PROVE  /\ copies + crashes > 0
                      /\ status[d] = "SENT" =>
                           status'[d] = "FAILED" /\ LastRetryFailed(d)
    OBVIOUS
  <2>1. TypeOK /\ DeliverySafe(d) /\ Accounted(d)
    BY DEF DeliveryInvariant
  <2>2. ~Lucky
    BY <2>1, FinalStep DEF LuckyFits
  <2>3. copies \in Nat /\ crashes \in Nat
    BY <2>1 DEF TypeOK
  <2>4. \A a, b \in Nat : a + b # 0 => a + b > 0
    OBVIOUS
  <2>5. copies + crashes > 0
    BY <2>2, <2>3, <2>4 DEF Lucky
  <2> QED BY <2>1, <2>5, SentStep
<1> HIDE DEF Inv
<1> QED BY <1>2, <1>3, <1>4, PTL DEF Spec, OutcomeOverwritten
=============================================================================
