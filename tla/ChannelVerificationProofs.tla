---------------------- MODULE ChannelVerificationProofs ----------------------
(***************************************************************************)
(* Theorems about ChannelVerification for every number of handlers,        *)
(* pollers, chats and events.                                              *)
(***************************************************************************)
EXTENDS ChannelVerification, TLAPS

-----------------------------------------------------------------------------
(* The poller: updates are acknowledged after they were replied to         *)

\* Every update before k has been handled and replied to.
AnsweredBelow(k) == \A n \in Nat \ {0} : n < k => n \in answered

\* A poller's batch consists of updates that Telegram has, and what precedes
\* the one it is about is done.
BatchFits(state) ==
  /\ state.pc = "polling" => AnsweredBelow(state.offset)
  /\ state.pc \in {"handling", "replying"} =>
       /\ state.next \in Sent /\ state.last \in Sent /\ state.next <= state.last
       /\ AnsweredBelow(state.next)
  /\ state.pc = "setting" => AnsweredBelow(state.last + 1)

\* Inductive: what the offsets, in the cache, at Telegram and in the hands of
\* pollers that have lost the lock, leave behind them is answered.
PollingFits ==
  /\ issued \in Nat
  /\ updates \in Seq([token : 0..issued, chat : Chats])
  /\ confirmed \in Nat /\ offset \in Nat /\ lock \in BOOLEAN
  /\ poller \in [Pollers -> PollerState]
  /\ answered \subseteq Sent
  /\ AnsweredBelow(confirmed) /\ AnsweredBelow(offset)
  /\ \A p \in Pollers : BatchFits(poller[p])

\* A poller at rest.
LEMMA IdlePollerFits == IdlePoller \in PollerState /\ BatchFits(IdlePoller)
  BY DEF IdlePoller, PollerState, BatchFits

\* What was answered stays answered, and what was sent stays sent.
LEMMA AnsweredStays ==
  ASSUME answered \subseteq answered'
  PROVE  \A k : AnsweredBelow(k) => AnsweredBelow(k)'
  BY DEF AnsweredBelow

\* A batch that fits does so still when more is answered.
LEMMA BatchStays ==
  ASSUME answered \subseteq answered', Sent \subseteq Sent',
         NEW state, BatchFits(state)
  PROVE  BatchFits(state)'
  BY AnsweredStays DEF BatchFits

\* More links, or one more Start, and the updates are still updates.
LEMMA UpdatesType ==
  ASSUME issued \in Nat, updates \in Seq([token : 0..issued, chat : Chats])
  PROVE  /\ Len(updates) \in Nat
         /\ \A n \in Sent : /\ updates[n].token \in 0..issued
                            /\ updates[n].chat \in Chats
         /\ \A k \in Nat : k >= issued =>
              updates \in Seq([token : 0..k, chat : Chats])
         /\ \A u \in [token : 0..issued, chat : Chats] :
              /\ Append(updates, u) \in Seq([token : 0..issued, chat : Chats])
              /\ 1..Len(updates) \subseteq 1..Len(Append(updates, u))
              /\ \A n \in 1..Len(updates) : Append(updates, u)[n] = updates[n]
<1> DEFINE U == [token : 0..issued, chat : Chats]
<1>1. Len(updates) \in Nat
  OBVIOUS
<1>2. \A n \in Sent : updates[n] \in U
  <2> HIDE DEF U
  <2>1. updates \in Seq(U)
    BY DEF U
  <2> QED BY <2>1 DEF Sent
<1>3. \A n \in Sent : updates[n].token \in 0..issued /\ updates[n].chat \in Chats
  BY <1>2
<1>4. ASSUME NEW k \in Nat, k >= issued
      PROVE  updates \in Seq([token : 0..k, chat : Chats])
  <2>1. 0..issued \subseteq 0..k
    BY <1>4
  <2> DEFINE V == [token : 0..k, chat : Chats]
  <2>2. U \subseteq V
    BY <2>1
  <2> HIDE DEF U, V
  <2>3. updates \in Seq(U)
    BY DEF U
  <2>4. updates \in Seq(V)
    BY <2>2, <2>3
  <2> QED BY <2>4 DEF V
<1>5. ASSUME NEW u \in U
      PROVE  /\ Append(updates, u) \in Seq(U)
             /\ 1..Len(updates) \subseteq 1..Len(Append(updates, u))
             /\ \A n \in 1..Len(updates) : Append(updates, u)[n] = updates[n]
  <2> HIDE DEF U
  <2>1. updates \in Seq(U)
    BY DEF U
  <2> QED BY <1>1, <2>1
<1> QED BY <1>1, <1>3, <1>4, <1>5

\* One poller goes on.
LEMMA OnePoller ==
  ASSUME PollingFits, NEW p \in Pollers, NEW s \in PollerState,
         poller' = [poller EXCEPT ![p] = s],
         answered \subseteq answered', Sent \subseteq Sent', BatchFits(s)'
  PROVE  /\ poller' \in [Pollers -> PollerState]
         /\ \A q \in Pollers : BatchFits(poller[q])'
<1>1. poller' \in [Pollers -> PollerState]
  BY DEF PollingFits
<1>2. ASSUME NEW q \in Pollers PROVE BatchFits(poller[q])'
  <2>1. CASE q = p
    <3>1. poller'[q] = s
      BY <2>1 DEF PollingFits
    <3> QED BY <3>1 DEF BatchFits
  <2>2. CASE q # p
    <3>1. poller'[q] = poller[q]
      BY <2>2 DEF PollingFits
    <3>2. BatchFits(poller[q])
      BY DEF PollingFits
    <3>3. PICK x : x = poller[q]
      OBVIOUS
    <3>4. BatchFits(x)'
      BY <3>2, <3>3, BatchStays
    <3> QED BY <3>1, <3>3, <3>4 DEF BatchFits
  <2> QED BY <2>1, <2>2
<1> QED BY <1>1, <1>2

\* A poller that stops, and a clock or a cache that does not.
LEMMA PollerStops ==
  ASSUME PollingFits, NEW p \in Pollers,
         poller' = [poller EXCEPT ![p] = IdlePoller],
         UNCHANGED <<updates, issued, answered, confirmed, offset>>,
         lock' \in BOOLEAN
  PROVE  PollingFits'
<1>1. Sent' = Sent
  BY DEF Sent
<1>2. BatchFits(IdlePoller)'
  BY DEF IdlePoller, BatchFits
<1>3. /\ poller' \in [Pollers -> PollerState]
      /\ \A q \in Pollers : BatchFits(poller[q])'
  BY <1>1, <1>2, IdlePollerFits, OnePoller
<1>4. \A k : AnsweredBelow(k) => AnsweredBelow(k)'
  BY AnsweredStays
<1> QED BY <1>1, <1>3, <1>4 DEF PollingFits, AnsweredBelow

\* Steps of which the poller sees at most more links.
LEMMA PollingUndisturbed ==
  ASSUME PollingFits, issued' \in Nat, issued' >= issued,
         UNCHANGED <<updates, confirmed, offset, lock, poller, answered>>
  PROVE  PollingFits'
<1>1. Sent' = Sent
  BY DEF Sent
<1>2. updates' \in Seq([token : 0..issued', chat : Chats])
  BY UpdatesType DEF PollingFits
<1>3. \A q \in Pollers : BatchFits(poller[q])'
  BY <1>1 DEF PollingFits, BatchFits, AnsweredBelow
<1> QED BY <1>1, <1>2, <1>3 DEF PollingFits, AnsweredBelow

\* The polling fits at first
LEMMA PollingInit == Init => PollingFits
<1> SUFFICES ASSUME Init PROVE PollingFits
  OBVIOUS
<1>1. issued \in Nat /\ updates = <<>> /\ confirmed = 1 /\ offset = 0
      /\ lock = FALSE /\ answered = {}
  BY DEF Init
<1>2. poller \in [Pollers -> PollerState] /\ \A p \in Pollers : BatchFits(poller[p])
  BY IdlePollerFits DEF Init
<1>3. AnsweredBelow(0) /\ AnsweredBelow(1)
  BY DEF AnsweredBelow
<1>4. updates \in Seq([token : 0..issued, chat : Chats])
  BY <1>1
<1>5. answered \subseteq Sent
  BY <1>1
<1> QED BY <1>1, <1>2, <1>3, <1>4, <1>5 DEF PollingFits

\* and every step of a poller keeps it,
LEMMA PollerKeepsAnswers ==
  ASSUME PollingFits, NEW p \in Pollers,
         \/ AcquireLock(p) \/ GetUpdates(p) \/ HandleUpdate(p) \/ Reply(p)
         \/ SetOffset(p) \/ PollFails(p) \/ CrashPoller(p)
  PROVE  PollingFits'
<1>t. /\ poller[p] \in PollerState /\ poller \in [Pollers -> PollerState]
      /\ poller[p].next \in Nat /\ poller[p].last \in Nat
      /\ poller[p].offset \in Nat
      /\ BatchFits(poller[p])
      /\ Len(updates) \in Nat
  BY UpdatesType DEF PollingFits, PollerState
<1>1. CASE AcquireLock(p)
  <2>1. PICK s : s = [IdlePoller EXCEPT !.pc = "polling", !.offset = offset]
    OBVIOUS
  <2>2. /\ poller' = [poller EXCEPT ![p] = s] /\ lock' = TRUE
        /\ UNCHANGED <<updates, issued, answered, confirmed, offset>>
    BY <1>1, <2>1 DEF AcquireLock, telegram, history
  <2>3. s \in PollerState /\ s.pc = "polling" /\ s.offset = offset
    BY <2>1 DEF IdlePoller, PollerState, PollingFits
  <2>4. Sent' = Sent /\ \A k : AnsweredBelow(k)' <=> AnsweredBelow(k)
    BY <2>2 DEF Sent, AnsweredBelow
  <2>5. BatchFits(s)'
    BY <2>2, <2>3, <2>4 DEF PollingFits, BatchFits, AnsweredBelow
  <2>6. /\ poller' \in [Pollers -> PollerState]
        /\ \A q \in Pollers : BatchFits(poller[q])'
    BY <2>2, <2>3, <2>4, <2>5, OnePoller
  <2> QED BY <2>2, <2>4, <2>6 DEF PollingFits, AnsweredBelow
<1>2. CASE GetUpdates(p)
  <2>1. /\ confirmed' = IF poller[p].offset > confirmed THEN poller[p].offset
                                                        ELSE confirmed
        /\ poller[p].pc = "polling"
        /\ UNCHANGED <<updates, issued, answered, offset>>
    BY <1>2 DEF GetUpdates, history
  <2>2. confirmed' \in Nat
    BY <1>t, <2>1 DEF PollingFits
  <2>3. Sent' = Sent /\ \A k : AnsweredBelow(k)' <=> AnsweredBelow(k)
    BY <2>1 DEF Sent, AnsweredBelow
  <2>4. AnsweredBelow(confirmed)'
    <3>1. AnsweredBelow(confirmed) /\ AnsweredBelow(poller[p].offset)
      BY <1>t, <2>1 DEF PollingFits, BatchFits
    <3> QED BY <2>1, <3>1 DEF AnsweredBelow
  <2>5. CASE confirmed' \in Sent
    <3>1. PICK s : s = [IdlePoller EXCEPT !.pc = "handling", !.next = confirmed',
                                          !.last = Len(updates)]
      OBVIOUS
    <3>2. poller' = [poller EXCEPT ![p] = s] /\ UNCHANGED lock
      BY <1>2, <2>5, <3>1 DEF GetUpdates, Goes
    <3>3. /\ s \in PollerState /\ s.pc = "handling" /\ s.next = confirmed'
          /\ s.last = Len(updates)
      BY <1>t, <2>2, <3>1 DEF IdlePoller, PollerState
    <3>4. s.next \in Sent /\ s.last \in Sent /\ s.next <= s.last
      BY <1>t, <2>5, <3>3 DEF Sent
    <3>5. BatchFits(s)'
      BY <2>3, <2>4, <3>3, <3>4 DEF BatchFits, AnsweredBelow
    <3>6. /\ poller' \in [Pollers -> PollerState]
          /\ \A q \in Pollers : BatchFits(poller[q])'
      BY <2>1, <2>3, <3>2, <3>3, <3>5, OnePoller
    <3> QED BY <2>1, <2>2, <2>3, <2>4, <3>2, <3>6 DEF PollingFits, AnsweredBelow
  <2>6. CASE confirmed' \notin Sent
    <3>1. poller' = [poller EXCEPT ![p] = IdlePoller] /\ lock' = FALSE
      BY <1>2, <2>6 DEF GetUpdates, Over
    <3>2. BatchFits(IdlePoller)'
      BY DEF IdlePoller, BatchFits
    <3>3. /\ poller' \in [Pollers -> PollerState]
          /\ \A q \in Pollers : BatchFits(poller[q])'
      BY <2>1, <2>3, <3>1, <3>2, IdlePollerFits, OnePoller
    <3> QED BY <2>1, <2>2, <2>3, <2>4, <3>1, <3>3 DEF PollingFits, AnsweredBelow
  <2> QED BY <2>5, <2>6
<1>3. CASE HandleUpdate(p)
  <2>1. PICK s : s = [poller[p] EXCEPT !.pc = "replying"]
    OBVIOUS
  <2>2. /\ poller[p].pc = "handling"
        /\ poller' = [poller EXCEPT ![p] = s] /\ UNCHANGED lock
        /\ UNCHANGED <<updates, confirmed, issued, answered, offset>>
    BY <1>3, <2>1 DEF HandleUpdate, Goes, telegram
  <2>3. /\ s \in PollerState /\ s.pc = "replying" /\ s.next = poller[p].next
        /\ s.last = poller[p].last
    BY <1>t, <2>1 DEF PollerState
  <2>4. Sent' = Sent /\ \A k : AnsweredBelow(k)' <=> AnsweredBelow(k)
    BY <2>2 DEF Sent, AnsweredBelow
  <2>5. BatchFits(s)'
    BY <1>t, <2>2, <2>3, <2>4 DEF BatchFits
  <2>6. /\ poller' \in [Pollers -> PollerState]
        /\ \A q \in Pollers : BatchFits(poller[q])'
    BY <2>2, <2>3, <2>4, <2>5, OnePoller
  <2> QED BY <2>2, <2>4, <2>6 DEF PollingFits, AnsweredBelow
<1>4. CASE Reply(p)
  <2> DEFINE n == poller[p].next
  <2>1. /\ poller[p].pc = "replying" /\ answered' = answered \cup {n}
        /\ UNCHANGED <<updates, confirmed, issued, offset, lock>>
    BY <1>4 DEF Reply, Goes, telegram
  <2>2. n \in Sent /\ n <= poller[p].last /\ AnsweredBelow(n)
    BY <1>t, <2>1 DEF BatchFits
  <2>3. Sent' = Sent /\ answered' \subseteq Sent'
    BY <2>1, <2>2 DEF Sent, PollingFits
  <2>4. \A k : AnsweredBelow(k) => AnsweredBelow(k)'
    BY <2>1, AnsweredStays
  <2>5. \A m \in Nat \ {0} : m < n + 1 => m \in answered'
    <3>1. \A m \in Nat \ {0} : m < n + 1 => m < n \/ m = n
      BY <1>t
    <3> QED BY <2>1, <2>2, <3>1 DEF AnsweredBelow
  <2>6. PICK s : s = IF n < poller[p].last
                       THEN [poller[p] EXCEPT !.pc = "handling", !.next = n + 1]
                       ELSE [poller[p] EXCEPT !.pc = "setting"]
    OBVIOUS
  <2>7. poller' = [poller EXCEPT ![p] = s]
    BY <1>4, <2>6 DEF Reply, Goes
  <2>8. s \in PollerState
    <3>1. n + 1 \in Nat
      BY <1>t
    <3>2. CASE n < poller[p].last
      BY <1>t, <2>6, <3>1, <3>2 DEF PollerState
    <3>3. CASE ~(n < poller[p].last)
      BY <1>t, <2>6, <3>3 DEF PollerState
    <3> QED BY <3>2, <3>3
  <2>9. BatchFits(s)'
    <3>1. CASE n < poller[p].last
      <4>1. /\ s.pc = "handling" /\ s.next = n + 1 /\ s.last = poller[p].last
        BY <1>t, <2>6, <3>1 DEF PollerState
      <4>2. poller[p].last \in Sent
        BY <1>t, <2>1 DEF BatchFits
      <4>3. n + 1 \in Sent /\ n + 1 <= poller[p].last
        BY <1>t, <2>2, <3>1, <4>2 DEF Sent
      <4> QED BY <2>3, <2>5, <4>1, <4>2, <4>3 DEF BatchFits, AnsweredBelow
    <3>2. CASE ~(n < poller[p].last)
      <4>1. s.pc = "setting" /\ s.last = n
        BY <1>t, <2>2, <2>6, <3>2 DEF PollerState
      <4> QED BY <2>5, <4>1 DEF BatchFits, AnsweredBelow
    <3> QED BY <3>1, <3>2
  <2>10. /\ poller' \in [Pollers -> PollerState]
         /\ \A q \in Pollers : BatchFits(poller[q])'
    BY <2>1, <2>3, <2>7, <2>8, <2>9, OnePoller
  <2> QED BY <2>1, <2>3, <2>4, <2>10 DEF PollingFits, AnsweredBelow
<1>5. CASE SetOffset(p)
  <2>1. /\ poller[p].pc = "setting" /\ offset' = poller[p].last + 1
        /\ poller' = [poller EXCEPT ![p] = IdlePoller] /\ lock' = FALSE
        /\ UNCHANGED <<updates, confirmed, issued, answered>>
    BY <1>5 DEF SetOffset, OffsetAfter, Over, telegram, history
  <2>2. AnsweredBelow(poller[p].last + 1)
    BY <1>t, <2>1 DEF BatchFits
  <2>3. offset' \in Nat /\ AnsweredBelow(offset)'
    BY <1>t, <2>1, <2>2 DEF AnsweredBelow
  <2>4. Sent' = Sent
    BY <2>1 DEF Sent
  <2>5. BatchFits(IdlePoller)'
    BY DEF IdlePoller, BatchFits
  <2>6. /\ poller' \in [Pollers -> PollerState]
        /\ \A q \in Pollers : BatchFits(poller[q])'
    BY <2>1, <2>4, <2>5, IdlePollerFits, OnePoller
  <2> QED BY <2>1, <2>3, <2>4, <2>6 DEF PollingFits, AnsweredBelow
<1>6. CASE PollFails(p) \/ CrashPoller(p)
  <2>1. /\ poller' = [poller EXCEPT ![p] = IdlePoller]
        /\ lock' = lock \/ lock' = FALSE
        /\ UNCHANGED <<updates, confirmed, offset, issued, answered>>
    BY <1>6 DEF PollFails, CrashPoller, Over, Goes, telegram, history
  <2> QED BY <2>1, PollerStops DEF PollingFits
<1> QED BY <1>1, <1>2, <1>3, <1>4, <1>5, <1>6

\* as does every other step.
LEMMA PollingNext == PollingFits /\ [Next]_vars => PollingFits'
<1> SUFFICES ASSUME PollingFits, [Next]_vars PROVE PollingFits'
  OBVIOUS
<1>t. issued \in Nat
  BY DEF PollingFits
<1>1. CASE \E h \in Requests : RequestNext(h)
  <2>1. PICK h \in Requests : RequestNext(h)
    BY <1>1
  <2>2. UNCHANGED <<updates, confirmed, offset, lock, poller, answered>>
    BY <2>1 DEF RequestNext, CreateChannel, LoadForUpdate, SaveUpdate,
                LoadForVerify, SendTest, SaveVerified, LoadForLink, DeleteClaim,
                CreateClaim, DeleteChannel, CrashRequest, telegram, polling, history
  <2>3. issued' = issued \/ issued' = issued + 1
    BY <2>1 DEF RequestNext, CreateChannel, LoadForUpdate, SaveUpdate,
                LoadForVerify, SendTest, SaveVerified, LoadForLink, DeleteClaim,
                CreateClaim, DeleteChannel, CrashRequest
  <2>4. issued' \in Nat /\ issued' >= issued
    BY <1>t, <2>3
  <2> QED BY <2>2, <2>4, PollingUndisturbed
<1>2. CASE Expire \/ UNCHANGED vars
  <2>1. UNCHANGED <<updates, confirmed, offset, lock, poller, answered, issued>>
    BY <1>2 DEF Expire, vars, telegram, polling, history
  <2> QED BY <1>t, <2>1, PollingUndisturbed
<1>3. ASSUME NEW c \in Chats, PressStart(c) PROVE PollingFits'
  <2>1. PICK t \in 0..issued :
          updates' = Append(updates, [token |-> t, chat |-> c])
    BY <1>3 DEF PressStart
  <2>2. UNCHANGED <<confirmed, offset, lock, poller, answered, issued>>
    BY <1>3 DEF PressStart, polling, history
  <2>3. [token |-> t, chat |-> c] \in [token : 0..issued, chat : Chats]
    OBVIOUS
  <2>4. /\ updates' \in Seq([token : 0..issued, chat : Chats])
        /\ Sent \subseteq Sent'
    BY <2>1, <2>3, UpdatesType DEF PollingFits, Sent
  <2>5. ASSUME NEW q \in Pollers PROVE BatchFits(poller[q])'
    <3>1. PICK x : x = poller[q]
      OBVIOUS
    <3>2. BatchFits(x)'
      BY <2>2, <2>4, <3>1, BatchStays DEF PollingFits
    <3> QED BY <2>2, <3>1, <3>2 DEF BatchFits
  <2> QED BY <2>2, <2>4, <2>5 DEF PollingFits, AnsweredBelow
<1>4. CASE LockExpires \/ CacheLost
  <2>1. /\ UNCHANGED <<updates, confirmed, poller, answered, issued>>
        /\ lock' = FALSE /\ offset' \in {0, offset}
    BY <1>4 DEF LockExpires, CacheLost, telegram, history
  <2>2. Sent' = Sent
    BY <2>1 DEF Sent
  <2>3. AnsweredBelow(offset)' /\ offset' \in Nat
    BY <2>1 DEF PollingFits, AnsweredBelow
  <2>4. \A q \in Pollers : BatchFits(poller[q])'
    BY <2>1, <2>2 DEF PollingFits, BatchFits, AnsweredBelow
  <2> QED BY <2>1, <2>2, <2>3, <2>4 DEF PollingFits, AnsweredBelow
<1> QED BY <1>1, <1>2, <1>3, <1>4, PollerKeepsAnswers DEF Next

\* The bookkeeping of the updates holds whatever the lock does.
LEMMA PollingHolds == Spec => []PollingFits
<1> QED BY PollingInit, PollingNext, PTL DEF Spec

\* poll_telegram_updates (tasks.py:155-167): Telegram forgets no Start that
\* was not handled and replied to, however many pollers run at once, lose the
\* lock, die, or find the cache empty.
THEOREM EveryStartAnswered == Spec => []NoStartLost
<1>1. PollingFits => NoStartLost
  <2> SUFFICES ASSUME PollingFits, NEW n \in Sent, n < confirmed
               PROVE  n \in answered
    BY DEF NoStartLost
  <2>1. Len(updates) \in Nat
    BY UpdatesType DEF PollingFits
  <2>2. n \in Nat \ {0}
    BY <2>1 DEF Sent
  <2> QED BY <2>2 DEF PollingFits, AnsweredBelow
<1> QED BY <1>1, PollingHolds, PTL

-----------------------------------------------------------------------------
(* The rows: what can be verified without having been shown to work        *)

\* What a handler has loaded and what it found out since.
RequestFits(r) ==
  /\ r.pc \in {"updating", "verifying", "sent"} => r.row.exists
  /\ r.pc \in {"verifying", "sent"} => Destination(r.row) \in Emails \cup Chats
  /\ r.pc = "sent" => Destination(r.row) \in proven

Binding == [update : Nat, token : Nat, chat : Chats, latest : Nat,
            expected : Usernames \cup {"none"}]

\* Inductive: a handler that found its test message delivered has sent it to a
\* destination that is proven by that, and a row that is written back is there.
RowsFit ==
  /\ channel \in ChannelRow
  /\ claim \in ClaimRow
  /\ claim.exists => channel.exists
  /\ request \in [Requests -> RequestState]
  /\ proven \subseteq Emails \cup Chats
  /\ bindings \subseteq Binding
  /\ issued \in Nat /\ events \in 0..MaxEvents
  /\ \A h \in Requests : RequestFits(request[h])

\* No channel, no claim and no request are of their types.
LEMMA Nothing ==
  /\ NoChannel \in ChannelRow /\ ~NoChannel.exists /\ ~NoChannel.is_verified
  /\ NoChannel.type = "none" /\ NoConfig \in Config
  /\ ~NoClaim.exists
  /\ IdleRequest.pc = "idle" /\ IdleRequest \in RequestState
<1>1. NoConfig \in Config
  BY DEF NoConfig, Config
<1>2. /\ NoChannel \in ChannelRow /\ ~NoChannel.exists /\ ~NoChannel.is_verified
      /\ NoChannel.type = "none"
  BY <1>1 DEF NoChannel, ChannelRow
<1>3. IdleRequest.pc = "idle" /\ IdleRequest \in RequestState
  BY <1>2 DEF IdleRequest, RequestState
<1> QED BY <1>1, <1>2, <1>3 DEF NoClaim

\* What a client may write is a configuration, and makes a channel of its type.
LEMMA FreshChannel ==
  ASSUME NEW t \in Types, NEW loaded \in Config, NEW c \in GivenConfigs(t, loaded)
  PROVE  /\ c \in Config
         /\ Fresh(t, c) \in ChannelRow /\ Fresh(t, c).exists
         /\ ~Fresh(t, c).is_verified /\ Fresh(t, c).type = t
<1>1. c \in Config
  <2>1. CASE t = "EMAIL"
    BY <2>1 DEF GivenConfigs
  <2>2. CASE t # "EMAIL"
    <3>1. PICK u \in Usernames \cup {"none"} :
            c = [NoConfig EXCEPT !.chat_id = loaded.chat_id, !.username = u]
      BY <2>2 DEF GivenConfigs
    <3>2. c = [email |-> "none", chat_id |-> loaded.chat_id, username |-> u]
      BY <3>1 DEF NoConfig
    <3> QED BY <3>2 DEF Config
  <2> QED BY <2>1, <2>2
<1> QED BY <1>1 DEF Fresh, ChannelRow

\* A channel sends nowhere, to an address or to a chat.
LEMMA Destinations ==
  ASSUME NEW row \in ChannelRow
  PROVE  Destination(row) \in Emails \cup Chats \cup {"none"}
<1>1. row.config \in Config
  BY DEF ChannelRow
<1>2. /\ row.config.email \in Emails \cup {"none"}
      /\ row.config.chat_id \in Chats \cup {"none"}
  BY <1>1 DEF Config
<1> QED BY <1>2 DEF Destination

\* One handler goes on.
LEMMA OneRequest ==
  ASSUME RowsFit, NEW h \in Requests, NEW s \in RequestState,
         request' = [request EXCEPT ![h] = s],
         proven \subseteq proven',
         RequestFits(s)'
  PROVE  /\ request' \in [Requests -> RequestState]
         /\ \A g \in Requests : RequestFits(request[g])'
<1>1. request' \in [Requests -> RequestState]
  BY DEF RowsFit
<1>2. ASSUME NEW g \in Requests PROVE RequestFits(request[g])'
  <2>1. CASE g = h
    <3>1. request'[g] = s
      BY <2>1 DEF RowsFit
    <3> QED BY <3>1 DEF RequestFits
  <2>2. CASE g # h
    <3>1. request'[g] = request[g] /\ RequestFits(request[g])
      BY <2>2 DEF RowsFit
    <3> QED BY <3>1 DEF RequestFits
  <2> QED BY <2>1, <2>2
<1> QED BY <1>1, <1>2

\* Taking a request up and taking it on are changes of one handler.
LEMMA TakeIsOne ==
  ASSUME NEW h, NEW pc, NEW row, Take(h, pc, row), events \in 0..MaxEvents
  PROVE  /\ request' = [request EXCEPT ![h] = [pc |-> pc, row |-> row]]
         /\ events' \in 0..MaxEvents
<1>1. events' = events + 1 /\ events < MaxEvents
  BY DEF Take, Event
<1>2. events' \in 0..MaxEvents
  BY <1>1, ChannelAssumption DEF ChannelAssumption
<1> QED BY <1>2 DEF Take

\* A handler's step moves it to `to` and keeps the row it has loaded.
LEMMA StepIsOne ==
  ASSUME RowsFit, NEW h \in Requests, NEW from, NEW to, Step(h, from, to),
         to \in {"idle", "updating", "verifying", "sent", "linking", "creating"}
  PROVE  \E s \in RequestState :
           /\ request' = [request EXCEPT ![h] = s]
           /\ s.pc = to
           /\ to # "idle" => s.row = request[h].row
<1>1. request[h] \in RequestState
  BY DEF RowsFit
<1>2. CASE to = "idle"
  BY <1>2, Nothing DEF Step
<1>3. CASE to # "idle"
  <2> DEFINE s == [request[h] EXCEPT !.pc = to]
  <2>1. s \in RequestState /\ s.pc = to /\ s.row = request[h].row
    BY <1>1 DEF RequestState
  <2>2. request' = [request EXCEPT ![h] = s]
    BY <1>3 DEF Step
  <2> HIDE DEF s
  <2> QED BY <2>1, <2>2
<1> QED BY <1>2, <1>3

\* A step of a handler that leaves the rows alone
LEMMA RowsUndisturbed ==
  ASSUME RowsFit, NEW h \in Requests, NEW s \in RequestState,
         request' = [request EXCEPT ![h] = s],
         UNCHANGED <<channel, claim, proven, bindings, issued>>,
         events' \in 0..MaxEvents,
         RequestFits(s)
  PROVE  RowsFit'
<1>1. RequestFits(s)'
  BY DEF RequestFits
<1>2. /\ request' \in [Requests -> RequestState]
      /\ \A g \in Requests : RequestFits(request[g])'
  BY <1>1, OneRequest
<1>3. claim' \in ClaimRow'
  BY DEF RowsFit, ClaimRow
<1> QED BY <1>2, <1>3 DEF RowsFit

\* The rows fit at first,
LEMMA RowsInit == Init => RowsFit
<1> SUFFICES ASSUME Init PROVE RowsFit
  OBVIOUS
<1>2. channel \in ChannelRow
  BY Nothing, FreshChannel DEF Init
<1>3. claim \in ClaimRow /\ (claim.exists => channel.exists)
  <2>1. CASE claim = NoClaim /\ issued = 0
    BY <2>1 DEF NoClaim, ClaimRow
  <2>2. CASE /\ channel.type = "TELEGRAM" /\ issued = 1
             /\ claim = [NoClaim EXCEPT !.exists = TRUE, !.token = 1]
    <3>0. channel.exists
      BY <2>2, Nothing, FreshChannel DEF Init
    <3>1. claim = [exists |-> TRUE, token |-> 1, expired |-> FALSE,
                   claimed |-> FALSE]
      BY <2>2 DEF NoClaim
    <3>2. 1 \in 0..issued
      BY <2>2
    <3>3. claim \in ClaimRow
      BY <3>1, <3>2 DEF ClaimRow
    <3> QED BY <3>0, <3>3
  <2> QED BY <2>1, <2>2 DEF Init
<1>4. /\ request \in [Requests -> RequestState]
      /\ \A h \in Requests : RequestFits(request[h])
  BY Nothing DEF Init, RequestFits
<1>5. /\ proven = {} /\ bindings = {}
      /\ issued \in Nat /\ events \in 0..MaxEvents
  BY ChannelAssumption DEF Init, ChannelAssumption
<1> QED BY <1>2, <1>3, <1>4, <1>5 DEF RowsFit

\* and the handlers of the interface keep them so:
LEMMA LoadsKeepRows ==
  ASSUME RowsFit, NEW h \in Requests,
         \/ LoadForUpdate(h) \/ LoadForVerify(h) \/ LoadForLink(h)
         \/ CrashRequest(h)
  PROVE  RowsFit'
<1>t. /\ events \in 0..MaxEvents /\ channel \in ChannelRow
      /\ Destination(channel) \in Emails \cup Chats \cup {"none"}
  BY Destinations DEF RowsFit
<1>u. \A pc \in {"updating", "verifying", "linking"} : \A row \in ChannelRow :
        /\ [pc |-> pc, row |-> row] \in RequestState
        /\ [pc |-> pc, row |-> row].pc = pc /\ [pc |-> pc, row |-> row].row = row
  BY DEF RequestState
<1>1. CASE LoadForUpdate(h)
  <2>1. PICK s : s = [pc |-> "updating", row |-> channel]
    OBVIOUS
  <2>2. request' = [request EXCEPT ![h] = s] /\ events' \in 0..MaxEvents
    BY <1>t, <1>1, <2>1, TakeIsOne DEF LoadForUpdate
  <2>3. s \in RequestState /\ s.pc = "updating" /\ s.row = channel
    BY <1>t, <1>u, <2>1
  <2>4. RequestFits(s)
    BY <1>t, <1>1, <2>3 DEF LoadForUpdate, RequestFits
  <2> QED BY <1>1, <2>2, <2>3, <2>4, RowsUndisturbed DEF LoadForUpdate, history
<1>2. CASE LoadForVerify(h)
  <2>1. PICK s : s = [pc |-> "verifying", row |-> channel]
    OBVIOUS
  <2>2. request' = [request EXCEPT ![h] = s] /\ events' \in 0..MaxEvents
    BY <1>t, <1>2, <2>1, TakeIsOne DEF LoadForVerify
  <2>3. s \in RequestState /\ s.pc = "verifying" /\ s.row = channel
    BY <1>t, <1>u, <2>1
  <2>4. RequestFits(s)
    BY <1>t, <1>2, <2>3 DEF LoadForVerify, RequestFits
  <2> QED BY <1>2, <2>2, <2>3, <2>4, RowsUndisturbed DEF LoadForVerify, history
<1>3. CASE LoadForLink(h)
  <2>1. PICK s : s = [pc |-> "linking", row |-> NoChannel]
    OBVIOUS
  <2>2. request' = [request EXCEPT ![h] = s] /\ events' \in 0..MaxEvents
    BY <1>t, <1>3, <2>1, TakeIsOne DEF LoadForLink
  <2>3. s \in RequestState /\ s.pc = "linking"
    BY <1>u, <2>1, Nothing
  <2>4. RequestFits(s)
    BY <1>3, <2>3 DEF LoadForLink, RequestFits
  <2> QED BY <1>3, <2>2, <2>3, <2>4, RowsUndisturbed DEF LoadForLink, history
<1>4. CASE CrashRequest(h)
  <2>1. events' \in 0..MaxEvents
    BY <1>t, <1>4, ChannelAssumption DEF CrashRequest, Event, ChannelAssumption
  <2>2. RequestFits(IdleRequest)
    BY Nothing DEF RequestFits
  <2> QED BY <1>4, <2>1, <2>2, Nothing, RowsUndisturbed DEF CrashRequest, history
<1> QED BY <1>1, <1>2, <1>3, <1>4

\* What update_channel saves: the row as it was, or as it was loaded but for the
\* type and the configuration.
LEMMA SavedRow ==
  ASSUME RowsFit, NEW h \in Requests, SaveUpdate(h),
         NEW row, row = request[h].row
  PROVE  \/ channel' = channel /\ channel' \in ChannelRow
         \/ /\ channel' \in ChannelRow /\ row \in ChannelRow
            /\ channel'.exists = row.exists
            /\ channel'.is_verified =>
                 row.is_verified /\ channel'.config = row.config
<1>1. /\ request[h] \in RequestState /\ channel \in ChannelRow
  BY DEF RowsFit
<1>2. row \in ChannelRow /\ row.config \in Config
  BY <1>1 DEF RequestState, ChannelRow
<1>3. CASE channel' = channel
  BY <1>1, <1>3
<1>4. CASE \E t \in Types : \E c \in GivenConfigs(t, row.config) \cup {row.config} :
             channel' = Updated(row, t, c)
  <2>1. PICK t \in Types : \E c \in GivenConfigs(t, row.config) \cup {row.config} :
          channel' = Updated(row, t, c)
    BY <1>4
  <2>2. PICK c \in GivenConfigs(t, row.config) \cup {row.config} :
          channel' = Updated(row, t, c)
    BY <2>1
  <2>3. c \in Config
    BY <1>2, FreshChannel
  <2>4. (row.is_verified /\ c = row.config) \in BOOLEAN
    OBVIOUS
  <2>5. /\ channel' \in ChannelRow /\ channel'.exists = row.exists
        /\ channel'.config = c
        /\ channel'.is_verified = (row.is_verified /\ c = row.config)
    <3>1. channel' = [row EXCEPT !.type = t, !.config = c,
                                 !.is_verified = @ /\ c = row.config]
      BY <2>2 DEF Updated
    <3> QED BY <1>2, <2>3, <2>4, <3>1 DEF ChannelRow
  <2> QED BY <1>2, <2>5
<1> QED BY <1>3, <1>4 DEF SaveUpdate

\* The handlers that save a row, a deletion among them, keep the rows,
LEMMA WritesKeepRows ==
  ASSUME RowsFit, NEW h \in Requests,
         CreateChannel(h) \/ DeleteChannel(h) \/ SaveUpdate(h)
  PROVE  RowsFit'
<1>t. /\ events \in 0..MaxEvents /\ channel \in ChannelRow
      /\ claim \in ClaimRow /\ (claim.exists => channel.exists)
      /\ request[h] \in RequestState /\ RequestFits(request[h])
  BY DEF RowsFit
<1>u. UNCHANGED <<proven, bindings, issued>>
  BY DEF CreateChannel, DeleteChannel, SaveUpdate, history
<1>1. CASE CreateChannel(h)
  <2>0. PICK t \in Types :
          /\ Take(h, IF t = "TELEGRAM" THEN "linking" ELSE "idle", NoChannel)
          /\ \E c \in GivenConfigs(t, NoConfig) : channel' = Fresh(t, c)
    BY <1>1 DEF CreateChannel
  <2>1. PICK s : s = [pc |-> IF t = "TELEGRAM" THEN "linking" ELSE "idle",
                      row |-> NoChannel]
    OBVIOUS
  <2>2. request' = [request EXCEPT ![h] = s] /\ events' \in 0..MaxEvents
    BY <1>t, <2>0, <2>1, TakeIsOne
  <2>3. s \in RequestState /\ s.pc \in {"idle", "linking"}
    BY <2>1, Nothing DEF RequestState
  <2>4. RequestFits(s)'
    BY <2>3 DEF RequestFits
  <2>5. /\ request' \in [Requests -> RequestState]
        /\ \A g \in Requests : RequestFits(request[g])'
    BY <1>u, <2>2, <2>3, <2>4, OneRequest
  <2>6. channel' \in ChannelRow /\ channel'.exists
    BY <2>0, Nothing, FreshChannel
  <2>7. claim' = claim
    BY <1>1 DEF CreateChannel
  <2> QED BY <1>t, <1>u, <2>2, <2>5, <2>6, <2>7 DEF RowsFit, ClaimRow
<1>2. CASE DeleteChannel(h)
  <2>1. PICK s : s = [pc |-> "idle", row |-> NoChannel]
    OBVIOUS
  <2>2. request' = [request EXCEPT ![h] = s] /\ events' \in 0..MaxEvents
    BY <1>t, <1>2, <2>1, TakeIsOne DEF DeleteChannel
  <2>3. s \in RequestState /\ s.pc = "idle"
    BY <2>1, Nothing DEF RequestState
  <2>4. RequestFits(s)'
    BY <2>3 DEF RequestFits
  <2>5. /\ request' \in [Requests -> RequestState]
        /\ \A g \in Requests : RequestFits(request[g])'
    BY <1>u, <2>2, <2>3, <2>4, OneRequest
  <2>6. channel' = NoChannel /\ claim' = NoClaim
    BY <1>2 DEF DeleteChannel
  <2>7. claim' \in ClaimRow' /\ ~claim'.exists
    <3>1. 0 \in 0..issued'
      BY <1>u DEF RowsFit
    <3> QED BY <2>6, <3>1 DEF NoClaim, ClaimRow
  <2> QED BY <1>t, <1>u, <2>2, <2>5, <2>6, <2>7, Nothing DEF RowsFit
<1>3. CASE SaveUpdate(h)
  <2>1. request[h].pc = "updating" /\ claim' = claim /\ events' = events
    BY <1>3 DEF SaveUpdate, Step
  <2>2. /\ channel' \in ChannelRow
        /\ channel'.exists \/ channel' = channel
    BY <1>t, <1>3, <2>1, SavedRow DEF RequestFits
  <2>3. PICK s \in RequestState : request' = [request EXCEPT ![h] = s] /\ s.pc = "idle"
    BY <1>3, StepIsOne DEF SaveUpdate
  <2>4. RequestFits(s)'
    BY <2>3 DEF RequestFits
  <2>5. /\ request' \in [Requests -> RequestState]
        /\ \A g \in Requests : RequestFits(request[g])'
    BY <1>u, <2>3, <2>4, OneRequest
  <2> QED BY <1>t, <1>u, <2>1, <2>2, <2>5 DEF RowsFit, ClaimRow
<1> QED BY <1>1, <1>2, <1>3

\* as do the test message and the save of its success,
LEMMA TestsKeepRows ==
  ASSUME RowsFit, NEW h \in Requests, SendTest(h) \/ SaveVerified(h)
  PROVE  RowsFit'
<1>t. /\ request[h] \in RequestState /\ RequestFits(request[h])
      /\ channel \in ChannelRow /\ proven \subseteq Emails \cup Chats
  BY DEF RowsFit
<1>u. UNCHANGED <<claim, bindings, issued, events>>
  BY DEF SendTest, SaveVerified, history
<1>1. ASSUME Step(h, "verifying", "sent"), SendTest(h),
             proven' = proven \cup {Destination(request[h].row)}
      PROVE  RowsFit'
  <2>1. PICK s \in RequestState :
          request' = [request EXCEPT ![h] = s] /\ s.pc = "sent"
          /\ s.row = request[h].row
    BY <1>1, StepIsOne
  <2>2. request[h].pc = "verifying" /\ channel' = channel
    BY <1>1 DEF Step, SendTest
  <2>3. Destination(s.row) \in Emails \cup Chats /\ s.row.exists
    BY <1>t, <2>1, <2>2 DEF RequestFits
  <2>4. RequestFits(s)'
    BY <1>1, <2>1, <2>3 DEF RequestFits
  <2>5. /\ request' \in [Requests -> RequestState]
        /\ \A g \in Requests : RequestFits(request[g])'
    BY <1>1, <2>1, <2>4, OneRequest
  <2>6. proven' \subseteq Emails \cup Chats
    BY <1>t, <1>1, <2>1, <2>3
  <2> QED BY <1>u, <2>2, <2>5, <2>6 DEF RowsFit, ClaimRow
<1>2. ASSUME Step(h, "verifying", "idle"), SendTest(h), UNCHANGED proven
      PROVE  RowsFit'
  <2>1. PICK s \in RequestState :
          request' = [request EXCEPT ![h] = s] /\ s.pc = "idle"
    BY <1>2, StepIsOne
  <2>2. RequestFits(s)
    BY <2>1 DEF RequestFits
  <2>3. UNCHANGED channel /\ events' \in 0..MaxEvents
    BY <1>u, <1>2 DEF SendTest, RowsFit
  <2> QED BY <1>u, <1>2, <2>1, <2>2, <2>3, RowsUndisturbed
<1>3. ASSUME SaveVerified(h) PROVE RowsFit'
  <2>1. PICK s \in RequestState :
          request' = [request EXCEPT ![h] = s] /\ s.pc = "idle"
    BY <1>3, StepIsOne DEF SaveVerified
  <2>2. RequestFits(s)'
    BY <2>1 DEF RequestFits
  <2>3. /\ proven' = proven
        /\ channel' = [channel EXCEPT !.is_verified = channel.exists]
    BY <1>3 DEF SaveVerified, history
  <2>4. /\ request' \in [Requests -> RequestState]
        /\ \A g \in Requests : RequestFits(request[g])'
    BY <2>1, <2>2, <2>3, OneRequest
  <2>5. channel' \in ChannelRow /\ channel'.exists = channel.exists
    BY <1>t, <2>3 DEF ChannelRow
  <2> QED BY <1>u, <2>3, <2>4, <2>5 DEF RowsFit, ClaimRow
<1> QED BY <1>1, <1>2, <1>3 DEF SendTest

\* the links,
LEMMA LinksKeepRows ==
  ASSUME RowsFit, NEW h \in Requests, DeleteClaim(h) \/ CreateClaim(h)
  PROVE  RowsFit'
<1>t. /\ request[h] \in RequestState /\ RequestFits(request[h])
      /\ issued \in Nat /\ claim \in ClaimRow
  BY DEF RowsFit
<1>u. UNCHANGED <<channel, proven, bindings, events>>
  BY DEF DeleteClaim, CreateClaim, history
<1>1. CASE DeleteClaim(h)
  <2>1. PICK s \in RequestState :
          request' = [request EXCEPT ![h] = s] /\ s.pc = "creating"
    BY <1>1, StepIsOne DEF DeleteClaim
  <2>2. claim' = NoClaim /\ issued' = issued
    BY <1>1 DEF DeleteClaim
  <2>3. RequestFits(s)'
    BY <2>1 DEF RequestFits
  <2>4. /\ request' \in [Requests -> RequestState]
        /\ \A g \in Requests : RequestFits(request[g])'
    BY <1>u, <2>1, <2>3, OneRequest
  <2>5. claim' \in ClaimRow' /\ ~claim'.exists
    <3>1. 0 \in 0..issued'
      BY <1>t, <2>2
    <3> QED BY <2>2, <3>1 DEF NoClaim, ClaimRow
  <2> QED BY <1>u, <2>2, <2>4, <2>5 DEF RowsFit
<1>2. CASE CreateClaim(h)
  <2>1. PICK s \in RequestState :
          request' = [request EXCEPT ![h] = s] /\ s.pc = "idle"
    BY <1>2, StepIsOne DEF CreateClaim
  <2>3. RequestFits(s)'
    BY <2>1 DEF RequestFits
  <2>4. /\ request' \in [Requests -> RequestState]
        /\ \A g \in Requests : RequestFits(request[g])'
    BY <1>u, <2>1, <2>3, OneRequest
  <2>5. CASE CanInsert
    <3>1. issued' = issued + 1 /\ channel.exists
          /\ claim' = [exists |-> TRUE, token |-> issued', expired |-> FALSE,
                       claimed |-> FALSE]
      BY <1>2, <2>5 DEF CreateClaim, CanInsert, NoClaim
    <3>2. issued' \in Nat /\ issued' \in 0..issued'
      BY <1>t, <3>1
    <3>3. claim' \in ClaimRow' /\ claim'.exists
      BY <3>1, <3>2 DEF ClaimRow
    <3> QED BY <1>u, <2>4, <3>1, <3>2, <3>3 DEF RowsFit
  <2>6. CASE ~CanInsert
    <3>1. claim' = claim /\ issued' = issued
      BY <1>2, <2>6 DEF CreateClaim
    <3> QED BY <1>u, <2>4, <3>1 DEF RowsFit, ClaimRow
  <2> QED BY <2>5, <2>6
<1> QED BY <1>1, <1>2

\* The binding of a chat, and what is known of the update that brought it.
LEMMA Claiming ==
  ASSUME PollingFits, RowsFit, NEW p \in Pollers, HandleUpdate(p),
         NEW n, n = poller[p].next, NEW u, u = updates[n],
         MayClaim(u)
  PROVE  /\ n \in Sent /\ u = [token |-> u.token, chat |-> u.chat]
         /\ u.token \in 0..issued /\ u.token \in Nat /\ u.chat \in Chats
         /\ channel'.config.chat_id = u.chat /\ channel'.type = channel.type
         /\ channel' \in ChannelRow /\ channel'.exists = channel.exists
         /\ claim' = [claim EXCEPT !.claimed = TRUE]
         /\ proven' = proven \cup {u.chat}
         /\ bindings' = bindings \cup
              {[update |-> n, token |-> u.token, chat |-> u.chat,
                latest |-> issued, expected |-> channel.config.username]}
<1>1. n \in Sent
  BY DEF HandleUpdate, PollingFits, BatchFits
<1>2. u \in [token : 0..issued, chat : Chats]
  <2> DEFINE U == [token : 0..issued, chat : Chats]
  <2> HIDE DEF U
  <2>1. updates \in Seq(U)
    BY DEF PollingFits, U
  <2>2. u \in U
    BY <1>1, <2>1 DEF Sent
  <2> QED BY <2>2 DEF U
<1>3. issued \in Nat
  BY DEF RowsFit
<1>4. /\ u = [token |-> u.token, chat |-> u.chat] /\ u.token \in 0..issued
      /\ u.token \in Nat /\ u.chat \in Chats
  BY <1>2, <1>3
<1>5. channel \in ChannelRow /\ channel.config \in Config
      /\ channel.config.username \in Usernames \cup {"none"}
  BY DEF RowsFit, ChannelRow, Config
<1>6. UsernameOf[u.chat] \in Usernames \cup {"none"}
  BY <1>4, ChannelAssumption DEF ChannelAssumption
<1>7. PICK name \in Usernames \cup {"none"} :
        channel' = [channel EXCEPT !.config.chat_id = u.chat,
                                   !.config.username = name,
                                   !.is_verified = TRUE]
  BY <1>5, <1>6 DEF HandleUpdate
<1>8. PICK c : c = [channel.config EXCEPT !.chat_id = u.chat, !.username = name]
  OBVIOUS
<1>9. /\ c \in Config /\ c.chat_id = u.chat
      /\ channel' = [channel EXCEPT !.config = c, !.is_verified = TRUE]
  BY <1>4, <1>5, <1>7, <1>8 DEF Config, ChannelRow
<1>11. /\ channel' \in ChannelRow /\ channel'.config.chat_id = u.chat
       /\ channel'.exists = channel.exists /\ channel'.type = channel.type
  BY <1>5, <1>9 DEF ChannelRow
<1>10. /\ claim' = [claim EXCEPT !.claimed = TRUE]
       /\ proven' = proven \cup {u.chat}
       /\ bindings' = bindings \cup
            {[update |-> n, token |-> u.token, chat |-> u.chat,
              latest |-> issued, expected |-> channel.config.username]}
  BY DEF HandleUpdate
<1> QED BY <1>1, <1>4, <1>10, <1>11

\* Handlers that are undisturbed while history grows.
LEMMA RequestsStay ==
  ASSUME RowsFit, request' = request, proven \subseteq proven'
  PROVE  \A g \in Requests : RequestFits(request[g])'
  BY DEF RowsFit, RequestFits

\* and a Start.
LEMMA HandleKeepsRows ==
  ASSUME PollingFits, RowsFit, NEW p \in Pollers, HandleUpdate(p)
  PROVE  RowsFit'
<1>1. UNCHANGED <<request, issued, events>>
  BY DEF HandleUpdate
<1>2. PICK n : n = poller[p].next
  OBVIOUS
<1>3. PICK u : u = updates[n]
  OBVIOUS
<1>4. CASE MayClaim(u)
  <2>1. /\ n \in Sent /\ u = [token |-> u.token, chat |-> u.chat]
        /\ u.token \in 0..issued /\ u.token \in Nat /\ u.chat \in Chats
        /\ channel'.config.chat_id = u.chat /\ channel'.type = channel.type
        /\ channel' \in ChannelRow /\ channel'.exists = channel.exists
        /\ claim' = [claim EXCEPT !.claimed = TRUE]
        /\ proven' = proven \cup {u.chat}
        /\ bindings' = bindings \cup
             {[update |-> n, token |-> u.token, chat |-> u.chat,
               latest |-> issued, expected |-> channel.config.username]}
    BY <1>2, <1>3, <1>4, Claiming
  <2>2. claim' \in ClaimRow' /\ claim'.exists = claim.exists
    BY <1>1, <2>1 DEF RowsFit, ClaimRow
  <2>3. \A g \in Requests : RequestFits(request[g])'
    BY <1>1, <2>1, RequestsStay
  <2>4. bindings' \subseteq Binding
    <3>1. n \in Nat
      BY <2>1, UpdatesType DEF PollingFits, Sent
    <3>2. channel.config.username \in Usernames \cup {"none"} /\ issued \in Nat
      BY DEF RowsFit, ChannelRow, Config
    <3>3. [update |-> n, token |-> u.token, chat |-> u.chat,
           latest |-> issued, expected |-> channel.config.username] \in Binding
      BY <2>1, <3>1, <3>2 DEF Binding
    <3> QED BY <2>1, <3>3 DEF RowsFit
  <2>5. proven' \subseteq Emails \cup Chats
    BY <2>1 DEF RowsFit
  <2> QED BY <1>1, <2>1, <2>2, <2>3, <2>4, <2>5 DEF RowsFit
<1>5. CASE ~MayClaim(u)
  <2>1. UNCHANGED <<channel, claim, proven, bindings>>
    BY <1>2, <1>3, <1>5 DEF HandleUpdate
  <2>2. \A g \in Requests : RequestFits(request[g])'
    BY <1>1, <2>1, RequestsStay
  <2> QED BY <1>1, <2>1, <2>2 DEF RowsFit, ClaimRow
<1> QED BY <1>4, <1>5

\* No other step touches them,
LEMMA RowsNext == PollingFits /\ RowsFit /\ [Next]_vars => RowsFit'
<1> SUFFICES ASSUME PollingFits, RowsFit, [Next]_vars PROVE RowsFit'
  OBVIOUS
<1>1. ASSUME NEW h \in Requests, RequestNext(h) PROVE RowsFit'
  BY <1>1, LoadsKeepRows, WritesKeepRows, TestsKeepRows, LinksKeepRows
     DEF RequestNext
<1>2. CASE Expire
  <2>1. /\ UNCHANGED <<channel, request, proven, bindings, issued, events>>
        /\ claim' = [claim EXCEPT !.expired = TRUE]
    BY <1>2 DEF Expire, history
  <2>2. claim' \in ClaimRow' /\ claim'.exists = claim.exists
    BY <2>1 DEF RowsFit, ClaimRow
  <2>3. \A g \in Requests : RequestFits(request[g])'
    BY <2>1, RequestsStay
  <2> QED BY <2>1, <2>2, <2>3 DEF RowsFit
<1>3. ASSUME NEW p \in Pollers, HandleUpdate(p) PROVE RowsFit'
  BY <1>3, HandleKeepsRows
<1>4. ASSUME UNCHANGED <<channel, claim, request, proven, bindings, issued>>,
             events' = events \/ (events < MaxEvents /\ events' = events + 1)
      PROVE  RowsFit'
  <2>1. events' \in 0..MaxEvents
    BY <1>4, ChannelAssumption DEF RowsFit, ChannelAssumption
  <2>2. \A g \in Requests : RequestFits(request[g])'
    BY <1>4, RequestsStay
  <2> QED BY <1>4, <2>1, <2>2 DEF RowsFit, ClaimRow
<1>5. CASE LockExpires \/ CacheLost \/ UNCHANGED vars
  BY <1>4, <1>5 DEF LockExpires, CacheLost, vars, history, Event
<1>6. ASSUME NEW c \in Chats, PressStart(c) PROVE RowsFit'
  BY <1>4, <1>6 DEF PressStart, history, Event
<1>7. ASSUME NEW p \in Pollers,
             \/ AcquireLock(p) \/ GetUpdates(p) \/ Reply(p)
             \/ SetOffset(p) \/ PollFails(p) \/ CrashPoller(p)
      PROVE  RowsFit'
  BY <1>4, <1>7 DEF AcquireLock, GetUpdates, Reply, SetOffset, PollFails,
                    CrashPoller, history, Event
<1> QED BY <1>1, <1>2, <1>3, <1>5, <1>6, <1>7 DEF Next

\* so they always fit.
LEMMA RowsHold == Spec => []RowsFit
<1> QED BY RowsInit, RowsNext, PollingHolds, PTL DEF Spec

\* Every variable has its type.
THEOREM TypeCorrect == Spec => []TypeOK
<1>1. PollingFits /\ RowsFit => TypeOK
  BY DEF PollingFits, RowsFit, TypeOK, Binding
<1> QED BY <1>1, PollingHolds, RowsHold, PTL

\* What a step may do to the row, where it says verified afterwards.
Allowed ==
  Unproven(channel)' =>
    \/ Unproven(channel) /\ Destination(channel)' = Destination(channel)
    \/ \E h \in Requests :
         LET row == request[h].row
         IN  \/ /\ request[h].pc = "sent"
                /\ Destination(row) # Destination(channel)
             \/ /\ request[h].pc = "updating"
                /\ row.is_verified /\ channel'.config = row.config
                /\ channel'.type # row.type \/ Unproven(row)
    \/ channel.type = "EMAIL" /\ ~claim.claimed /\ claim'.claimed

\* Where the row stays as it is nothing has to be explained.
LEMMA RowStays ==
  ASSUME channel' = channel, proven \subseteq proven'
  PROVE  Allowed
  BY DEF Allowed, Unproven, Destination

\* update_channel: the configuration is that of the loaded row, or the row is
\* not verified.
LEMMA UpdateExplained ==
  ASSUME RowsFit, NEW h \in Requests, SaveUpdate(h)
  PROVE  Allowed
<1>1. PICK row : row = request[h].row
  OBVIOUS
<1>2. request[h].pc = "updating" /\ proven' = proven
  BY DEF SaveUpdate, Step, history
<1>3. CASE channel' = channel
  BY <1>2, <1>3, RowStays
<1>4. CASE /\ channel'.is_verified =>
                row.is_verified /\ channel'.config = row.config
  <2> SUFFICES ASSUME Unproven(channel)', channel'.type = row.type
               PROVE  Unproven(row) /\ row.is_verified /\ channel'.config = row.config
    BY <1>1, <1>2, <1>4 DEF Allowed, Unproven
  <2>1. row.is_verified /\ channel'.config = row.config
    BY <1>4 DEF Unproven
  <2>2. Destination(row) = Destination(channel')
    BY <2>1 DEF Destination
  <2> QED BY <1>2, <2>1, <2>2 DEF Unproven, Destination
<1> QED BY <1>1, <1>3, <1>4, SavedRow

\* verify_channel: the destination of the test message is proven.
LEMMA VerifyExplained ==
  ASSUME RowsFit, NEW h \in Requests, SaveVerified(h)
  PROVE  Allowed
<1>1. /\ request[h].pc = "sent" /\ proven' = proven
      /\ channel' = [channel EXCEPT !.is_verified = channel.exists]
  BY DEF SaveVerified, Step, history
<1>2. Destination(request[h].row) \in proven
  BY <1>1 DEF RowsFit, RequestFits
<1>3. Destination(channel') = Destination(channel)
  BY <1>1 DEF Destination, RowsFit, ChannelRow
<1>4. Unproven(channel)' => Destination(channel) \notin proven
  BY <1>1, <1>3 DEF Unproven, Destination
<1> QED BY <1>1, <1>2, <1>4 DEF Allowed

\* claim_telegram_chat: the chat that pressed Start is proven.
LEMMA StartExplained ==
  ASSUME PollingFits, RowsFit, NEW p \in Pollers, HandleUpdate(p)
  PROVE  Allowed
<1>1. PICK n : n = poller[p].next
  OBVIOUS
<1>2. PICK u : u = updates[n]
  OBVIOUS
<1>3. CASE MayClaim(u)
  <2>1. /\ channel'.config.chat_id = u.chat /\ channel'.type = channel.type
        /\ claim' = [claim EXCEPT !.claimed = TRUE]
        /\ proven' = proven \cup {u.chat}
    BY <1>1, <1>2, <1>3, Claiming
  <2>2. ~claim.claimed /\ claim'.claimed
    BY <1>3, <2>1 DEF MayClaim, RowsFit, ClaimRow
  <2>3. channel.type # "EMAIL" => Destination(channel') \in proven'
    BY <2>1 DEF Destination
  <2>4. channel.type # "EMAIL" => ~Unproven(channel)'
    BY <2>3 DEF Unproven, Destination
  <2> QED BY <2>2, <2>4 DEF Allowed
<1>4. CASE ~MayClaim(u)
  <2>1. UNCHANGED <<channel, proven>>
    BY <1>1, <1>2, <1>4 DEF HandleUpdate
  <2> QED BY <2>1, RowStays
<1> QED BY <1>3, <1>4

\* No other step makes a channel verified or moves its destination.
LEMMA EveryStepExplained ==
  PollingFits /\ RowsFit /\ [Next]_vars => Allowed
<1> SUFFICES ASSUME PollingFits, RowsFit, [Next]_vars PROVE Allowed
  OBVIOUS
<1>1. ASSUME NEW h \in Requests, RequestNext(h) PROVE Allowed
  <2>1. CASE CreateChannel(h)
    <3>1. PICK t \in Types : \E c \in GivenConfigs(t, NoConfig) : channel' = Fresh(t, c)
      BY <2>1 DEF CreateChannel
    <3>2. ~channel'.is_verified
      BY <3>1 DEF Fresh
    <3> QED BY <3>2 DEF Allowed, Unproven
  <2>2. CASE DeleteChannel(h)
    BY <2>2, Nothing DEF DeleteChannel, Allowed, Unproven
  <2>3. CASE SaveUpdate(h)
    BY <2>3, UpdateExplained
  <2>4. CASE SaveVerified(h)
    BY <2>4, VerifyExplained
  <2>5. CASE \/ LoadForUpdate(h) \/ LoadForVerify(h) \/ SendTest(h)
             \/ LoadForLink(h) \/ DeleteClaim(h) \/ CreateClaim(h)
             \/ CrashRequest(h)
    <3>1. channel' = channel /\ proven \subseteq proven'
      BY <2>5 DEF LoadForUpdate, LoadForVerify, SendTest, LoadForLink,
                  DeleteClaim, CreateClaim, CrashRequest, history
    <3> QED BY <3>1, RowStays
  <2> QED BY <1>1, <2>1, <2>2, <2>3, <2>4, <2>5 DEF RequestNext
<1>2. ASSUME NEW p \in Pollers, HandleUpdate(p) PROVE Allowed
  BY <1>2, StartExplained
<1>3. ASSUME NEW p \in Pollers,
             \/ AcquireLock(p) \/ GetUpdates(p) \/ Reply(p)
             \/ SetOffset(p) \/ PollFails(p) \/ CrashPoller(p)
      PROVE  Allowed
  BY <1>3, RowStays DEF AcquireLock, GetUpdates, Reply, SetOffset, PollFails,
                        CrashPoller, history
<1>4. ASSUME NEW c \in Chats, PressStart(c) PROVE Allowed
  BY <1>4, RowStays DEF PressStart, history
<1>5. CASE Expire \/ LockExpires \/ CacheLost \/ UNCHANGED vars
  BY <1>5, RowStays DEF Expire, LockExpires, CacheLost, vars, history
<1> QED BY <1>1, <1>2, <1>3, <1>4, <1>5 DEF Next

\* NotificationChannel.is_verified (services.py:60-68, 94-104, 319-329): a test
\* that an edit has outrun, an update of the type alone and a Start for what has
\* become an e-mail channel are the only ways to a channel that is called
\* verified for a destination that was never shown to work.
THEOREM UnprovenIsExplained == Spec => UnprovenExplained
<1>1. PollingFits /\ RowsFit /\ [Next]_vars => [Allowed]_vars
  BY EveryStepExplained
<1> QED BY <1>1, PollingHolds, RowsHold, PTL DEF Spec, UnprovenExplained, Allowed

-----------------------------------------------------------------------------
(* The links: each binds one chat, and only while it is the latest         *)

\* A binding by the link issued last, on a Start that Telegram has on record.
Honest(b) ==
  /\ b.token = b.latest /\ b.token <= issued
  /\ b.update \in Sent
  /\ updates[b.update] = [token |-> b.token, chat |-> b.chat]
  /\ b.expected \in {"none", UsernameOf[b.chat]}

\* Inductive: the claim in the table is for the last link, and while nobody
\* has used it no binding carries its token.
LinksFit ==
  /\ claim.exists => claim.token = issued
  /\ \A b \in bindings : Honest(b)
  /\ \A b, c \in bindings : b.token = c.token => b = c
  /\ claim.exists /\ ~claim.claimed => \A b \in bindings : b.token # claim.token

\* In the beginning nothing is bound.
LEMMA LinksInit == Init => LinksFit
<1> SUFFICES ASSUME Init PROVE LinksFit
  OBVIOUS
<1>1. bindings = {}
  BY DEF Init
<1>2. claim.exists => claim.token = issued
  <2>1. CASE claim = NoClaim
    BY <2>1, Nothing
  <2>2. CASE issued = 1 /\ claim = [NoClaim EXCEPT !.exists = TRUE, !.token = 1]
    BY <2>2 DEF NoClaim
  <2> QED BY <2>1, <2>2 DEF Init
<1> HIDE DEF Init
<1>3. \A b, c \in bindings : b.token = c.token => b = c
  BY <1>1
<1> QED BY <1>1, <1>2, <1>3 DEF LinksFit

\* Bindings outlive new links and new Starts.
LEMMA HonestStays ==
  ASSUME PollingFits, issued' \in Nat, issued' >= issued, NEW b, Honest(b),
         b.token \in Nat,
         \/ updates' = updates
         \/ \E u \in [token : 0..issued, chat : Chats] :
              updates' = Append(updates, u)
  PROVE  Honest(b)'
<1>1. issued \in Nat
  BY DEF PollingFits
<1>2. b.token <= issued'
  <2>1. \A x, y, z \in Nat : x <= y /\ z >= y => x <= z
    OBVIOUS
  <2> QED BY <1>1, <2>1 DEF Honest
<1>3. b.update \in Sent' /\ updates'[b.update] = updates[b.update]
  BY UpdatesType DEF PollingFits, Honest, Sent
<1> QED BY <1>2, <1>3 DEF Honest

\* A link is used while it is the latest, and a new one has a new token.
LEMMA LinksNext ==
  PollingFits /\ RowsFit /\ LinksFit /\ [Next]_vars => LinksFit'
<1> SUFFICES ASSUME PollingFits, RowsFit, LinksFit, [Next]_vars PROVE LinksFit'
  OBVIOUS
<1>t. /\ issued \in Nat /\ claim \in ClaimRow
      /\ \A b \in bindings : b.token \in Nat /\ b.token <= issued
  BY DEF RowsFit, LinksFit, Binding, Honest
<1>1. ASSUME bindings' = bindings, issued' = issued,
             \/ claim' = claim \/ claim' = NoClaim
             \/ claim' = [claim EXCEPT !.expired = TRUE],
             \/ updates' = updates
             \/ \E u \in [token : 0..issued, chat : Chats] :
                  updates' = Append(updates, u)
      PROVE  LinksFit'
  <2>1. \A b \in bindings : Honest(b)'
    <3> SUFFICES ASSUME NEW b \in bindings PROVE Honest(b)'
      OBVIOUS
    <3>1. Honest(b) /\ issued' \in Nat /\ issued' >= issued /\ b.token \in Nat
      BY <1>t, <1>1 DEF LinksFit
    <3> QED BY <1>1, <3>1, HonestStays
  <2>2. claim'.exists => /\ claim.exists /\ claim'.token = claim.token
                         /\ claim'.claimed = claim.claimed
    BY <1>t, <1>1 DEF NoClaim, ClaimRow
  <2> QED BY <1>1, <2>1, <2>2 DEF LinksFit
<1>2. ASSUME NEW h \in Requests, RequestNext(h) PROVE LinksFit'
  <2>1. CASE CreateClaim(h) /\ CanInsert
    <3>1. /\ issued' = issued + 1
          /\ claim' = [exists |-> TRUE, token |-> issued', expired |-> FALSE,
                       claimed |-> FALSE]
          /\ bindings' = bindings /\ updates' = updates
      BY <2>1 DEF CreateClaim, NoClaim, telegram, history
    <3>2. issued' \in Nat /\ issued' >= issued
      BY <1>t, <3>1
    <3>3. \A b \in bindings : Honest(b)'
      <4> SUFFICES ASSUME NEW b \in bindings PROVE Honest(b)'
        OBVIOUS
      <4>1. Honest(b) /\ b.token \in Nat
        BY <1>t DEF LinksFit
      <4> QED BY <3>1, <3>2, <4>1, HonestStays
    <3>4. \A b \in bindings : b.token # claim'.token
      BY <1>t, <3>1
    <3> QED BY <3>1, <3>3, <3>4 DEF LinksFit
  <2>2. CASE CreateClaim(h) /\ ~CanInsert
    BY <1>1, <2>2 DEF CreateClaim, telegram, history
  <2>3. CASE \/ CreateChannel(h) \/ LoadForUpdate(h) \/ SaveUpdate(h)
             \/ LoadForVerify(h) \/ LoadForLink(h)
             \/ DeleteChannel(h) \/ DeleteClaim(h) \/ CrashRequest(h)
    BY <1>1, <2>3 DEF CreateChannel, LoadForUpdate, SaveUpdate, LoadForVerify,
       LoadForLink, DeleteClaim, DeleteChannel, CrashRequest, telegram, history
  <2>4. CASE SendTest(h) \/ SaveVerified(h)
    BY <1>1, <2>4 DEF SendTest, SaveVerified, telegram, history
  <2> QED BY <1>2, <2>1, <2>2, <2>3, <2>4 DEF RequestNext
<1>3. CASE Expire \/ LockExpires \/ CacheLost \/ UNCHANGED vars
  BY <1>1, <1>3 DEF Expire, LockExpires, CacheLost, vars, telegram, history
<1>4. ASSUME NEW c \in Chats, PressStart(c) PROVE LinksFit'
  <2>1. PICK t \in 0..issued :
          updates' = Append(updates, [token |-> t, chat |-> c])
    BY <1>4 DEF PressStart
  <2>2. UNCHANGED <<bindings, issued, claim>>
    BY <1>4 DEF PressStart, history
  <2>3. [token |-> t, chat |-> c] \in [token : 0..issued, chat : Chats]
    OBVIOUS
  <2> QED BY <1>1, <2>1, <2>2, <2>3
<1>5. ASSUME NEW p \in Pollers,
             \/ AcquireLock(p) \/ GetUpdates(p) \/ Reply(p)
             \/ SetOffset(p) \/ PollFails(p) \/ CrashPoller(p)
      PROVE  LinksFit'
  BY <1>1, <1>5 DEF AcquireLock, GetUpdates, Reply, SetOffset, PollFails,
                    CrashPoller, telegram, history
<1>6. ASSUME NEW p \in Pollers, HandleUpdate(p) PROVE LinksFit'
  <2>1. updates' = updates /\ issued' = issued
    BY <1>6 DEF HandleUpdate, telegram
  <2>2. PICK n : n = poller[p].next
    OBVIOUS
  <2>3. PICK u : u = updates[n]
    OBVIOUS
  <2>4. CASE MayClaim(u)
    <3>1. PICK b : b = [update |-> n, token |-> u.token, chat |-> u.chat,
                        latest |-> issued, expected |-> channel.config.username]
      OBVIOUS
    <3>2. /\ n \in Sent /\ u = [token |-> u.token, chat |-> u.chat]
          /\ claim' = [claim EXCEPT !.claimed = TRUE]
          /\ bindings' = bindings \cup {b}
      BY <1>6, <2>2, <2>3, <2>4, <3>1, Claiming
    <3>3. /\ claim.exists /\ ~claim.claimed /\ u.token = claim.token
          /\ claim.token = issued
          /\ channel.config.username \in {"none", UsernameOf[u.chat]}
      BY <2>4 DEF MayClaim, LinksFit
    <3>4. claim'.exists /\ claim'.claimed /\ claim'.token = issued
      BY <1>t, <3>2, <3>3 DEF ClaimRow
    <3>5. /\ b.token = issued /\ b.latest = issued /\ b.update = n
          /\ b.chat = u.chat /\ b.expected = channel.config.username
          /\ b.token = u.token
      BY <3>1, <3>3
    <3>6. Honest(b)'
      BY <1>t, <2>1, <2>3, <3>2, <3>3, <3>5 DEF Honest, Sent
    <3>7. \A c \in bindings : Honest(c)'
      BY <2>1 DEF LinksFit, Honest, Sent
    <3>8. \A c \in bindings : c.token # b.token
      BY <3>3, <3>5 DEF LinksFit
    <3> QED BY <2>1, <3>2, <3>4, <3>6, <3>7, <3>8 DEF LinksFit
  <2>5. CASE ~MayClaim(u)
    <3>1. UNCHANGED <<claim, bindings>>
      BY <1>6, <2>2, <2>3, <2>5 DEF HandleUpdate
    <3> QED BY <1>1, <2>1, <3>1
  <2> QED BY <2>4, <2>5
<1> QED BY <1>2, <1>3, <1>4, <1>5, <1>6 DEF Next

\* claim_telegram_chat: whatever Telegram repeats and however pollers overlap,
\* a chat is bound by the link issued last, by its own Start, and once.
THEOREM ChatsAreBoundOnce == Spec => []BoundByLatestLink
<1>1. LinksFit => BoundByLatestLink
  BY DEF LinksFit, Honest, BoundByLatestLink
<1> QED BY <1>1, LinksInit, LinksNext, PollingHolds, RowsHold, PTL DEF Spec
=============================================================================
