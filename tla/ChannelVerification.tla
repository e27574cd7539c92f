------------------------ MODULE ChannelVerification ------------------------
(***************************************************************************)
(* How a notification channel comes to be verified: the handlers of the    *)
(* channels API (apps/notifications/views.py and services.py), and the     *)
(* handshake that binds a Telegram chat, which starts with a one-time link *)
(* (TelegramClaim) and ends in the task poll_telegram_updates.             *)
(*                                                                         *)
(* A handler loads a row, decides, and saves it: other handlers and the    *)
(* poller come in between.  claim_telegram_chat is one transaction that    *)
(* locks the claim and the channel, and so one step.  Telegram keeps every *)
(* update until getUpdates is called with a greater offset.                *)
(***************************************************************************)
EXTENDS Naturals, Sequences

CONSTANTS
  Emails,      \* e-mail addresses
  Chats,       \* Telegram chats
  Usernames,   \* Telegram user names
  UsernameOf,  \* UsernameOf[c]: who owns chat c, or "none"
  Requests,    \* HTTP handlers that may be in flight
  Pollers,     \* executions of poll_telegram_updates that may overlap
  MaxEvents    \* bound: requests, Starts pressed, and failures, together

ASSUME ChannelAssumption ==
  /\ "none" \notin Emails \cup Chats /\ Emails \cap Chats = {}
  /\ UsernameOf \in [Chats -> Usernames \cup {"none"}]
  /\ MaxEvents \in Nat

VARIABLES
  channel,    \* the NotificationChannel row
  claim,      \* its TelegramClaim row
  request,    \* what each handler is doing
  updates,    \* Telegram: updates[n] is the n-th Start, as [token, chat]
  confirmed,  \* Telegram: updates below this one are forgotten
  offset,     \* cache: POLL_OFFSET_KEY, 0 when there is none
  lock,       \* cache: POLL_LOCK_KEY is set
  poller,     \* what each poll is doing
  proven,     \* history: what a test message or a Start has shown to work
  bindings,   \* history: [token, chat, latest, expected] of every binding
  answered,   \* history: updates that were replied to
  issued,     \* links issued
  events      \* requests taken, Starts pressed, and failures

telegram == <<updates, confirmed>>
polling  == <<offset, lock, poller>>
history  == <<proven, bindings, answered>>

vars == <<channel, claim, request, telegram, polling, history, issued, events>>

Types == {"EMAIL", "TELEGRAM"}

\* The keys of config that are read, for either type: a channel keeps those of
\* the other one when its type is changed.
Config == [email : Emails \cup {"none"}, chat_id : Chats \cup {"none"},
           username : Usernames \cup {"none"}]

NoConfig == [email |-> "none", chat_id |-> "none", username |-> "none"]

ChannelRow == [exists : BOOLEAN, type : Types \cup {"none"}, config : Config,
               is_verified : BOOLEAN]

NoChannel == [exists |-> FALSE, type |-> "none", config |-> NoConfig,
              is_verified |-> FALSE]

\* Where get_provider(type).send(config) sends to.
Destination(row) ==
  IF row.type = "EMAIL" THEN row.config.email ELSE row.config.chat_id

ClaimRow ==
  [exists : BOOLEAN, token : 0..issued, expired : BOOLEAN, claimed : BOOLEAN]

NoClaim == [exists |-> FALSE, token |-> 0, expired |-> FALSE, claimed |-> FALSE]

RequestState ==
  [pc : {"idle", "updating", "verifying", "sent", "linking", "creating"},
   row : ChannelRow]

IdleRequest == [pc |-> "idle", row |-> NoChannel]

\* The batch is first..last; next is the update to handle or to reply to.
PollerState ==
  [pc : {"idle", "polling", "handling", "replying", "setting"},
   offset : Nat, next : Nat, last : Nat]

IdlePoller == [pc |-> "idle", offset |-> 0, next |-> 0, last |-> 0]

Sent == 1..Len(updates)

TypeOK ==
  /\ channel \in ChannelRow
  /\ claim \in ClaimRow
  /\ claim.exists => channel.exists
  /\ request \in [Requests -> RequestState]
  /\ updates \in Seq([token : 0..issued, chat : Chats])
  /\ confirmed \in Nat /\ offset \in Nat /\ lock \in BOOLEAN
  /\ poller \in [Pollers -> PollerState]
  /\ proven \subseteq Emails \cup Chats
  /\ bindings \subseteq [update : Nat, token : Nat, chat : Chats, latest : Nat,
                         expected : Usernames \cup {"none"}]
  /\ answered \subseteq Sent
  /\ issued \in Nat /\ events \in 0..MaxEvents

\* What validate() makes of the config of a request for a channel of type t: of
\* an e-mail channel it is kept as it came, of a Telegram channel the user name
\* is, next to the chat_id of the row as it was loaded.
GivenConfigs(t, loaded) ==
  IF t = "EMAIL" THEN {c \in Config : c.email # "none"}
  ELSE {[NoConfig EXCEPT !.chat_id = loaded.chat_id, !.username = u] :
          u \in Usernames \cup {"none"}}

Fresh(t, c) ==
  [exists |-> TRUE, type |-> t, config |-> c, is_verified |-> FALSE]

\* No channel yet, or one that was created a while ago, with its first link or
\* without, which nobody has opened.
Init ==
  /\ \/ channel = NoChannel
     \/ \E t \in Types : \E c \in GivenConfigs(t, NoConfig) : channel = Fresh(t, c)
  /\ \/ claim = NoClaim /\ issued = 0
     \/ /\ channel.type = "TELEGRAM" /\ issued = 1
        /\ claim = [NoClaim EXCEPT !.exists = TRUE, !.token = 1]
  /\ request = [h \in Requests |-> IdleRequest]
  /\ updates = <<>> /\ confirmed = 1
  /\ offset = 0 /\ lock = FALSE
  /\ poller = [p \in Pollers |-> IdlePoller]
  /\ proven = {} /\ bindings = {}
  /\ answered = {}
  /\ events = 0

Event == events < MaxEvents /\ events' = events + 1

-----------------------------------------------------------------------------
(* The channels API                                                        *)

Take(h, pc, row) ==
  /\ request[h].pc = "idle"
  /\ Event
  /\ request' = [request EXCEPT ![h] = [pc |-> pc, row |-> row]]

Step(h, from, to) ==
  /\ request[h].pc = from
  /\ request' = [request EXCEPT ![h] = IF to = "idle" THEN IdleRequest
                                       ELSE [@ EXCEPT !.pc = to]]

\* create_channel: the row is saved; a Telegram channel gets a link next.
CreateChannel(h) ==
  /\ ~channel.exists /\ events = 0
  /\ \E t \in Types :
       /\ Take(h, IF t = "TELEGRAM" THEN "linking" ELSE "idle", NoChannel)
       /\ \E c \in GivenConfigs(t, NoConfig) : channel' = Fresh(t, c)
  /\ UNCHANGED <<claim, telegram, polling, history, issued>>

\* get_object
LoadForUpdate(h) ==
  /\ channel.exists
  /\ Take(h, "updating", channel)
  /\ UNCHANGED <<channel, claim, telegram, polling, history, issued>>

\* Fault: a new destination is as good as the old one.
UpdatedKeepingVerified(row, t, c) == [row EXCEPT !.type = t, !.config = c]

\* update_channel on the row as it was loaded, whose config may stay the same.
Updated(row, t, c) ==
  [row EXCEPT !.type = t, !.config = c, !.is_verified = @ /\ c = row.config]

\* The request is refused, or saved: channel.save() writes every column, and
\* inserts a row that is gone.
SaveUpdate(h) ==
  LET row == request[h].row
  IN  /\ Step(h, "updating", "idle")
      /\ \/ UNCHANGED channel
         \/ \E t \in Types : \E c \in GivenConfigs(t, row.config) \cup {row.config} :
              /\ t = "EMAIL" => c.email # "none"
              /\ channel' = Updated(row, t, c)
      /\ UNCHANGED <<claim, telegram, polling, history, issued, events>>

\* verify_channel, except for a Telegram channel that is not connected yet.
LoadForVerify(h) ==
  /\ channel.exists /\ Destination(channel) # "none"
  /\ Take(h, "verifying", channel)
  /\ UNCHANGED <<channel, claim, telegram, polling, history, issued>>

\* provider.send answers: the test message arrived, or it did not (then only
\* last_error is saved).
SendTest(h) ==
  /\ \/ /\ Step(h, "verifying", "sent")
        /\ proven' = proven \cup {Destination(request[h].row)}
     \/ Step(h, "verifying", "idle") /\ UNCHANGED proven
  /\ UNCHANGED <<channel, claim, telegram, polling, bindings, answered,
                issued, events>>

\* save(update_fields=["is_verified", ...]); no row is left to update when the
\* channel was deleted, which is an error.
SaveVerified(h) ==
  /\ Step(h, "sent", "idle")
  /\ channel' = [channel EXCEPT !.is_verified = channel.exists]
  /\ UNCHANGED <<claim, telegram, polling, history, issued, events>>

\* telegram_link
LoadForLink(h) ==
  /\ channel.type = "TELEGRAM"
  /\ Take(h, "linking", NoChannel)
  /\ UNCHANGED <<channel, claim, telegram, polling, history, issued>>

\* issue_telegram_claim: the DELETE ...
DeleteClaim(h) ==
  /\ Step(h, "linking", "creating")
  /\ claim' = NoClaim
  /\ UNCHANGED <<channel, telegram, polling, history, issued, events>>

\* Fault: the foreign key is not checked.
CanInsertAnyway == ~claim.exists

\* Nobody has inserted a claim meanwhile, and the channel is still there.
CanInsert == ~claim.exists /\ channel.exists

\* ... and the INSERT, which may fail.
CreateClaim(h) ==
  /\ Step(h, "creating", "idle")
  /\ IF CanInsert
       THEN /\ issued' = issued + 1
            /\ claim' = [NoClaim EXCEPT !.exists = TRUE, !.token = issued']
       ELSE UNCHANGED <<claim, issued>>
  /\ UNCHANGED <<channel, telegram, polling, history, events>>

\* delete_channel: the DELETE cascades to the claim.
DeleteChannel(h) ==
  /\ channel.exists
  /\ Take(h, "idle", NoChannel)
  /\ channel' = NoChannel /\ claim' = NoClaim
  /\ UNCHANGED <<telegram, polling, history, issued>>

\* The process dies between two statements.
CrashRequest(h) ==
  /\ request[h].pc # "idle" /\ Event
  /\ request' = [request EXCEPT ![h] = IdleRequest]
  /\ UNCHANGED <<channel, claim, telegram, polling, history, issued>>

-----------------------------------------------------------------------------
(* Telegram and its users                                                  *)

\* TELEGRAM_CLAIM_TTL_MINUTES have passed since the link was issued.
Expire ==
  /\ claim.exists /\ ~claim.expired
  /\ claim' = [claim EXCEPT !.expired = TRUE]
  /\ UNCHANGED <<channel, request, telegram, polling, history, issued,
                events>>

\* Somebody opens a link, old or new, or finds the bot without one (token 0),
\* and presses Start.
PressStart(c) ==
  /\ Event
  /\ \E t \in 0..issued :
       updates' = Append(updates, [token |-> t, chat |-> c])
  /\ UNCHANGED <<channel, claim, request, confirmed, polling, history,
                issued>>

-----------------------------------------------------------------------------
(* poll_telegram_updates                                                   *)

Goes(p, state) == poller' = [poller EXCEPT ![p] = state] /\ UNCHANGED lock

\* The task is over; its finally clause deletes the lock, whoever has it now.
Over(p) == poller' = [poller EXCEPT ![p] = IdlePoller] /\ lock' = FALSE

\* cache.add succeeds, and the offset is read.
AcquireLock(p) ==
  /\ poller[p].pc = "idle"
  /\ ~lock
  /\ lock' = TRUE
  /\ poller' = [poller EXCEPT ![p] = [IdlePoller EXCEPT !.pc = "polling",
                                                       !.offset = offset]]
  /\ UNCHANGED <<channel, claim, request, telegram, offset, history,
                issued, events>>

\* POLL_LOCK_TTL_SECONDS have passed, whether or not its holder is through.
LockExpires ==
  /\ lock
  /\ lock' = FALSE
  /\ UNCHANGED <<channel, claim, request, telegram, offset, poller,
                history, issued, events>>

\* getUpdates confirms what is below the offset and returns what is left, or
\* times out with nothing.
GetUpdates(p) ==
  /\ poller[p].pc = "polling"
  /\ confirmed' = IF poller[p].offset > confirmed THEN poller[p].offset
                                                  ELSE confirmed
  /\ IF confirmed' \in Sent
       THEN Goes(p, [IdlePoller EXCEPT !.pc = "handling", !.next = confirmed',
                                       !.last = Len(updates)])
       ELSE Over(p)
  /\ UNCHANGED <<channel, claim, request, updates, offset, history,
                issued, events>>

\* 409, a network error, or a task that is interrupted by an exception.
PollFails(p) ==
  /\ poller[p].pc # "idle" /\ Event
  /\ Over(p)
  /\ UNCHANGED <<channel, claim, request, telegram, offset, history,
                issued>>

\* Fault: a link is good for as many chats as use it.
MayClaimAgain(u) ==
  /\ claim.exists /\ claim.token = u.token /\ ~claim.expired
  /\ channel.config.username \in {"none", UsernameOf[u.chat]}

\* The early returns of claim_telegram_chat: no such token, used already,
\* expired, or somebody else than the one declared.
MayClaim(u) ==
  /\ claim.exists /\ claim.token = u.token
  /\ ~claim.claimed /\ ~claim.expired
  /\ channel.config.username \in {"none", UsernameOf[u.chat]}

\* _handle_update up to the reply.
HandleUpdate(p) ==
  LET n == poller[p].next
      u == updates[n]
  IN  /\ poller[p].pc = "handling"
      /\ Goes(p, [poller[p] EXCEPT !.pc = "replying"])
      /\ IF MayClaim(u)
           THEN /\ channel' = [channel EXCEPT
                     !.config.chat_id = u.chat,
                     !.config.username = IF UsernameOf[u.chat] = "none"
                                           THEN @ ELSE UsernameOf[u.chat],
                     !.is_verified = TRUE]
                /\ claim' = [claim EXCEPT !.claimed = TRUE]
                /\ proven' = proven \cup {u.chat}
                /\ bindings' = bindings \cup
                     {[update |-> n, token |-> u.token, chat |-> u.chat,
                       latest |-> issued, expected |-> channel.config.username]}
           ELSE UNCHANGED <<channel, claim, proven, bindings>>
      /\ UNCHANGED <<request, telegram, offset, answered, issued, events>>

\* telegram.send_message; its outcome is ignored.
Reply(p) ==
  LET n == poller[p].next
  IN  /\ poller[p].pc = "replying"
      /\ answered' = answered \cup {n}
      /\ Goes(p, IF n < poller[p].last
                   THEN [poller[p] EXCEPT !.pc = "handling", !.next = n + 1]
                   ELSE [poller[p] EXCEPT !.pc = "setting"])
      /\ UNCHANGED <<channel, claim, request, telegram, offset,
                    proven, bindings, issued, events>>

\* Fault: one more than what is to be acknowledged.
OffsetPast(p) == poller[p].last + 2

\* result.updates[-1]["update_id"] + 1
OffsetAfter(p) == poller[p].last + 1

SetOffset(p) ==
  /\ poller[p].pc = "setting"
  /\ offset' = OffsetAfter(p)
  /\ Over(p)
  /\ UNCHANGED <<channel, claim, request, telegram, history, issued,
                events>>

\* The worker dies, and its lock stays.
CrashPoller(p) ==
  /\ poller[p].pc # "idle" /\ Event
  /\ Goes(p, IdlePoller)
  /\ UNCHANGED <<channel, claim, request, telegram, offset,
                history, issued>>

\* The cache is emptied, and with it the offset and the lock.
CacheLost ==
  /\ offset # 0 /\ Event
  /\ offset' = 0 /\ lock' = FALSE
  /\ UNCHANGED <<channel, claim, request, telegram, poller, history,
                issued>>

-----------------------------------------------------------------------------
RequestNext(h) ==
  \/ CreateChannel(h) \/ LoadForUpdate(h) \/ SaveUpdate(h)
  \/ LoadForVerify(h) \/ SendTest(h) \/ SaveVerified(h)
  \/ LoadForLink(h) \/ DeleteClaim(h) \/ CreateClaim(h)
  \/ DeleteChannel(h) \/ CrashRequest(h)

Next ==
  \/ \E h \in Requests : RequestNext(h)
  \/ Expire
  \/ \E c \in Chats : PressStart(c)
  \/ \E p \in Pollers :
       \/ AcquireLock(p) \/ GetUpdates(p) \/ HandleUpdate(p) \/ Reply(p)
       \/ SetOffset(p) \/ PollFails(p) \/ CrashPoller(p)
  \/ LockExpires \/ CacheLost

Spec == Init /\ [][Next]_vars

-----------------------------------------------------------------------------
(* Properties                                                              *)

\* verify_channel and claim_telegram_chat: the channel is called verified, and
\* where it sends to was never shown to work.
Unproven(row) == row.is_verified /\ Destination(row) \notin proven

\* NotificationChannel.is_verified: there are three ways only for a channel to
\* be called verified for a destination that neither a test message nor a Start
\* has reached, through any overlap of edits, verifications, deletions and
\* bindings.  The destination was replaced between the test message and the
\* save of its success (services.py:94-104); an update of the type alone turned
\* the channel to another destination, or a handler that loaded such a row
\* wrote it back (services.py:60-68); a Start was taken for a channel that has
\* become an e-mail channel (services.py:319-329).
UnprovenExplained ==
  [][Unproven(channel)' =>
       \/ Unproven(channel) /\ Destination(channel)' = Destination(channel)
       \/ \E h \in Requests :
            LET row == request[h].row
            IN  \/ /\ request[h].pc = "sent"
                   /\ Destination(row) # Destination(channel)
                \/ /\ request[h].pc = "updating"
                   /\ row.is_verified /\ channel'.config = row.config
                   /\ channel'.type # row.type \/ Unproven(row)
       \/ channel.type = "EMAIL" /\ ~claim.claimed /\ claim'.claimed]_vars

\* claim_telegram_chat: a chat is bound by the link issued last, once, on a
\* Start from that chat, whose owner is the one declared; however often
\* Telegram repeats the update and however the pollers overlap.
BoundByLatestLink ==
  \A b \in bindings :
    /\ b.token = b.latest
    /\ updates[b.update] = [token |-> b.token, chat |-> b.chat]
    /\ b.expected \in {"none", UsernameOf[b.chat]}
    /\ \A c \in bindings : b.token = c.token => b = c

\* poll_telegram_updates (tasks.py:155-167): no update is acknowledged before
\* it was handled and replied to, although the lock may expire under a poller
\* and another one's offset overtake its own.
NoStartLost ==
  \A n \in Sent : n < confirmed => n \in answered
=============================================================================
