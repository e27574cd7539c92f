---------------------------- MODULE MonitorsApi ----------------------------
(***************************************************************************)
(* The life of a monitor's configuration: the handlers of the viewset      *)
(* apps.monitors.views and the services behind them write it, several      *)
(* requests at a time and without a transaction around a request, and      *)
(* probes (integrations.http_probe) read it and connect where it points.   *)
(*                                                                         *)
(* The columns of the engine and the scheduler are in MonitorEngine and    *)
(* Scheduler; timeout and interval, whose ranges do not meet, are left     *)
(* out.  A probe here is one call of RequestsHttpProbe.probe and the read  *)
(* of the row before it.                                                   *)
(***************************************************************************)
EXTENDS HttpProbe

CONSTANTS
  Users,
  Monitors,     \* primary keys, none of which is given twice
  Channels,     \* notification channels that exist in the beginning
  UserOf,       \* the account of each channel
  Quota,        \* monitor_quota of an account
  Urls,         \* what users send as url
  Expected,     \* statuses users expect
  Statuses,     \* statuses of answers
  Names,        \* hostnames
  Answers,      \* sets of addresses a hostname may resolve to
  Sizes,        \* bytes a body may bring
  Requests,     \* handlers that may be in flight, each for one request at a time
  Probes        \* probes, each executed once

ASSUME MonitorsApiAssumption ==
  /\ UserOf \in [Channels -> Users]
  /\ Quota \in Nat
  /\ Expected \subseteq 100..599 /\ Statuses \subseteq 100..599
  /\ Answers \subseteq SUBSET (IPv4 \cup IPv6)
  /\ Sizes \subseteq Nat
  /\ \A url \in Urls : url.host \in Names \cup IPv4 \cup IPv6 \cup {"none"}
  /\ IsFiniteSet(Requests) /\ Requests # {}

VARIABLES
  monitor,    \* the Monitor rows
  attached,   \* the rows of the many-to-many table, by monitor
  channels,   \* the channels that exist
  used,       \* history: primary keys that were given
  request,    \* what each request is doing
  probe       \* what each probe is doing

vars == <<monitor, attached, channels, used, request, probe>>

Methods == {"GET", "HEAD", "POST"}

Config ==
  [url : Urls, method : Methods, body : BOOLEAN, expected_status : Expected]

Fields == {"url", "method", "body", "expected_status"}

\* The rules of the model and of MonitorWriteSerializer.
ValidConfig(config) ==
  /\ ValidateMonitorUrl(config.url)
  /\ config.body => config.method = "POST"

Rows == {[user |-> u, config |-> c] : u \in Users, c \in Config}

NoUrl == [scheme |-> "none", credentials |-> FALSE, host |-> "none", port |-> 0]

NoRow ==
  [user |-> "none",
   config |-> [url |-> NoUrl, method |-> "GET", body |-> FALSE,
               expected_status |-> 0]]

Exists(m) == monitor[m] # NoRow

\* monitors_for_user
MonitorsForUser(u) == {m \in Monitors : Exists(m) /\ monitor[m].user = u}

\* "absent" is a request that does not mention notification_channel_ids.
IdsInput == (SUBSET Channels) \cup {{"absent"}}

\* old are the attachments that .set() found.
RequestState ==
  [pc : {"idle", "insert", "save", "set", "write"},
   id : Monitors \cup {"none"}, row : Rows \cup {NoRow},
   changed : SUBSET Fields, ids : IdsInput, old : SUBSET Channels]

Nothing ==
  [pc |-> "idle", id |-> "none", row |-> NoRow, changed |-> {},
   ids |-> {"absent"}, old |-> {}]

\* checked are the addresses the guard saw, contacted those connected to,
\* happened what came of it.
ProbeState ==
  [pc : {"idle", "guard", "connect", "read", "done", "raised"},
   url : Urls \cup {NoUrl}, expected_status : Expected \cup {0},
   checked : SUBSET (IPv4 \cup IPv6), contacted : SUBSET (IPv4 \cup IPv6),
   happened : Failures \cup {"nothing", "blocked", "answer"},
   result : ProbeResult]

NoResult == Failed("none", 0)

Unstarted ==
  [pc |-> "idle", url |-> NoUrl, expected_status |-> 0, checked |-> {},
   contacted |-> {}, happened |-> "nothing", result |-> NoResult]

Init ==
  /\ \E m \in Monitors, u \in Users, c \in Config :
       /\ ValidConfig(c)
       /\ monitor = [n \in Monitors |->
                       IF n = m THEN [user |-> u, config |-> c] ELSE NoRow]
       /\ used = {m}
  /\ attached = [m \in Monitors |-> {}]
  /\ channels = Channels
  /\ request = [h \in Requests |-> Nothing]
  /\ probe = [p \in Probes |-> Unstarted]

-----------------------------------------------------------------------------
(* POST, PATCH and DELETE                                                  *)

\* The queryset of notification_channel_ids is the caller's own channels.
ChannelsOffered(u, ids) ==
  ids = {"absent"} \/ ids \subseteq {c \in channels : UserOf[c] = u}

\* Fault: the quota may be passed by one.
WithinQuota(n) == n <= Quota

\* The count of create_monitor is compared before the row is inserted.
MayCreate(n) == n < Quota

\* The handler validates its input and counts the user's monitors; a 400 or
\* a 409 leaves everything as it is.
BeginCreate(h) ==
  /\ request[h].pc = "idle"
  /\ \E row \in Rows, ids \in IdsInput :
       /\ ValidConfig(row.config)
       /\ ChannelsOffered(row.user, ids)
       /\ MayCreate(Cardinality(MonitorsForUser(row.user)))
       /\ request' = [request EXCEPT ![h] =
            [Nothing EXCEPT !.pc = "insert", !.row = row, !.ids = ids]]
  /\ UNCHANGED <<monitor, attached, channels, used, probe>>

\* notification_channels.set() follows when the request names channels.
Saved(h, m) ==
  IF request[h].ids = {"absent"} THEN Nothing
  ELSE [request[h] EXCEPT !.pc = "set", !.id = m, !.row = NoRow, !.changed = {}]

InsertMonitor(h) ==
  /\ request[h].pc = "insert"
  /\ \E m \in Monitors \ used :
       /\ monitor' = [monitor EXCEPT ![m] = request[h].row]
       /\ used' = used \cup {m}
       /\ request' = [request EXCEPT ![h] = Saved(h, m)]
  /\ UNCHANGED <<attached, channels, probe>>

\* get_object, the serializer, which falls back to the loaded values, and the
\* assignments and full_clean of update_monitor.
BeginUpdate(h) ==
  /\ request[h].pc = "idle"
  /\ \E m \in Monitors, c \in Config, ids \in IdsInput :
       /\ Exists(m)
       /\ ValidConfig(c)
       /\ ChannelsOffered(monitor[m].user, ids)
       /\ request' = [request EXCEPT ![h] =
            [Nothing EXCEPT
               !.pc = "save", !.id = m, !.ids = ids,
               !.row = [monitor[m] EXCEPT !.config = c],
               !.changed = {f \in Fields : c[f] # monitor[m].config[f]}]]
  /\ UNCHANGED <<monitor, attached, channels, used, probe>>

\* Fault: only the fields of the request are written.
ChangedFieldsOnly(r) ==
  IF Exists(r.id)
  THEN [monitor[r.id] EXCEPT !.config =
          [f \in Fields |-> IF f \in r.changed THEN r.row.config[f]
                            ELSE monitor[r.id].config[f]]]
  ELSE r.row

\* Every column is written as loaded or assigned.
FullRow(r) == r.row

\* save(): an UPDATE, and an INSERT when the row has been deleted meanwhile.
SaveMonitor(h) ==
  LET m == request[h].id
  IN  /\ request[h].pc = "save"
      /\ monitor' = [monitor EXCEPT ![m] = FullRow(request[h])]
      /\ request' = [request EXCEPT ![h] = Saved(h, m)]
      /\ UNCHANGED <<attached, channels, used, probe>>

\* .set() opens a transaction and reads the attachments.
ReadChannels(h) ==
  /\ request[h].pc = "set"
  /\ request' = [request EXCEPT ![h].pc = "write",
                                ![h].old = attached[request[h].id]]
  /\ UNCHANGED <<monitor, attached, channels, used, probe>>

\* Fault: the table does not refer to monitors.
ChannelsExist(m, added) == added \subseteq channels

\* The foreign keys of the many-to-many table.
CanAttach(m, added) == Exists(m) /\ added \subseteq channels

\* It removes the attachments that are not wanted and adds the missing ones.
\* A monitor or a channel that is gone fails the transaction: the answer is a
\* 500, and what was saved before it stays.
WriteChannels(h) ==
  LET r == request[h]
      added == r.ids \ r.old
  IN  /\ r.pc = "write"
      /\ IF added = {} \/ CanAttach(r.id, added)
         THEN attached' = [attached EXCEPT ![r.id] =
                             (@ \ (r.old \ r.ids)) \cup added]
         ELSE UNCHANGED attached
      /\ request' = [request EXCEPT ![h] = Nothing]
      /\ UNCHANGED <<monitor, channels, used, probe>>

\* The rows of the many-to-many table go with the monitor.
DeleteMonitor(m) ==
  /\ Exists(m)
  /\ monitor' = [monitor EXCEPT ![m] = NoRow]
  /\ attached' = [attached EXCEPT ![m] = {}]
  /\ UNCHANGED <<channels, used, request, probe>>

\* The DELETE of apps.notifications.views, which cascades as well.
DeleteChannel(c) ==
  /\ c \in channels
  /\ channels' = channels \ {c}
  /\ attached' = [m \in Monitors |-> attached[m] \ {c}]
  /\ UNCHANGED <<monitor, used, request, probe>>

-----------------------------------------------------------------------------
(* A probe                                                                 *)

\* run_check reads the row and copies it into a ProbeRequest.
StartProbe(p) ==
  /\ probe[p].pc = "idle"
  /\ \E m \in Monitors :
       /\ Exists(m)
       /\ probe' = [probe EXCEPT ![p] =
            [Unstarted EXCEPT
               !.pc = "guard", !.url = monitor[m].config.url,
               !.expected_status = monitor[m].config.expected_status]]
  /\ UNCHANGED <<monitor, attached, channels, used, request>>

\* What getaddrinfo may answer, from one call to the next.
Resolutions(host) == IF host \in Names THEN Answers ELSE {{host}}

Ends(p, failure, error_type) ==
  probe' = [probe EXCEPT ![p].pc = "done", ![p].happened = failure,
                         ![p].result = Failed(error_type, 0)]

\* check_target_is_allowed resolves the name.
CheckTarget(p) ==
  /\ probe[p].pc = "guard"
  /\ \E resolved \in Resolutions(probe[p].url.host) :
       LET verdict == CheckTargetIsAllowed(resolved)
       IN  \/ /\ verdict # "none"
              /\ Ends(p, "blocked", verdict)
           \/ /\ verdict = "none"
              /\ probe' = [probe EXCEPT ![p].pc = "connect",
                                        ![p].checked = resolved]
  /\ UNCHANGED <<monitor, attached, channels, used, request>>

\* requests resolves the name again and tries its addresses: no address.
Unresolved(p) ==
  /\ probe[p].pc = "connect"
  /\ {} \in Resolutions(probe[p].url.host)
  /\ Ends(p, "unresolved", ErrorType(Raised("unresolved")))
  /\ UNCHANGED <<monitor, attached, channels, used, request>>

\* Some of the addresses are tried, and the last one fails or answers; a
\* redirect is an answer like any other.
Connect(p) ==
  /\ probe[p].pc = "connect"
  /\ \E resolved \in Resolutions(probe[p].url.host) :
       \E tried \in (SUBSET resolved) \ {{}} :
         \/ probe' = [probe EXCEPT ![p].pc = "read", ![p].contacted = tried,
                                   ![p].happened = "answer"]
         \/ \E failure \in Failures \ {"unresolved"} :
              /\ failure = "tls" => probe[p].url.scheme = "https"
              /\ probe' = [probe EXCEPT
                   ![p].pc = "done", ![p].contacted = tried,
                   ![p].happened = failure,
                   ![p].result = Failed(ErrorType(Raised(failure)), 0)]
  /\ UNCHANGED <<monitor, attached, channels, used, request>>

\* The body is read up to the limit.  A connection that breaks before leaves
\* the loop with an exception no clause of probe() catches.
ReadBody(p) ==
  /\ probe[p].pc = "read"
  /\ \E status \in Statuses, size \in Sizes, whole \in BOOLEAN :
       IF whole \/ size > MaxBytes
       THEN probe' = [probe EXCEPT
              ![p].pc = "done",
              ![p].result = Measured(status, size, probe[p].expected_status)]
       ELSE probe' = [probe EXCEPT ![p].pc = "raised"]
  /\ UNCHANGED <<monitor, attached, channels, used, request>>

RequestNext ==
  \/ \E h \in Requests :
       \/ BeginCreate(h) \/ InsertMonitor(h)
       \/ BeginUpdate(h) \/ SaveMonitor(h)
       \/ ReadChannels(h) \/ WriteChannels(h)
  \/ \E m \in Monitors : DeleteMonitor(m)
  \/ \E c \in Channels : DeleteChannel(c)

ProbeNext ==
  \E p \in Probes :
    StartProbe(p) \/ CheckTarget(p) \/ Unresolved(p) \/ Connect(p)
      \/ ReadBody(p)

Next == RequestNext \/ ProbeNext

Spec == Init /\ [][Next]_vars

-----------------------------------------------------------------------------
(* Properties                                                              *)

\* Every variable keeps to its kind of value, only a row that exists has
\* channels, and they exist and belong to the account of the monitor, whoever
\* deletes what while a request is between its save and its .set().
TypeOK ==
  /\ monitor \in [Monitors -> Rows \cup {NoRow}]
  /\ attached \in [Monitors -> SUBSET channels]
  /\ channels \subseteq Channels
  /\ used \subseteq Monitors
  /\ request \in [Requests -> RequestState]
  /\ probe \in [Probes -> ProbeState]
  /\ \A m \in Monitors :
       /\ Exists(m) => m \in used
       /\ \A c \in attached[m] : Exists(m) /\ UserOf[c] = monitor[m].user

\* A stored configuration obeys the rules of Monitor.clean() and of the url
\* validator, although no constraint of the table enforces them and two
\* PATCH requests may each change one half of a combination.
RowsStayValid ==
  \A m \in Monitors : Exists(m) => ValidConfig(monitor[m].config)

\* create_monitor counts without a lock (services.py:47-61), and a save inserts
\* a row deleted meanwhile: an account may pass its quota, but only by as many
\* monitors as there are requests in flight at a time, less one, however many
\* requests come and go.
QuotaOvershootBounded ==
  \A u \in Users :
    Cardinality(MonitorsForUser(u))
      <= (IF Quota = 0 THEN 1 ELSE Quota) + Cardinality(Requests) - 1

\* A probe connects to an address the policy denies only if that address was
\* not in the answer the guard judged: the second resolution is the one
\* window the guard leaves, whatever the mix of families in the first.
DeniedOnlyIfUnseen ==
  ~AllowPrivate =>
    \A p \in Probes : \A a \in probe[p].contacted :
      IsDeniedIP(a) => a \notin probe[p].checked

\* What the exceptions of each failure are recorded as.
TypeOfFailure(failure) ==
  CASE failure = "unresolved" -> "DNS_ERROR"
    [] failure = "tls" -> "SSL_ERROR"
    [] failure \in {"connect_timeout", "read_timeout"} -> "TIMEOUT"
    [] failure = "refused" -> "CONNECTION_REFUSED"
    [] failure = "reset" -> "CONNECTION_ERROR"
    [] failure = "unexpected" -> "INTERNAL_ERROR"
    [] failure = "blocked" -> "BLOCKED_TARGET"

\* The measurement says what happened: a failure has its own error type,
\* whichever classes its exception belongs to, a status stands for an answer,
\* and success for the expected status and a body within the limit.
MeasurementsTruthful ==
  \A p \in Probes : probe[p].pc = "done" =>
    LET r == probe[p].result
        e == probe[p].happened
    IN  /\ r.success <=> r.error_type = "none"
        /\ e # "answer" => r.error_type = TypeOfFailure(e)
        /\ e = "answer" <=> r.status_code # 0
        /\ r.success => /\ r.status_code = probe[p].expected_status
                        /\ r.response_size_bytes <= MaxBytes
        /\ e = "blocked" => probe[p].contacted = {}
=============================================================================
