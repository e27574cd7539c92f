------------------------- MODULE MonitorsApiProofs -------------------------
(***************************************************************************)
(* Theorems about MonitorsApi for every number of accounts, monitors,      *)
(* channels, requests and probes, and every policy of addresses.           *)
(***************************************************************************)
EXTENDS MonitorsApi, FiniteSetTheorems, TLAPS

-----------------------------------------------------------------------------
(* What the probe decides                                                  *)

\* A failed connection is classified as one of the error types.
LEMMA ClassificationType ==
  ASSUME NEW causes
  PROVE  ClassifyConnectionError(causes) \in ErrorTypes
  BY DEF ClassifyConnectionError, ErrorTypes

\* Every exception has an error type.
LEMMA ErrorTypeType == ASSUME NEW exc PROVE ErrorType(exc) \in ErrorTypes
  BY ClassificationType DEF ErrorType, ErrorTypes

\* What the probe returns is a measurement.
LEMMA ResultTypes ==
  /\ \A e \in ErrorTypes \cup {"none"}, n \in Nat : Failed(e, n) \in ProbeResult
  /\ \A status \in Statuses, size \in Sizes, n \in Nat :
       Measured(status, size, n) \in ProbeResult
<1>1. \A e \in ErrorTypes \cup {"none"}, n \in Nat : Failed(e, n) \in ProbeResult
  BY DEF Failed, ProbeResult
<1>2. Statuses \subseteq Nat /\ Sizes \subseteq Nat
  BY MonitorsApiAssumption DEF MonitorsApiAssumption
<1>3. ASSUME NEW status \in Statuses, NEW size \in Sizes, NEW n \in Nat
      PROVE  Measured(status, size, n) \in ProbeResult
  <2>1. CASE size > MaxBytes
    BY <1>1, <1>2, <2>1 DEF Measured, ErrorTypes
  <2>2. CASE ~(size > MaxBytes)
    BY <1>2, <2>2 DEF Measured, ProbeResult, ErrorTypes
  <2> QED BY <2>1, <2>2
<1> QED BY <1>1, <1>3

\* A name resolves to addresses, and so does a host that is one.
LEMMA ResolutionType ==
  ASSUME NEW url \in Urls, url.host # "none",
         NEW resolved \in Resolutions(url.host)
  PROVE  resolved \subseteq IPv4 \cup IPv6
  BY MonitorsApiAssumption DEF MonitorsApiAssumption, Resolutions

\* The guard lets an answer pass only if none of its addresses is denied.
LEMMA GuardRefuses ==
  ASSUME NEW resolved, CheckTargetIsAllowed(resolved) = "none", ~AllowPrivate
  PROVE  \A a \in resolved : ~IsDeniedIP(a)
  BY DEF CheckTargetIsAllowed

-----------------------------------------------------------------------------
(* Types and valid rows                                                    *)

\* The kinds of values, without the accounts of the attached channels.
Kinds ==
  /\ monitor \in [Monitors -> Rows \cup {NoRow}]
  /\ attached \in [Monitors -> SUBSET channels]
  /\ channels \subseteq Channels
  /\ used \subseteq Monitors
  /\ request \in [Requests -> RequestState]
  /\ probe \in [Probes -> ProbeState]
  /\ \A m \in Monitors : Exists(m) => m \in used

\* A row about to be written was validated, a key about to be used was given.
RequestsSound ==
  \A h \in Requests :
    /\ request[h].pc \in {"insert", "save"} =>
         request[h].row \in Rows /\ ValidConfig(request[h].row.config)
    /\ request[h].pc \in {"save", "set", "write"} => request[h].id \in used

\* A probe under way has a URL with a host, and the guard saw nothing denied.
ProbesSound ==
  \A p \in Probes :
    /\ probe[p].pc \in {"guard", "connect"} =>
         probe[p].url \in Urls /\ probe[p].url.host # "none"
    /\ ~AllowPrivate => \A a \in probe[p].checked : ~IsDeniedIP(a)

KindsInvariant == Kinds /\ RowsStayValid /\ RequestsSound /\ ProbesSound

\* A status is a number, and 0 is none.
LEMMA StatusesNatural ==
  Expected \subseteq Nat /\ Statuses \subseteq Nat /\ 0 \notin Expected
<1>1. 100..599 \subseteq Nat /\ 0 \notin 100..599
  OBVIOUS
<1> QED BY <1>1, MonitorsApiAssumption DEF MonitorsApiAssumption

\* A monitor that is not there is none of the rows.
LEMMA NoRowIsNoRow == NoRow \notin Rows
<1>1. NoRow.config.expected_status = 0
  BY DEF NoRow
<1>2. \A row \in Rows : row.config.expected_status \in Expected
  BY DEF Rows, Config
<1> QED BY <1>1, <1>2, StatusesNatural

\* A request begins and ends with its type.
LEMMA RestTypes ==
  Nothing \in RequestState /\ Unstarted \in ProbeState
<1>1. Nothing \in RequestState
  <2>1. {"absent"} \in IdsInput
    BY DEF IdsInput
  <2>2. {} \in SUBSET Fields /\ {} \in SUBSET Channels
    OBVIOUS
  <2> QED BY <2>1, <2>2 DEF Nothing, RequestState
<1>2. NoResult \in ProbeResult
  BY ResultTypes DEF NoResult
<1> QED BY <1>1, <1>2 DEF Unstarted, ProbeState

\* The service begins with its invariant.
LEMMA KindsInit == Init => KindsInvariant
<1> SUFFICES ASSUME Init PROVE KindsInvariant
  OBVIOUS
<1>1. PICK m \in Monitors, u \in Users, c \in Config :
        /\ ValidConfig(c)
        /\ monitor = [n \in Monitors |->
                        IF n = m THEN [user |-> u, config |-> c] ELSE NoRow]
        /\ used = {m}
  BY DEF Init
<1>2. [user |-> u, config |-> c] \in Rows
  BY DEF Rows
<1>3. monitor \in [Monitors -> Rows \cup {NoRow}]
  BY <1>1, <1>2
<1>4. \A n \in Monitors : Exists(n) => n = m
  BY <1>1 DEF Exists
<1>5. RowsStayValid
  BY <1>1, <1>4 DEF RowsStayValid
<1>6. /\ request \in [Requests -> RequestState]
      /\ probe \in [Probes -> ProbeState]
  BY RestTypes DEF Init
<1>7. RequestsSound
  BY DEF Init, RequestsSound, Nothing
<1>8. ProbesSound
  BY DEF Init, ProbesSound, Unstarted
<1>9. attached \in [Monitors -> SUBSET channels] /\ channels \subseteq Channels
  BY DEF Init
<1> QED BY <1>1, <1>3, <1>4, <1>5, <1>6, <1>7, <1>8, <1>9
        DEF KindsInvariant, Kinds

\* One request changes, to a sound state, and the keys given stay given.
LEMMA OneRequest ==
  ASSUME Kinds, RequestsSound, NEW h \in Requests, NEW r \in RequestState,
         request' = [request EXCEPT ![h] = r], used \subseteq used',
         r.pc \in {"insert", "save"} => r.row \in Rows /\ ValidConfig(r.row.config),
         r.pc \in {"save", "set", "write"} => r.id \in used'
  PROVE  request' \in [Requests -> RequestState] /\ RequestsSound'
  BY DEF Kinds, RequestsSound

\* After its save a handler is through or sets the channels.
LEMMA SavedType ==
  ASSUME Kinds, NEW h \in Requests, NEW m \in Monitors
  PROVE  /\ Saved(h, m) \in RequestState
         /\ Saved(h, m).pc \in {"idle", "set"}
         /\ Saved(h, m).pc = "set" => Saved(h, m).id = m
<1>1. request[h] \in RequestState
  BY DEF Kinds
<1>2. CASE request[h].ids = {"absent"}
  BY <1>2, RestTypes DEF Saved, Nothing
<1>3. CASE request[h].ids # {"absent"}
  BY <1>1, <1>3 DEF Saved, RequestState
<1> QED BY <1>2, <1>3

\* A handler that begins keeps the invariant.
LEMMA KindsBegin ==
  ASSUME KindsInvariant, NEW h \in Requests, BeginCreate(h) \/ BeginUpdate(h)
  PROVE  KindsInvariant'
<1> USE DEF KindsInvariant
<1>1. PICK r \in RequestState :
        /\ request' = [request EXCEPT ![h] = r]
        /\ r.pc \in {"insert", "save"}
        /\ r.row \in Rows /\ ValidConfig(r.row.config)
        /\ r.pc = "save" => r.id \in used
  <2>1. CASE BeginCreate(h)
    <3>1. PICK row \in Rows, ids \in IdsInput :
            /\ ValidConfig(row.config)
            /\ request' = [request EXCEPT ![h] =
                 [Nothing EXCEPT !.pc = "insert", !.row = row, !.ids = ids]]
      BY <2>1 DEF BeginCreate
    <3> DEFINE r == [Nothing EXCEPT !.pc = "insert", !.row = row, !.ids = ids]
    <3>2. r \in RequestState /\ r.pc = "insert" /\ r.row = row
      BY RestTypes DEF Nothing, RequestState
    <3> HIDE DEF r
    <3> QED BY <3>1, <3>2 DEF r
  <2>2. CASE BeginUpdate(h)
    <3>1. PICK m \in Monitors, c \in Config, ids \in IdsInput :
            /\ Exists(m)
            /\ ValidConfig(c)
            /\ ChannelsOffered(monitor[m].user, ids)
            /\ request' = [request EXCEPT ![h] =
                 [Nothing EXCEPT
                    !.pc = "save", !.id = m, !.ids = ids,
                    !.row = [monitor[m] EXCEPT !.config = c],
                    !.changed = {f \in Fields : c[f] # monitor[m].config[f]}]]
      BY <2>2, Zenon DEF BeginUpdate
    <3> DEFINE row == [monitor[m] EXCEPT !.config = c]
               changed == {f \in Fields : c[f] # monitor[m].config[f]}
               r == [Nothing EXCEPT !.pc = "save", !.id = m, !.ids = ids,
                                    !.row = row, !.changed = changed]
    <3>2. monitor[m] \in Rows
      BY <3>1 DEF Kinds, Exists
    <3>3. row \in Rows /\ row.config = c
      BY <3>2 DEF Rows
    <3>4. changed \subseteq Fields
      OBVIOUS
    <3> HIDE DEF row, changed
    <3>5. r \in RequestState /\ r.pc = "save" /\ r.row = row /\ r.id = m
      BY <3>3, <3>4, RestTypes DEF Nothing, RequestState
    <3>6. request' = [request EXCEPT ![h] = r] /\ m \in used
      BY <3>1 DEF row, changed, Kinds
    <3> HIDE DEF r
    <3> QED BY <3>1, <3>3, <3>5, <3>6
  <2> QED BY <2>1, <2>2
<1>2. UNCHANGED <<monitor, attached, channels, used, probe>>
  BY DEF BeginCreate, BeginUpdate
<1>3. request' \in [Requests -> RequestState] /\ RequestsSound'
  <2>1. r.pc \in {"save", "set", "write"} => r.id \in used'
    BY <1>1, <1>2
  <2> QED BY <1>1, <1>2, <2>1, OneRequest
<1>4. RowsStayValid' /\ ProbesSound'
  BY <1>2 DEF RowsStayValid, ProbesSound, Exists
<1> QED BY <1>2, <1>3, <1>4 DEF Kinds, Exists

\* A save writes a valid row.
LEMMA KindsSave ==
  ASSUME KindsInvariant, NEW h \in Requests, InsertMonitor(h) \/ SaveMonitor(h)
  PROVE  KindsInvariant'
<1> USE DEF KindsInvariant
<1>1. PICK m \in Monitors :
        /\ monitor' = [monitor EXCEPT ![m] = request[h].row]
        /\ used' = used \cup {m}
        /\ request' = [request EXCEPT ![h] = Saved(h, m)]
  <2>1. CASE InsertMonitor(h)
    BY <2>1 DEF InsertMonitor, Kinds
  <2>2. CASE SaveMonitor(h)
    <3>1. request[h].id \in used /\ used \subseteq Monitors
      BY <2>2 DEF SaveMonitor, RequestsSound, Kinds
    <3> QED BY <2>2, <3>1 DEF SaveMonitor, FullRow
  <2> QED BY <2>1, <2>2
<1>2. request[h].row \in Rows /\ ValidConfig(request[h].row.config)
  BY DEF InsertMonitor, SaveMonitor, RequestsSound
<1>3. UNCHANGED <<attached, channels, probe>>
  BY DEF InsertMonitor, SaveMonitor
<1>4. request' \in [Requests -> RequestState] /\ RequestsSound'
  <2> DEFINE r == Saved(h, m)
  <2>1. /\ r \in RequestState
        /\ r.pc \in {"idle", "set"}
        /\ r.pc = "set" => r.id = m
    BY SavedType
  <2>2. r.pc \notin {"insert", "save", "write"}
    BY <2>1
  <2>3. r.pc \in {"save", "set", "write"} => r.id \in used'
    BY <1>1, <2>1, <2>2
  <2>4. request' = [request EXCEPT ![h] = r] /\ used \subseteq used'
    BY <1>1
  <2> HIDE DEF r
  <2> QED BY <2>1, <2>2, <2>3, <2>4, OneRequest
<1>5. /\ monitor' \in [Monitors -> Rows \cup {NoRow}]
      /\ monitor'[m] = request[h].row
      /\ \A n \in Monitors \ {m} : monitor'[n] = monitor[n]
  BY <1>1, <1>2 DEF Kinds
<1>6. RowsStayValid' /\ \A n \in Monitors : Exists(n)' => n \in used'
  BY <1>1, <1>2, <1>5 DEF RowsStayValid, Exists, Kinds
<1>7. ProbesSound'
  BY <1>3 DEF ProbesSound
<1> QED BY <1>1, <1>3, <1>4, <1>5, <1>6, <1>7 DEF Kinds

\* Setting the channels of a monitor keeps the invariant.
LEMMA KindsChannels ==
  ASSUME KindsInvariant, NEW h \in Requests, ReadChannels(h) \/ WriteChannels(h)
  PROVE  KindsInvariant'
<1> USE DEF KindsInvariant
<1>1. UNCHANGED <<monitor, channels, used, probe>>
  BY DEF ReadChannels, WriteChannels
<1>2. request[h] \in RequestState /\ request[h].id \in used
  BY DEF Kinds, RequestsSound, ReadChannels, WriteChannels
<1>3. request' \in [Requests -> RequestState] /\ RequestsSound'
  <2>1. CASE ReadChannels(h)
    <3> DEFINE r == [request[h] EXCEPT !.pc = "write",
                                       !.old = attached[request[h].id]]
    <3>1. attached[request[h].id] \subseteq Channels
      BY <1>2 DEF Kinds
    <3>2. /\ r \in RequestState
          /\ r.pc = "write" /\ r.id = request[h].id
      BY <1>2, <3>1 DEF RequestState
    <3>3. request' = [request EXCEPT ![h] = r]
      BY <2>1 DEF ReadChannels, Kinds
    <3> HIDE DEF r
    <3> QED BY <1>1, <1>2, <3>2, <3>3, OneRequest
  <2>2. CASE WriteChannels(h)
    <3>1. request' = [request EXCEPT ![h] = Nothing]
      BY <2>2 DEF WriteChannels
    <3>2. Nothing \in RequestState /\ Nothing.pc = "idle"
      BY RestTypes DEF Nothing
    <3> QED BY <1>1, <3>1, <3>2, OneRequest
  <2> QED BY <2>1, <2>2
<1>4. attached' \in [Monitors -> SUBSET channels]
  BY <1>2 DEF ReadChannels, WriteChannels, CanAttach, Kinds
<1>5. RowsStayValid' /\ ProbesSound'
  BY <1>1 DEF RowsStayValid, ProbesSound, Exists
<1> QED BY <1>1, <1>3, <1>4, <1>5 DEF Kinds, Exists

\* A deletion takes rows away and adds none.
LEMMA KindsDelete ==
  ASSUME KindsInvariant,
         \/ \E m \in Monitors : DeleteMonitor(m)
         \/ \E c \in Channels : DeleteChannel(c)
  PROVE  KindsInvariant'
<1> USE DEF KindsInvariant
<1>1. UNCHANGED <<used, request, probe>>
  BY DEF DeleteMonitor, DeleteChannel
<1>2. CASE \E m \in Monitors : DeleteMonitor(m)
  <2> PICK m \in Monitors : DeleteMonitor(m)
    BY <1>2
  <2>1. /\ monitor' \in [Monitors -> Rows \cup {NoRow}]
        /\ \A n \in Monitors : Exists(n)' => monitor'[n] = monitor[n] /\ Exists(n)
    BY DEF DeleteMonitor, Kinds, Exists
  <2>2. attached' \in [Monitors -> SUBSET channels'] /\ channels' = channels
    BY DEF DeleteMonitor, Kinds
  <2> QED BY <1>1, <2>1, <2>2
          DEF Kinds, RowsStayValid, RequestsSound, ProbesSound
<1>3. CASE \E c \in Channels : DeleteChannel(c)
  <2> PICK c \in Channels : DeleteChannel(c)
    BY <1>3
  <2>1. attached' \in [Monitors -> SUBSET channels'] /\ channels' \subseteq Channels
    BY DEF DeleteChannel, Kinds
  <2>2. monitor' = monitor
    BY DEF DeleteChannel
  <2> QED BY <1>1, <2>1, <2>2
          DEF Kinds, RowsStayValid, RequestsSound, ProbesSound, Exists
<1> QED BY <1>2, <1>3

\* One probe changes, to a sound state.
LEMMA OneProbe ==
  ASSUME KindsInvariant, NEW p \in Probes, NEW r \in ProbeState,
         probe' = [probe EXCEPT ![p] = r],
         UNCHANGED <<monitor, attached, channels, used, request>>,
         r.pc \in {"guard", "connect"} => r.url \in Urls /\ r.url.host # "none",
         ~AllowPrivate => \A a \in r.checked : ~IsDeniedIP(a)
  PROVE  KindsInvariant'
<1>1. probe' \in [Probes -> ProbeState] /\ ProbesSound'
  BY DEF KindsInvariant, Kinds, ProbesSound
<1> QED BY <1>1
        DEF KindsInvariant, Kinds, RowsStayValid, RequestsSound, Exists

\* A probe that ends has its measurement.
LEMMA KindsEnds ==
  ASSUME KindsInvariant, NEW p \in Probes,
         NEW failure \in Failures \cup {"blocked"},
         NEW error_type \in ErrorTypes, Ends(p, failure, error_type),
         UNCHANGED <<monitor, attached, channels, used, request>>
  PROVE  KindsInvariant'
<1> DEFINE r == [probe[p] EXCEPT !.pc = "done", !.happened = failure,
                                 !.result = Failed(error_type, 0)]
<1>1. probe[p] \in ProbeState
  BY DEF KindsInvariant, Kinds
<1>2. Failed(error_type, 0) \in ProbeResult
  BY ResultTypes
<1>3. r \in ProbeState /\ r.pc = "done" /\ r.checked = probe[p].checked
  BY <1>1, <1>2 DEF ProbeState
<1>4. probe' = [probe EXCEPT ![p] = r]
  BY DEF Ends, KindsInvariant, Kinds
<1>5. ~AllowPrivate => \A a \in r.checked : ~IsDeniedIP(a)
  BY <1>3 DEF KindsInvariant, ProbesSound
<1> HIDE DEF r
<1> QED BY <1>3, <1>4, <1>5, OneProbe

\* A probe that connected has its type.
LEMMA KindsContacted ==
  ASSUME KindsInvariant, NEW p \in Probes, NEW pc \in {"read", "done"},
         NEW tried \in SUBSET (IPv4 \cup IPv6),
         NEW happened \in Failures \cup {"answer"}, NEW result \in ProbeResult,
         probe' = [probe EXCEPT ![p] =
                     [probe[p] EXCEPT !.pc = pc, !.contacted = tried,
                                      !.happened = happened,
                                      !.result = result]],
         UNCHANGED <<monitor, attached, channels, used, request>>
  PROVE  KindsInvariant'
<1> DEFINE r == [probe[p] EXCEPT !.pc = pc, !.contacted = tried,
                                 !.happened = happened, !.result = result]
<1>1. probe[p] \in ProbeState
  BY DEF KindsInvariant, Kinds
<1>2. r \in ProbeState /\ r.pc = pc /\ r.checked = probe[p].checked
  BY <1>1 DEF ProbeState
<1>3. ~AllowPrivate => \A a \in r.checked : ~IsDeniedIP(a)
  BY <1>2 DEF KindsInvariant, ProbesSound
<1> HIDE DEF r
<1>4. probe' = [probe EXCEPT ![p] = r]
  BY DEF r
<1> QED BY <1>2, <1>3, <1>4, OneProbe

\* A probe keeps the invariant.
LEMMA KindsProbe == KindsInvariant /\ ProbeNext => KindsInvariant'
<1> SUFFICES ASSUME KindsInvariant, NEW p \in Probes,
                    \/ StartProbe(p) \/ CheckTarget(p) \/ Unresolved(p)
                    \/ Connect(p) \/ ReadBody(p)
             PROVE  KindsInvariant'
  BY DEF ProbeNext
<1>1. UNCHANGED <<monitor, attached, channels, used, request>>
  BY DEF StartProbe, CheckTarget, Unresolved, Connect, ReadBody
<1>2. probe[p] \in ProbeState
  BY DEF KindsInvariant, Kinds
<1>3. CASE StartProbe(p)
  <2>1. PICK m \in Monitors :
          /\ Exists(m)
          /\ probe' = [probe EXCEPT ![p] =
               [Unstarted EXCEPT
                  !.pc = "guard", !.url = monitor[m].config.url,
                  !.expected_status = monitor[m].config.expected_status]]
    BY <1>3 DEF StartProbe
  <2>2. monitor[m] \in Rows /\ ValidConfig(monitor[m].config)
    BY <2>1 DEF KindsInvariant, Kinds, RowsStayValid, Exists
  <2> DEFINE url == monitor[m].config.url
             expected == monitor[m].config.expected_status
             r == [Unstarted EXCEPT !.pc = "guard", !.url = url,
                                    !.expected_status = expected]
  <2>3. url \in Urls /\ url.host # "none" /\ expected \in Expected
    BY <2>2 DEF Rows, Config, ValidConfig, ValidateMonitorUrl
  <2>4. probe' = [probe EXCEPT ![p] = r]
    BY <2>1
  <2> HIDE DEF url, expected
  <2>5. r \in ProbeState /\ r.url = url /\ r.checked = {}
    BY <2>3, RestTypes DEF Unstarted, ProbeState
  <2> HIDE DEF r
  <2> QED BY <1>1, <2>3, <2>4, <2>5, OneProbe
<1>4. CASE CheckTarget(p)
  <2>1. probe[p].url \in Urls /\ probe[p].url.host # "none"
    BY <1>4 DEF CheckTarget, KindsInvariant, ProbesSound
  <2>2. PICK resolved \in Resolutions(probe[p].url.host) :
          \/ /\ CheckTargetIsAllowed(resolved) # "none"
             /\ Ends(p, "blocked", CheckTargetIsAllowed(resolved))
          \/ /\ CheckTargetIsAllowed(resolved) = "none"
             /\ probe' = [probe EXCEPT ![p].pc = "connect",
                                       ![p].checked = resolved]
    BY <1>4 DEF CheckTarget
  <2>3. CASE /\ CheckTargetIsAllowed(resolved) # "none"
             /\ Ends(p, "blocked", CheckTargetIsAllowed(resolved))
    <3>1. CheckTargetIsAllowed(resolved) = "BLOCKED_TARGET"
      BY <2>3 DEF CheckTargetIsAllowed
    <3>2. Ends(p, "blocked", "BLOCKED_TARGET") /\ "BLOCKED_TARGET" \in ErrorTypes
      BY <2>3, <3>1 DEF ErrorTypes
    <3> QED BY <1>1, <3>2, KindsEnds
  <2>4. CASE /\ CheckTargetIsAllowed(resolved) = "none"
             /\ probe' = [probe EXCEPT ![p].pc = "connect",
                                       ![p].checked = resolved]
    <3> DEFINE r == [probe[p] EXCEPT !.pc = "connect", !.checked = resolved]
    <3>1. resolved \subseteq IPv4 \cup IPv6
      BY <2>1, ResolutionType
    <3>2. /\ r \in ProbeState /\ r.checked = resolved
          /\ r.url = probe[p].url
      BY <1>2, <3>1 DEF ProbeState
    <3>3. probe' = [probe EXCEPT ![p] = r]
      BY <2>4 DEF KindsInvariant, Kinds
    <3>4. ~AllowPrivate => \A a \in resolved : ~IsDeniedIP(a)
      BY <2>4, GuardRefuses
    <3> HIDE DEF r
    <3> QED BY <1>1, <2>1, <3>2, <3>3, <3>4, OneProbe
  <2> QED BY <2>2, <2>3, <2>4
<1>5. CASE Unresolved(p)
  <2>1. Ends(p, "unresolved", ErrorType(Raised("unresolved")))
    BY <1>5 DEF Unresolved
  <2>2. "unresolved" \in Failures
    BY DEF Failures
  <2> QED BY <1>1, <2>1, <2>2, ErrorTypeType, KindsEnds
<1>6. CASE Connect(p)
  <2>1. probe[p].url \in Urls /\ probe[p].url.host # "none"
    BY <1>6 DEF Connect, KindsInvariant, ProbesSound
  <2> DEFINE ConnectsTo(tried) ==
          \/ probe' = [probe EXCEPT ![p].pc = "read", ![p].contacted = tried,
                                    ![p].happened = "answer"]
          \/ \E failure \in Failures \ {"unresolved"} :
               probe' = [probe EXCEPT
                 ![p].pc = "done", ![p].contacted = tried,
                 ![p].happened = failure,
                 ![p].result = Failed(ErrorType(Raised(failure)), 0)]
  <2>2. PICK resolved \in Resolutions(probe[p].url.host) :
          \E tried \in (SUBSET resolved) \ {{}} : ConnectsTo(tried)
    BY <1>6 DEF Connect
  <2> PICK tried \in (SUBSET resolved) \ {{}} : ConnectsTo(tried)
    BY <2>2
  <2>3. tried \in SUBSET (IPv4 \cup IPv6)
    BY <2>1, <2>2, ResolutionType
  <2>4. CASE probe' = [probe EXCEPT ![p].pc = "read", ![p].contacted = tried,
                                    ![p].happened = "answer"]
    <3>1. probe' = [probe EXCEPT ![p] =
                      [probe[p] EXCEPT !.pc = "read", !.contacted = tried,
                                       !.happened = "answer",
                                       !.result = probe[p].result]]
      <4> DEFINE r == [probe[p] EXCEPT !.pc = "read", !.contacted = tried,
                                       !.happened = "answer"]
      <4>1. r = [r EXCEPT !.result = probe[p].result]
        BY <1>2 DEF ProbeState
      <4>2. probe' = [probe EXCEPT ![p] = r]
        BY <2>4 DEF KindsInvariant, Kinds
      <4> QED BY <4>1, <4>2
    <3>2. probe[p].result \in ProbeResult
      BY <1>2 DEF ProbeState
    <3> QED BY <1>1, <2>3, <3>1, <3>2, KindsContacted
  <2>5. ASSUME NEW failure \in Failures \ {"unresolved"},
               probe' = [probe EXCEPT
                 ![p].pc = "done", ![p].contacted = tried,
                 ![p].happened = failure,
                 ![p].result = Failed(ErrorType(Raised(failure)), 0)]
        PROVE  KindsInvariant'
    <3> DEFINE result == Failed(ErrorType(Raised(failure)), 0)
    <3>1. result \in ProbeResult
      BY ErrorTypeType, ResultTypes
    <3> HIDE DEF result
    <3>2. probe' = [probe EXCEPT ![p] =
                      [probe[p] EXCEPT !.pc = "done", !.contacted = tried,
                                       !.happened = failure,
                                       !.result = result]]
      BY <2>5 DEF KindsInvariant, Kinds, result
    <3> QED BY <1>1, <2>3, <3>1, <3>2, KindsContacted
  <2> QED BY <2>2, <2>4, <2>5
<1>7. CASE ReadBody(p)
  <2>1. PICK pc \in {"done", "raised"}, result \in ProbeResult :
          probe' = [probe EXCEPT ![p] =
                      [probe[p] EXCEPT !.pc = pc, !.result = result]]
    <3>1. PICK status \in Statuses, size \in Sizes, whole \in BOOLEAN :
            IF whole \/ size > MaxBytes
            THEN probe' = [probe EXCEPT
                   ![p].pc = "done",
                   ![p].result =
                     Measured(status, size, probe[p].expected_status)]
            ELSE probe' = [probe EXCEPT ![p].pc = "raised"]
      BY <1>7 DEF ReadBody
    <3>2. probe[p].expected_status \in Nat
      <4>1. probe[p].expected_status \in Expected \cup {0}
        BY <1>2 DEF ProbeState
      <4>2. 0 \in Nat
        OBVIOUS
      <4> QED BY <4>1, <4>2, StatusesNatural
    <3> DEFINE measured == Measured(status, size, probe[p].expected_status)
    <3>3. measured \in ProbeResult /\ probe[p].result \in ProbeResult
      BY <1>2, <3>2, ResultTypes DEF ProbeState
    <3> HIDE DEF measured
    <3>4. CASE whole \/ size > MaxBytes
      <4>1. probe' = [probe EXCEPT ![p] =
                        [probe[p] EXCEPT !.pc = "done", !.result = measured]]
        BY <3>1, <3>4 DEF measured, KindsInvariant, Kinds
      <4> QED BY <3>3, <4>1
    <3>5. CASE ~(whole \/ size > MaxBytes)
      <4>1. probe' = [probe EXCEPT ![p] =
                        [probe[p] EXCEPT !.pc = "raised",
                                         !.result = probe[p].result]]
        BY <1>2, <3>1, <3>5 DEF KindsInvariant, Kinds, ProbeState
      <4> QED BY <3>3, <4>1
    <3> QED BY <3>4, <3>5
  <2> DEFINE r == [probe[p] EXCEPT !.pc = pc, !.result = result]
  <2>2. r \in ProbeState /\ r.pc = pc /\ r.checked = probe[p].checked
    BY <1>2 DEF ProbeState
  <2>3. probe' = [probe EXCEPT ![p] = r]
    BY <2>1
  <2>4. ~AllowPrivate => \A a \in r.checked : ~IsDeniedIP(a)
    BY <2>2 DEF KindsInvariant, ProbesSound
  <2> HIDE DEF r
  <2> QED BY <1>1, <2>2, <2>3, <2>4, OneProbe
<1> QED BY <1>3, <1>4, <1>5, <1>6, <1>7

\* The invariant is inductive.
LEMMA KindsNext == KindsInvariant /\ [Next]_vars => KindsInvariant'
<1> SUFFICES ASSUME KindsInvariant, [Next]_vars PROVE KindsInvariant'
  OBVIOUS
<1>1. CASE RequestNext
  BY <1>1, KindsBegin, KindsSave, KindsChannels, KindsDelete DEF RequestNext
<1>2. CASE ProbeNext
  BY <1>2, KindsProbe
<1>3. CASE UNCHANGED vars
  BY <1>3 DEF vars, KindsInvariant, Kinds, RowsStayValid, RequestsSound,
              ProbesSound, Exists
<1> QED BY <1>1, <1>2, <1>3 DEF Next

\* The types, the rows and the probes are sound in every behaviour.
LEMMA KindsHold == Spec => []KindsInvariant
  BY KindsInit, KindsNext, PTL DEF Spec

\* A stored configuration is valid, however many requests change parts of it
\* at once: every save writes a row that was validated as a whole.
THEOREM StoredRowsValid == Spec => []RowsStayValid
  BY KindsHold, PTL DEF KindsInvariant

\* No probe connects to a denied address that the guard had seen, for every
\* policy and everything the resolver may answer.
THEOREM GuardLeavesOneWindow == Spec => []DeniedOnlyIfUnseen
<1>1. KindsInvariant => DeniedOnlyIfUnseen
  BY DEF KindsInvariant, ProbesSound, DeniedOnlyIfUnseen
<1> QED BY <1>1, KindsHold, PTL

-----------------------------------------------------------------------------
(* Whose channels a monitor has                                            *)

OwnedBy(u, ids) == \A c \in ids : c \in Channels /\ UserOf[c] = u

RequestOwned(owner, r) ==
  /\ r.pc = "insert" => r.ids = {"absent"} \/ OwnedBy(r.row.user, r.ids)
  /\ r.pc = "save" => /\ r.row.user = owner[r.id]
                      /\ r.ids = {"absent"} \/ OwnedBy(owner[r.id], r.ids)
  /\ r.pc \in {"set", "write"} => OwnedBy(owner[r.id], r.ids)

\* A primary key keeps its account, although a save may insert a row that was
\* deleted: whoever writes a row or its channels has them from that account.
Owners(owner) ==
  /\ \A m \in Monitors : Exists(m) => monitor[m].user = owner[m]
  /\ \A h \in Requests : RequestOwned(owner, request[h])

AttachedOwned ==
  \A m \in Monitors : \A c \in attached[m] :
    Exists(m) /\ UserOf[c] = monitor[m].user

OwnersInvariant ==
  AttachedOwned /\ \E owner \in [Monitors -> Users] : Owners(owner)

\* In the beginning the one monitor there is has its account and no channels.
LEMMA OwnersInit == Init => OwnersInvariant
<1> SUFFICES ASSUME Init PROVE OwnersInvariant
  OBVIOUS
<1>1. PICK m \in Monitors, u \in Users, c \in Config :
        monitor = [n \in Monitors |->
                     IF n = m THEN [user |-> u, config |-> c] ELSE NoRow]
  BY DEF Init
<1> DEFINE owner == [n \in Monitors |-> u]
<1>2. Owners(owner)
  BY <1>1 DEF Init, Owners, RequestOwned, Exists, Nothing
<1>3. owner \in [Monitors -> Users]
  OBVIOUS
<1>4. AttachedOwned
  BY DEF Init, AttachedOwned
<1> HIDE DEF owner
<1> QED BY <1>2, <1>3, <1>4 DEF OwnersInvariant

\* The channels a request names are channels of the account.
LEMMA OfferedAreOwned ==
  ASSUME Kinds, NEW u, NEW ids, ChannelsOffered(u, ids)
  PROVE  ids = {"absent"} \/ OwnedBy(u, ids)
  BY DEF Kinds, ChannelsOffered, OwnedBy

\* A handler that begins knows its account.
LEMMA OwnersBegin ==
  ASSUME KindsInvariant, OwnersInvariant, NEW h \in Requests,
         BeginCreate(h) \/ BeginUpdate(h)
  PROVE  OwnersInvariant'
<1> PICK owner \in [Monitors -> Users] : Owners(owner)
  BY DEF OwnersInvariant
<1>1. UNCHANGED <<monitor, attached>>
  BY DEF BeginCreate, BeginUpdate
<1>2. \A g \in Requests \ {h} : request'[g] = request[g]
  BY DEF BeginCreate, BeginUpdate, KindsInvariant, Kinds
<1>3. CASE BeginCreate(h)
  <2>1. PICK row \in Rows, ids \in IdsInput :
          /\ ChannelsOffered(row.user, ids)
          /\ request' = [request EXCEPT ![h] =
               [Nothing EXCEPT !.pc = "insert", !.row = row, !.ids = ids]]
    BY <1>3 DEF BeginCreate
  <2>2. /\ request'[h].pc = "insert"
        /\ request'[h].row = row
        /\ request'[h].ids = ids
    BY <2>1 DEF Nothing, KindsInvariant, Kinds
  <2>3. ids = {"absent"} \/ OwnedBy(row.user, ids)
    BY <2>1, OfferedAreOwned DEF KindsInvariant
  <2>4. Owners(owner)'
    BY <1>1, <1>2, <2>2, <2>3 DEF Owners, RequestOwned, Exists
  <2> QED BY <1>1, <2>4 DEF OwnersInvariant, AttachedOwned, Exists
<1>4. CASE BeginUpdate(h)
  <2>1. PICK m \in Monitors, c \in Config, ids \in IdsInput :
          /\ Exists(m)
          /\ ChannelsOffered(monitor[m].user, ids)
          /\ request'[h].pc = "save"
          /\ request'[h].id = m
          /\ request'[h].row.user = monitor[m].user
          /\ request'[h].ids = ids
    <3>1. PICK m \in Monitors, c \in Config, ids \in IdsInput :
            /\ Exists(m)
            /\ ValidConfig(c)
            /\ ChannelsOffered(monitor[m].user, ids)
            /\ request' = [request EXCEPT ![h] =
                 [Nothing EXCEPT
                    !.pc = "save", !.id = m, !.ids = ids,
                    !.row = [monitor[m] EXCEPT !.config = c],
                    !.changed = {f \in Fields : c[f] # monitor[m].config[f]}]]
      BY <1>4, Zenon DEF BeginUpdate
    <3> DEFINE changed == {f \in Fields : c[f] # monitor[m].config[f]}
    <3>2. request'[h] = [Nothing EXCEPT
                           !.pc = "save", !.id = m, !.ids = ids,
                           !.row = [monitor[m] EXCEPT !.config = c],
                           !.changed = changed]
      BY <3>1 DEF KindsInvariant, Kinds
    <3> HIDE DEF changed
    <3>3. monitor[m] \in Rows
      BY <3>1 DEF KindsInvariant, Kinds, Exists
    <3>4. /\ request'[h].pc = "save"
          /\ request'[h].id = m
          /\ request'[h].row.user = monitor[m].user
          /\ request'[h].ids = ids
      BY <3>2, <3>3 DEF Nothing, Rows
    <3> QED BY <3>1, <3>4
  <2>2. ids = {"absent"} \/ OwnedBy(monitor[m].user, ids)
    BY <2>1, OfferedAreOwned DEF KindsInvariant
  <2>3. monitor[m].user = owner[m]
    BY <2>1 DEF Owners, RequestOwned
  <2>4. Owners(owner)'
    BY <1>1, <1>2, <2>1, <2>2, <2>3 DEF Owners, RequestOwned, Exists
  <2> QED BY <1>1, <2>4 DEF OwnersInvariant, AttachedOwned, Exists
<1> QED BY <1>3, <1>4

\* After its save a request has the channels it named.
LEMMA SavedOwned ==
  ASSUME KindsInvariant, NEW h \in Requests, NEW m \in Monitors, NEW u,
         request' = [request EXCEPT ![h] = Saved(h, m)],
         request[h].ids = {"absent"} \/ OwnedBy(u, request[h].ids)
  PROVE  /\ request'[h].pc \in {"idle", "set"}
         /\ request'[h].pc = "set" =>
              request'[h].id = m /\ OwnedBy(u, request'[h].ids)
         /\ \A g \in Requests \ {h} : request'[g] = request[g]
<1>1. request[h] \in RequestState
  BY DEF KindsInvariant, Kinds
<1>2. /\ request'[h] = Saved(h, m)
      /\ \A g \in Requests \ {h} : request'[g] = request[g]
  BY DEF KindsInvariant, Kinds
<1>3. CASE request[h].ids = {"absent"}
  BY <1>2, <1>3 DEF Saved, Nothing
<1>4. CASE request[h].ids # {"absent"}
  <2> DEFINE r == Saved(h, m)
  <2>1. r.pc = "set" /\ r.id = m /\ r.ids = request[h].ids
    BY <1>1, <1>4 DEF Saved, RequestState
  <2> HIDE DEF r
  <2> QED BY <1>2, <1>4, <2>1 DEF r
<1> QED BY <1>2, <1>3, <1>4

\* A new key gets the account of its row.
LEMMA OwnersInsert ==
  ASSUME KindsInvariant, OwnersInvariant, NEW h \in Requests, InsertMonitor(h)
  PROVE  OwnersInvariant'
<1> PICK owner \in [Monitors -> Users] : Owners(owner)
  BY DEF OwnersInvariant
<1>1. PICK m \in Monitors \ used :
        /\ monitor' = [monitor EXCEPT ![m] = request[h].row]
        /\ request' = [request EXCEPT ![h] = Saved(h, m)]
  BY DEF InsertMonitor
<1>2. /\ request[h].pc = "insert"
      /\ request[h].row \in Rows
      /\ attached' = attached
  BY DEF InsertMonitor, KindsInvariant, RequestsSound
<1> PICK u \in Users : u = request[h].row.user
  BY <1>2 DEF Rows
<1> PICK owners \in [Monitors -> Users] : owners = [owner EXCEPT ![m] = u]
  OBVIOUS
<1>3. /\ request'[h].pc \in {"idle", "set"}
      /\ request'[h].pc = "set" =>
           request'[h].id = m /\ OwnedBy(u, request'[h].ids)
      /\ \A g \in Requests \ {h} : request'[g] = request[g]
  <2>1. request[h].ids = {"absent"} \/ OwnedBy(u, request[h].ids)
    BY <1>2 DEF Owners, RequestOwned
  <2> QED BY <1>1, <2>1, SavedOwned
<1>4. /\ monitor'[m].user = u
      /\ \A n \in Monitors \ {m} : monitor'[n] = monitor[n]
  BY <1>1 DEF KindsInvariant, Kinds
<1>5. owners[m] = u /\ \A n \in Monitors \ {m} : owners[n] = owner[n]
  OBVIOUS
<1>6. \A g \in Requests :
        request[g].pc \in {"save", "set", "write"} =>
          request[g].id \in Monitors \ {m}
  BY <1>1 DEF KindsInvariant, Kinds, RequestsSound
<1>7. Owners(owners)'
  <2>1. \A n \in Monitors : Exists(n)' => monitor'[n].user = owners[n]
    BY <1>4, <1>5 DEF Owners, RequestOwned, Exists
  <2>2. ASSUME NEW g \in Requests \ {h}
        PROVE  RequestOwned(owners, request'[g])
    BY <1>3, <1>5, <1>6 DEF Owners, RequestOwned
  <2>3. RequestOwned(owners, request'[h])
    BY <1>3, <1>5 DEF RequestOwned
  <2> QED BY <2>1, <2>2, <2>3 DEF Owners, RequestOwned
<1>8. AttachedOwned'
  <2>1. attached[m] = {}
    BY <1>1 DEF OwnersInvariant, AttachedOwned, KindsInvariant, Kinds
  <2>2. \A n \in Monitors : \A c \in attached[n] :
          monitor'[n] = monitor[n] /\ Exists(n) /\ UserOf[c] = monitor[n].user
    BY <1>4, <2>1 DEF OwnersInvariant, AttachedOwned
  <2> QED BY <1>2, <2>2 DEF AttachedOwned, Exists
<1> QED BY <1>7, <1>8 DEF OwnersInvariant

\* A save writes the account that was loaded, which is the key's.
LEMMA OwnersSave ==
  ASSUME KindsInvariant, OwnersInvariant, NEW h \in Requests, SaveMonitor(h)
  PROVE  OwnersInvariant'
<1> PICK owner \in [Monitors -> Users] : Owners(owner)
  BY DEF OwnersInvariant
<1> PICK m \in Monitors : m = request[h].id
  BY DEF SaveMonitor, KindsInvariant, Kinds, RequestsSound
<1>1. /\ monitor' = [monitor EXCEPT ![m] = request[h].row]
      /\ request' = [request EXCEPT ![h] = Saved(h, m)]
      /\ attached' = attached
      /\ request[h].pc = "save"
  BY DEF SaveMonitor, FullRow
<1>2. request[h].row \in Rows
  BY <1>1 DEF KindsInvariant, Kinds, RequestsSound
<1>3. /\ request[h].row.user = owner[m]
      /\ request[h].ids = {"absent"} \/ OwnedBy(owner[m], request[h].ids)
  BY <1>1 DEF Owners, RequestOwned
<1>4. /\ request'[h].pc \in {"idle", "set"}
      /\ request'[h].pc = "set" =>
           request'[h].id = m /\ OwnedBy(owner[m], request'[h].ids)
      /\ \A g \in Requests \ {h} : request'[g] = request[g]
  BY <1>1, <1>2, <1>3, SavedOwned
<1>5. /\ monitor'[m] = request[h].row
      /\ \A n \in Monitors \ {m} : monitor'[n] = monitor[n]
  BY <1>1, <1>2 DEF KindsInvariant, Kinds
<1>6. Owners(owner)'
  <2>1. \A n \in Monitors : Exists(n)' => monitor'[n].user = owner[n]
    BY <1>3, <1>5 DEF Owners, RequestOwned, Exists
  <2>2. ASSUME NEW g \in Requests \ {h}
        PROVE  RequestOwned(owner, request'[g])
    BY <1>4 DEF Owners, RequestOwned
  <2>3. RequestOwned(owner, request'[h])
    BY <1>4 DEF RequestOwned
  <2> QED BY <2>1, <2>2, <2>3 DEF Owners, RequestOwned
<1>7. AttachedOwned'
  <2>1. Exists(m)'
    BY <1>2, <1>5, NoRowIsNoRow DEF Exists
  <2>2. \A c \in attached[m] : UserOf[c] = owner[m]
    BY <1>2 DEF OwnersInvariant, AttachedOwned, Owners
  <2>3. \A c \in attached'[m] : Exists(m)' /\ UserOf[c] = monitor'[m].user
    BY <1>1, <1>3, <1>5, <2>1, <2>2
  <2>4. \A n \in Monitors \ {m} : \A c \in attached'[n] :
          Exists(n)' /\ UserOf[c] = monitor'[n].user
    BY <1>1, <1>5 DEF OwnersInvariant, AttachedOwned, Exists
  <2> QED BY <2>3, <2>4 DEF AttachedOwned
<1> QED BY <1>6, <1>7 DEF OwnersInvariant

\* The channels that are set are the account's.
LEMMA OwnersChannels ==
  ASSUME KindsInvariant, OwnersInvariant, NEW h \in Requests,
         ReadChannels(h) \/ WriteChannels(h)
  PROVE  OwnersInvariant'
<1> PICK owner \in [Monitors -> Users] : Owners(owner)
  BY DEF OwnersInvariant
<1>1. monitor' = monitor
  BY DEF ReadChannels, WriteChannels
<1>2. request[h] \in RequestState /\ request[h].id \in Monitors
  BY DEF KindsInvariant, Kinds, RequestsSound, ReadChannels, WriteChannels
<1>3. CASE ReadChannels(h)
  <2>1. /\ request'[h].pc = "write"
        /\ request'[h].id = request[h].id
        /\ request'[h].ids = request[h].ids
        /\ \A g \in Requests \ {h} : request'[g] = request[g]
    BY <1>2, <1>3 DEF ReadChannels, KindsInvariant, Kinds, RequestState
  <2>2. OwnedBy(owner[request[h].id], request[h].ids)
    BY <1>3 DEF ReadChannels, Owners, RequestOwned
  <2>3. Owners(owner)'
    BY <1>1, <2>1, <2>2 DEF Owners, RequestOwned, Exists
  <2> QED BY <1>1, <1>3, <2>3
          DEF ReadChannels, OwnersInvariant, AttachedOwned, Exists
<1>4. CASE WriteChannels(h)
  <2>1. /\ request'[h].pc = "idle"
        /\ \A g \in Requests \ {h} : request'[g] = request[g]
    BY <1>4 DEF WriteChannels, Nothing, KindsInvariant, Kinds
  <2>2. Owners(owner)'
    BY <1>1, <2>1 DEF Owners, RequestOwned, Exists
  <2> DEFINE r == request[h]
             added == r.ids \ r.old
  <2>3. OwnedBy(owner[r.id], r.ids)
    BY <1>4 DEF WriteChannels, Owners, RequestOwned
  <2>4. \/ attached' = attached
        \/ attached' = [attached EXCEPT ![r.id] =
                          (attached[r.id] \ (r.old \ r.ids)) \cup added]
    BY <1>4 DEF WriteChannels
  <2>5. attached' # attached => added = {} \/ Exists(r.id)
    BY <1>4 DEF WriteChannels, CanAttach
  <2>6. CASE attached' = attached
    BY <1>1, <2>2, <2>6 DEF OwnersInvariant, AttachedOwned, Exists
  <2>7. CASE /\ attached' # attached
             /\ attached' = [attached EXCEPT ![r.id] =
                               (attached[r.id] \ (r.old \ r.ids)) \cup added]
    <3>1. /\ attached'[r.id] \subseteq attached[r.id] \cup added
          /\ \A n \in Monitors \ {r.id} : attached'[n] = attached[n]
      BY <1>2, <2>7 DEF KindsInvariant, Kinds
    <3>2. \A c \in attached'[r.id] :
            Exists(r.id) /\ UserOf[c] = monitor[r.id].user
      <4> SUFFICES ASSUME NEW c \in attached'[r.id]
                   PROVE  Exists(r.id) /\ UserOf[c] = monitor[r.id].user
        OBVIOUS
      <4>1. CASE c \in attached[r.id]
        BY <1>2, <4>1 DEF OwnersInvariant, AttachedOwned
      <4>2. CASE c \in added
        BY <1>2, <2>3, <2>5, <2>7, <4>2 DEF OwnedBy, Owners
      <4> QED BY <3>1, <4>1, <4>2
    <3>3. AttachedOwned'
      BY <1>1, <3>1, <3>2 DEF OwnersInvariant, AttachedOwned, Exists
    <3> QED BY <2>2, <3>3 DEF OwnersInvariant
  <2> QED BY <2>4, <2>6, <2>7
<1> QED BY <1>3, <1>4

\* A deletion takes the rows of the many-to-many table with it.
LEMMA OwnersDelete ==
  ASSUME KindsInvariant, OwnersInvariant,
         \/ \E m \in Monitors : DeleteMonitor(m)
         \/ \E c \in Channels : DeleteChannel(c)
  PROVE  OwnersInvariant'
<1> PICK owner \in [Monitors -> Users] : Owners(owner)
  BY DEF OwnersInvariant
<1>1. request' = request
  BY DEF DeleteMonitor, DeleteChannel
<1>2. ASSUME NEW m \in Monitors, DeleteMonitor(m)
      PROVE  OwnersInvariant'
  <2>1. /\ ~Exists(m)'
        /\ attached'[m] = {}
        /\ \A n \in Monitors \ {m} :
             monitor'[n] = monitor[n] /\ attached'[n] = attached[n]
    BY <1>2 DEF DeleteMonitor, KindsInvariant, Kinds, Exists
  <2>2. Owners(owner)'
    BY <1>1, <2>1 DEF Owners, RequestOwned, Exists
  <2>3. AttachedOwned'
    BY <2>1 DEF OwnersInvariant, AttachedOwned, Exists
  <2> QED BY <2>2, <2>3 DEF OwnersInvariant
<1>3. ASSUME NEW c \in Channels, DeleteChannel(c)
      PROVE  OwnersInvariant'
  <2>1. /\ monitor' = monitor
        /\ \A n \in Monitors : attached'[n] \subseteq attached[n]
    BY <1>3 DEF DeleteChannel
  <2>2. Owners(owner)'
    BY <1>1, <2>1 DEF Owners, RequestOwned, Exists
  <2>3. AttachedOwned'
    BY <2>1 DEF OwnersInvariant, AttachedOwned, Exists
  <2> QED BY <2>2, <2>3 DEF OwnersInvariant
<1> QED BY <1>2, <1>3

\* The accounts do not change.
LEMMA OwnersNext ==
  KindsInvariant /\ OwnersInvariant /\ [Next]_vars => OwnersInvariant'
<1> SUFFICES ASSUME KindsInvariant, OwnersInvariant, [Next]_vars
             PROVE  OwnersInvariant'
  OBVIOUS
<1>1. CASE RequestNext
  BY <1>1, OwnersBegin, OwnersInsert, OwnersSave, OwnersChannels, OwnersDelete
     DEF RequestNext
<1>2. CASE UNCHANGED <<monitor, attached, request>>
  BY <1>2 DEF OwnersInvariant, AttachedOwned, Owners, Exists
<1> QED BY <1>1, <1>2 DEF Next, ProbeNext, StartProbe, CheckTarget, Unresolved,
                          Connect, ReadBody, Ends, vars

\* Every variable keeps its type, and no monitor ever has a channel that is
\* gone or of another account, whoever deletes what between the save of a
\* monitor and the setting of its channels.
THEOREM AttachmentsCorrect == Spec => []TypeOK
<1>1. Spec => []OwnersInvariant
  BY OwnersInit, OwnersNext, KindsHold, PTL DEF Spec
<1>2. KindsInvariant /\ OwnersInvariant => TypeOK
  BY DEF KindsInvariant, Kinds, OwnersInvariant, AttachedOwned, TypeOK
<1> QED BY <1>1, <1>2, KindsHold, PTL

-----------------------------------------------------------------------------
(* The quota                                                               *)

Saving(u) ==
  {h \in Requests : request[h].pc = "save" /\ request[h].row.user = u}

Inserting(u) ==
  {h \in Requests : request[h].pc = "insert" /\ request[h].row.user = u}

\* The account's monitors, and those it had that a save may bring back.
Claimed(u) == MonitorsForUser(u) \cup {request[h].id : h \in Saving(u)}

\* One request in flight may fill the quota, each of the others pass it by one.
Limit == (IF Quota = 0 THEN 1 ELSE Quota) + Cardinality(Requests) - 1

\* Inductive: what an account has, may get back and is about to get, together.
QuotaInvariant ==
  \A u \in Users :
    /\ IsFiniteSet(Claimed(u))
    /\ Cardinality(Claimed(u)) + Cardinality(Inserting(u)) <= Limit

\* Requests are finitely many, and so are the monitors they may bring back.
LEMMA RequestsFinite ==
  ASSUME NEW u
  PROVE  /\ IsFiniteSet(Saving(u)) /\ IsFiniteSet(Inserting(u))
         /\ Cardinality(Saving(u)) \in Nat /\ Cardinality(Inserting(u)) \in Nat
         /\ Cardinality(Requests) \in Nat \ {0}
         /\ IsFiniteSet({request[h].id : h \in Saving(u)})
         /\ Cardinality({request[h].id : h \in Saving(u)}) \in Nat
         /\ Cardinality({request[h].id : h \in Saving(u)}) <= Cardinality(Saving(u))
<1>1. IsFiniteSet(Requests) /\ Requests # {}
  BY MonitorsApiAssumption DEF MonitorsApiAssumption
<1>2. /\ Saving(u) \in SUBSET Requests /\ Inserting(u) \in SUBSET Requests
  BY DEF Saving, Inserting
<1>3. IsFiniteSet(Saving(u)) /\ IsFiniteSet(Inserting(u))
  BY <1>1, <1>2, FS_Subset
<1>4. Cardinality(Requests) \in Nat \ {0}
  BY <1>1, FS_CardinalityType, FS_EmptySet
<1>5. PICK S, T, f : /\ S = Saving(u) /\ T = {request[h].id : h \in Saving(u)}
                     /\ f = [h \in Saving(u) |-> request[h].id]
  OBVIOUS
<1>6. f \in Surjection(S, T)
  BY <1>5 DEF Surjection
<1>7. IsFiniteSet(T) /\ Cardinality(T) <= Cardinality(S)
  BY <1>3, <1>5, <1>6, FS_Surjection
<1> QED BY <1>3, <1>4, <1>5, <1>7, FS_CardinalityType

\* The limit is a number, and leaves room for the others in flight.
LEMMA LimitType ==
  /\ Limit \in Nat /\ Limit >= 1 /\ Quota \in Nat
  /\ Quota + Cardinality(Requests) - 1 <= Limit
<1>1. Quota \in Nat
  BY MonitorsApiAssumption DEF MonitorsApiAssumption
<1>2. Cardinality(Requests) \in Nat \ {0}
  BY RequestsFinite
<1> QED BY <1>1, <1>2 DEF Limit

\* An account to which a step brings nothing stays within its limit.
LEMMA QuotaKept ==
  ASSUME QuotaInvariant, NEW u \in Users,
         Claimed(u)' \subseteq Claimed(u), Inserting(u)' \subseteq Inserting(u)
  PROVE  /\ IsFiniteSet(Claimed(u)')
         /\ Cardinality(Claimed(u)') + Cardinality(Inserting(u)') <= Limit
<1>1. IsFiniteSet(Requests)
  BY MonitorsApiAssumption DEF MonitorsApiAssumption
<1>2. PICK A, B, C, D : /\ A = Claimed(u) /\ B = Claimed(u)'
                        /\ C = Inserting(u) /\ D = Inserting(u)'
  OBVIOUS
<1>3. /\ IsFiniteSet(A) /\ Cardinality(A) + Cardinality(C) <= Limit
      /\ B \subseteq A /\ D \subseteq C /\ C \subseteq Requests
  BY <1>2 DEF QuotaInvariant, Inserting
<1>4. /\ IsFiniteSet(B) /\ Cardinality(B) <= Cardinality(A)
      /\ Cardinality(A) \in Nat /\ Cardinality(B) \in Nat
  BY <1>3, FS_Subset, FS_CardinalityType
<1>5. IsFiniteSet(C)
  BY <1>1, <1>3, FS_Subset
<1>6. IsFiniteSet(D) /\ Cardinality(D) <= Cardinality(C)
  BY <1>3, <1>5, FS_Subset
<1>7. Cardinality(C) \in Nat /\ Cardinality(D) \in Nat
  BY <1>5, <1>6, FS_CardinalityType
<1>8. Cardinality(B) + Cardinality(D) <= Limit
  BY <1>3, <1>4, <1>6, <1>7, LimitType
<1> QED BY <1>2, <1>4, <1>8

\* The account of the first monitor begins within its limit.
LEMMA QuotaInit == Init => QuotaInvariant
<1> SUFFICES ASSUME Init, NEW u \in Users
             PROVE  /\ IsFiniteSet(Claimed(u))
                    /\ Cardinality(Claimed(u)) + Cardinality(Inserting(u)) <= Limit
  BY DEF QuotaInvariant
<1>1. PICK m \in Monitors, v \in Users, c \in Config :
        monitor = [n \in Monitors |->
                     IF n = m THEN [user |-> v, config |-> c] ELSE NoRow]
  BY DEF Init
<1>2. \A h \in Requests : request[h].pc = "idle"
  BY DEF Init, Nothing
<1>3. Saving(u) = {} /\ Inserting(u) = {}
  BY <1>2 DEF Saving, Inserting
<1>4. Claimed(u) \in SUBSET {m}
  BY <1>1, <1>3 DEF Claimed, MonitorsForUser, Exists
<1>5. IsFiniteSet({m}) /\ Cardinality({m}) = 1
  BY FS_Singleton
<1>6. /\ IsFiniteSet(Claimed(u)) /\ Cardinality(Claimed(u)) <= 1
      /\ Cardinality(Claimed(u)) \in Nat
  BY <1>4, <1>5, FS_Subset, FS_CardinalityType
<1>7. Cardinality(Inserting(u)) = 0
  BY <1>3, FS_EmptySet
<1> QED BY <1>6, <1>7, LimitType

\* create_monitor lets a request through only below the quota,
LEMMA QuotaCreate ==
  ASSUME KindsInvariant, QuotaInvariant, NEW h \in Requests, BeginCreate(h)
  PROVE  QuotaInvariant'
<1>1. PICK row \in Rows, ids \in IdsInput :
        /\ Cardinality(MonitorsForUser(row.user)) < Quota
        /\ request' = [request EXCEPT ![h] =
             [Nothing EXCEPT !.pc = "insert", !.row = row, !.ids = ids]]
  BY DEF BeginCreate, MayCreate
<1>2. request[h].pc = "idle" /\ monitor' = monitor
  BY DEF BeginCreate
<1>3. PICK r : r = [Nothing EXCEPT !.pc = "insert", !.row = row, !.ids = ids]
  OBVIOUS
<1>4. /\ r.pc = "insert" /\ r.row = row /\ request'[h] = r
      /\ \A g \in Requests \ {h} : request'[g] = request[g]
  BY <1>1, <1>3 DEF Nothing, KindsInvariant, Kinds
<1>6. \A u : MonitorsForUser(u)' = MonitorsForUser(u) /\ Saving(u)' = Saving(u)
  BY <1>2, <1>4 DEF MonitorsForUser, Exists, Saving
<1>7. \A u : Claimed(u)' = Claimed(u)
  <2> SUFFICES ASSUME NEW u PROVE Claimed(u)' = Claimed(u)
    OBVIOUS
  <2>1. \A g \in Saving(u) : request'[g] = request[g]
    BY <1>2, <1>4 DEF Saving
  <2> QED BY <1>6, <2>1 DEF Claimed
<1> SUFFICES ASSUME NEW u \in Users
             PROVE  /\ IsFiniteSet(Claimed(u)')
                    /\ Cardinality(Claimed(u)') + Cardinality(Inserting(u)')
                         <= Limit
  BY DEF QuotaInvariant
<1>8. CASE u # row.user
  <2>1. Inserting(u)' \subseteq Inserting(u)
    BY <1>4, <1>8 DEF Inserting
  <2> QED BY <1>7, <2>1, QuotaKept
<1>9. CASE u = row.user
  <2>1. PICK M, K, I : /\ M = MonitorsForUser(u) /\ I = Inserting(u)
                       /\ K = {request[g].id : g \in Saving(u)}
    OBVIOUS
  <2>2. /\ IsFiniteSet(M \cup K) /\ IsFiniteSet(K) /\ IsFiniteSet(I)
        /\ Cardinality(K) \in Nat /\ Cardinality(K) <= Cardinality(Saving(u))
        /\ Cardinality(M) < Quota
    BY <1>1, <1>9, <2>1, RequestsFinite DEF QuotaInvariant, Claimed
  <2>3. /\ IsFiniteSet(M) /\ Cardinality(M) \in Nat
        /\ Cardinality(M \cup K) <= Cardinality(M) + Cardinality(K)
        /\ Cardinality(M \cup K) \in Nat
    <3>1. IsFiniteSet(M)
      BY <2>2, FS_Subset
    <3>2. /\ Cardinality(M \cup K) = Cardinality(M) + Cardinality(K)
                                       - Cardinality(M \cap K)
          /\ IsFiniteSet(M \cap K)
      BY <2>2, <3>1, FS_Union, FS_Subset
    <3>3. Cardinality(M \cap K) \in Nat /\ Cardinality(M) \in Nat
      BY <3>1, <3>2, FS_CardinalityType
    <3> QED BY <2>2, <3>1, <3>2, <3>3, FS_CardinalityType
  <2>4. Inserting(u)' = I \cup {h}
    BY <1>2, <1>4, <1>9, <2>1 DEF Inserting
  <2>5. h \notin I
    BY <1>2, <2>1 DEF Inserting
  <2>6. Cardinality(I \cup {h}) = Cardinality(I) + 1
    BY <2>2, <2>5, FS_AddElement
  <2>7. Cardinality(Saving(u)) + Cardinality(I) <= Cardinality(Requests) - 1
    <3>1. PICK S, H : S = Saving(u) /\ H = Requests \ {h}
      OBVIOUS
    <3>2. S \cap I = {} /\ (S \cup I) \in SUBSET H
      BY <1>2, <2>1, <3>1 DEF Saving, Inserting
    <3>3. /\ IsFiniteSet(S) /\ IsFiniteSet(H)
          /\ Cardinality(H) = Cardinality(Requests) - 1
      BY <3>1, RequestsFinite, MonitorsApiAssumption, FS_RemoveElement
         DEF MonitorsApiAssumption
    <3>4. Cardinality(S \cup I) =
            Cardinality(S) + Cardinality(I) - Cardinality(S \cap I)
      BY <2>2, <3>3, FS_Union
    <3>5. Cardinality(S \cup I) <= Cardinality(H)
      BY <3>2, <3>3, FS_Subset
    <3>6. Cardinality(S \cap I) = 0
      BY <3>2, FS_EmptySet
    <3>7. Cardinality(S) \in Nat /\ Cardinality(I) \in Nat
      BY <2>2, <3>3, FS_CardinalityType
    <3>8. Cardinality(S) + Cardinality(I) <= Cardinality(H)
      BY <3>4, <3>5, <3>6, <3>7
    <3> QED BY <3>1, <3>3, <3>8
  <2>8. PICK s, i, n \in Nat : /\ s = Cardinality(Saving(u)) /\ i = Cardinality(I)
                               /\ n = Cardinality(Requests)
    BY <2>1, RequestsFinite
  <2>9. Quota + n - 1 <= Limit /\ Limit \in Nat /\ Quota \in Nat
    BY <2>8, LimitType
  <2>10. s + i <= n - 1
    BY <2>7, <2>8
  <2>11. Cardinality(M \cup K) + (i + 1) <= Limit
    BY <2>2, <2>3, <2>8, <2>9, <2>10
  <2>12. Claimed(u)' = M \cup K
    BY <1>7, <2>1 DEF Claimed
  <2> QED BY <2>2, <2>4, <2>6, <2>8, <2>11, <2>12
<1> QED BY <1>8, <1>9

\* an update begins with a monitor that is there,
LEMMA QuotaUpdate ==
  ASSUME KindsInvariant, QuotaInvariant, NEW h \in Requests, BeginUpdate(h)
  PROVE  QuotaInvariant'
<1>1. PICK m \in Monitors, c \in Config, ids \in IdsInput :
        /\ Exists(m)
        /\ ValidConfig(c)
        /\ ChannelsOffered(monitor[m].user, ids)
        /\ request' = [request EXCEPT ![h] =
             [Nothing EXCEPT
                !.pc = "save", !.id = m, !.ids = ids,
                !.row = [monitor[m] EXCEPT !.config = c],
                !.changed = {f \in Fields : c[f] # monitor[m].config[f]}]]
  BY Zenon DEF BeginUpdate
<1>2. request[h].pc = "idle" /\ monitor' = monitor
  BY DEF BeginUpdate
<1>3. PICK row, changed : /\ row = [monitor[m] EXCEPT !.config = c]
                          /\ changed = {f \in Fields : c[f] # monitor[m].config[f]}
  OBVIOUS
<1>4. PICK r : r = [Nothing EXCEPT !.pc = "save", !.id = m, !.ids = ids,
                                   !.row = row, !.changed = changed]
  OBVIOUS
<1>5. row.user = monitor[m].user
  <2>1. monitor[m] \in Rows
    BY <1>1 DEF KindsInvariant, Kinds, Exists
  <2> QED BY <1>3, <2>1 DEF Rows
<1>6. request' = [request EXCEPT ![h] = r]
  BY <1>1, <1>3, <1>4
<1>7. /\ r.pc = "save" /\ r.row = row /\ r.id = m /\ request'[h] = r
      /\ \A g \in Requests \ {h} : request'[g] = request[g]
  BY <1>4, <1>6 DEF Nothing, KindsInvariant, Kinds
<1> SUFFICES ASSUME NEW u \in Users
             PROVE  /\ IsFiniteSet(Claimed(u)')
                    /\ Cardinality(Claimed(u)') + Cardinality(Inserting(u)')
                         <= Limit
  BY DEF QuotaInvariant
<1>8. Inserting(u)' \subseteq Inserting(u)
  BY <1>7 DEF Inserting
<1>9. Claimed(u)' \subseteq Claimed(u)
  <2>1. MonitorsForUser(u)' = MonitorsForUser(u)
    BY <1>2 DEF MonitorsForUser, Exists
  <2>2. ASSUME NEW g \in Saving(u)'
        PROVE  request'[g].id \in Claimed(u)
    <3>1. CASE g = h
      BY <1>1, <1>5, <1>7, <2>2, <3>1 DEF Claimed, MonitorsForUser, Saving
    <3>2. CASE g # h
      <4>1. g \in Requests \ {h}
        BY <2>2, <3>2 DEF Saving
      <4>2. g \in Saving(u) /\ request'[g] = request[g]
        BY <1>7, <2>2, <4>1 DEF Saving
      <4> QED BY <4>2 DEF Claimed
    <3> QED BY <3>1, <3>2
  <2> QED BY <2>1, <2>2 DEF Claimed
<1> QED BY <1>8, <1>9, QuotaKept

\* an insertion takes the place of its request,
LEMMA QuotaInsert ==
  ASSUME KindsInvariant, QuotaInvariant, NEW h \in Requests, InsertMonitor(h)
  PROVE  QuotaInvariant'
<1>1. PICK m \in Monitors : /\ m \notin used
                            /\ monitor' = [monitor EXCEPT ![m] = request[h].row]
                            /\ request' = [request EXCEPT ![h] = Saved(h, m)]
  BY DEF InsertMonitor
<1>2. request[h].pc = "insert" /\ request[h].row \in Rows
  BY DEF InsertMonitor, KindsInvariant, RequestsSound
<1>3. /\ Saved(h, m).pc \in {"idle", "set"} /\ request'[h] = Saved(h, m)
      /\ \A g \in Requests \ {h} : request'[g] = request[g]
  BY <1>1, SavedType DEF KindsInvariant, Kinds
<1>4. /\ monitor'[m] = request[h].row /\ ~Exists(m)
      /\ \A n \in Monitors \ {m} : monitor'[n] = monitor[n]
  BY <1>1 DEF KindsInvariant, Kinds
<1> SUFFICES ASSUME NEW u \in Users
             PROVE  /\ IsFiniteSet(Claimed(u)')
                    /\ Cardinality(Claimed(u)') + Cardinality(Inserting(u)')
                         <= Limit
  BY DEF QuotaInvariant
<1>5. /\ Saving(u)' = Saving(u)
      /\ \A g \in Saving(u) : request'[g] = request[g]
  BY <1>2, <1>3 DEF Saving
<1>6. CASE u # request[h].row.user
  <2>1. MonitorsForUser(u)' \subseteq MonitorsForUser(u)
    BY <1>4, <1>6 DEF MonitorsForUser, Exists
  <2>2. Inserting(u)' \subseteq Inserting(u)
    BY <1>3 DEF Inserting
  <2>3. Claimed(u)' \subseteq Claimed(u)
    BY <1>5, <2>1 DEF Claimed
  <2> QED BY <1>5, <2>2, <2>3, QuotaKept
<1>7. CASE u = request[h].row.user
  <2>1. MonitorsForUser(u)' \subseteq MonitorsForUser(u) \cup {m}
    BY <1>4 DEF MonitorsForUser, Exists
  <2>2. Inserting(u)' = Inserting(u) \ {h} /\ h \in Inserting(u)
    BY <1>2, <1>3, <1>7 DEF Inserting
  <2>3. PICK A, B, I : A = Claimed(u) /\ B = Claimed(u)' /\ I = Inserting(u)
    OBVIOUS
  <2>4. B \subseteq A \cup {m}
    BY <1>5, <2>1, <2>3 DEF Claimed
  <2>5. /\ IsFiniteSet(A) /\ Cardinality(A) \in Nat
        /\ Cardinality(A) + Cardinality(I) <= Limit
    BY <2>3, FS_CardinalityType DEF QuotaInvariant
  <2>6. /\ IsFiniteSet(A \cup {m}) /\ Cardinality(A \cup {m}) <= Cardinality(A) + 1
    <3>1. CASE m \in A
      <4>1. A \cup {m} = A
        BY <3>1
      <4>2. \A k \in Nat : k <= k + 1
        OBVIOUS
      <4>3. Cardinality(A) <= Cardinality(A) + 1
        BY <2>5, <4>2
      <4> QED BY <2>5, <4>1, <4>3
    <3>2. CASE m \notin A
      <4>1. IsFiniteSet(A \cup {m}) /\ Cardinality(A \cup {m}) = Cardinality(A) + 1
        BY <2>5, <3>2, FS_AddElement
      <4> QED BY <2>5, <4>1
    <3> QED BY <3>1, <3>2
  <2>7. /\ IsFiniteSet(B) /\ Cardinality(B) \in Nat
        /\ Cardinality(B) <= Cardinality(A) + 1
    BY <2>4, <2>5, <2>6, FS_Subset, FS_CardinalityType
  <2>8. Cardinality(I \ {h}) = Cardinality(I) - 1 /\ Cardinality(I) \in Nat
    BY <2>2, <2>3, RequestsFinite, FS_RemoveElement
  <2>9. Limit \in Nat
    BY LimitType
  <2>10. Cardinality(B) + Cardinality(I \ {h}) <= Limit
    BY <2>5, <2>7, <2>8, <2>9
  <2> QED BY <1>5, <2>2, <2>3, <2>7, <2>10
<1> QED BY <1>6, <1>7

\* a save brings back no monitor that was not counted,
LEMMA QuotaSave ==
  ASSUME KindsInvariant, QuotaInvariant, NEW h \in Requests, SaveMonitor(h)
  PROVE  QuotaInvariant'
<1>1. PICK m : m = request[h].id
  OBVIOUS
<1>2. /\ request[h].pc = "save" /\ m \in Monitors
      /\ monitor' = [monitor EXCEPT ![m] = request[h].row]
      /\ request' = [request EXCEPT ![h] = Saved(h, m)]
  BY <1>1 DEF SaveMonitor, FullRow, KindsInvariant, Kinds, RequestsSound
<1>3. /\ Saved(h, m).pc \in {"idle", "set"} /\ request'[h] = Saved(h, m)
      /\ \A g \in Requests \ {h} : request'[g] = request[g]
  BY <1>2, SavedType DEF KindsInvariant, Kinds
<1>4. /\ monitor'[m] = request[h].row
      /\ \A n \in Monitors \ {m} : monitor'[n] = monitor[n]
  BY <1>2 DEF KindsInvariant, Kinds
<1> SUFFICES ASSUME NEW u \in Users
             PROVE  /\ IsFiniteSet(Claimed(u)')
                    /\ Cardinality(Claimed(u)') + Cardinality(Inserting(u)')
                         <= Limit
  BY DEF QuotaInvariant
<1>5. /\ Inserting(u)' \subseteq Inserting(u)
      /\ Saving(u)' \subseteq Saving(u)
      /\ \A g \in Saving(u)' : request'[g] = request[g]
  BY <1>2, <1>3 DEF Inserting, Saving
<1>6. MonitorsForUser(u)' \subseteq Claimed(u)
  <2> SUFFICES ASSUME NEW n \in MonitorsForUser(u)' PROVE n \in Claimed(u)
    OBVIOUS
  <2>1. CASE n = m
    <3>1. request[h].row.user = u
      BY <1>4, <2>1 DEF MonitorsForUser
    <3> QED BY <1>1, <1>2, <2>1, <3>1 DEF Claimed, Saving
  <2>2. CASE n # m
    BY <1>4, <2>2 DEF Claimed, MonitorsForUser, Exists
  <2> QED BY <2>1, <2>2
<1>7. Claimed(u)' \subseteq Claimed(u)
  BY <1>5, <1>6 DEF Claimed
<1> QED BY <1>5, <1>7, QuotaKept

\* and nothing else brings one.
LEMMA QuotaNext ==
  KindsInvariant /\ QuotaInvariant /\ [Next]_vars => QuotaInvariant'
<1> SUFFICES ASSUME KindsInvariant, QuotaInvariant, [Next]_vars
             PROVE  QuotaInvariant'
  OBVIOUS
<1>1. ASSUME NEW h \in Requests, ReadChannels(h) \/ WriteChannels(h)
      PROVE  QuotaInvariant'
  <2>1. monitor' = monitor
    BY <1>1 DEF ReadChannels, WriteChannels
  <2>2. /\ request[h].pc \in {"set", "write"}
        /\ request'[h].pc \in {"write", "idle"}
        /\ \A g \in Requests \ {h} : request'[g] = request[g]
    BY <1>1 DEF ReadChannels, WriteChannels, KindsInvariant, Kinds, Nothing,
                RequestState
  <2> SUFFICES ASSUME NEW u \in Users
               PROVE  /\ IsFiniteSet(Claimed(u)')
                      /\ Cardinality(Claimed(u)') + Cardinality(Inserting(u)')
                           <= Limit
    BY DEF QuotaInvariant
  <2>3. /\ Inserting(u)' \subseteq Inserting(u)
        /\ Saving(u)' \subseteq Saving(u)
        /\ \A g \in Saving(u)' : request'[g] = request[g]
    BY <2>2 DEF Inserting, Saving
  <2>4. Claimed(u)' \subseteq Claimed(u)
    BY <2>1, <2>3 DEF Claimed, MonitorsForUser, Exists
  <2> QED BY <2>3, <2>4, QuotaKept
<1>2. ASSUME NEW m \in Monitors, DeleteMonitor(m) PROVE QuotaInvariant'
  <2>1. /\ request' = request /\ monitor'[m] = NoRow
        /\ \A n \in Monitors \ {m} : monitor'[n] = monitor[n]
    BY <1>2 DEF DeleteMonitor, KindsInvariant, Kinds
  <2> SUFFICES ASSUME NEW u \in Users
               PROVE  /\ IsFiniteSet(Claimed(u)')
                      /\ Cardinality(Claimed(u)') + Cardinality(Inserting(u)')
                           <= Limit
    BY DEF QuotaInvariant
  <2>2. MonitorsForUser(u)' \subseteq MonitorsForUser(u)
    BY <2>1 DEF MonitorsForUser, Exists
  <2>3. /\ Inserting(u)' = Inserting(u)
        /\ Claimed(u)' \subseteq Claimed(u)
    BY <2>1, <2>2 DEF Inserting, Claimed, Saving
  <2> QED BY <2>3, QuotaKept
<1>3. CASE UNCHANGED <<monitor, request>>
  BY <1>3 DEF QuotaInvariant, Claimed, MonitorsForUser, Exists, Saving,
              Inserting
<1>4. CASE RequestNext
  <2>1. ASSUME NEW c \in Channels, DeleteChannel(c) PROVE QuotaInvariant'
    BY <1>3, <2>1 DEF DeleteChannel
  <2> QED BY <1>1, <1>2, <1>4, <2>1, QuotaCreate, QuotaUpdate, QuotaInsert, QuotaSave
          DEF RequestNext
<1> QED BY <1>3, <1>4 DEF Next, ProbeNext, StartProbe, CheckTarget, Unresolved,
                          Connect, ReadBody, Ends, vars

\* create_monitor counts without a lock (services.py:47), and a save inserts
\* a row deleted meanwhile: an account passes its quota by at most the requests
\* in flight beside one, however many come one after another.
THEOREM QuotaHolds == Spec => []QuotaOvershootBounded
<1>1. QuotaInvariant => QuotaOvershootBounded
  <2> SUFFICES ASSUME QuotaInvariant, NEW u \in Users
               PROVE  Cardinality(MonitorsForUser(u))
                        <= (IF Quota = 0 THEN 1 ELSE Quota)
                             + Cardinality(Requests) - 1
    BY DEF QuotaOvershootBounded
  <2>1. /\ IsFiniteSet(Claimed(u)) /\ MonitorsForUser(u) \in SUBSET Claimed(u)
        /\ Cardinality(Claimed(u)) + Cardinality(Inserting(u))
             <= Limit
    BY DEF QuotaInvariant, Claimed
  <2>2. /\ Cardinality(MonitorsForUser(u)) <= Cardinality(Claimed(u))
        /\ Cardinality(MonitorsForUser(u)) \in Nat
        /\ Cardinality(Claimed(u)) \in Nat
    BY <2>1, FS_Subset, FS_CardinalityType
  <2>3. Cardinality(Inserting(u)) \in Nat /\ Limit \in Nat
    BY RequestsFinite, LimitType
  <2>4. Cardinality(MonitorsForUser(u)) <= Limit
    BY <2>1, <2>2, <2>3
  <2> QED BY <2>4 DEF Limit
<1>2. Spec => []QuotaInvariant
  BY QuotaInit, QuotaNext, KindsHold, PTL DEF Spec
<1> QED BY <1>1, <1>2, PTL

-----------------------------------------------------------------------------
(* What a measurement says                                                 *)

\* A result that tells what came of its probe.
TellsTruth(r) ==
  /\ r.result.success <=> r.result.error_type = "none"
  /\ r.happened # "answer" => r.result.error_type = TypeOfFailure(r.happened)
  /\ r.happened = "answer" <=> r.result.status_code # 0
  /\ r.result.success =>
       /\ r.result.status_code = r.expected_status
       /\ r.result.response_size_bytes <= MaxBytes
  /\ r.happened = "blocked" => r.contacted = {}

\* Nothing happens before the connection, and only an answer is read.
ProbeTruthful(r) ==
  /\ r.pc \in {"idle", "guard", "connect"} => r.contacted = {}
  /\ r.pc = "read" => r.happened = "answer"
  /\ r.pc = "done" => TellsTruth(r)

TruthInvariant == \A p \in Probes : ProbeTruthful(probe[p])

\* The loop over the causes stops at the one it recognises.
LEMMA ClassifiedCauses ==
  /\ ClassifyConnectionError(<<"other">>) = "CONNECTION_ERROR"
  /\ ClassifyConnectionError(<<"other", "gaierror">>) = "DNS_ERROR"
  /\ ClassifyConnectionError(<<"other", "ConnectionRefusedError">>)
       = "CONNECTION_REFUSED"
<1>1. ClassifyConnectionError(<<"other">>) = "CONNECTION_ERROR"
  <2>1. PICK causes : causes = <<"other">>
    OBVIOUS
  <2>2. DOMAIN causes = {1} /\ causes[1] = "other"
    BY <2>1
  <2>3. {i \in DOMAIN causes : causes[i] \in Recognised} = {}
    BY <2>2 DEF Recognised
  <2> QED BY <2>1, <2>3 DEF ClassifyConnectionError
<1>2. ASSUME NEW cause \in Recognised, NEW causes, causes = <<"other", cause>>
      PROVE  ClassifyConnectionError(causes) =
               IF cause = "gaierror" THEN "DNS_ERROR" ELSE "CONNECTION_REFUSED"
  <2>1. /\ DOMAIN causes = {1, 2} /\ causes[1] = "other" /\ causes[2] = cause
    BY <1>2
  <2> DEFINE known == {i \in DOMAIN causes : causes[i] \in Recognised}
             first == CHOOSE i \in known : \A j \in known : i <= j
  <2>2. known = {2}
    BY <1>2, <2>1 DEF Recognised
  <2>3. first = 2
    BY <2>2
  <2>4. ClassifyConnectionError(causes) =
          IF known = {} THEN "CONNECTION_ERROR"
          ELSE IF causes[first] = "gaierror" THEN "DNS_ERROR"
          ELSE "CONNECTION_REFUSED"
    BY DEF ClassifyConnectionError
  <2> HIDE DEF known, first
  <2> QED BY <2>1, <2>2, <2>3, <2>4
<1> QED BY <1>1, <1>2 DEF Recognised

\* The except clauses give every failure its own error type.
LEMMA FailuresClassified ==
  ASSUME NEW failure \in Failures
  PROVE  ErrorType(Raised(failure)) = TypeOfFailure(failure)
<1>1. CASE failure = "tls"
  BY <1>1 DEF ErrorType, Raised, TypeOfFailure
<1>2. CASE failure = "connect_timeout"
  BY <1>2 DEF ErrorType, Raised, TypeOfFailure
<1>3. CASE failure = "read_timeout"
  BY <1>3 DEF ErrorType, Raised, TypeOfFailure
<1>4. CASE failure = "unresolved"
  BY <1>4, ClassifiedCauses DEF ErrorType, Raised, TypeOfFailure
<1>5. CASE failure = "refused"
  BY <1>5, ClassifiedCauses DEF ErrorType, Raised, TypeOfFailure
<1>6. CASE failure = "reset"
  BY <1>6, ClassifiedCauses DEF ErrorType, Raised, TypeOfFailure
<1>7. CASE failure = "unexpected"
  BY <1>7 DEF ErrorType, Raised, TypeOfFailure
<1> QED BY <1>1, <1>2, <1>3, <1>4, <1>5, <1>6, <1>7 DEF Failures

\* A probe that failed tells its failure,
LEMMA FailureTold ==
  ASSUME NEW r, NEW failure \in Failures \cup {"blocked"}, r.happened = failure,
         r.result = Failed(TypeOfFailure(failure), 0),
         failure = "blocked" => r.contacted = {}
  PROVE  TellsTruth(r)
<1>1. /\ TypeOfFailure(failure) # "none" /\ failure # "answer"
  BY DEF TypeOfFailure, Failures
<1>2. /\ r.result.success = FALSE /\ r.result.status_code = 0
      /\ r.result.error_type = TypeOfFailure(failure)
  BY DEF Failed
<1> QED BY <1>1, <1>2 DEF TellsTruth

\* and one that was answered the status and the size.
LEMMA AnswerTold ==
  ASSUME NEW r, NEW status \in Statuses, NEW size \in Sizes,
         r.happened = "answer",
         r.result = Measured(status, size, r.expected_status)
  PROVE  TellsTruth(r)
<1>1. status # 0 /\ size \in Nat /\ MaxBytes \in Nat
  <2>1. 0 \notin 100..599
    OBVIOUS
  <2> QED BY <2>1, MonitorsApiAssumption, HttpProbeAssumption
          DEF MonitorsApiAssumption, HttpProbeAssumption
<1>2. CASE size > MaxBytes
  <2>1. r.result = Failed("RESPONSE_TOO_LARGE", status)
    BY <1>2 DEF Measured
  <2>2. /\ r.result.success = FALSE /\ r.result.status_code = status
        /\ r.result.error_type = "RESPONSE_TOO_LARGE"
    BY <2>1 DEF Failed
  <2> QED BY <1>1, <2>2 DEF TellsTruth
<1>3. CASE ~(size > MaxBytes)
  <2>1. /\ r.result.success = (status = r.expected_status)
        /\ r.result.status_code = status /\ r.result.response_size_bytes = size
        /\ r.result.error_type = IF status = r.expected_status THEN "none"
                                 ELSE "UNEXPECTED_STATUS"
    BY <1>3 DEF Measured
  <2>2. size <= MaxBytes
    BY <1>1, <1>3
  <2>3. CASE status = r.expected_status
    BY <1>1, <2>1, <2>2, <2>3 DEF TellsTruth
  <2>4. CASE status # r.expected_status
    BY <1>1, <2>1, <2>4 DEF TellsTruth
  <2> QED BY <2>3, <2>4
<1> QED BY <1>2, <1>3

\* A step of one probe leaves the others alone.
LEMMA TruthKept ==
  ASSUME KindsInvariant, TruthInvariant, NEW p \in Probes, NEW r,
         probe' = [probe EXCEPT ![p] = r], ProbeTruthful(r)
  PROVE  TruthInvariant'
<1>1. ASSUME NEW q \in Probes PROVE probe'[q] \in {probe[q], r}
  BY DEF KindsInvariant, Kinds
<1>2. ASSUME NEW q \in Probes PROVE ProbeTruthful(probe'[q])
  BY <1>1 DEF TruthInvariant
<1> QED BY <1>2 DEF TruthInvariant

\* A probe never tells anything else.
LEMMA TruthProbe ==
  KindsInvariant /\ TruthInvariant /\ ProbeNext => TruthInvariant'
<1> SUFFICES ASSUME KindsInvariant, TruthInvariant, NEW p \in Probes,
                    \/ StartProbe(p) \/ CheckTarget(p) \/ Unresolved(p)
                    \/ Connect(p) \/ ReadBody(p)
             PROVE  TruthInvariant'
  BY DEF ProbeNext
<1>1. probe[p] \in ProbeState /\ ProbeTruthful(probe[p])
  BY DEF KindsInvariant, Kinds, TruthInvariant
<1>2. CASE StartProbe(p)
  <2>1. PICK url, expected :
          probe' = [probe EXCEPT ![p] =
            [Unstarted EXCEPT !.pc = "guard", !.url = url,
                              !.expected_status = expected]]
    BY <1>2 DEF StartProbe
  <2>2. PICK r : r = [Unstarted EXCEPT !.pc = "guard", !.url = url,
                                       !.expected_status = expected]
    OBVIOUS
  <2>3. r.pc = "guard" /\ r.contacted = {}
    BY <2>2 DEF Unstarted
  <2>4. probe' = [probe EXCEPT ![p] = r] /\ ProbeTruthful(r)
    BY <2>1, <2>2, <2>3 DEF ProbeTruthful
  <2> QED BY <2>4, TruthKept
<1>3. ASSUME NEW failure \in Failures \cup {"blocked"},
             Ends(p, failure, TypeOfFailure(failure)),
             probe[p].pc \in {"guard", "connect"}
      PROVE  TruthInvariant'
  <2>1. PICK r : r = [probe[p] EXCEPT
                        !.pc = "done", !.happened = failure,
                        !.result = Failed(TypeOfFailure(failure), 0)]
    OBVIOUS
  <2>2. probe' = [probe EXCEPT ![p] = r]
    BY <1>3, <2>1 DEF Ends, KindsInvariant, Kinds
  <2>3. /\ r.pc = "done" /\ r.happened = failure
        /\ r.result = Failed(TypeOfFailure(failure), 0) /\ r.contacted = {}
    BY <1>1, <1>3, <2>1 DEF ProbeState, ProbeTruthful
  <2>4. ProbeTruthful(r)
    BY <2>3, FailureTold DEF ProbeTruthful
  <2> QED BY <2>2, <2>4, TruthKept
<1>4. CASE CheckTarget(p)
  <2>1. PICK resolved :
          \/ /\ CheckTargetIsAllowed(resolved) # "none"
             /\ Ends(p, "blocked", CheckTargetIsAllowed(resolved))
          \/ probe' = [probe EXCEPT ![p].pc = "connect",
                                    ![p].checked = resolved]
    BY <1>4 DEF CheckTarget
  <2>2. probe[p].pc = "guard"
    BY <1>4 DEF CheckTarget
  <2>3. CASE /\ CheckTargetIsAllowed(resolved) # "none"
             /\ Ends(p, "blocked", CheckTargetIsAllowed(resolved))
    <3>1. CheckTargetIsAllowed(resolved) = TypeOfFailure("blocked")
      BY <2>3 DEF CheckTargetIsAllowed, TypeOfFailure
    <3> QED BY <1>3, <2>2, <2>3, <3>1
  <2>4. CASE probe' = [probe EXCEPT ![p].pc = "connect",
                                    ![p].checked = resolved]
    <3>1. PICK r : r = [probe[p] EXCEPT !.pc = "connect", !.checked = resolved]
      OBVIOUS
    <3>2. probe' = [probe EXCEPT ![p] = r]
      BY <2>4, <3>1 DEF KindsInvariant, Kinds
    <3>3. r.pc = "connect" /\ r.contacted = {}
      BY <1>1, <2>2, <3>1 DEF ProbeState, ProbeTruthful
    <3>4. ProbeTruthful(r)
      BY <3>3 DEF ProbeTruthful
    <3> QED BY <3>2, <3>4, TruthKept
  <2> QED BY <2>1, <2>3, <2>4
<1>5. CASE Unresolved(p)
  <2>1. "unresolved" \in Failures
    BY DEF Failures
  <2>2. /\ Ends(p, "unresolved", TypeOfFailure("unresolved"))
        /\ probe[p].pc = "connect"
    BY <1>5, <2>1, FailuresClassified DEF Unresolved
  <2> QED BY <1>3, <2>1, <2>2
<1>6. CASE Connect(p)
  <2>1. PICK tried :
          \/ probe' = [probe EXCEPT ![p].pc = "read", ![p].contacted = tried,
                                    ![p].happened = "answer"]
          \/ \E failure \in Failures :
               probe' = [probe EXCEPT
                 ![p].pc = "done", ![p].contacted = tried,
                 ![p].happened = failure,
                 ![p].result = Failed(ErrorType(Raised(failure)), 0)]
    BY <1>6 DEF Connect
  <2>2. CASE probe' = [probe EXCEPT ![p].pc = "read", ![p].contacted = tried,
                                    ![p].happened = "answer"]
    <3>1. PICK r : r = [probe[p] EXCEPT !.pc = "read", !.contacted = tried,
                                        !.happened = "answer"]
      OBVIOUS
    <3>2. probe' = [probe EXCEPT ![p] = r]
      BY <2>2, <3>1 DEF KindsInvariant, Kinds
    <3>3. r.pc = "read" /\ r.happened = "answer"
      BY <1>1, <3>1 DEF ProbeState
    <3>4. ProbeTruthful(r)
      BY <3>3 DEF ProbeTruthful
    <3> QED BY <3>2, <3>4, TruthKept
  <2>3. ASSUME NEW failure \in Failures,
               probe' = [probe EXCEPT
                 ![p].pc = "done", ![p].contacted = tried,
                 ![p].happened = failure,
                 ![p].result = Failed(ErrorType(Raised(failure)), 0)]
        PROVE  TruthInvariant'
    <3>1. PICK r : r = [probe[p] EXCEPT
                          !.pc = "done", !.contacted = tried,
                          !.happened = failure,
                          !.result = Failed(ErrorType(Raised(failure)), 0)]
      OBVIOUS
    <3>2. probe' = [probe EXCEPT ![p] = r]
      BY <2>3, <3>1 DEF KindsInvariant, Kinds
    <3>3. /\ r.pc = "done" /\ r.happened = failure
          /\ r.result = Failed(TypeOfFailure(failure), 0)
      BY <1>1, <3>1, FailuresClassified DEF ProbeState
    <3>4. failure # "blocked"
      BY DEF Failures
    <3>5. ProbeTruthful(r)
      BY <3>3, <3>4, FailureTold DEF ProbeTruthful
    <3> QED BY <3>2, <3>5, TruthKept
  <2> QED BY <2>1, <2>2, <2>3
<1>7. CASE ReadBody(p)
  <2>1. PICK status \in Statuses, size \in Sizes :
          \/ probe' = [probe EXCEPT
               ![p].pc = "done",
               ![p].result = Measured(status, size, probe[p].expected_status)]
          \/ probe' = [probe EXCEPT ![p].pc = "raised"]
    BY <1>7 DEF ReadBody
  <2>2. probe[p].happened = "answer"
    BY <1>1, <1>7 DEF ReadBody, ProbeTruthful
  <2>3. CASE probe' = [probe EXCEPT
               ![p].pc = "done",
               ![p].result = Measured(status, size, probe[p].expected_status)]
    <3>1. PICK r : r = [probe[p] EXCEPT
                          !.pc = "done",
                          !.result = Measured(status, size,
                                              probe[p].expected_status)]
      OBVIOUS
    <3>2. probe' = [probe EXCEPT ![p] = r]
      BY <2>3, <3>1 DEF KindsInvariant, Kinds
    <3>3. /\ r.pc = "done" /\ r.happened = "answer"
          /\ r.result = Measured(status, size, r.expected_status)
      BY <1>1, <2>2, <3>1 DEF ProbeState
    <3>4. ProbeTruthful(r)
      BY <3>3, AnswerTold DEF ProbeTruthful
    <3> QED BY <3>2, <3>4, TruthKept
  <2>4. CASE probe' = [probe EXCEPT ![p].pc = "raised"]
    <3>1. PICK r : r = [probe[p] EXCEPT !.pc = "raised"]
      OBVIOUS
    <3>2. probe' = [probe EXCEPT ![p] = r]
      BY <2>4, <3>1 DEF KindsInvariant, Kinds
    <3>3. r.pc = "raised"
      BY <1>1, <3>1 DEF ProbeState
    <3>4. ProbeTruthful(r)
      BY <3>3 DEF ProbeTruthful
    <3> QED BY <3>2, <3>4, TruthKept
  <2> QED BY <2>1, <2>3, <2>4
<1> QED BY <1>2, <1>4, <1>5, <1>6, <1>7

\* The measurement of a probe that ends says what happened, for every policy,
\* answer of the resolver, failure on the wire, status and size: no failure is
\* recorded as another by the order of the except clauses, although one
\* exception belongs to several classes (requests_probe.py).
THEOREM ProbesTellTheTruth == Spec => []MeasurementsTruthful
<1>1. Init => TruthInvariant
  BY DEF Init, TruthInvariant, ProbeTruthful, Unstarted
<1>2. KindsInvariant /\ TruthInvariant /\ [Next]_vars => TruthInvariant'
  <2>1. KindsInvariant /\ TruthInvariant /\ UNCHANGED probe => TruthInvariant'
    BY DEF TruthInvariant
  <2>2. RequestNext \/ UNCHANGED vars => UNCHANGED probe
    BY DEF RequestNext, BeginCreate, InsertMonitor, BeginUpdate, SaveMonitor,
           ReadChannels, WriteChannels, DeleteMonitor, DeleteChannel, vars
  <2> QED BY <2>1, <2>2, TruthProbe DEF Next
<1>3. TruthInvariant => MeasurementsTruthful
  BY DEF TruthInvariant, ProbeTruthful, TellsTruth, MeasurementsTruthful
<1> QED BY <1>1, <1>2, <1>3, KindsHold, PTL DEF Spec
=============================================================================
