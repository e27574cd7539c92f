----------------------------- MODULE HttpProbe -----------------------------
(***************************************************************************)
(* What a probe decides: the policy of apps.common.validators and          *)
(* integrations.http_probe.ssrf_guard on where a monitor may point, and    *)
(* how integrations.http_probe.requests_probe turns what happened on the   *)
(* wire into one measurement.                                              *)
(*                                                                         *)
(* An address stands for its networks: the constants say which addresses   *)
(* the two tables of the policy deny, and which IPv4 addresses an IPv6     *)
(* address carries (mapped, 6to4, Teredo, NAT64).                          *)
(***************************************************************************)
EXTENDS Naturals, Sequences, FiniteSets

CONSTANTS
  IPv4, IPv6,     \* addresses of either family
  DeniedIPv4,     \* the addresses in DENIED_IPV4_NETWORKS
  DeniedIPv6,     \* the addresses in DENIED_IPV6_NETWORKS
  EmbeddedIPv4,   \* _embedded_ipv4_addresses
  BlockedNames,   \* BLOCKED_HOSTNAMES and what BLOCKED_HOSTNAME_SUFFIXES match
  AllowedPorts,   \* MONITORING_ALLOWED_PORTS
  AllowPrivate,   \* MONITORING_ALLOW_PRIVATE_TARGETS
  MaxBytes        \* MONITORING_MAX_RESPONSE_BYTES

ASSUME HttpProbeAssumption ==
  /\ IPv4 \cap IPv6 = {}
  /\ DeniedIPv4 \subseteq IPv4
  /\ DeniedIPv6 \subseteq IPv6
  /\ EmbeddedIPv4 \in [IPv6 -> SUBSET IPv4]
  /\ AllowPrivate \in BOOLEAN
  /\ MaxBytes \in Nat

IsDeniedIPv4(a) == a \in DeniedIPv4

IsDeniedIPv6(a) ==
  a \in DeniedIPv6 \/ \E e \in EmbeddedIPv4[a] : IsDeniedIPv4(e)

IsDeniedIP(a) == IF a \in IPv6 THEN IsDeniedIPv6(a) ELSE IsDeniedIPv4(a)

\* Port 0 is a URL without a port, "none" one without a hostname.
ValidateMonitorUrl(url) ==
  /\ url.scheme \in {"http", "https"}
  /\ ~url.credentials
  /\ url.host # "none"
  /\ ~AllowPrivate => url.host \notin BlockedNames
  /\ url.port \in AllowedPorts \cup {0}
  /\ ~AllowPrivate /\ url.host \in IPv4 \cup IPv6 => ~IsDeniedIP(url.host)

\* Fault: one allowed address is enough.
SomeAddressAllowed(resolved) ==
  IF AllowPrivate \/ resolved = {} \/ \E a \in resolved : ~IsDeniedIP(a)
  THEN "none" ELSE "BLOCKED_TARGET"

\* check_target_is_allowed, given what getaddrinfo answered; the empty set is
\* a socket.gaierror.
CheckTargetIsAllowed(resolved) ==
  IF ~AllowPrivate /\ \E a \in resolved : IsDeniedIP(a)
  THEN "BLOCKED_TARGET" ELSE "none"

-----------------------------------------------------------------------------
(* From an exception or a response to a measurement                        *)

Failures ==
  {"unresolved", "tls", "connect_timeout", "read_timeout", "refused", "reset",
   "unexpected"}

\* What requests raises for a failure: the classes among those the probe
\* catches that the exception belongs to, and the causes under it.
Raised(failure) ==
  CASE failure = "tls" ->
         [classes |-> {"SSLError", "ConnectionError"}, causes |-> <<>>]
    [] failure = "connect_timeout" ->
         [classes |-> {"Timeout", "ConnectionError"}, causes |-> <<"other">>]
    [] failure = "read_timeout" ->
         [classes |-> {"Timeout"}, causes |-> <<"other">>]
    [] failure = "unresolved" ->
         [classes |-> {"ConnectionError"}, causes |-> <<"other", "gaierror">>]
    [] failure = "refused" ->
         [classes |-> {"ConnectionError"},
          causes |-> <<"other", "ConnectionRefusedError">>]
    [] failure = "reset" ->
         [classes |-> {"ConnectionError"}, causes |-> <<"other">>]
    [] OTHER -> [classes |-> {}, causes |-> <<>>]

\* The causes the loop of _classify_connection_error stops at.
Recognised == {"gaierror", "ConnectionRefusedError"}

ClassifyConnectionError(causes) ==
  LET known == {i \in DOMAIN causes : causes[i] \in Recognised}
      first == CHOOSE i \in known : \A j \in known : i <= j
  IN  IF known = {} THEN "CONNECTION_ERROR"
      ELSE IF causes[first] = "gaierror" THEN "DNS_ERROR"
      ELSE "CONNECTION_REFUSED"

\* Fault: the except clause of the base class comes first.
BaseClassFirst(exc) ==
  CASE "ConnectionError" \in exc.classes -> ClassifyConnectionError(exc.causes)
    [] "ConnectionError" \notin exc.classes /\ "Timeout" \in exc.classes ->
         "TIMEOUT"
    [] OTHER -> "INTERNAL_ERROR"

\* The except clauses, in their order.
ErrorType(exc) ==
  IF "SSLError" \in exc.classes THEN "SSL_ERROR"
  ELSE IF "Timeout" \in exc.classes THEN "TIMEOUT"
  ELSE IF "ConnectionError" \in exc.classes
       THEN ClassifyConnectionError(exc.causes)
  ELSE "INTERNAL_ERROR"

ErrorTypes ==
  {"DNS_ERROR", "CONNECTION_REFUSED", "CONNECTION_ERROR", "TIMEOUT",
   "SSL_ERROR", "TOO_MANY_REDIRECTS", "RESPONSE_TOO_LARGE",
   "UNEXPECTED_STATUS", "BLOCKED_TARGET", "INTERNAL_ERROR"}

\* status_code 0 and response_size_bytes 0 stand for None.
ProbeResult ==
  [success : BOOLEAN, error_type : ErrorTypes \cup {"none"},
   status_code : Nat, response_size_bytes : Nat]

Failed(error_type, status) ==
  [success |-> FALSE, error_type |-> error_type, status_code |-> status,
   response_size_bytes |-> 0]

\* The measurement of a response whose body could be read: _read_capped gives
\* up once it has seen more than the limit.
Measured(status, size, expected) ==
  IF size > MaxBytes THEN Failed("RESPONSE_TOO_LARGE", status)
  ELSE [success |-> status = expected,
        error_type |->
          IF status = expected THEN "none" ELSE "UNEXPECTED_STATUS",
        status_code |-> status,
        response_size_bytes |-> size]
=============================================================================
