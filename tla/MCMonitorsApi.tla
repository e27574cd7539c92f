--------------------------- MODULE MCMonitorsApi ---------------------------
(***************************************************************************)
(* MonitorsApi on an instance TLC can enumerate: a site with an IPv4 and a *)
(* dual-stack answer, one of whose addresses carries a private IPv4        *)
(* address, and URLs that break one rule each.                             *)
(***************************************************************************)
EXTENDS MonitorsApi, TLC

CONSTANTS u1, k1, site, intranet, public4, private4, nat64

Symmetry == Permutations(Monitors) \cup Permutations(Requests)

MCUserOf == k1 :> u1

MCEmbedded == nat64 :> {private4}

MCAnswers == {{}, {public4}, {public4, nat64}}

Good == [scheme |-> "https", credentials |-> FALSE, host |-> site, port |-> 0]

MCUrls ==
  {Good, [Good EXCEPT !.scheme = "ftp"], [Good EXCEPT !.credentials = TRUE],
   [Good EXCEPT !.host = "none"], [Good EXCEPT !.host = intranet],
   [Good EXCEPT !.host = private4], [Good EXCEPT !.host = nat64],
   [Good EXCEPT !.port = 22]}

\* What a probe does once it has read the row depends on nothing a request
\* writes, nor the other way about: it is enough to follow it from the states
\* in which no request is in flight and no other key has been used.
ProbesAlone ==
  (\E p \in Probes : probe[p].pc # "idle") =>
    /\ \A h \in Requests : request[h].pc = "idle"
    /\ Cardinality(used) = 1
=============================================================================
