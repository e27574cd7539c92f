----------------------------- MODULE OutageLog -----------------------------
(***************************************************************************)
(* What the engine promises about one monitor, without checks, streaks,    *)
(* workers or tables: a log of outages that begin and end one after the    *)
(* other, each longer than nothing and none overlapping the one before,    *)
(* each beginning and each end announced, in the same step, to exactly the *)
(* readers who are listening at that moment.  Deleting the monitor forgets *)
(* the log.                                                                *)
(***************************************************************************)
EXTENDS Naturals, Sequences

CONSTANTS
  Instant,    \* the moments, positive, at which an outage may begin or end
  Reader      \* who may listen

VARIABLES
  down,       \* is the monitor considered down?
  outages,    \* sequence of [began, ended]; ended = 0 while it lasts
  audience,   \* the readers who are listening now
  announced   \* <<outage number, reader, event>>: what is to be told to whom

logVars == <<down, outages, audience, announced>>

Last == outages[Len(outages)]

Init ==
  /\ down = FALSE
  /\ outages = << >>
  /\ audience \in SUBSET Reader
  /\ announced = {}

Told(n, event) == announced \cup {<<n, r, event>> : r \in audience}

Begin(t) ==
  /\ ~down
  /\ outages # << >> => t > Last.ended
  /\ down' = TRUE
  /\ outages' = Append(outages, [began |-> t, ended |-> 0])
  /\ announced' = Told(Len(outages'), "INCIDENT_OPENED")
  /\ UNCHANGED audience

End(t) ==
  /\ down
  /\ t > Last.began
  /\ down' = FALSE
  /\ outages' = [outages EXCEPT ![Len(outages)].ended = t]
  /\ announced' = Told(Len(outages), "INCIDENT_RESOLVED")
  /\ UNCHANGED audience

Listen ==
  /\ audience' \in SUBSET Reader
  /\ UNCHANGED <<down, outages, announced>>

Forget ==
  /\ down' = FALSE
  /\ outages' = << >>
  /\ audience' = {}
  /\ announced' = {}

Next ==
  \/ \E t \in Instant : Begin(t) \/ End(t)
  \/ Listen
  \/ Forget

Spec == Init /\ [][Next]_logVars
=============================================================================
