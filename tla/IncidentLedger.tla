--------------------------- MODULE IncidentLedger ---------------------------
(***************************************************************************)
(* What the Zabbix-GLPI bridge promises to the people on both sides of it: *)
(* an event is correlated with at most one ticket, for ever; an incident   *)
(* is recorded as recovered only once its ticket has been moved to the     *)
(* recovery status; and Zabbix is told "done" only about what is recorded. *)
(* GlpiBridge implements this specification.                               *)
(***************************************************************************)
EXTENDS Naturals

CONSTANT Events

VARIABLES
  incident,   \* [Events -> Incident]: what the bridge remembers of an event
  closed,     \* the tickets moved to the recovery status
  acked       \* [Events -> SUBSET Kinds]: the notifications answered with 200

lvars == <<incident, closed, acked>>

Kinds == {"problem", "recovery"}

NoIncident == [ticket |-> 0, state |-> "none"]

Incident == {NoIncident} \union [ticket : Nat \ {0}, state : {"problem", "recovered"}]

LedgerInit ==
  /\ incident = [e \in Events |-> NoIncident]
  /\ closed = {}
  /\ acked = [e \in Events |-> {}]

(* A first problem is correlated with a ticket that no other event has and *)
(* that nobody has closed.                                                 *)
Open(e) ==
  LET i == incident'[e].ticket IN
  /\ incident[e] = NoIncident
  /\ i \in Nat \ {0}
  /\ \A f \in Events : incident[f].ticket # i
  /\ i \notin closed
  /\ incident' = [incident EXCEPT ![e] = [ticket |-> i, state |-> "problem"]]
  /\ UNCHANGED <<closed, acked>>

(* Only the ticket of an incident still in progress is ever closed.        *)
Close(e) ==
  /\ incident[e].state = "problem"
  /\ closed' = closed \union {incident[e].ticket}
  /\ UNCHANGED <<incident, acked>>

Recover(e) ==
  /\ incident[e].state = "problem"
  /\ incident[e].ticket \in closed
  /\ incident' = [incident EXCEPT ![e].state = "recovered"]
  /\ UNCHANGED <<closed, acked>>

Acknowledge(e, k) ==
  /\ incident[e] # NoIncident
  /\ k = "recovery" => incident[e].state = "recovered"
  /\ acked' = [acked EXCEPT ![e] = @ \union {k}]
  /\ UNCHANGED <<incident, closed>>

LedgerNext ==
  \E e \in Events :
    \/ Open(e)
    \/ Close(e)
    \/ Recover(e)
    \/ \E k \in Kinds : Acknowledge(e, k)

LedgerSpec == LedgerInit /\ [][LedgerNext]_lvars
=============================================================================
