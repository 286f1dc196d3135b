------------------------ MODULE GlpiBridgeRefinement ------------------------
(***************************************************************************)
(* GlpiBridge implements IncidentLedger, and never touches a recovered     *)
(* event again, for any events, notifications, threads and faults.         *)
(***************************************************************************)
EXTENDS GlpiBridgeProofs

(* Zabbix waits for an answer only on a notification it is delivering.      *)
CallerInv == \A a \in Alerts : caller[a] # NoThread => status[a] = "waiting"

(* The refinement mapping of GlpiBridge!Ledger, named for the proofs.       *)
IncidentMap == [e \in Events |-> [ticket |-> db[e].ticket, state |-> db[e].state]]
ClosedMap == {i \in DOMAIN tickets : tickets[i].closed}
AckedMap ==
  [e \in Events |-> {a.kind : a \in {b \in Alerts : b.event = e /\ status[b] = "sent"}}]

LedgerStep ==
  \/ \E e \in Events : \/ Ledger!Open(e) \/ Ledger!Close(e) \/ Ledger!Recover(e)
                       \/ \E k \in Kinds : Ledger!Acknowledge(e, k)
  \/ UNCHANGED <<IncidentMap, ClosedMap, AckedMap>>

LEMMA LedgerActions ==
  ASSUME NEW e \in Events,
         \/ Ledger!Open(e) \/ Ledger!Close(e) \/ Ledger!Recover(e)
         \/ \E k \in Kinds : Ledger!Acknowledge(e, k)
  PROVE  LedgerStep
  BY DEF LedgerStep

LEMMA CallerStep ==
  ASSUME IInv, CallerInv, [Next]_vars
  PROVE  CallerInv'
<1> USE DEF CallerInv, IInv, TypeOK
<1>1. ASSUME NEW a \in Alerts, Notify(a) \/ GiveUpWaiting(a)
      PROVE  CallerInv'
  BY <1>1 DEF Notify, GiveUpWaiting, AttemptFails
<1>2. ASSUME NEW a \in Alerts, NEW t \in Threads, Deliver(a, t)
      PROVE  CallerInv'
  BY <1>2 DEF Deliver
<1>3. ASSUME NEW t \in Threads, Handle(t), ~ Answer(t)
      PROVE  UNCHANGED zabbixVars
  BY <1>3 DEF Handle, Begin, Busy, CreateTicket, RecoveryFollowup, RecoveryStatus,
     ProblemFollowup, Fail, GiveUpCall, Commit, Continue, RollBack
<1>4. ASSUME NEW t \in Threads, Answer(t)
      PROVE  CallerInv'
  <2>1. \A a \in Alerts : caller'[a] # NoThread => caller'[a] = caller[a] /\ status'[a] = status[a]
    BY <1>4 DEF Answer, AttemptFails, zabbixVars
  <2> QED
    BY <2>1
<1>5. CASE Crash
  BY <1>5 DEF Crash
<1>6. ASSUME NEW c \in late, LateEffect(c)
      PROVE  UNCHANGED zabbixVars
  BY <1>6 DEF LateEffect
<1>7. CASE Quiescent \/ UNCHANGED vars
  BY <1>7 DEF Quiescent, vars, zabbixVars
<1> QED
  BY <1>1, <1>2, <1>3, <1>4, <1>5, <1>6, <1>7 DEF Next, zabbixVars

-----------------------------------------------------------------------------
(* When each part of the abstract state stays the same.                     *)

LEMMA SameIncidents ==
  ASSUME UNCHANGED db
  PROVE  UNCHANGED IncidentMap
  BY DEF IncidentMap

LEMMA SameAcked ==
  ASSUME \A a \in Alerts : status'[a] = "sent" <=> status[a] = "sent"
  PROVE  UNCHANGED AckedMap
<1>1. ASSUME NEW e \in Events
      PROVE  {b \in Alerts : b.event = e /\ status'[b] = "sent"} =
             {b \in Alerts : b.event = e /\ status[b] = "sent"}
  OBVIOUS
<1> QED
  BY <1>1 DEF AckedMap

LEMMA SameClosed ==
  ASSUME DOMAIN tickets \subseteq DOMAIN tickets',
         \A i \in DOMAIN tickets : tickets'[i].closed = tickets[i].closed,
         \A i \in DOMAIN tickets' \ DOMAIN tickets : ~ tickets'[i].closed
  PROVE  UNCHANGED ClosedMap
  BY DEF ClosedMap

LEMMA OpenedNotClosed ==
  ASSUME IInv, NEW e \in Events, tickets' = Append(tickets, NewTicket(e))
  PROVE  UNCHANGED ClosedMap
<1>1. ~ NewTicket(e).closed
  BY DEF NewTicket
<1>2. /\ DOMAIN tickets' = DOMAIN tickets \union {Len(tickets) + 1}
      /\ \A i \in DOMAIN tickets : tickets'[i] = tickets[i]
      /\ tickets'[Len(tickets) + 1] = NewTicket(e)
  BY AppendGrows
<1> QED
  BY <1>1, <1>2, SameClosed

(* Moving the ticket of an incident in progress to the recovery status.     *)
LEMMA CloseSimulated ==
  ASSUME IInv, NEW e \in Events, db[e] # NoRow, UNCHANGED <<db, status>>,
         tickets' = [tickets EXCEPT ![db[e].ticket].closed = TRUE]
  PROVE  LedgerStep
<1> DEFINE i == db[e].ticket
<1>1. /\ i \in DOMAIN tickets /\ tickets[i] \in Ticket /\ tickets \in Seq(Ticket)
      /\ db[e] \in Row
  BY ElementOfSeq, LenProperties DEF IInv, CorrelationSound, TypeOK
<1>2. /\ DOMAIN tickets' = DOMAIN tickets
      /\ tickets'[i].closed
      /\ \A j \in DOMAIN tickets : j # i => tickets'[j] = tickets[j]
  BY <1>1 DEF Ticket
<1>3. ClosedMap' = ClosedMap \union {i}
  BY <1>1, <1>2 DEF ClosedMap
<1>4. UNCHANGED <<IncidentMap, AckedMap>>
  BY SameIncidents, SameAcked
<1>5. CASE db[e].state = "problem"
  <2>1. Ledger!Close(e)
    BY <1>3, <1>4, <1>5 DEF Ledger!Close, IncidentMap, ClosedMap, AckedMap
  <2> QED
    BY <2>1 DEF LedgerStep
<1>6. CASE db[e].state = "recovered"
  <2>1. i \in ClosedMap
    BY <1>1, <1>6 DEF ClosedMap, IInv, ClosedInv
  <2> QED
    BY <1>3, <1>4, <2>1 DEF LedgerStep
<1> QED
  BY <1>1, <1>5, <1>6 DEF Row

LEMMA StutterSimulated ==
  ASSUME UNCHANGED <<db, tickets>>,
         \A a \in Alerts : status'[a] = "sent" <=> status[a] = "sent"
  PROVE  LedgerStep
<1>1. UNCHANGED IncidentMap /\ UNCHANGED ClosedMap /\ UNCHANGED AckedMap
  BY SameIncidents, SameClosed, SameAcked
<1> QED
  BY <1>1 DEF LedgerStep

-----------------------------------------------------------------------------
(* The actions.                                                             *)

LEMMA ZabbixSimulated ==
  ASSUME IInv, NEW a \in Alerts,
         Notify(a) \/ GiveUpWaiting(a) \/ \E t \in Threads : Deliver(a, t)
  PROVE  LedgerStep
<1>1. UNCHANGED <<db, tickets>>
  BY DEF Notify, GiveUpWaiting, Deliver, glpiVars
<1>2. \A b \in Alerts : status'[b] = "sent" <=> status[b] = "sent"
  BY DEF Notify, GiveUpWaiting, Deliver, AttemptFails, IInv, TypeOK
<1> QED
  BY <1>1, <1>2, StutterSimulated

LEMMA CrashSimulated ==
  ASSUME Crash
  PROVE  LedgerStep
<1>1. \A b \in Alerts : status'[b] = "sent" <=> status[b] = "sent"
  BY DEF Crash
<1> QED
  BY <1>1, StutterSimulated DEF Crash

LEMMA AnswerSimulated ==
  ASSUME IInv, CallerInv, NEW t \in Threads, Answer(t)
  PROVE  LedgerStep
<1>0. PICK a \in Alerts, e \in Events : a = job[t].alert /\ e = a.event /\ a.kind \in Kinds
  BY BridgeAssumption DEF Answer, IInv, TypeOK, LockInv
<1>1. UNCHANGED <<db, tickets>>
  BY DEF Answer, glpiVars
<1>2. CASE ~ (caller[a] = t /\ pc[t] = "accepted")
  <2>1. \A b \in Alerts : status'[b] = "sent" <=> status[b] = "sent"
    BY <1>0, <1>1, <1>2, BridgeAssumption
       DEF Answer, AttemptFails, zabbixVars, IInv, TypeOK, CallerInv
  <2> QED
    BY <1>0, <1>1, <2>1, StutterSimulated
<1>3. CASE caller[a] = t /\ pc[t] = "accepted"
  <2>1. status' = [status EXCEPT ![a] = "sent"]
    BY <1>0, <1>3 DEF Answer
  <2>2. /\ db[e] # NoRow
        /\ a.kind = "recovery" => db[e].state = "recovered"
    BY <1>0, <1>3 DEF IInv, AcceptedInv, Event, Kind
  <2>3. /\ IncidentMap[e].state = db[e].state
        /\ IncidentMap[e] # Ledger!NoIncident
    BY <1>0, <1>1, <2>2 DEF IncidentMap, Ledger!NoIncident, IInv, TypeOK, Row, NoRow
  <2>4. AckedMap' = [AckedMap EXCEPT ![e] = @ \union {a.kind}]
    <3>1. \A b \in Alerts : status'[b] = IF b = a THEN "sent" ELSE status[b]
      BY <1>0, <1>1, <2>1 DEF IInv, TypeOK
    <3>2. ASSUME NEW f \in Events
          PROVE  AckedMap'[f] = IF f = e THEN AckedMap[f] \union {a.kind} ELSE AckedMap[f]
      BY <1>0, <3>1 DEF AckedMap
    <3>3. AckedMap = [f \in Events |-> AckedMap[f]] /\ AckedMap' = [f \in Events |-> AckedMap'[f]]
      BY DEF AckedMap
    <3> QED
      BY <3>2, <3>3
  <2>5. UNCHANGED IncidentMap /\ UNCHANGED ClosedMap
    BY <1>0, <1>1, SameIncidents, SameClosed
  <2>6. Ledger!Acknowledge(e, a.kind)
    BY <1>0, <1>1, <2>2, <2>3, <2>4, <2>5 DEF Ledger!Acknowledge, IncidentMap, ClosedMap, AckedMap
  <2> QED
    BY <1>0, <1>1, <2>6, LedgerActions
<1> QED
  BY <1>0, <1>2, <1>3

LEMMA CallSimulated ==
  ASSUME IInv, NEW t \in Threads,
         CreateTicket(t) \/ RecoveryFollowup(t) \/ RecoveryStatus(t) \/ ProblemFollowup(t)
  PROVE  LedgerStep
<1>1. UNCHANGED <<db, status>>
  BY DEF CreateTicket, RecoveryFollowup, RecoveryStatus, ProblemFollowup,
     Continue, RollBack, zabbixVars
<1>2. UNCHANGED IncidentMap /\ UNCHANGED AckedMap
  BY <1>1, SameIncidents, SameAcked
<1>3. CASE CreateTicket(t)
  <2>1. Event(t) \in Events
    BY <1>3, InTransaction DEF CreateTicket, LockedSteps, CallSteps
  <2>2. tickets' = Append(tickets, NewTicket(Event(t)))
    BY <1>3 DEF CreateTicket
  <2>3. UNCHANGED ClosedMap
    BY <2>1, <2>2, OpenedNotClosed
  <2> QED
    BY <1>2, <2>3 DEF LedgerStep
<1>4. CASE RecoveryFollowup(t) \/ ProblemFollowup(t)
  <2>1. held[t] \in DOMAIN tickets
    BY <1>4, OnCorrelatedTicket DEF RecoveryFollowup, ProblemFollowup
  <2>2. tickets \in Seq(Ticket) /\ tickets[held[t]] \in Ticket
    BY <2>1, ElementOfSeq, LenProperties DEF IInv, TypeOK
  <2>3. \/ tickets' = [tickets EXCEPT ![held[t]].recoveries = @ + 1]
        \/ tickets' = [tickets EXCEPT ![held[t]].updates = @ + 1]
    BY <1>4 DEF RecoveryFollowup, ProblemFollowup
  <2>4. /\ DOMAIN tickets' = DOMAIN tickets
        /\ \A j \in DOMAIN tickets : j # held[t] => tickets'[j] = tickets[j]
        /\ tickets'[held[t]].closed = tickets[held[t]].closed
    BY <2>1, <2>2, <2>3 DEF Ticket
  <2>5. UNCHANGED ClosedMap
    BY <2>1, <2>4, SameClosed
  <2> QED
    BY <1>2, <2>5 DEF LedgerStep
<1>5. CASE RecoveryStatus(t)
  <2>1. /\ pc[t] = "status"
        /\ tickets' = [tickets EXCEPT ![held[t]].closed = TRUE]
    BY <1>5 DEF RecoveryStatus
  <2>2. db[Event(t)] # NoRow /\ held[t] = db[Event(t)].ticket /\ Event(t) \in Events
    BY <2>1, OnCorrelatedTicket, InTransaction DEF LockedSteps, CallSteps
  <2> QED
    BY <1>1, <2>1, <2>2, CloseSimulated
<1> QED
  BY <1>3, <1>4, <1>5

LEMMA LateEffectSimulated ==
  ASSUME IInv, NEW c \in late, LateEffect(c)
  PROVE  LedgerStep
<1> DEFINE e == c.job.alert.event
<1>1. UNCHANGED <<db, status>>
  BY DEF LateEffect, zabbixVars
<1>2. UNCHANGED IncidentMap /\ UNCHANGED AckedMap
  BY <1>1, SameIncidents, SameAcked
<1>3. /\ c.op \in CallSteps /\ e \in Events
      /\ c.op # "create" => db[e] # NoRow /\ c.ticket = db[e].ticket
  <2>1. c \in Call
    BY DEF IInv, TypeOK
  <2> QED
    BY <2>1, BridgeAssumption DEF Call, IInv, LateInv
<1>4. CASE c.op = "create"
  <2>1. tickets' = Append(tickets, NewTicket(e))
    BY <1>4 DEF LateEffect
  <2>2. UNCHANGED ClosedMap
    BY <1>3, <2>1, OpenedNotClosed
  <2> QED
    BY <1>2, <2>2 DEF LedgerStep
<1>5. CASE c.op \in {"followup", "update"}
  <2>1. c.ticket \in DOMAIN tickets
    BY <1>3, <1>5 DEF IInv, CorrelationSound
  <2>2. tickets \in Seq(Ticket) /\ tickets[c.ticket] \in Ticket
    BY <2>1, ElementOfSeq, LenProperties DEF IInv, TypeOK
  <2>3. \/ tickets' = [tickets EXCEPT ![c.ticket].recoveries = @ + 1]
        \/ tickets' = [tickets EXCEPT ![c.ticket].updates = @ + 1]
    BY <1>5 DEF LateEffect
  <2>4. /\ DOMAIN tickets' = DOMAIN tickets
        /\ \A j \in DOMAIN tickets : j # c.ticket => tickets'[j] = tickets[j]
        /\ tickets'[c.ticket].closed = tickets[c.ticket].closed
    BY <2>1, <2>2, <2>3 DEF Ticket
  <2>5. UNCHANGED ClosedMap
    BY <2>1, <2>4, SameClosed
  <2> QED
    BY <1>2, <2>5 DEF LedgerStep
<1>6. CASE c.op = "status"
  <2>1. tickets' = [tickets EXCEPT ![c.ticket].closed = TRUE]
    BY <1>6 DEF LateEffect
  <2> QED
    BY <1>1, <1>3, <1>6, <2>1, CloseSimulated
<1> QED
  BY <1>3, <1>4, <1>5, <1>6 DEF CallSteps

LEMMA CommitSimulated ==
  ASSUME IInv, NEW t \in Threads, Commit(t)
  PROVE  LedgerStep
<1> DEFINE new == NewRow(job[t].alert, row[t], held[t])
<1>1. /\ pc[t] = "commit" /\ pc[t] \in LockedSteps
      /\ db' = [db EXCEPT ![Event(t)] = new]
      /\ UNCHANGED <<status, tickets>>
  BY DEF Commit, LockedSteps, zabbixVars, glpiVars
<1>2. PICK e \in Events :
        /\ e = Event(t) /\ writer = t /\ row[t] = db[e] /\ Kind(t) \in Kinds
        /\ db \in [Events -> Row \union {NoRow}]
  BY <1>1, InTransaction DEF IInv, TypeOK
<1>3. UNCHANGED AckedMap /\ UNCHANGED ClosedMap
  BY <1>1, SameAcked, SameClosed
<1>4. IncidentMap' = [IncidentMap EXCEPT ![e] = [ticket |-> new.ticket, state |-> new.state]]
  BY <1>1, <1>2 DEF IncidentMap
<1>5. IncidentMap[e] = [ticket |-> db[e].ticket, state |-> db[e].state]
  BY <1>2 DEF IncidentMap
<1>6. CASE row[t] = NoRow
  <2>1. new.ticket = held[t] /\ new.state = "problem"
    BY <1>6 DEF NewRow
  <2>2. NewTicketStep(t)
    BY <1>1, <1>2, <1>6 DEF IInv, StepInv
  <2>3. /\ held[t] \in Nat \ {0} /\ held[t] \notin ClosedMap
        /\ \A f \in Events : IncidentMap[f].ticket # held[t]
    <3>1. held[t] \in Nat \ {0} /\ held[t] \notin ClosedMap
      BY <2>2, LenProperties DEF NewTicketStep, ClosedMap, IInv, TypeOK
    <3>2. \A f \in Events : db[f] # NoRow => db[f].ticket # held[t]
      BY <1>2, <1>6, <2>2 DEF NewTicketStep, IInv, CorrelationSound
    <3> QED
      BY <3>1, <3>2 DEF IncidentMap, NoRow
  <2>4. IncidentMap[e] = Ledger!NoIncident
    BY <1>2, <1>5, <1>6 DEF Ledger!NoIncident, NoRow
  <2>5. IncidentMap'[e] = [ticket |-> held[t], state |-> "problem"]
    BY <1>2, <1>4, <2>1 DEF IncidentMap
  <2>6. Ledger!Open(e)
    BY <1>2, <1>3, <1>4, <2>1, <2>3, <2>4, <2>5 DEF Ledger!Open, IncidentMap, ClosedMap, AckedMap
  <2> QED
    BY <1>2, <2>6, LedgerActions
<1>7. CASE row[t] # NoRow /\ row[t].state = "problem" /\ Kind(t) = "recovery"
  <2>1. new = [row[t] EXCEPT !.state = "recovered", !.print = job[t].alert]
    BY <1>7 DEF NewRow, Kind
  <2>2. new.ticket = db[e].ticket /\ new.state = "recovered"
    BY <1>2, <1>7, <2>1 DEF Row
  <2>3. db[e].ticket \in ClosedMap
    BY <1>1, <1>2, <1>7 DEF IInv, StepInv, CorrelatedStep, CorrelationSound, ClosedMap
  <2>4. IncidentMap' = [IncidentMap EXCEPT ![e].state = "recovered"]
    <3>1. [IncidentMap[e] EXCEPT !.state = "recovered"] = [ticket |-> new.ticket, state |-> new.state]
      BY <1>5, <2>2
    <3> QED
      BY <1>4, <3>1
  <2>5. Ledger!Recover(e)
    BY <1>2, <1>3, <1>5, <1>7, <2>3, <2>4 DEF Ledger!Recover, IncidentMap, ClosedMap, AckedMap
  <2> QED
    BY <1>2, <2>5, LedgerActions
<1>8. CASE row[t] # NoRow /\ ~ (row[t].state = "problem" /\ Kind(t) = "recovery")
  <2>1. \/ new = [row[t] EXCEPT !.print = job[t].alert]
        \/ new = row[t]
    BY <1>2, <1>8 DEF NewRow, Kind, Kinds, Row
  <2>2. new.ticket = db[e].ticket /\ new.state = db[e].state
    BY <1>2, <1>8, <2>1 DEF Row
  <2>3. UNCHANGED IncidentMap
    BY <1>2, <1>4, <1>5, <2>2 DEF IncidentMap
  <2> QED
    BY <1>3, <2>3 DEF LedgerStep
<1> QED
  BY <1>6, <1>7, <1>8

-----------------------------------------------------------------------------
LEMMA StepSimulated ==
  ASSUME IInv, CallerInv, [Next]_vars
  PROVE  LedgerStep
<1>1. ASSUME NEW t \in Threads, Handle(t)
      PROVE  LedgerStep
  <2>1. CASE Begin(t) \/ Busy(t) \/ Fail(t) \/ GiveUpCall(t)
    <3>1. UNCHANGED <<db, tickets, status>>
      BY <2>1 DEF Begin, Busy, Fail, GiveUpCall, RollBack, zabbixVars, glpiVars
    <3> QED
      BY <3>1, StutterSimulated
  <2> QED
    BY <1>1, <2>1, CallSimulated, CommitSimulated, AnswerSimulated DEF Handle
<1>2. CASE Quiescent \/ UNCHANGED vars
  <2>1. UNCHANGED <<db, tickets, status>>
    BY <1>2 DEF Quiescent, vars, zabbixVars, glpiVars
  <2> QED
    BY <2>1, StutterSimulated
<1> QED
  BY <1>1, <1>2, ZabbixSimulated, LateEffectSimulated, CrashSimulated DEF Next

(* GlpiBridge implements IncidentLedger: under any retries, overlaps, lost  *)
(* answers, late effects and crashes an event is correlated with one ticket *)
(* for ever, a recovery is recorded after its ticket is closed, and Zabbix  *)
(* is told only what is recorded.                                           *)
THEOREM Refinement == Spec => ImplementsLedger
<1>1. Init => Ledger!LedgerInit
  <2>1. SUFFICES ASSUME Init PROVE Ledger!LedgerInit
    OBVIOUS
  <2>2. IncidentMap = [e \in Events |-> Ledger!NoIncident]
    BY <2>1 DEF Init, IncidentMap, NoRow, Ledger!NoIncident
  <2>3. ClosedMap = {}
    BY <2>1 DEF Init, ClosedMap
  <2>4. AckedMap = [e \in Events |-> {}]
    BY <2>1 DEF Init, AckedMap
  <2> QED
    BY <2>2, <2>3, <2>4 DEF Ledger!LedgerInit, IncidentMap, ClosedMap, AckedMap
<1>2. Init => CallerInv
  BY DEF Init, CallerInv
<1>3. IInv /\ CallerInv /\ [Next]_vars => CallerInv'
  BY CallerStep
<1>4. IInv /\ CallerInv /\ [Next]_vars => [Ledger!LedgerNext]_(Ledger!lvars)
  <2>1. SUFFICES ASSUME IInv, CallerInv, [Next]_vars
        PROVE  [Ledger!LedgerNext]_(Ledger!lvars)
    OBVIOUS
  <2>2. LedgerStep
    BY <2>1, StepSimulated
  <2>3. UNCHANGED <<IncidentMap, ClosedMap, AckedMap>> => UNCHANGED Ledger!lvars
    BY DEF IncidentMap, ClosedMap, AckedMap, Ledger!lvars
  <2> QED
    BY <2>2, <2>3 DEF LedgerStep, Ledger!LedgerNext, Kinds, Ledger!Kinds
<1> QED
  BY <1>1, <1>2, <1>3, <1>4, Invariance, PTL DEF Spec, ImplementsLedger, Ledger!LedgerSpec

-----------------------------------------------------------------------------
LEMMA FinalStep ==
  ASSUME IInv, [Next]_vars, NEW e \in Events, db[e].state = "recovered"
  PROVE  LET i == db[e].ticket IN
         /\ db'[e] = db[e]
         /\ tickets'[i] # tickets[i] => \E c \in late : c.ticket = i /\ late' = late \ {c}
<1> DEFINE i == db[e].ticket
           Final == /\ db'[e] = db[e]
                    /\ tickets'[i] # tickets[i] => \E c \in late : c.ticket = i /\ late' = late \ {c}
<1>1. db[e] # NoRow /\ i \in DOMAIN tickets /\ db \in [Events -> Row \union {NoRow}]
  BY DEF NoRow, IInv, CorrelationSound, TypeOK
<1>2. ASSUME NEW t \in Threads, Handle(t)
      PROVE  Final
  <2>1. CASE Begin(t) \/ Busy(t) \/ Fail(t) \/ GiveUpCall(t) \/ Answer(t)
    <3>1. UNCHANGED <<db, tickets>>
      BY <2>1 DEF Begin, Busy, Fail, GiveUpCall, Answer, RollBack, glpiVars
    <3> QED
      BY <3>1
  <2>2. CASE CreateTicket(t)
    <3>1. Event(t) \in Events /\ UNCHANGED db
      BY <2>2, InTransaction DEF CreateTicket, Continue, RollBack, LockedSteps, CallSteps
    <3>2. tickets' = Append(tickets, NewTicket(Event(t)))
      BY <2>2 DEF CreateTicket
    <3> QED
      BY <1>1, <3>1, <3>2, AppendGrows
  <2>3. CASE RecoveryFollowup(t) \/ RecoveryStatus(t) \/ ProblemFollowup(t)
    <3>1. /\ pc[t] \in {"followup", "status", "update"} /\ UNCHANGED db
          /\ \/ tickets' = [tickets EXCEPT ![held[t]].recoveries = @ + 1]
             \/ tickets' = [tickets EXCEPT ![held[t]].closed = TRUE]
             \/ tickets' = [tickets EXCEPT ![held[t]].updates = @ + 1]
      BY <2>3 DEF RecoveryFollowup, RecoveryStatus, ProblemFollowup, Continue, RollBack
    <3>2. e # Event(t)
      BY <3>1, OnCorrelatedTicket
    <3>3. tickets'[i] = tickets[i]
      BY <1>1, <3>1, <3>2, CallOnCorrelated
    <3> QED
      BY <3>1, <3>3
  <2>4. CASE Commit(t)
    <3>1. /\ pc[t] = "commit"
          /\ db' = [db EXCEPT ![Event(t)] = NewRow(job[t].alert, row[t], held[t])]
          /\ UNCHANGED tickets
      BY <2>4 DEF Commit, glpiVars
    <3>2. row[t] = db[Event(t)] /\ Event(t) \in Events
      BY <3>1, InTransaction DEF LockedSteps
    <3>3. CASE e = Event(t)
      <4>1. NewRow(job[t].alert, row[t], held[t]) = row[t]
        BY <1>1, <3>2, <3>3 DEF NewRow
      <4> QED
        BY <1>1, <3>1, <3>2, <3>3, <4>1
    <3>4. CASE e # Event(t)
      BY <1>1, <3>1, <3>4
    <3> QED
      BY <3>3, <3>4
  <2> QED
    BY <1>2, <2>1, <2>2, <2>3, <2>4 DEF Handle
<1>3. ASSUME NEW a \in Alerts, Notify(a) \/ GiveUpWaiting(a) \/ \E t \in Threads : Deliver(a, t)
      PROVE  Final
  BY <1>3 DEF Notify, GiveUpWaiting, Deliver, glpiVars
<1>4. ASSUME NEW c \in late, LateEffect(c)
      PROVE  Final
  <2>1. UNCHANGED db /\ late' = late \ {c} /\ c \in Call
    BY <1>4 DEF LateEffect, IInv, TypeOK
  <2>2. CASE c.op = "create"
    <3>1. tickets' = Append(tickets, NewTicket(c.job.alert.event))
      BY <1>4, <2>2 DEF LateEffect
    <3>2. c.job.alert.event \in Events
      BY <2>1, BridgeAssumption DEF Call
    <3> QED
      BY <1>1, <2>1, <3>1, <3>2, AppendGrows
  <2>3. CASE c.op # "create"
    <3>1. \/ tickets' = [tickets EXCEPT ![c.ticket].recoveries = @ + 1]
          \/ tickets' = [tickets EXCEPT ![c.ticket].closed = TRUE]
          \/ tickets' = [tickets EXCEPT ![c.ticket].updates = @ + 1]
      BY <1>4, <2>1, <2>3 DEF LateEffect, Call, CallSteps
    <3>2. c.ticket # i => tickets'[i] = tickets[i]
      BY <1>1, <3>1
    <3> QED
      BY <2>1, <3>2
  <2> QED
    BY <2>2, <2>3
<1>5. CASE Crash \/ Quiescent \/ UNCHANGED vars
  BY <1>5 DEF Crash, Quiescent, vars, glpiVars
<1> QED
  BY <1>2, <1>3, <1>4, <1>5 DEF Next

(* Once its recovery is recorded an event is final: no later delivery of    *)
(* any notification, in any order, changes its row or touches its ticket.   *)
THEOREM RecoveredStaysFinal == Spec => RecoveredIsFinal
<1> DEFINE A == \A e \in Events : db[e].state = "recovered" =>
                  LET i == db[e].ticket IN
                  /\ db'[e] = db[e]
                  /\ tickets'[i] # tickets[i] => \E c \in late : c.ticket = i /\ late' = late \ {c}
<1>1. IInv /\ [Next]_vars => [A]_vars
  BY FinalStep
<1> QED
  BY <1>1, Invariance, PTL DEF Spec, RecoveredIsFinal

=============================================================================
