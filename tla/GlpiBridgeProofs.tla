-------------------------- MODULE GlpiBridgeProofs --------------------------
(***************************************************************************)
(* Safety of GlpiBridge for any events, notifications, threads and faults. *)
(***************************************************************************)
EXTENDS GlpiBridge, SequenceTheorems, TLAPS

(* The write lock is held exactly by the thread between BEGIN and the end   *)
(* of its transaction, so nobody commits after it has read its row.         *)
LockInv ==
  \A t \in Threads :
    /\ pc[t] \in LockedSteps <=> writer = t
    /\ pc[t] # "idle" => job[t] # NoJob
    /\ writer = t => row[t] = db[Event(t)]

(* What the writer knows at each step of its transaction.                   *)
CorrelatedStep(t) ==
  row[t] # NoRow /\ held[t] = row[t].ticket

NewTicketStep(t) ==
  /\ Kind(t) = "problem"
  /\ held[t] \in DOMAIN tickets \ orphans
  /\ tickets[held[t]].event = Event(t)
  /\ tickets[held[t]].recoveries = 0
  /\ ~ tickets[held[t]].closed

StepInv ==
  \A t \in Threads : writer = t =>
    /\ pc[t] = "create" => row[t] = NoRow /\ Kind(t) = "problem"
    /\ pc[t] \in {"followup", "status"} =>
         CorrelatedStep(t) /\ row[t].state = "problem" /\ Kind(t) = "recovery"
    /\ pc[t] = "update" => CorrelatedStep(t) /\ row[t].state = "problem" /\ Kind(t) = "problem"
    /\ pc[t] = "commit" /\ row[t] = NoRow => NewTicketStep(t)
    /\ pc[t] = "commit" /\ row[t] # NoRow => CorrelatedStep(t)
    /\ pc[t] = "commit" /\ row[t].state = "problem" /\ Kind(t) = "recovery" =>
         tickets[held[t]].closed

(* Every ticket is correlated, or about to be, or left behind by a fault.   *)
TicketInv ==
  /\ orphans \subseteq DOMAIN tickets
  /\ \A e \in Events : db[e].ticket \notin orphans
  /\ \A i \in DOMAIN tickets :
       \/ i \in orphans
       \/ db[tickets[i].event].ticket = i
       \/ \E t \in Threads : writer = t /\ OpenedTicket(t) /\ held[t] = i

(* A call given up on, other than a creation, names the correlated ticket.  *)
LateInv ==
  \A c \in late : c.op # "create" =>
    LET e == c.job.alert.event IN db[e] # NoRow /\ c.ticket = db[e].ticket

FollowupInv ==
  /\ FollowupsAccounted
  /\ \A e \in Events : db[e] = NoRow => repeats[e] = 0

(* A thread about to answer 200 answers about what is recorded.             *)
AcceptedInv ==
  \A t \in Threads : pc[t] = "accepted" =>
    /\ db[Event(t)] # NoRow
    /\ held[t] = db[Event(t)].ticket
    /\ Kind(t) = "recovery" => db[Event(t)].state = "recovered"

ClosedInv == \A e \in Events : db[e].state = "recovered" => tickets[db[e].ticket].closed

IInv ==
  /\ TypeOK
  /\ LockInv
  /\ StepInv
  /\ CorrelationSound
  /\ ClosedInv
  /\ TicketInv
  /\ LateInv
  /\ FollowupInv
  /\ AcceptedInv
  /\ AcknowledgedIsRecorded
-----------------------------------------------------------------------------
(* Facts about the sequence of tickets.                                     *)

LEMMA AppendedTicket ==
  ASSUME NEW s \in Seq(Ticket), NEW e \in Events
  PROVE  LET u == Append(s, NewTicket(e)) IN
         /\ u \in Seq(Ticket)
         /\ DOMAIN u = DOMAIN s \union {Len(s) + 1}
         /\ Len(s) + 1 \in Nat \ {0}
         /\ Len(s) + 1 \notin DOMAIN s
         /\ \A i \in DOMAIN s : u[i] = s[i]
         /\ u[Len(s) + 1] = NewTicket(e)
<1>1. NewTicket(e) \in Ticket
  BY DEF NewTicket, Ticket
<1>2. QED
  BY <1>1, AppendProperties, LenProperties

LEMMA EditedTicket ==
  ASSUME NEW s \in Seq(Ticket), NEW i \in DOMAIN s, NEW r \in Ticket
  PROVE  LET u == [s EXCEPT ![i] = r] IN
         /\ u \in Seq(Ticket)
         /\ DOMAIN u = DOMAIN s
         /\ \A j \in DOMAIN s : u[j] = IF j = i THEN r ELSE s[j]
  BY ExceptSeq, LenProperties

LEMMA InitIInv == Init => IInv
<1> SUFFICES ASSUME Init PROVE IInv
  OBVIOUS
<1> USE BridgeAssumption DEF Init
<1>1. TypeOK
  BY DEF TypeOK, AlertStates, Steps
<1>2. LockInv /\ StepInv /\ AcceptedInv
  BY DEF LockInv, StepInv, AcceptedInv, LockedSteps, CallSteps
<1>3. CorrelationSound /\ ClosedInv
  BY DEF CorrelationSound, ClosedInv, NoRow
<1>4. TicketInv
  BY DEF TicketInv
<1>5. LateInv /\ FollowupInv
  BY DEF LateInv, FollowupInv, FollowupsAccounted
<1>6. AcknowledgedIsRecorded
  BY DEF AcknowledgedIsRecorded
<1> QED
  BY <1>1, <1>2, <1>3, <1>4, <1>5, <1>6 DEF IInv

-----------------------------------------------------------------------------
(* What the invariant says of the thread inside its transaction.            *)

LEMMA InTransaction ==
  ASSUME IInv, NEW t \in Threads, pc[t] \in LockedSteps
  PROVE  /\ writer = t
         /\ \A u \in Threads : u # t => pc[u] \notin LockedSteps
         /\ job[t] \in [alert : Alerts, try : Nat]
         /\ Event(t) \in Events /\ Kind(t) \in Kinds
         /\ row[t] = db[Event(t)]
  BY BridgeAssumption DEF IInv, LockInv, TypeOK, LockedSteps, CallSteps, Event, Kind

LEMMA OnCorrelatedTicket ==
  ASSUME IInv, NEW t \in Threads, pc[t] \in {"followup", "status", "update"}
  PROVE  /\ db[Event(t)] # NoRow
         /\ db[Event(t)].state = "problem"
         /\ held[t] = db[Event(t)].ticket
         /\ held[t] \in DOMAIN tickets \ orphans
         /\ tickets[held[t]].event = Event(t)
         /\ \A f \in Events : f # Event(t) /\ db[f] # NoRow => db[f].ticket # held[t]
<1>1. pc[t] \in LockedSteps
  BY DEF LockedSteps, CallSteps
<1>2. /\ writer = t
      /\ Event(t) \in Events
      /\ row[t] = db[Event(t)]
  BY <1>1, InTransaction
<1>3. CorrelatedStep(t) /\ row[t].state = "problem"
  BY <1>2 DEF IInv, StepInv
<1> QED
  BY <1>2, <1>3 DEF IInv, CorrelationSound, TicketInv, CorrelatedStep
-----------------------------------------------------------------------------
(* The steps of Zabbix: no thread inside a transaction moves.               *)

LEMMA NotifyStep ==
  ASSUME IInv, NEW a \in Alerts, Notify(a) \/ GiveUpWaiting(a)
  PROVE  IInv'
<1> USE DEF IInv, Notify, GiveUpWaiting, AttemptFails, threadVars, glpiVars
<1>1. TypeOK'
  BY BridgeAssumption DEF TypeOK, AlertStates
<1>2. LockInv' /\ StepInv' /\ AcceptedInv'
  BY DEF LockInv, StepInv, AcceptedInv, CorrelatedStep, NewTicketStep, Event, Kind
<1>3. CorrelationSound' /\ ClosedInv' /\ LateInv'
  BY DEF CorrelationSound, ClosedInv, LateInv
<1>4. TicketInv'
  BY DEF TicketInv, OpenedTicket
<1>5. FollowupInv'
  BY DEF FollowupInv, FollowupsAccounted, RecoveryUnderWay, WroteRecovery, Event, Kind
<1>6. AcknowledgedIsRecorded'
  BY DEF AcknowledgedIsRecorded, TypeOK
<1> QED
  BY <1>1, <1>2, <1>3, <1>4, <1>5, <1>6

LEMMA DeliverStep ==
  ASSUME IInv, NEW a \in Alerts, NEW t \in Threads, Deliver(a, t)
  PROVE  IInv'
<1> USE DEF IInv, Deliver, glpiVars
<1>1. TypeOK'
  BY DEF TypeOK, AlertStates, Steps
<1>2. LockInv'
  BY BridgeAssumption DEF LockInv, TypeOK, LockedSteps, CallSteps, Event, NoJob
<1>3. writer # t
  BY DEF LockInv, LockedSteps, CallSteps
<1>4. StepInv'
  BY <1>3 DEF StepInv, TypeOK, CorrelatedStep, NewTicketStep, Event, Kind
<1>5. AcceptedInv'
  BY DEF AcceptedInv, TypeOK, Event, Kind
<1>6. CorrelationSound' /\ ClosedInv' /\ LateInv'
  BY DEF CorrelationSound, ClosedInv, LateInv
<1>7. TicketInv'
  BY <1>3 DEF TicketInv, TypeOK, OpenedTicket
<1>8. FollowupInv'
  BY <1>3 DEF FollowupInv, FollowupsAccounted, TypeOK, RecoveryUnderWay, WroteRecovery, Event, Kind
<1>9. AcknowledgedIsRecorded'
  BY DEF AcknowledgedIsRecorded, TypeOK
<1> QED
  BY <1>1, <1>2, <1>4, <1>5, <1>6, <1>7, <1>8, <1>9

-----------------------------------------------------------------------------
(* The steps of a handler that leave GLPI alone.                            *)

LEMMA BeginStep ==
  ASSUME IInv, NEW t \in Threads, Begin(t)
  PROVE  IInv'
<1> USE DEF IInv, Begin, zabbixVars, glpiVars
<1>1. /\ job[t] \in [alert : Alerts, try : Nat]
      /\ Event(t) \in Events /\ Kind(t) \in Kinds
      /\ Event(t)' = Event(t) /\ Kind(t)' = Kind(t)
  BY BridgeAssumption DEF LockInv, TypeOK, Event, Kind
<1>2. /\ row'[t] = db[Event(t)]
      /\ held'[t] = db[Event(t)].ticket
      /\ pc'[t] = Branch(job[t].alert, db[Event(t)])
      /\ \A u \in Threads \ {t} : row'[u] = row[u] /\ held'[u] = held[u] /\ pc'[u] = pc[u]
  BY DEF TypeOK
<1>3. /\ pc'[t] = "create" => db[Event(t)] = NoRow /\ Kind(t) = "problem"
      /\ pc'[t] = "followup" =>
           db[Event(t)] # NoRow /\ db[Event(t)].state = "problem" /\ Kind(t) = "recovery"
      /\ pc'[t] = "update" =>
           db[Event(t)] # NoRow /\ db[Event(t)].state = "problem" /\ Kind(t) = "problem"
      /\ pc'[t] = "commit" =>
           db[Event(t)] # NoRow /\ ~ (db[Event(t)].state = "problem" /\ Kind(t) = "recovery")
      /\ pc'[t] \in {"refused", "create", "followup", "update", "commit"}
      /\ pc'[t] = "refused" <=> db[Event(t)] = NoRow /\ Kind(t) = "recovery"
  BY <1>1, <1>2 DEF Branch, Kind, Kinds, NoRow
<1>4. /\ writer = NoThread
      /\ writer' = IF pc'[t] = "refused" THEN NoThread ELSE t
      /\ \A u \in Threads : pc[u] \notin LockedSteps
  BY <1>2, BridgeAssumption DEF LockInv
<1>5. TypeOK'
  <2>1. pc' \in [Threads -> Steps]
    BY <1>3 DEF TypeOK, Steps, LockedSteps, CallSteps
  <2>2. row' \in [Threads -> Row \union {NoRow}] /\ held' \in [Threads -> Nat]
    <3>1. db[Event(t)] \in Row \union {NoRow}
      BY <1>1 DEF TypeOK
    <3>2. db[Event(t)].ticket \in Nat
      BY <3>1 DEF Row, NoRow
    <3> QED
      BY <3>1, <3>2 DEF TypeOK
  <2> QED
    BY <1>4, <2>1, <2>2 DEF TypeOK
<1>6. LockInv'
  BY <1>1, <1>2, <1>3, <1>4, BridgeAssumption DEF LockInv, LockedSteps, CallSteps, Event
<1>7. StepInv'
  <2>1. SUFFICES ASSUME pc'[t] \in {"create", "followup", "update", "commit"}
        PROVE  StepInv'
    BY <1>3, <1>4, BridgeAssumption DEF StepInv
  <2>2. \A u \in Threads : writer' = u => u = t
    BY <1>4, <2>1
  <2>3. pc'[t] # "create" => CorrelatedStep(t)'
    BY <1>2, <1>3, <2>1 DEF CorrelatedStep
  <2> QED
    BY <1>1, <1>2, <1>3, <2>1, <2>2, <2>3 DEF StepInv
<1>8. AcceptedInv'
  BY <1>2, <1>3 DEF AcceptedInv, Event, Kind
<1>9. CorrelationSound' /\ ClosedInv' /\ LateInv'
  BY DEF CorrelationSound, ClosedInv, LateInv
<1>10. TicketInv'
  BY <1>4, BridgeAssumption DEF TicketInv
<1>11. FollowupInv'
  BY <1>1, <1>2, <1>3, <1>4, BridgeAssumption
     DEF FollowupInv, FollowupsAccounted, RecoveryUnderWay, WroteRecovery, Kind
<1>12. AcknowledgedIsRecorded'
  BY DEF AcknowledgedIsRecorded
<1> QED
  BY <1>5, <1>6, <1>7, <1>8, <1>9, <1>10, <1>11, <1>12

LEMMA BusyStep ==
  ASSUME IInv, NEW t \in Threads, Busy(t)
  PROVE  IInv'
<1> USE DEF IInv, Busy, zabbixVars, glpiVars
<1>1. TypeOK'
  BY DEF TypeOK, Steps
<1>2. LockInv'
  BY DEF LockInv, TypeOK, LockedSteps, CallSteps, Event
<1>3. writer # t
  BY DEF LockInv, LockedSteps, CallSteps
<1>4. StepInv'
  BY <1>3 DEF StepInv, TypeOK, CorrelatedStep, NewTicketStep, Event, Kind
<1>5. AcceptedInv'
  BY DEF AcceptedInv, TypeOK, Event, Kind
<1>6. CorrelationSound' /\ ClosedInv' /\ LateInv'
  BY DEF CorrelationSound, ClosedInv, LateInv
<1>7. TicketInv'
  BY <1>3 DEF TicketInv, TypeOK, OpenedTicket
<1>8. FollowupInv'
  BY <1>3 DEF FollowupInv, FollowupsAccounted, TypeOK, RecoveryUnderWay, WroteRecovery, Event, Kind
<1>9. AcknowledgedIsRecorded'
  BY DEF AcknowledgedIsRecorded
<1> QED
  BY <1>1, <1>2, <1>4, <1>5, <1>6, <1>7, <1>8, <1>9

LEMMA AnswerStep ==
  ASSUME IInv, NEW t \in Threads, Answer(t)
  PROVE  IInv'
<1> USE DEF IInv, Answer, Forget, glpiVars
<1>1. /\ job[t] \in [alert : Alerts, try : Nat]
      /\ writer # t
  BY DEF LockInv, TypeOK, LockedSteps, CallSteps
<1>2. TypeOK'
  <2>1. pc' \in [Threads -> Steps] /\ row' \in [Threads -> Row \union {NoRow}]
        /\ job' \in [Threads -> [alert : Alerts, try : Nat] \union {NoJob}]
        /\ held' \in [Threads -> Nat]
    BY DEF TypeOK, Steps
  <2>2. status' \in [Alerts -> AlertStates]
    BY <1>1 DEF TypeOK, zabbixVars, AttemptFails, AlertStates
  <2>3. tries' \in [Alerts -> Nat] /\ tag' \in [Alerts -> Nat]
    BY <1>1 DEF TypeOK, zabbixVars
  <2>4. caller' \in [Alerts -> Threads \union {NoThread}]
    BY <1>1 DEF TypeOK, zabbixVars, AttemptFails
  <2> QED
    BY <2>1, <2>2, <2>3, <2>4 DEF TypeOK
<1>3. LockInv'
  BY <1>1 DEF LockInv, TypeOK, LockedSteps, CallSteps, Event
<1>4. StepInv'
  BY <1>1 DEF StepInv, TypeOK, CorrelatedStep, NewTicketStep, Event, Kind
<1>5. AcceptedInv'
  BY DEF AcceptedInv, TypeOK, Event, Kind
<1>6. CorrelationSound' /\ ClosedInv' /\ LateInv'
  BY DEF CorrelationSound, ClosedInv, LateInv
<1>7. TicketInv'
  BY <1>1 DEF TicketInv, TypeOK, OpenedTicket
<1>8. FollowupInv'
  BY <1>1 DEF FollowupInv, FollowupsAccounted, TypeOK, RecoveryUnderWay, WroteRecovery, Event, Kind
<1>9. AcknowledgedIsRecorded'
  BY <1>1 DEF AcknowledgedIsRecorded, AcceptedInv, TypeOK, zabbixVars, AttemptFails, Event, Kind
<1> QED
  BY <1>2, <1>3, <1>4, <1>5, <1>6, <1>7, <1>8, <1>9

-----------------------------------------------------------------------------
(* What a step may do to the tickets: open some, edit one, delete none.     *)

GrowTickets ==
  /\ tickets' \in Seq(Ticket)
  /\ DOMAIN tickets \subseteq DOMAIN tickets'
  /\ \A i \in DOMAIN tickets :
       /\ tickets'[i].event = tickets[i].event
       /\ tickets[i].closed => tickets'[i].closed

LEMMA EditGrows ==
  ASSUME IInv, NEW i \in DOMAIN tickets,
         \/ tickets' = [tickets EXCEPT ![i].recoveries = @ + 1]
         \/ tickets' = [tickets EXCEPT ![i].closed = TRUE]
         \/ tickets' = [tickets EXCEPT ![i].updates = @ + 1]
  PROVE  /\ GrowTickets
         /\ DOMAIN tickets' = DOMAIN tickets
         /\ \A j \in DOMAIN tickets : j # i => tickets'[j] = tickets[j]
<1>1. tickets \in Seq(Ticket) /\ tickets[i] \in Ticket
  BY ElementOfSeq, LenProperties DEF IInv, TypeOK
<1>2. /\ [tickets[i] EXCEPT !.recoveries = @ + 1] \in Ticket
      /\ [tickets[i] EXCEPT !.closed = TRUE] \in Ticket
      /\ [tickets[i] EXCEPT !.updates = @ + 1] \in Ticket
  <2>1. /\ DOMAIN tickets[i] = {"event", "closed", "recoveries", "updates"}
        /\ tickets[i].recoveries + 1 \in Nat /\ tickets[i].updates + 1 \in Nat
    BY <1>1 DEF Ticket
  <2>2. \A n \in Nat : [tickets[i] EXCEPT !.recoveries = n] \in Ticket
    BY <1>1 DEF Ticket
  <2>3. \A n \in Nat : [tickets[i] EXCEPT !.updates = n] \in Ticket
    BY <1>1 DEF Ticket
  <2>4. [tickets[i] EXCEPT !.closed = TRUE] \in Ticket
    BY <1>1 DEF Ticket
  <2> QED
    BY <2>1, <2>2, <2>3, <2>4
<1>3. PICK r \in {[tickets[i] EXCEPT !.recoveries = @ + 1],
                  [tickets[i] EXCEPT !.closed = TRUE],
                  [tickets[i] EXCEPT !.updates = @ + 1]} : tickets' = [tickets EXCEPT ![i] = r]
  BY <1>1
<1>4. r.event = tickets[i].event /\ (tickets[i].closed => r.closed)
  BY <1>1 DEF Ticket
<1> QED
  BY <1>1, <1>2, <1>3, <1>4, EditedTicket DEF GrowTickets

LEMMA AppendGrows ==
  ASSUME IInv, NEW e \in Events, tickets' = Append(tickets, NewTicket(e))
  PROVE  /\ GrowTickets
         /\ DOMAIN tickets' = DOMAIN tickets \union {Len(tickets) + 1}
         /\ Len(tickets) + 1 \in Nat \ {0}
         /\ Len(tickets) + 1 \notin DOMAIN tickets
         /\ \A i \in DOMAIN tickets : tickets'[i] = tickets[i]
         /\ tickets'[Len(tickets) + 1] = NewTicket(e)
<1>1. tickets \in Seq(Ticket)
  BY DEF IInv, TypeOK
<1> QED
  BY <1>1, AppendedTicket DEF GrowTickets

(* Correlations survive whatever happens to the tickets.                    *)
LEMMA CorrelationKept ==
  ASSUME IInv, GrowTickets, UNCHANGED db
  PROVE  CorrelationSound' /\ ClosedInv'
<1>1. \A e \in Events : db[e].state = "recovered" => db[e] # NoRow
  BY DEF NoRow
<1> QED
  BY <1>1 DEF IInv, GrowTickets, CorrelationSound, ClosedInv

(* A transaction that is rolled back, whatever its last call did to GLPI:   *)
(* what it opened becomes an orphan.                                        *)
LEMMA RolledBack ==
  ASSUME IInv, NEW t \in Threads, pc[t] \in LockedSteps,
         RollBack(t), GrowTickets, FollowupInv', repeats' \in [Events -> Nat],
         orphans' = (IF OpenedTicket(t) THEN orphans \union {held[t]} ELSE orphans)
                      \union (DOMAIN tickets' \ DOMAIN tickets),
         \/ late' = late
         \/ /\ pc[t] \in CallSteps
            /\ late' = late \union {[job |-> job[t], op |-> pc[t], ticket |-> held[t]]}
  PROVE  IInv'
<1> USE DEF RollBack, zabbixVars
<1>1. /\ writer = t /\ writer' = NoThread
      /\ \A u \in Threads : u # t => pc[u] \notin LockedSteps
      /\ job[t] \in [alert : Alerts, try : Nat]
      /\ Event(t) \in Events /\ Kind(t) \in Kinds
      /\ row[t] = db[Event(t)]
  BY InTransaction
<1>2. /\ pc'[t] = "refused"
      /\ \A u \in Threads \ {t} : pc'[u] = pc[u]
      /\ row' = row /\ held' = held /\ job' = job /\ db' = db
  BY DEF IInv, TypeOK
<1>3. \A u \in Threads : pc'[u] \notin LockedSteps
  BY <1>1, <1>2 DEF LockedSteps, CallSteps
<1>4. TypeOK'
  <2>1. late' \subseteq Call
    BY <1>1 DEF IInv, TypeOK, Call
  <2>2. DOMAIN tickets' \subseteq Nat
    BY LenProperties DEF GrowTickets
  <2>3. orphans' \subseteq Nat
    BY <2>2 DEF IInv, TypeOK
  <2>4. pc' \in [Threads -> Steps]
    BY DEF IInv, TypeOK, Steps
  <2> QED
    BY <2>1, <2>3, <2>4 DEF IInv, TypeOK, GrowTickets
<1>5. LockInv'
  <2>1. \A u \in Threads : pc'[u] # "idle" => job'[u] # NoJob
    BY <1>2 DEF IInv, LockInv, LockedSteps, CallSteps
  <2> QED
    BY <1>1, <1>3, <2>1, BridgeAssumption DEF LockInv
<1>6. StepInv'
  BY <1>1, BridgeAssumption DEF StepInv
<1>7. CorrelationSound' /\ ClosedInv'
  BY CorrelationKept
<1>8. AcceptedInv'
  BY <1>2 DEF IInv, AcceptedInv, Event, Kind
<1>9. AcknowledgedIsRecorded'
  BY DEF IInv, AcknowledgedIsRecorded
<1>10. OpenedTicket(t) => /\ held[t] \in DOMAIN tickets
                          /\ \A e \in Events : db[e].ticket # held[t]
  <2>1. SUFFICES ASSUME OpenedTicket(t)
        PROVE  held[t] \in DOMAIN tickets /\ \A e \in Events : db[e].ticket # held[t]
    OBVIOUS
  <2>2. NewTicketStep(t) /\ db[Event(t)] = NoRow
    BY <1>1, <2>1 DEF IInv, StepInv, OpenedTicket
  <2>3. 0 \notin DOMAIN tickets
    BY LenProperties DEF IInv, TypeOK
  <2> QED
    BY <2>2, <2>3 DEF NewTicketStep, IInv, CorrelationSound, NoRow
<1>11. TicketInv'
  <2>1. orphans' \subseteq DOMAIN tickets'
    BY <1>10 DEF IInv, TicketInv, GrowTickets
  <2>2. \A e \in Events : db[e].ticket \in DOMAIN tickets \/ db[e].ticket = 0
    BY DEF IInv, CorrelationSound, NoRow
  <2>3. 0 \notin DOMAIN tickets'
    BY LenProperties DEF GrowTickets
  <2>4. \A e \in Events : db'[e].ticket \notin orphans'
    BY <1>2, <1>10, <2>2, <2>3 DEF IInv, TicketInv
  <2>5. ASSUME NEW i \in DOMAIN tickets'
        PROVE  i \in orphans' \/ db'[tickets'[i].event].ticket = i
    BY <1>1, <1>2 DEF IInv, TicketInv, GrowTickets
  <2> QED
    BY <2>1, <2>4, <2>5 DEF TicketInv
<1>12. LateInv'
  <2>1. pc[t] \in CallSteps /\ pc[t] # "create" => pc[t] \in {"followup", "status", "update"}
    BY DEF CallSteps
  <2> QED
    BY <1>2, <2>1, OnCorrelatedTicket DEF IInv, LateInv, Event
<1> QED
  BY <1>4, <1>5, <1>6, <1>7, <1>8, <1>9, <1>11, <1>12 DEF IInv

(* The followups of a rolled back recovery become repeats.                  *)
LEMMA LeftBehind ==
  ASSUME IInv, NEW t \in Threads, pc[t] \in LockedSteps, RollBack(t),
         repeats' = IF WroteRecovery(t) THEN [repeats EXCEPT ![Event(t)] = @ + 1] ELSE repeats,
         \A e \in Events : db[e] # NoRow =>
           tickets'[db[e].ticket].recoveries = tickets[db[e].ticket].recoveries
  PROVE  FollowupInv' /\ repeats' \in [Events -> Nat]
<1>1. /\ writer = t /\ writer' = NoThread /\ db' = db
      /\ Event(t) \in Events
      /\ row[t] = db[Event(t)]
  BY InTransaction DEF RollBack
<1>2. repeats \in [Events -> Nat]
  BY DEF IInv, TypeOK
<1>3. \A e \in Events : RecoveryUnderWay(e) <=> e = Event(t) /\ WroteRecovery(t)
  BY <1>1 DEF RecoveryUnderWay
<1>4. \A e \in Events : ~ RecoveryUnderWay(e)'
  BY <1>1, BridgeAssumption DEF RecoveryUnderWay
<1>5. WroteRecovery(t) => db[Event(t)].state = "problem" /\ db[Event(t)] # NoRow
  BY <1>1 DEF WroteRecovery, NoRow
<1>6. repeats' \in [Events -> Nat]
  BY <1>1, <1>2
<1>7. ASSUME NEW e \in Events, db[e] # NoRow
      PROVE  tickets'[db[e].ticket].recoveries =
               repeats'[e] + IF db[e].state = "recovered" THEN 1 ELSE 0
  <2>1. tickets[db[e].ticket].recoveries =
          repeats[e] + IF db[e].state = "recovered" \/ RecoveryUnderWay(e) THEN 1 ELSE 0
    BY <1>7 DEF IInv, FollowupInv, FollowupsAccounted
  <2>2. repeats'[e] = IF RecoveryUnderWay(e) THEN repeats[e] + 1 ELSE repeats[e]
    BY <1>1, <1>2, <1>3
  <2>3. RecoveryUnderWay(e) => db[e].state # "recovered"
    BY <1>3, <1>5
  <2> QED
    BY <1>2, <1>7, <2>1, <2>2, <2>3
<1>8. \A e \in Events : db[e] = NoRow => repeats'[e] = 0
  BY <1>1, <1>5 DEF IInv, FollowupInv
<1> QED
  BY <1>1, <1>4, <1>6, <1>7, <1>8 DEF FollowupInv, FollowupsAccounted

LEMMA KeptTicketsGrow ==
  ASSUME IInv, UNCHANGED tickets
  PROVE  GrowTickets
  BY DEF IInv, TypeOK, GrowTickets

LEMMA FailStep ==
  ASSUME IInv, NEW t \in Threads, Fail(t) \/ GiveUpCall(t)
  PROVE  IInv'
<1>1. /\ pc[t] \in LockedSteps /\ RollBack(t) /\ LeaveBehind(t) /\ UNCHANGED tickets
      /\ \/ late' = late
         \/ /\ pc[t] \in CallSteps
            /\ late' = late \union {[job |-> job[t], op |-> pc[t], ticket |-> held[t]]}
  BY DEF Fail, GiveUpCall, LockedSteps
<1>2. FollowupInv' /\ repeats' \in [Events -> Nat]
  BY <1>1, LeftBehind DEF LeaveBehind
<1>3. GrowTickets
  BY <1>1, KeptTicketsGrow
<1> QED
  BY <1>1, <1>2, <1>3, RolledBack DEF LeaveBehind

(* A transaction that goes on to its next step.                             *)
LEMMA Continued ==
  ASSUME IInv, NEW t \in Threads, NEW next \in LockedSteps, pc[t] \in LockedSteps,
         Continue(t, next), GrowTickets, held' \in [Threads -> Nat],
         \A u \in Threads \ {t} : held'[u] = held[u],
         UNCHANGED <<late, orphans, repeats>>,
         StepInv', TicketInv', FollowupInv'
  PROVE  IInv'
<1> USE DEF Continue, zabbixVars
<1>1. /\ pc'[t] = next
      /\ \A u \in Threads \ {t} : pc'[u] = pc[u]
      /\ pc' \in [Threads -> Steps]
  BY DEF IInv, TypeOK, Steps
<1>2. TypeOK'
  BY <1>1 DEF IInv, TypeOK, GrowTickets
<1>3. LockInv'
  BY <1>1 DEF IInv, LockInv, LockedSteps, CallSteps, Event
<1>4. CorrelationSound' /\ ClosedInv'
  BY CorrelationKept
<1>5. LateInv' /\ AcknowledgedIsRecorded'
  BY DEF IInv, LateInv, AcknowledgedIsRecorded
<1>6. AcceptedInv'
  BY <1>1 DEF IInv, AcceptedInv, LockedSteps, CallSteps, Event, Kind
<1> QED
  BY <1>2, <1>3, <1>4, <1>5, <1>6 DEF IInv

-----------------------------------------------------------------------------
(* The calls to GLPI.                                                       *)

(* A call on the correlated ticket of t disturbs nobody else's ticket.      *)
LEMMA CallOnCorrelated ==
  ASSUME IInv, NEW t \in Threads, pc[t] \in {"followup", "status", "update"},
         \/ tickets' = [tickets EXCEPT ![held[t]].recoveries = @ + 1]
         \/ tickets' = [tickets EXCEPT ![held[t]].closed = TRUE]
         \/ tickets' = [tickets EXCEPT ![held[t]].updates = @ + 1]
  PROVE  /\ GrowTickets
         /\ DOMAIN tickets' = DOMAIN tickets
         /\ ~ OpenedTicket(t) /\ row[t] # NoRow
         /\ \A e \in Events : db[e] # NoRow /\ e # Event(t) =>
              tickets'[db[e].ticket] = tickets[db[e].ticket]
         /\ tickets[held[t]] \in Ticket
<1>1. held[t] \in DOMAIN tickets
  BY OnCorrelatedTicket
<1>2. row[t] # NoRow
  BY InTransaction, OnCorrelatedTicket DEF LockedSteps, CallSteps
<1>3. \A e \in Events : db[e] # NoRow => db[e].ticket \in DOMAIN tickets
  BY DEF IInv, CorrelationSound
<1>4. tickets[held[t]] \in Ticket
  BY <1>1, ElementOfSeq, LenProperties DEF IInv, TypeOK
<1> QED
  BY <1>1, <1>2, <1>3, <1>4, EditGrows, OnCorrelatedTicket DEF OpenedTicket

(* The other parts of TicketInv once t goes on after such a call.           *)
LEMMA TicketsStayAccounted ==
  ASSUME IInv, NEW t \in Threads, NEW next, pc[t] \in {"followup", "status", "update"},
         Continue(t, next), GrowTickets, DOMAIN tickets' = DOMAIN tickets,
         UNCHANGED <<held, orphans>>
  PROVE  TicketInv'
<1>1. writer = t /\ row[t] # NoRow
  BY InTransaction, OnCorrelatedTicket DEF LockedSteps, CallSteps
<1>2. \A u \in Threads : ~ (writer = u /\ OpenedTicket(u))
  BY <1>1 DEF OpenedTicket
<1> QED
  BY <1>2 DEF Continue, IInv, TicketInv, GrowTickets

LEMMA ProblemFollowupStep ==
  ASSUME IInv, NEW t \in Threads, ProblemFollowup(t)
  PROVE  IInv'
<1>1. /\ pc[t] = "update" /\ pc[t] \in LockedSteps /\ "commit" \in LockedSteps
      /\ tickets' = [tickets EXCEPT ![held[t]].updates = @ + 1]
      /\ UNCHANGED <<late, orphans, repeats>>
  BY DEF ProblemFollowup, LockedSteps, CallSteps
<1>2. /\ writer = t /\ row[t] = db[Event(t)] /\ Event(t) \in Events
      /\ CorrelatedStep(t) /\ row[t].state = "problem" /\ Kind(t) = "problem"
  BY <1>1, InTransaction DEF IInv, StepInv
<1>3. /\ GrowTickets /\ DOMAIN tickets' = DOMAIN tickets /\ ~ OpenedTicket(t)
      /\ \A e \in Events : db[e] # NoRow =>
           tickets'[db[e].ticket].recoveries = tickets[db[e].ticket].recoveries
  <2>1. /\ GrowTickets /\ DOMAIN tickets' = DOMAIN tickets /\ ~ OpenedTicket(t)
        /\ \A e \in Events : db[e] # NoRow /\ e # Event(t) =>
             tickets'[db[e].ticket] = tickets[db[e].ticket]
        /\ held[t] \in DOMAIN tickets /\ tickets[held[t]] \in Ticket
    BY <1>1, CallOnCorrelated, OnCorrelatedTicket
  <2>2. tickets'[held[t]] = [tickets[held[t]] EXCEPT !.updates = @ + 1]
    BY <1>1, <2>1, LenProperties DEF IInv, TypeOK
  <2>3. tickets'[held[t]].recoveries = tickets[held[t]].recoveries
    BY <2>1, <2>2 DEF Ticket
  <2> QED
    BY <1>2, <2>1, <2>3 DEF CorrelatedStep
<1>4. CASE RollBack(t)
  <2>1. ~ WroteRecovery(t)
    BY <1>2 DEF WroteRecovery
  <2>2. FollowupInv' /\ repeats' \in [Events -> Nat]
    BY <1>1, <1>3, <1>4, <2>1, LeftBehind
  <2> QED
    BY <1>1, <1>3, <1>4, <2>2, RolledBack
<1>5. CASE Continue(t, "commit") /\ UNCHANGED held
  <2>1. StepInv'
    BY <1>1, <1>2, <1>5 DEF StepInv, Continue, CorrelatedStep, IInv, TypeOK, zabbixVars, Kind
  <2>2. TicketInv'
    BY <1>1, <1>3, <1>5, TicketsStayAccounted
  <2>3. \A e \in Events : RecoveryUnderWay(e)' <=> RecoveryUnderWay(e)
    BY <1>1, <1>2, <1>5 DEF Continue, RecoveryUnderWay, WroteRecovery, Event, Kind
  <2>4. FollowupInv'
    BY <1>1, <1>3, <1>5, <2>3 DEF Continue, IInv, FollowupInv, FollowupsAccounted
  <2> QED
    BY <1>1, <1>3, <1>5, <2>1, <2>2, <2>4, Continued DEF IInv, TypeOK
<1> QED
  BY <1>4, <1>5 DEF ProblemFollowup

LEMMA RecoveryStatusStep ==
  ASSUME IInv, NEW t \in Threads, RecoveryStatus(t)
  PROVE  IInv'
<1>1. /\ pc[t] = "status" /\ pc[t] \in LockedSteps /\ "commit" \in LockedSteps
      /\ tickets' = [tickets EXCEPT ![held[t]].closed = TRUE]
      /\ UNCHANGED late
  BY DEF RecoveryStatus, LockedSteps, CallSteps
<1>2. /\ writer = t /\ row[t] = db[Event(t)] /\ Event(t) \in Events
      /\ CorrelatedStep(t) /\ row[t].state = "problem" /\ Kind(t) = "recovery"
      /\ held[t] \in DOMAIN tickets
  BY <1>1, InTransaction, OnCorrelatedTicket DEF IInv, StepInv
<1>3. tickets'[held[t]] = [tickets[held[t]] EXCEPT !.closed = TRUE]
  BY <1>1, <1>2, LenProperties DEF IInv, TypeOK
<1>4. /\ tickets'[held[t]].closed
      /\ tickets'[held[t]].recoveries = tickets[held[t]].recoveries
  <2>1. tickets[held[t]] \in Ticket
    BY <1>1, CallOnCorrelated
  <2> QED
    BY <1>3, <2>1 DEF Ticket
<1>5. /\ GrowTickets /\ DOMAIN tickets' = DOMAIN tickets /\ ~ OpenedTicket(t)
      /\ \A e \in Events : db[e] # NoRow =>
           tickets'[db[e].ticket].recoveries = tickets[db[e].ticket].recoveries
  BY <1>1, <1>2, <1>4, CallOnCorrelated DEF CorrelatedStep
<1>6. CASE RollBack(t) /\ LeaveBehind(t)
  <2>1. FollowupInv' /\ repeats' \in [Events -> Nat]
    BY <1>1, <1>5, <1>6, LeftBehind DEF LeaveBehind
  <2>2. orphans' = orphans
    BY <1>5, <1>6 DEF LeaveBehind
  <2> QED
    BY <1>1, <1>5, <1>6, <2>1, <2>2, RolledBack
<1>7. CASE Continue(t, "commit") /\ UNCHANGED <<held, late, orphans, repeats>>
  <2>1. StepInv'
    BY <1>1, <1>2, <1>4, <1>7 DEF StepInv, Continue, CorrelatedStep, IInv, TypeOK, zabbixVars, Kind
  <2>2. TicketInv'
    BY <1>1, <1>5, <1>7, TicketsStayAccounted
  <2>3. \A e \in Events : RecoveryUnderWay(e)' <=> RecoveryUnderWay(e)
    <3>1. WroteRecovery(t)' /\ WroteRecovery(t)
      BY <1>1, <1>2, <1>7 DEF Continue, WroteRecovery, Kind, IInv, TypeOK
    <3> QED
      BY <1>2, <1>7, <3>1 DEF Continue, RecoveryUnderWay, Event
  <2>4. FollowupInv'
    BY <1>1, <1>5, <1>7, <2>3 DEF Continue, IInv, FollowupInv, FollowupsAccounted
  <2> QED
    BY <1>1, <1>5, <1>7, <2>1, <2>2, <2>4, Continued DEF IInv, TypeOK
<1> QED
  BY <1>6, <1>7 DEF RecoveryStatus

LEMMA RecoveryFollowupStep ==
  ASSUME IInv, NEW t \in Threads, RecoveryFollowup(t)
  PROVE  IInv'
<1>1. /\ pc[t] = "followup" /\ pc[t] \in LockedSteps /\ "status" \in LockedSteps
      /\ tickets' = [tickets EXCEPT ![held[t]].recoveries = @ + 1]
      /\ UNCHANGED <<late, orphans>>
  BY DEF RecoveryFollowup, LockedSteps, CallSteps
<1>2. /\ writer = t /\ row[t] = db[Event(t)] /\ Event(t) \in Events
      /\ CorrelatedStep(t) /\ row[t].state = "problem" /\ Kind(t) = "recovery"
      /\ held[t] \in DOMAIN tickets
  BY <1>1, InTransaction, OnCorrelatedTicket DEF IInv, StepInv
<1>3. /\ GrowTickets /\ DOMAIN tickets' = DOMAIN tickets /\ ~ OpenedTicket(t)
      /\ \A e \in Events : db[e] # NoRow /\ e # Event(t) =>
           tickets'[db[e].ticket] = tickets[db[e].ticket]
      /\ tickets[held[t]] \in Ticket
  BY <1>1, CallOnCorrelated
<1>4. /\ tickets'[held[t]].recoveries = tickets[held[t]].recoveries + 1
      /\ tickets[held[t]].recoveries \in Nat
  <2>1. tickets'[held[t]] = [tickets[held[t]] EXCEPT !.recoveries = @ + 1]
    BY <1>1, <1>2, LenProperties DEF IInv, TypeOK
  <2> QED
    BY <1>3, <2>1 DEF Ticket
<1>5. /\ \A e \in Events : ~ RecoveryUnderWay(e)
      /\ held[t] = db[Event(t)].ticket /\ db[Event(t)] # NoRow
      /\ db[Event(t)].state = "problem"
      /\ repeats \in [Events -> Nat]
  BY <1>1, <1>2 DEF RecoveryUnderWay, WroteRecovery, CorrelatedStep, IInv, TypeOK
<1>6. tickets[held[t]].recoveries = repeats[Event(t)]
  BY <1>2, <1>5 DEF IInv, FollowupInv, FollowupsAccounted
<1>7. CASE RollBack(t) /\ repeats' = [repeats EXCEPT ![Event(t)] = @ + 1]
  <2>1. \A e \in Events : ~ RecoveryUnderWay(e)'
    BY <1>7, BridgeAssumption DEF RollBack, RecoveryUnderWay
  <2>2. /\ db' = db
        /\ repeats' \in [Events -> Nat]
        /\ repeats'[Event(t)] = repeats[Event(t)] + 1
        /\ \A e \in Events \ {Event(t)} : repeats'[e] = repeats[e]
    BY <1>2, <1>5, <1>7 DEF RollBack
  <2>3. ASSUME NEW e \in Events, db[e] # NoRow
        PROVE  tickets'[db[e].ticket].recoveries =
                 repeats'[e] + IF db[e].state = "recovered" THEN 1 ELSE 0
    <3>1. CASE e = Event(t)
      BY <1>4, <1>5, <1>6, <2>2, <3>1
    <3>2. CASE e # Event(t)
      BY <1>3, <1>5, <2>2, <2>3, <3>2 DEF IInv, FollowupInv, FollowupsAccounted
    <3> QED
      BY <3>1, <3>2
  <2>4. FollowupInv'
    BY <1>5, <2>1, <2>2, <2>3 DEF IInv, FollowupInv, FollowupsAccounted
  <2> QED
    BY <1>1, <1>3, <1>7, <2>2, <2>4, RolledBack
<1>8. CASE Continue(t, "status") /\ UNCHANGED <<held, late, orphans, repeats>>
  <2>1. /\ pc'[t] = "status" /\ writer' = t
        /\ Event(t)' = Event(t) /\ Kind(t)' = Kind(t)
        /\ row' = row /\ db' = db
    BY <1>2, <1>8 DEF Continue, zabbixVars, Event, Kind, IInv, TypeOK
  <2>2. StepInv'
    BY <1>2, <1>8, <2>1 DEF StepInv, CorrelatedStep
  <2>3. TicketInv'
    BY <1>1, <1>3, <1>8, TicketsStayAccounted
  <2>4. \A e \in Events : RecoveryUnderWay(e)' <=> e = Event(t)
    BY <1>2, <2>1 DEF RecoveryUnderWay, WroteRecovery
  <2>5. ASSUME NEW e \in Events, db[e] # NoRow
        PROVE  tickets'[db[e].ticket].recoveries =
                 repeats[e] + IF db[e].state = "recovered" \/ e = Event(t) THEN 1 ELSE 0
    <3>1. CASE e = Event(t)
      BY <1>4, <1>5, <1>6, <3>1
    <3>2. CASE e # Event(t)
      BY <1>3, <1>5, <2>5, <3>2 DEF IInv, FollowupInv, FollowupsAccounted
    <3> QED
      BY <3>1, <3>2
  <2>6. FollowupInv'
    BY <1>8, <2>1, <2>4, <2>5 DEF IInv, FollowupInv, FollowupsAccounted
  <2> QED
    BY <1>1, <1>3, <1>8, <2>2, <2>3, <2>6, Continued DEF IInv, TypeOK
<1> QED
  BY <1>1, <1>7, <1>8 DEF RecoveryFollowup

LEMMA CreateTicketStep ==
  ASSUME IInv, NEW t \in Threads, CreateTicket(t)
  PROVE  IInv'
<1>1. /\ pc[t] = "create" /\ pc[t] \in LockedSteps /\ "commit" \in LockedSteps
      /\ tickets' = Append(tickets, NewTicket(Event(t)))
      /\ UNCHANGED <<late, repeats>>
  BY DEF CreateTicket, LockedSteps, CallSteps
<1>2. /\ writer = t /\ Event(t) \in Events /\ Kind(t) = "problem"
      /\ row[t] = NoRow /\ db[Event(t)] = NoRow
  BY <1>1, InTransaction DEF IInv, StepInv
<1> DEFINE i == Len(tickets) + 1
<1>3. /\ GrowTickets
      /\ DOMAIN tickets' = DOMAIN tickets \union {i}
      /\ i \in Nat \ {0} /\ i \notin DOMAIN tickets
      /\ \A j \in DOMAIN tickets : tickets'[j] = tickets[j]
      /\ tickets'[i] = NewTicket(Event(t))
  BY <1>1, <1>2, AppendGrows
<1> HIDE DEF i
<1>4. /\ i \notin orphans
      /\ \A e \in Events : db[e].ticket # i
      /\ \A e \in Events : db[e] # NoRow => tickets'[db[e].ticket] = tickets[db[e].ticket]
      /\ \A e \in Events : ~ RecoveryUnderWay(e)
      /\ ~ OpenedTicket(t) /\ ~ WroteRecovery(t)
  <2>1. \A e \in Events : db[e] # NoRow => db[e].ticket \in DOMAIN tickets
    BY DEF IInv, CorrelationSound
  <2>2. NoRow.ticket = 0
    BY DEF NoRow
  <2>3. ~ OpenedTicket(t) /\ ~ WroteRecovery(t)
    BY <1>1, <1>2 DEF OpenedTicket, WroteRecovery
  <2> QED
    BY <1>2, <1>3, <2>1, <2>2, <2>3 DEF IInv, TicketInv, RecoveryUnderWay
<1>5. CASE RollBack(t) /\ orphans' = orphans \union {i}
  <2>1. FollowupInv' /\ repeats' \in [Events -> Nat]
    BY <1>1, <1>4, <1>5, LeftBehind
  <2>2. orphans' = orphans \union (DOMAIN tickets' \ DOMAIN tickets)
    BY <1>3, <1>5
  <2> QED
    BY <1>1, <1>3, <1>4, <1>5, <2>1, <2>2, RolledBack
<1>6. CASE /\ Continue(t, "commit")
           /\ held' = [held EXCEPT ![t] = i]
           /\ UNCHANGED <<late, orphans, repeats>>
  <2>1. /\ pc'[t] = "commit" /\ writer' = t /\ held'[t] = i
        /\ Event(t)' = Event(t) /\ Kind(t)' = Kind(t)
        /\ row' = row /\ db' = db
        /\ held' \in [Threads -> Nat]
        /\ \A u \in Threads \ {t} : held'[u] = held[u]
    BY <1>2, <1>3, <1>6 DEF Continue, zabbixVars, Event, Kind, IInv, TypeOK
  <2>2. StepInv'
    <3>1. NewTicketStep(t)'
      BY <1>2, <1>3, <1>4, <1>6, <2>1 DEF NewTicketStep, NewTicket
    <3> QED
      BY <1>2, <2>1, <3>1 DEF StepInv
  <2>3. OpenedTicket(t)'
    BY <1>2, <2>1 DEF OpenedTicket
  <2>4. TicketInv'
    BY <1>1, <1>2, <1>3, <1>4, <1>6, <2>1, <2>3 DEF IInv, TicketInv, OpenedTicket
  <2>5. \A e \in Events : ~ RecoveryUnderWay(e)'
    BY <1>2, <2>1 DEF RecoveryUnderWay, WroteRecovery
  <2>6. FollowupInv'
    BY <1>4, <1>6, <2>1, <2>5 DEF IInv, FollowupInv, FollowupsAccounted
  <2> QED
    BY <1>1, <1>3, <1>6, <2>1, <2>2, <2>4, <2>6, Continued
<1> QED
  BY <1>5, <1>6 DEF CreateTicket, i

-----------------------------------------------------------------------------
(* The commit, GLPI's late effects and the crash.                           *)

LEMMA CommitStep ==
  ASSUME IInv, NEW t \in Threads, Commit(t)
  PROVE  IInv'
<1> DEFINE e == Event(t)
           new == NewRow(job[t].alert, row[t], held[t])
<1>1. /\ pc[t] = "commit" /\ pc[t] \in LockedSteps
      /\ db' = [db EXCEPT ![e] = new]
      /\ pc' = [pc EXCEPT ![t] = "accepted"]
      /\ writer' = NoThread
      /\ UNCHANGED <<status, tries, tag, caller, job, row, held, tickets, late, orphans, repeats>>
  BY DEF Commit, LockedSteps, zabbixVars, glpiVars
<1>2. /\ writer = t /\ row[t] = db[e]
      /\ e \in Events /\ Kind(t) \in Kinds
      /\ job[t] \in [alert : Alerts, try : Nat]
      /\ \A u \in Threads : u # t => pc[u] \notin LockedSteps
  BY <1>1, InTransaction
<1>3. job[t].alert \in Alerts /\ job[t].alert.event = e /\ job[t].alert.kind = Kind(t)
  BY <1>2 DEF Event, Kind
<1>4. /\ row[t] = NoRow => NewTicketStep(t)
      /\ row[t] # NoRow => held[t] = row[t].ticket /\ row[t] \in Row
      /\ row[t].state = "problem" /\ Kind(t) = "recovery" => tickets[held[t]].closed
  BY <1>1, <1>2 DEF IInv, StepInv, CorrelatedStep, TypeOK
<1>5. held[t] \in Nat /\ (held[t] \in DOMAIN tickets => held[t] # 0)
  BY LenProperties DEF IInv, TypeOK
<1>6. /\ new \in Row /\ new # NoRow /\ new.ticket = held[t]
      /\ row[t] = NoRow => new.state = "problem"
      /\ row[t] # NoRow => (new.state = "recovered" <=>
           row[t].state = "recovered" \/ Kind(t) = "recovery")
  <2>1. CASE row[t] = NoRow
    <3>1. new = [ticket |-> held[t], state |-> "problem", print |-> job[t].alert]
      BY <2>1 DEF NewRow
    <3>2. held[t] \in Nat \ {0}
      BY <1>4, <1>5, <2>1 DEF NewTicketStep
    <3> QED
      BY <1>3, <2>1, <3>1, <3>2 DEF Row, NoRow
  <2>2. CASE row[t] # NoRow /\ row[t].state = "problem" /\ Kind(t) = "recovery"
    <3>1. new = [row[t] EXCEPT !.state = "recovered", !.print = job[t].alert]
      BY <1>3, <2>2 DEF NewRow, Kind
    <3>2. /\ new = [ticket |-> held[t], state |-> "recovered", print |-> job[t].alert]
          /\ held[t] \in Nat \ {0}
      BY <1>4, <2>2, <3>1 DEF Row
    <3> QED
      BY <1>3, <2>2, <3>2 DEF Row, NoRow
  <2>3. CASE row[t] # NoRow /\ row[t].state = "problem" /\ Kind(t) = "problem"
    <3>1. new = [row[t] EXCEPT !.print = job[t].alert]
      BY <1>3, <2>3 DEF NewRow, Kind
    <3> QED
      BY <1>3, <1>4, <2>3, <3>1 DEF Row, NoRow
  <2>4. CASE row[t] # NoRow /\ row[t].state = "recovered"
    <3>1. new = row[t]
      BY <2>4 DEF NewRow
    <3> QED
      BY <1>4, <2>4, <3>1 DEF Row, NoRow
  <2> QED
    BY <1>2, <1>4, <2>1, <2>2, <2>3, <2>4 DEF Kinds, Row
<1> HIDE DEF new
<1>7. /\ db'[e] = new
      /\ \A f \in Events \ {e} : db'[f] = db[f]
      /\ db' \in [Events -> Row \union {NoRow}]
  BY <1>1, <1>2, <1>6 DEF IInv, TypeOK
<1>8. /\ held[t] \in DOMAIN tickets /\ held[t] \notin orphans
      /\ tickets[held[t]].event = e
  BY <1>2, <1>4 DEF NewTicketStep, IInv, CorrelationSound, TicketInv
<1>9. /\ pc'[t] = "accepted"
      /\ \A u \in Threads \ {t} : pc'[u] = pc[u]
      /\ \A u \in Threads : pc'[u] \notin LockedSteps
  BY <1>1, <1>2 DEF IInv, TypeOK, LockedSteps, CallSteps
<1>10. db[e] # NoRow => db'[e].ticket = db[e].ticket
  BY <1>2, <1>4, <1>6, <1>7
<1>11. db[e].state = "recovered" => db'[e].state = "recovered"
  BY <1>2, <1>6, <1>7 DEF NoRow
<1>12. TypeOK'
  BY <1>1, <1>7 DEF IInv, TypeOK, Steps
<1>13. LockInv'
  <2>1. \A u \in Threads : pc'[u] # "idle" => job'[u] # NoJob
    BY <1>1, <1>9 DEF IInv, LockInv
  <2> QED
    BY <1>1, <1>9, <2>1, BridgeAssumption DEF LockInv
<1>14. StepInv'
  BY <1>1, BridgeAssumption DEF StepInv
<1>15. CorrelationSound'
  BY <1>1, <1>6, <1>7, <1>8 DEF IInv, CorrelationSound
<1>16. ClosedInv'
  <2>1. new.state = "recovered" => tickets[held[t]].closed
    BY <1>2, <1>4, <1>6 DEF IInv, ClosedInv, Row
  <2> QED
    BY <1>1, <1>6, <1>7, <2>1 DEF IInv, ClosedInv
<1>17. TicketInv'
  <2>1. \A f \in Events : db'[f].ticket \notin orphans
    BY <1>6, <1>7, <1>8 DEF IInv, TicketInv
  <2>2. ASSUME NEW i \in DOMAIN tickets
        PROVE  i \in orphans \/ db'[tickets[i].event].ticket = i
    <3>1. tickets[i].event \in Events
      <4>1. tickets \in Seq(Ticket) /\ tickets[i] \in Ticket
        BY ElementOfSeq, LenProperties DEF IInv, TypeOK
      <4> QED
        BY <4>1 DEF Ticket
    <3>2. CASE i \in orphans
      BY <3>2
    <3>3. CASE db[tickets[i].event].ticket = i
      <4>1. i # 0
        BY LenProperties DEF IInv, TypeOK
      <4> QED
        BY <1>7, <1>10, <3>1, <3>3, <4>1 DEF NoRow
    <3>4. CASE \E u \in Threads : writer = u /\ OpenedTicket(u) /\ held[u] = i
      BY <1>2, <1>6, <1>7, <1>8, <3>4
    <3> QED
      BY <3>2, <3>3, <3>4 DEF IInv, TicketInv
  <2> QED
    BY <1>1, <2>1, <2>2 DEF IInv, TicketInv
<1>18. LateInv'
  <2>1. \A c \in late : c.job.alert.event \in Events
    BY BridgeAssumption DEF IInv, TypeOK, Call
  <2> QED
    BY <1>1, <1>6, <1>7, <1>10, <2>1 DEF IInv, LateInv
<1>19. FollowupInv'
  <2>1. \A f \in Events : ~ RecoveryUnderWay(f)'
    BY <1>1, BridgeAssumption DEF RecoveryUnderWay
  <2>2. \A f \in Events : RecoveryUnderWay(f) <=> f = e /\ WroteRecovery(t)
    BY <1>2 DEF RecoveryUnderWay
  <2>3. WroteRecovery(t) <=> row[t].state = "problem" /\ Kind(t) = "recovery"
    BY <1>1 DEF WroteRecovery
  <2>4. CASE db[e] = NoRow
    <3>1. tickets[held[t]].recoveries = 0 /\ repeats[e] = 0
      BY <1>2, <1>4, <2>4 DEF NewTicketStep, IInv, FollowupInv
    <3> QED
      BY <1>1, <1>2, <1>6, <1>7, <2>1, <2>2, <2>4, <3>1 DEF IInv, FollowupInv, FollowupsAccounted
  <2>5. CASE db[e] # NoRow
    <3>1. db'[e].state = "recovered" <=> db[e].state = "recovered" \/ RecoveryUnderWay(e)
      BY <1>2, <1>4, <1>6, <1>7, <2>2, <2>3, <2>5 DEF Row
    <3> QED
      BY <1>1, <1>2, <1>6, <1>7, <1>10, <2>1, <2>2, <2>5, <3>1
         DEF IInv, FollowupInv, FollowupsAccounted
  <2> QED
    BY <2>4, <2>5
<1>20. AcceptedInv'
  <2>1. Kind(t) = "recovery" => db'[e].state = "recovered"
    BY <1>2, <1>4, <1>6, <1>7 DEF NewTicketStep
  <2>2. ASSUME NEW u \in Threads, pc'[u] = "accepted", u # t
        PROVE  /\ db'[Event(u)] # NoRow
               /\ held[u] = db'[Event(u)].ticket
               /\ Kind(u) = "recovery" => db'[Event(u)].state = "recovered"
    <3>1. /\ db[Event(u)] # NoRow
          /\ held[u] = db[Event(u)].ticket
          /\ Kind(u) = "recovery" => db[Event(u)].state = "recovered"
      BY <1>9, <2>2 DEF IInv, AcceptedInv
    <3>2. Event(u) \in Events
      BY <1>9, <2>2, BridgeAssumption DEF IInv, LockInv, TypeOK, Event
    <3> QED
      BY <1>6, <1>7, <1>10, <1>11, <3>1, <3>2
  <2> QED
    BY <1>1, <1>6, <1>7, <2>1, <2>2 DEF AcceptedInv, Event, Kind
<1>21. AcknowledgedIsRecorded'
  BY <1>1, <1>6, <1>7, <1>10, <1>11, BridgeAssumption DEF IInv, AcknowledgedIsRecorded
<1> QED
  BY <1>12, <1>13, <1>14, <1>15, <1>16, <1>17, <1>18, <1>19, <1>20, <1>21 DEF IInv

(* GLPI executes a call given up on: an orphan, a repeat, or an edit of the *)
(* correlated ticket that no other event has.                               *)
LEMMA LateEffectStep ==
  ASSUME IInv, NEW c \in late, LateEffect(c)
  PROVE  IInv'
<1> DEFINE e == c.job.alert.event
<1>1. /\ late' = late \ {c}
      /\ UNCHANGED <<status, tries, tag, caller, pc, job, row, held, writer, db>>
  BY DEF LateEffect, zabbixVars, threadVars
<1>2. /\ c.op \in CallSteps /\ e \in Events
      /\ c.op # "create" => db[e] # NoRow /\ c.ticket = db[e].ticket
  <2>1. c \in Call
    BY DEF IInv, TypeOK
  <2> QED
    BY <2>1, BridgeAssumption DEF Call, IInv, LateInv
<1>3. c.op # "create" => /\ c.ticket \in DOMAIN tickets \ orphans
                         /\ tickets[c.ticket].event = e
                         /\ tickets[c.ticket] \in Ticket
                         /\ \A f \in Events \ {e} : db[f] # NoRow => db[f].ticket # c.ticket
  <2>1. SUFFICES ASSUME c.op # "create"
        PROVE  /\ c.ticket \in DOMAIN tickets \ orphans
               /\ tickets[c.ticket].event = e
               /\ tickets[c.ticket] \in Ticket
               /\ \A f \in Events \ {e} : db[f] # NoRow => db[f].ticket # c.ticket
    OBVIOUS
  <2>2. /\ c.ticket \in DOMAIN tickets \ orphans
        /\ tickets[c.ticket].event = e
        /\ \A f \in Events \ {e} : db[f] # NoRow => db[f].ticket # c.ticket
    BY <1>2, <2>1 DEF IInv, CorrelationSound, TicketInv
  <2>3. tickets[c.ticket] \in Ticket
    BY <2>2, ElementOfSeq, LenProperties DEF IInv, TypeOK
  <2> QED
    BY <2>2, <2>3
<1>4. \A u \in Threads : writer = u /\ OpenedTicket(u) =>
        held[u] \in DOMAIN tickets /\ tickets[held[u]].event = Event(u) /\ db[Event(u)] = NoRow
  BY DEF IInv, LockInv, StepInv, OpenedTicket, NewTicketStep
<1>5. ASSUME GrowTickets,
             \A j \in DOMAIN tickets : tickets'[j] # tickets[j] =>
               c.op # "create" /\ j = c.ticket,
             orphans' = orphans \union (DOMAIN tickets' \ DOMAIN tickets),
             repeats' \in [Events -> Nat],
             FollowupInv'
      PROVE  IInv'
  <2>1. TypeOK'
    <3>1. DOMAIN tickets' \subseteq Nat
      BY <1>5, LenProperties DEF GrowTickets
    <3> QED
      BY <1>1, <1>5, <3>1 DEF IInv, TypeOK, GrowTickets
  <2>2. LockInv'
    BY <1>1 DEF IInv, LockInv, Event
  <2>3. StepInv'
    <3>1. ASSUME NEW u \in Threads, writer = u, pc[u] = "commit", row[u] = NoRow
          PROVE  NewTicketStep(u)'
      <4>1. /\ NewTicketStep(u) /\ db[Event(u)] = NoRow
        BY <3>1 DEF IInv, LockInv, StepInv
      <4>2. c.op # "create" => c.ticket # held[u]
        BY <1>2, <1>3, <4>1 DEF NewTicketStep
      <4> QED
        BY <1>1, <1>5, <4>1, <4>2 DEF NewTicketStep, GrowTickets, Event, Kind
    <3>2. ASSUME NEW u \in Threads, writer = u, pc[u] = "commit",
                 row[u].state = "problem", Kind(u) = "recovery"
          PROVE  tickets'[held[u]].closed
      <4>1. /\ held[u] = db[Event(u)].ticket /\ db[Event(u)] # NoRow /\ Event(u) \in Events
            /\ tickets[held[u]].closed
        BY <3>2, InTransaction DEF IInv, StepInv, CorrelatedStep, LockedSteps, NoRow
      <4> QED
        BY <1>5, <4>1 DEF IInv, CorrelationSound, GrowTickets
    <3> QED
      BY <1>1, <3>1, <3>2 DEF IInv, StepInv, CorrelatedStep, Kind
  <2>4. CorrelationSound' /\ ClosedInv'
    BY <1>1, <1>5, CorrelationKept
  <2>5. TicketInv'
    <3>1. \A f \in Events : db[f].ticket \in DOMAIN tickets \/ db[f].ticket = 0
      BY DEF IInv, CorrelationSound, NoRow
    <3>2. 0 \notin DOMAIN tickets'
      BY <1>5, LenProperties DEF GrowTickets
    <3>3. /\ orphans' \subseteq DOMAIN tickets'
          /\ \A f \in Events : db[f].ticket \notin orphans'
      BY <1>5, <3>1, <3>2 DEF IInv, TicketInv, GrowTickets
    <3>4. ASSUME NEW i \in DOMAIN tickets'
          PROVE  \/ i \in orphans'
                 \/ db[tickets'[i].event].ticket = i
                 \/ \E u \in Threads : writer = u /\ OpenedTicket(u) /\ held[u] = i
      BY <1>5 DEF IInv, TicketInv, GrowTickets
    <3> QED
      BY <1>1, <3>3, <3>4 DEF TicketInv, OpenedTicket
  <2>6. LateInv' /\ AcceptedInv' /\ AcknowledgedIsRecorded'
    BY <1>1 DEF IInv, LateInv, AcceptedInv, AcknowledgedIsRecorded, Event, Kind
  <2> QED
    BY <1>5, <2>1, <2>2, <2>3, <2>4, <2>5, <2>6 DEF IInv
<1>6. \A f \in Events : RecoveryUnderWay(f)' <=> RecoveryUnderWay(f)
  BY <1>1 DEF RecoveryUnderWay, WroteRecovery, Event, Kind
<1>7. /\ repeats \in [Events -> Nat]
      /\ \A f \in Events : db[f] # NoRow => db[f].ticket \in DOMAIN tickets
  BY DEF IInv, TypeOK, CorrelationSound
<1>8. CASE c.op = "create"
  <2>1. /\ tickets' = Append(tickets, NewTicket(e))
        /\ orphans' = orphans \union {Len(tickets) + 1}
        /\ UNCHANGED repeats
    BY <1>8 DEF LateEffect
  <2>2. /\ GrowTickets
        /\ DOMAIN tickets' = DOMAIN tickets \union {Len(tickets) + 1}
        /\ Len(tickets) + 1 \notin DOMAIN tickets
        /\ \A j \in DOMAIN tickets : tickets'[j] = tickets[j]
    BY <1>2, <2>1, AppendGrows
  <2>3. FollowupInv'
    BY <1>1, <1>6, <1>7, <2>1, <2>2 DEF IInv, FollowupInv, FollowupsAccounted
  <2> QED
    BY <1>5, <1>7, <2>1, <2>2, <2>3
<1>9. CASE c.op = "followup"
  <2>1. /\ tickets' = [tickets EXCEPT ![c.ticket].recoveries = @ + 1]
        /\ repeats' = [repeats EXCEPT ![e] = @ + 1]
        /\ UNCHANGED orphans
    BY <1>9 DEF LateEffect
  <2>2. /\ GrowTickets /\ DOMAIN tickets' = DOMAIN tickets
        /\ \A j \in DOMAIN tickets : j # c.ticket => tickets'[j] = tickets[j]
    BY <1>3, <1>9, <2>1, EditGrows
  <2>3. /\ tickets'[c.ticket].recoveries = tickets[c.ticket].recoveries + 1
        /\ tickets[c.ticket].recoveries \in Nat
    <3>1. tickets'[c.ticket] = [tickets[c.ticket] EXCEPT !.recoveries = @ + 1]
      BY <1>3, <1>9, <2>1, LenProperties DEF IInv, TypeOK
    <3> QED
      BY <1>3, <1>9, <3>1 DEF Ticket
  <2>4. ASSUME NEW f \in Events, db[f] # NoRow
        PROVE  tickets'[db[f].ticket].recoveries =
                 repeats'[f] + IF db[f].state = "recovered" \/ RecoveryUnderWay(f) THEN 1 ELSE 0
    <3>1. tickets[db[f].ticket].recoveries =
            repeats[f] + IF db[f].state = "recovered" \/ RecoveryUnderWay(f) THEN 1 ELSE 0
      BY <2>4 DEF IInv, FollowupInv, FollowupsAccounted
    <3>2. CASE f = e
      BY <1>2, <1>7, <1>9, <2>1, <2>3, <3>1, <3>2
    <3>3. CASE f # e
      BY <1>2, <1>3, <1>7, <1>9, <2>1, <2>2, <2>4, <3>1, <3>3
    <3> QED
      BY <3>2, <3>3
  <2>5. FollowupInv'
    BY <1>1, <1>2, <1>6, <1>7, <1>9, <2>1, <2>4 DEF IInv, FollowupInv, FollowupsAccounted
  <2> QED
    BY <1>2, <1>5, <1>7, <1>9, <2>1, <2>2, <2>5
<1>10. CASE c.op \in {"status", "update"}
  <2>1. /\ \/ tickets' = [tickets EXCEPT ![c.ticket].closed = TRUE]
           \/ tickets' = [tickets EXCEPT ![c.ticket].updates = @ + 1]
        /\ UNCHANGED <<orphans, repeats>>
    BY <1>10 DEF LateEffect
  <2>2. /\ GrowTickets /\ DOMAIN tickets' = DOMAIN tickets
        /\ \A j \in DOMAIN tickets : j # c.ticket => tickets'[j] = tickets[j]
    BY <1>3, <1>10, <2>1, EditGrows
  <2>3. tickets'[c.ticket].recoveries = tickets[c.ticket].recoveries
    <3>1. \/ tickets'[c.ticket] = [tickets[c.ticket] EXCEPT !.closed = TRUE]
          \/ tickets'[c.ticket] = [tickets[c.ticket] EXCEPT !.updates = @ + 1]
      BY <1>3, <1>10, <2>1, LenProperties DEF IInv, TypeOK
    <3> QED
      BY <1>3, <1>10, <3>1 DEF Ticket
  <2>4. FollowupInv'
    BY <1>1, <1>6, <1>7, <2>1, <2>2, <2>3 DEF IInv, FollowupInv, FollowupsAccounted
  <2> QED
    BY <1>5, <1>7, <1>10, <2>1, <2>2, <2>4
<1> QED
  BY <1>2, <1>8, <1>9, <1>10 DEF CallSteps

LEMMA CrashStep ==
  ASSUME IInv, Crash
  PROVE  IInv'
<1>1. /\ caller' = [a \in Alerts |-> NoThread]
      /\ pc' = [t \in Threads |-> "idle"]
      /\ job' = [t \in Threads |-> NoJob]
      /\ row' = [t \in Threads |-> NoRow]
      /\ held' = [t \in Threads |-> 0]
      /\ writer' = NoThread
      /\ UNCHANGED <<tries, tag, db, tickets, late>>
  BY DEF Crash
<1>2. /\ status' \in [Alerts -> AlertStates]
      /\ \A a \in Alerts : status'[a] = "sent" => status[a] = "sent"
  BY DEF Crash, IInv, TypeOK, AlertStates
<1>3. /\ repeats \in [Events -> Nat] /\ orphans \subseteq DOMAIN tickets
      /\ DOMAIN tickets \subseteq Nat
      /\ \A f \in Events : ~ RecoveryUnderWay(f)'
  BY <1>1, LenProperties, BridgeAssumption DEF IInv, TypeOK, TicketInv, RecoveryUnderWay
<1>4. ASSUME repeats' \in [Events -> Nat], FollowupInv',
             orphans' \subseteq DOMAIN tickets,
             \A f \in Events : db[f].ticket \notin orphans',
             orphans \subseteq orphans',
             \A u \in Threads : writer = u /\ OpenedTicket(u) => held[u] \in orphans'
      PROVE  IInv'
  <2>1. TypeOK'
    BY <1>1, <1>2, <1>3, <1>4 DEF IInv, TypeOK, Steps
  <2>2. LockInv' /\ StepInv' /\ AcceptedInv'
    BY <1>1, BridgeAssumption DEF LockInv, StepInv, AcceptedInv, LockedSteps, CallSteps
  <2>3. CorrelationSound' /\ ClosedInv' /\ LateInv'
    BY <1>1 DEF IInv, CorrelationSound, ClosedInv, LateInv
  <2>4. TicketInv'
    BY <1>1, <1>4 DEF IInv, TicketInv
  <2>5. AcknowledgedIsRecorded'
    BY <1>1, <1>2 DEF IInv, AcknowledgedIsRecorded
  <2> QED
    BY <1>4, <2>1, <2>2, <2>3, <2>4, <2>5 DEF IInv
<1>5. CASE writer = NoThread
  <2>1. UNCHANGED <<orphans, repeats>>
    BY <1>5 DEF Crash
  <2>2. \A f \in Events : ~ RecoveryUnderWay(f)
    BY <1>5, BridgeAssumption DEF RecoveryUnderWay
  <2>3. FollowupInv'
    BY <1>1, <1>3, <2>1, <2>2 DEF IInv, FollowupInv, FollowupsAccounted
  <2> QED
    BY <1>3, <1>4, <1>5, <2>1, <2>3, BridgeAssumption DEF IInv, TicketInv
<1>6. CASE writer # NoThread
  <2>1. PICK t \in Threads : writer = t
    BY <1>6 DEF IInv, TypeOK
  <2>2. LeaveBehind(t)
    BY <1>6, <2>1 DEF Crash
  <2>3. /\ pc[t] \in LockedSteps
        /\ row[t] = db[Event(t)] /\ Event(t) \in Events
    BY <2>1, InTransaction DEF IInv, LockInv
  <2>4. \A f \in Events : RecoveryUnderWay(f) <=> f = Event(t) /\ WroteRecovery(t)
    BY <2>1 DEF RecoveryUnderWay
  <2>5. WroteRecovery(t) => db[Event(t)].state = "problem" /\ db[Event(t)] # NoRow
    BY <2>3 DEF WroteRecovery, NoRow
  <2>6. /\ repeats' \in [Events -> Nat]
        /\ \A f \in Events : repeats'[f] = IF RecoveryUnderWay(f) THEN repeats[f] + 1 ELSE repeats[f]
    BY <1>3, <2>2, <2>3, <2>4 DEF LeaveBehind
  <2>7. FollowupInv'
    <3>1. ASSUME NEW f \in Events, db[f] # NoRow
          PROVE  tickets[db[f].ticket].recoveries =
                   repeats'[f] + IF db[f].state = "recovered" THEN 1 ELSE 0
      <4>1. tickets[db[f].ticket].recoveries =
              repeats[f] + IF db[f].state = "recovered" \/ RecoveryUnderWay(f) THEN 1 ELSE 0
        BY <3>1 DEF IInv, FollowupInv, FollowupsAccounted
      <4> QED
        BY <1>3, <2>4, <2>5, <2>6, <4>1
    <3>2. \A f \in Events : db[f] = NoRow => repeats'[f] = 0
      BY <2>4, <2>5, <2>6 DEF IInv, FollowupInv
    <3> QED
      BY <1>1, <1>3, <3>1, <3>2 DEF FollowupInv, FollowupsAccounted
  <2>8. OpenedTicket(t) => /\ held[t] \in DOMAIN tickets
                           /\ \A f \in Events : db[f].ticket # held[t]
    <3>1. SUFFICES ASSUME OpenedTicket(t)
          PROVE  held[t] \in DOMAIN tickets /\ \A f \in Events : db[f].ticket # held[t]
      OBVIOUS
    <3>2. NewTicketStep(t) /\ db[Event(t)] = NoRow
      BY <2>1, <2>3, <3>1 DEF IInv, StepInv, OpenedTicket
    <3>3. 0 \notin DOMAIN tickets
      BY LenProperties DEF IInv, TypeOK
    <3> QED
      BY <3>2, <3>3 DEF NewTicketStep, IInv, CorrelationSound, NoRow
  <2> QED
    BY <1>3, <1>4, <2>1, <2>2, <2>6, <2>7, <2>8 DEF LeaveBehind, IInv, TicketInv
<1> QED
  BY <1>5, <1>6

LEMMA StutterStep ==
  ASSUME IInv, UNCHANGED vars
  PROVE  IInv'
<1> USE DEF IInv, vars, zabbixVars, threadVars, glpiVars
<1>1. TypeOK' /\ LockInv' /\ AcceptedInv'
  BY DEF TypeOK, LockInv, AcceptedInv, Event, Kind
<1>2. StepInv'
  BY DEF StepInv, CorrelatedStep, NewTicketStep, Event, Kind
<1>3. CorrelationSound' /\ ClosedInv' /\ LateInv' /\ AcknowledgedIsRecorded'
  BY DEF CorrelationSound, ClosedInv, LateInv, AcknowledgedIsRecorded
<1>4. TicketInv'
  BY DEF TicketInv, OpenedTicket
<1>5. FollowupInv'
  BY DEF FollowupInv, FollowupsAccounted, RecoveryUnderWay, WroteRecovery, Event, Kind
<1> QED
  BY <1>1, <1>2, <1>3, <1>4, <1>5

LEMMA NextIInv ==
  ASSUME IInv, [Next]_vars
  PROVE  IInv'
<1>1. ASSUME NEW t \in Threads, Handle(t)
      PROVE  IInv'
  BY <1>1, BeginStep, BusyStep, CreateTicketStep, RecoveryFollowupStep, RecoveryStatusStep,
     ProblemFollowupStep, FailStep, CommitStep, AnswerStep DEF Handle
<1>2. ASSUME NEW a \in Alerts, Notify(a) \/ GiveUpWaiting(a) \/ \E t \in Threads : Deliver(a, t)
      PROVE  IInv'
  BY <1>2, NotifyStep, DeliverStep
<1>3. CASE Quiescent \/ UNCHANGED vars
  BY <1>3, StutterStep DEF Quiescent
<1> QED
  BY <1>1, <1>2, <1>3, LateEffectStep, CrashStep DEF Next

-----------------------------------------------------------------------------
(* The inductive invariant holds of the bridge.                             *)
THEOREM Invariance == Spec => []IInv
<1>1. Init => IInv
  BY InitIInv
<1>2. IInv /\ [Next]_vars => IInv'
  BY NextIInv
<1> QED
  BY <1>1, <1>2, PTL DEF Spec

(* Every variable keeps its type: in particular a row always names a ticket *)
(* id that GLPI gave, never the 0 of an answer that was lost.               *)
THEOREM TypeCorrect == Spec => []TypeOK
<1>1. IInv => TypeOK
  BY DEF IInv
<1> QED
  BY <1>1, Invariance, PTL

(* Two events never share a ticket, and no row points into the void,        *)
(* whatever is lost, late, retried or restarted.                            *)
THEOREM CorrelationIsSound == Spec => []CorrelationSound
<1>1. IInv => CorrelationSound
  BY DEF IInv
<1> QED
  BY <1>1, Invariance, PTL

(* A row says "recovered" only of a ticket that carries the followup and    *)
(* was moved to the recovery status: COMMIT comes after both calls.         *)
THEOREM RecoveredImpliesClosed == Spec => []RecoveredIsClosed
<1>1. IInv => RecoveredIsClosed
  <2>1. SUFFICES ASSUME IInv, NEW e \in Events, db[e].state = "recovered"
        PROVE  tickets[db[e].ticket].closed /\ tickets[db[e].ticket].recoveries >= 1
    BY DEF RecoveredIsClosed
  <2>2. db[e] # NoRow /\ repeats[e] \in Nat
    BY <2>1 DEF NoRow, IInv, TypeOK
  <2>3. tickets[db[e].ticket].recoveries = repeats[e] + 1
    BY <2>1, <2>2 DEF IInv, FollowupInv, FollowupsAccounted
  <2> QED
    BY <2>1, <2>2, <2>3 DEF IInv, ClosedInv
<1> QED
  BY <1>1, Invariance, PTL

(* A 200 is only ever given for what is committed, and what is committed    *)
(* stays: Zabbix's tag is the correlated ticket for ever.                   *)
THEOREM AcknowledgedImpliesRecorded == Spec => []AcknowledgedIsRecorded
<1>1. IInv => AcknowledgedIsRecorded
  BY DEF IInv
<1> QED
  BY <1>1, Invariance, PTL

(* The only way to a second ticket of an event is a creation whose answer   *)
(* or commit was lost: overlap, retry and repetition alone never open one.  *)
THEOREM DuplicatesAreOrphans == Spec => []OnlyFaultsDuplicate
<1>1. IInv => OnlyFaultsDuplicate
  <2>1. SUFFICES ASSUME IInv, NEW i \in DOMAIN tickets, NEW j \in DOMAIN tickets,
                        tickets[i].event = tickets[j].event, i # j,
                        i \notin orphans, j \notin orphans
        PROVE  FALSE
    BY DEF OnlyFaultsDuplicate, IInv, TicketInv
  <2> DEFINE Correlated(k) == db[tickets[k].event].ticket = k
             InHand(k) == \E t \in Threads : writer = t /\ OpenedTicket(t) /\ held[t] = k
  <2>2. (Correlated(i) \/ InHand(i)) /\ (Correlated(j) \/ InHand(j))
    BY <2>1 DEF IInv, TicketInv
  <2>3. ASSUME NEW k \in DOMAIN tickets, InHand(k)
        PROVE  db[tickets[k].event] = NoRow
    BY <2>1, <2>3 DEF IInv, LockInv, StepInv, OpenedTicket, NewTicketStep
  <2>4. ASSUME NEW k \in DOMAIN tickets, Correlated(k)
        PROVE  db[tickets[k].event] # NoRow
    BY <2>1, <2>4, LenProperties DEF IInv, TypeOK, NoRow
  <2> QED
    BY <2>1, <2>2, <2>3, <2>4
<1> QED
  BY <1>1, Invariance, PTL

(* Every recovery followup is the recorded recovery or a residue of a       *)
(* recovery whose transaction did not commit.                               *)
THEOREM FollowupsAreAccounted == Spec => []FollowupsAccounted
<1>1. IInv => FollowupsAccounted
  BY DEF IInv, FollowupInv
<1> QED
  BY <1>1, Invariance, PTL

-----------------------------------------------------------------------------
(* The contract as the README gives it.  Deliveries may be repeated and     *)
(* overlap and Zabbix may stop waiting, but no call or commit is lost and   *)
(* the container is not restarted between a call and its commit.            *)
Undisturbed == Faults \subseteq {"timeout"}

NoResidue ==
  /\ orphans = {}
  /\ late = {}
  /\ \A e \in Events : repeats[e] = 0

(* Only a fault leaves something in GLPI that no row accounts for.          *)
LEMMA ResidueNeedsFault ==
  ASSUME Undisturbed, NoResidue, [Next]_vars
  PROVE  NoResidue'
<1>1. "glpi" \notin Faults /\ "late" \notin Faults /\ "crash" \notin Faults
  BY DEF Undisturbed
<1>2. ~ Crash /\ \A c \in late : ~ LateEffect(c)
  BY <1>1 DEF Crash, NoResidue
<1>3. UNCHANGED glpiVars => NoResidue'
  BY DEF glpiVars, NoResidue
<1>4. ASSUME NEW t \in Threads, Handle(t)
      PROVE  NoResidue'
  <2>1. ~ Fail(t) /\ ~ GiveUpCall(t)
    BY <1>1 DEF Fail, GiveUpCall
  <2>2. CASE Begin(t) \/ Busy(t) \/ Commit(t) \/ Answer(t)
    BY <2>2, <1>3 DEF Begin, Busy, Commit, Answer
  <2>3. CASE CreateTicket(t) \/ RecoveryFollowup(t) \/ RecoveryStatus(t) \/ ProblemFollowup(t)
    BY <2>3, <1>1 DEF CreateTicket, RecoveryFollowup, RecoveryStatus, ProblemFollowup, NoResidue
  <2> QED
    BY <1>4, <2>1, <2>2, <2>3 DEF Handle
<1>5. ASSUME NEW a \in Alerts, Notify(a) \/ GiveUpWaiting(a) \/ \E t \in Threads : Deliver(a, t)
      PROVE  NoResidue'
  BY <1>5, <1>3 DEF Notify, GiveUpWaiting, Deliver, glpiVars
<1>6. CASE Quiescent \/ UNCHANGED vars
  BY <1>6, <1>3 DEF Quiescent, vars
<1> QED
  BY <1>2, <1>4, <1>5, <1>6 DEF Next

LEMMA NeverResidue == Undisturbed => (Spec => []NoResidue)
<1> SUFFICES ASSUME Undisturbed
             PROVE  Spec => []NoResidue
  OBVIOUS
<1>1. Init => NoResidue
  BY DEF Init, NoResidue
<1>2. NoResidue /\ [Next]_vars => NoResidue'
  BY ResidueNeedsFault
<1> QED
  BY <1>1, <1>2, PTL DEF Spec

(* README, Contract: "repeated problem deliveries do not create another     *)
(* ticket".  It holds of every overlap of any number of threads, retries    *)
(* and changed problems; only a lost call, a lost commit or a restart, as   *)
(* in the finding, breaks it.                                               *)
THEOREM OneTicketUndisturbed == Undisturbed => (Spec => []OneTicketPerEvent)
<1> SUFFICES ASSUME Undisturbed
             PROVE  Spec => []OneTicketPerEvent
  OBVIOUS
<1>1. OnlyFaultsDuplicate /\ NoResidue => OneTicketPerEvent
  BY DEF OnlyFaultsDuplicate, NoResidue, OneTicketPerEvent
<1> QED
  BY <1>1, DuplicatesAreOrphans, NeverResidue, PTL

(* README, Contract: "repeated recovery deliveries do not create another    *)
(* followup", under the same condition.                                     *)
THEOREM OneFollowupUndisturbed == Undisturbed => (Spec => []OneRecoveryFollowup)
<1> SUFFICES ASSUME Undisturbed
             PROVE  Spec => []OneRecoveryFollowup
  OBVIOUS
<1>1. IInv /\ NoResidue => OneRecoveryFollowup
  <2>1. SUFFICES ASSUME IInv, NoResidue, NEW i \in DOMAIN tickets
                 PROVE  tickets[i].recoveries <= 1
    BY DEF OneRecoveryFollowup
  <2> DEFINE e == tickets[i].event
  <2>2. e \in Events /\ i # 0
    <3>1. tickets \in Seq(Ticket)
      BY <2>1 DEF IInv, TypeOK
    <3>2. i \in 1 .. Len(tickets)
      BY <3>1, LenProperties
    <3>3. tickets[i] \in Ticket
      BY <3>1, <3>2, ElementOfSeq
    <3> QED
      BY <3>2, <3>3 DEF Ticket
  <2>3. CASE db[e].ticket = i
    <3>1. db[e] # NoRow
      BY <2>2, <2>3 DEF NoRow
    <3> QED
      BY <2>1, <2>2, <2>3, <3>1 DEF IInv, FollowupInv, FollowupsAccounted, NoResidue
  <2>4. CASE \E t \in Threads : writer = t /\ OpenedTicket(t) /\ held[t] = i
    BY <2>1, <2>4 DEF IInv, StepInv, OpenedTicket, NewTicketStep
  <2> QED
    BY <2>1, <2>3, <2>4 DEF IInv, TicketInv, NoResidue
<1> QED
  BY <1>1, Invariance, NeverResidue, PTL

=============================================================================
