----------------------------- MODULE GlpiBridge -----------------------------
(***************************************************************************)
(* The Zabbix-GLPI bridge: the handler threads of the HTTP server running  *)
(* process_event against one SQLite database and the GLPI API, and the     *)
(* Zabbix media type that delivers and retries the notifications.          *)
(*                                                                         *)
(* Zabbix (status, tries, tag, caller) and GLPI (tickets, late) are        *)
(* external: they are modelled from how the bridge configures and calls    *)
(* them.  The fingerprint of an event is a digest of every field of the    *)
(* notification, so the model uses the notification itself.                *)
(***************************************************************************)
EXTENDS Naturals, Sequences

CONSTANTS
  Events,       \* Zabbix problem event ids, the correlation key
  Alerts,       \* notifications: [event, kind, body], one per rendered message
  Threads,      \* handler threads that may run at the same time
  MaxAttempts,  \* delivery attempts of the media type
  Faults,       \* which faults may strike: a subset of FaultKinds
  NoThread, NoAlert

FaultKinds == {"timeout", "glpi", "late", "crash"}

Kinds == {"problem", "recovery"}

ASSUME BridgeAssumption ==
  /\ \A a \in Alerts : a.event \in Events /\ a.kind \in Kinds
  /\ MaxAttempts \in Nat \ {0}
  /\ Faults \subseteq FaultKinds
  /\ NoThread \notin Threads
  /\ NoAlert \notin Alerts

VARIABLES
  status,   \* [Alerts -> AlertStates]: Zabbix's view of each notification
  tries,    \* [Alerts -> Nat]: attempts made so far
  tag,      \* [Alerts -> Nat]: the glpi_ticket_id tag set from the answer
  caller,   \* [Alerts -> the thread whose answer Zabbix is waiting for]
  pc,       \* [Threads -> Steps]: where each handler stands
  job,      \* [Threads -> the attempt it serves]
  row,      \* [Threads -> the row it read inside its transaction]
  held,     \* [Threads -> the ticket id of its transaction, 0 before it has one]
  writer,   \* the thread inside BEGIN IMMEDIATE, or NoThread
  db,       \* [Events -> Rows]: the committed correlations table
  tickets,  \* GLPI: the sequence of tickets, whose ids are the positions
  late,     \* GLPI: calls the bridge gave up on that GLPI may still execute
  orphans,  \* history: tickets whose creation was never committed to db
  repeats   \* history: [Events -> recovery followups of uncommitted recoveries]

zabbixVars == <<status, tries, tag, caller>>
threadVars == <<pc, job, row, held, writer>>
glpiVars == <<tickets, late, orphans, repeats>>
vars == <<zabbixVars, threadVars, db, glpiVars>>

AlertStates == {"new", "queued", "waiting", "sent", "failed"}
CallSteps == {"create", "followup", "status", "update"}
LockedSteps == CallSteps \union {"commit"}
Steps == LockedSteps \union {"idle", "begin", "accepted", "refused"}

NoRow == [ticket |-> 0, state |-> "none", print |-> NoAlert]
Row == [ticket : Nat \ {0}, state : {"problem", "recovered"}, print : Alerts]
Ticket == [event : Events, closed : BOOLEAN, recoveries : Nat, updates : Nat]
Call == [job : [alert : Alerts, try : Nat], op : CallSteps, ticket : Nat]
NoJob == [alert |-> NoAlert, try |-> 0]

Event(t) == job[t].alert.event
Kind(t) == job[t].alert.kind

-----------------------------------------------------------------------------
(* Zabbix *)

(* The attempt of a is over without a 2xx answer: the webhook throws and    *)
(* the alert manager tries again until the attempts are used up.            *)
AttemptFails(a) ==
  /\ status' = [status EXCEPT ![a] = IF tries[a] < MaxAttempts THEN "queued" ELSE "failed"]
  /\ caller' = [caller EXCEPT ![a] = NoThread]

(* The action's first step notifies the problem; its recovery operation     *)
(* notifies those who were notified of the problem.                         *)
Notify(a) ==
  /\ status[a] = "new"
  /\ a.kind = "recovery" =>
       \E p \in Alerts : p.event = a.event /\ p.kind = "problem" /\ status[p] # "new"
  /\ status' = [status EXCEPT ![a] = "queued"]
  /\ UNCHANGED <<tries, tag, caller, threadVars, db, glpiVars>>

(* Faulty variant of Deliver: attempts are not counted.                     *)
DeliverUncounted(a, t) ==
  /\ status[a] = "queued" /\ pc[t] = "idle"
  /\ \A b \in Alerts : status[b] # "waiting"
  /\ status' = [status EXCEPT ![a] = "waiting"]
  /\ caller' = [caller EXCEPT ![a] = t]
  /\ pc' = [pc EXCEPT ![t] = "begin"]
  /\ job' = [job EXCEPT ![t] = [alert |-> a, try |-> tries[a]]]
  /\ UNCHANGED <<tries, tag, row, held, writer, db, glpiVars>>

(* maxsessions is 1: one attempt at a time, served by a thread of its own.  *)
(* normalized_event accepts the payload, which is numeric by construction.  *)
Deliver(a, t) ==
  /\ status[a] = "queued"
  /\ \A b \in Alerts : status[b] # "waiting"
  /\ pc[t] = "idle"
  /\ status' = [status EXCEPT ![a] = "waiting"]
  /\ tries' = [tries EXCEPT ![a] = @ + 1]
  /\ caller' = [caller EXCEPT ![a] = t]
  /\ pc' = [pc EXCEPT ![t] = "begin"]
  /\ job' = [job EXCEPT ![t] = [alert |-> a, try |-> tries[a] + 1]]
  /\ UNCHANGED <<tag, row, held, writer, db, glpiVars>>

(* Zabbix stops waiting; the handler thread knows nothing of it.            *)
GiveUpWaiting(a) ==
  /\ "timeout" \in Faults
  /\ status[a] = "waiting"
  /\ AttemptFails(a)
  /\ UNCHANGED <<tries, tag, threadVars, db, glpiVars>>

-----------------------------------------------------------------------------
(* process_event, one action per step that another actor can come between   *)

(* Faulty variant of Branch: a recovered event takes further updates.       *)
BranchReopens(a, r) ==
  CASE r = NoRow /\ a.kind = "recovery" -> "refused"
    [] r = NoRow /\ a.kind = "problem"  -> "create"
    [] r.state = "problem" /\ a.kind = "recovery" -> "followup"
    [] a.kind = "problem" /\ r.print # a -> "update"
    [] OTHER -> "commit"

(* What the row read inside the transaction makes of the notification.      *)
Branch(a, r) ==
  CASE r = NoRow /\ a.kind = "recovery" -> "refused"
    [] r = NoRow /\ a.kind = "problem"  -> "create"
    [] r.state = "problem" /\ a.kind = "recovery" -> "followup"
    [] r.state = "problem" /\ a.kind = "problem" /\ r.print # a -> "update"
    [] OTHER -> "commit"

(* Faulty variant of NewRow: the recovery leaves the state alone.           *)
NewRowStaysOpen(a, r, id) ==
  IF r = NoRow THEN [ticket |-> id, state |-> "problem", print |-> a]
  ELSE IF r.state = "problem" THEN [r EXCEPT !.print = a] ELSE r

(* The row a transaction commits, for the ticket id it holds.               *)
NewRow(a, r, id) ==
  CASE r = NoRow -> [ticket |-> id, state |-> "problem", print |-> a]
    [] r # NoRow /\ r.state = "problem" /\ a.kind = "recovery" ->
         [r EXCEPT !.state = "recovered", !.print = a]
    [] r # NoRow /\ r.state = "problem" /\ a.kind = "problem" -> [r EXCEPT !.print = a]
    [] OTHER -> r

(* Faulty variant of Begin: a deferred BEGIN reads without the write lock.  *)
BeginDeferred(t) ==
  /\ pc[t] = "begin"
  /\ LET r == db[Event(t)]
         next == Branch(job[t].alert, r)
     IN /\ pc' = [pc EXCEPT ![t] = next]
        /\ writer' = IF next = "refused" THEN writer ELSE t
        /\ row' = [row EXCEPT ![t] = r]
        /\ held' = [held EXCEPT ![t] = r.ticket]
  /\ UNCHANGED <<zabbixVars, job, db, glpiVars>>

(* BEGIN IMMEDIATE takes the write lock, then the row is read under it.  A  *)
(* recovery without a row is refused, which rolls back at once.             *)
Begin(t) ==
  /\ pc[t] = "begin"
  /\ writer = NoThread
  /\ LET r == db[Event(t)]
         next == Branch(job[t].alert, r)
     IN /\ pc' = [pc EXCEPT ![t] = next]
        /\ writer' = IF next = "refused" THEN NoThread ELSE t
        /\ row' = [row EXCEPT ![t] = r]
        /\ held' = [held EXCEPT ![t] = r.ticket]
  /\ UNCHANGED <<zabbixVars, job, db, glpiVars>>

(* SQLite's busy timeout: another thread kept the lock for 30 seconds.      *)
Busy(t) ==
  /\ pc[t] = "begin"
  /\ writer # NoThread
  /\ pc' = [pc EXCEPT ![t] = "refused"]
  /\ UNCHANGED <<zabbixVars, job, row, held, writer, db, glpiVars>>

(* The next step of a thread inside its transaction whose call was answered,*)
(* or the ROLLBACK that an exception leads to.                              *)
Continue(t, next) ==
  /\ pc' = [pc EXCEPT ![t] = next]
  /\ UNCHANGED <<zabbixVars, job, row, writer, db>>

RollBackKeepsLock(t) ==   \* faulty variant: the connection stays open
  /\ pc' = [pc EXCEPT ![t] = "refused"]
  /\ UNCHANGED <<zabbixVars, job, row, held, writer, db>>

RollBack(t) ==
  /\ pc' = [pc EXCEPT ![t] = "refused"]
  /\ writer' = NoThread
  /\ UNCHANGED <<zabbixVars, job, row, held, db>>

(* History: what t did to GLPI that a rollback now leaves without a row.    *)
OpenedTicket(t) == pc[t] = "commit" /\ row[t] = NoRow
WroteRecovery(t) ==
  /\ row[t].state = "problem"
  /\ Kind(t) = "recovery"
  /\ pc[t] \in {"status", "commit"}

LeaveBehind(t) ==
  /\ orphans' = IF OpenedTicket(t) THEN orphans \union {held[t]} ELSE orphans
  /\ repeats' = IF WroteRecovery(t) THEN [repeats EXCEPT ![Event(t)] = @ + 1] ELSE repeats

NewTicket(e) == [event |-> e, closed |-> FALSE, recoveries |-> 0, updates |-> 0]

(* Faulty variant of CreateTicket: an answer without an id is accepted.     *)
CreateTicketUnchecked(t) ==
  /\ pc[t] = "create"
  /\ tickets' = Append(tickets, NewTicket(Event(t)))
  /\ Continue(t, "commit")
  /\ UNCHANGED <<held, late, orphans, repeats>>

(* create_ticket: the answer carries the id, or is lost after the effect.   *)
CreateTicket(t) ==
  /\ pc[t] = "create"
  /\ tickets' = Append(tickets, NewTicket(Event(t)))
  /\ \/ /\ Continue(t, "commit")
        /\ held' = [held EXCEPT ![t] = Len(tickets) + 1]
        /\ UNCHANGED <<late, orphans, repeats>>
     \/ /\ "glpi" \in Faults
        /\ RollBack(t)
        /\ orphans' = orphans \union {Len(tickets) + 1}
        /\ UNCHANGED <<late, repeats>>

(* Faulty variant of RecoveryFollowup: the status is never changed.         *)
RecoveryFollowupOnly(t) ==
  /\ pc[t] = "followup"
  /\ tickets' = [tickets EXCEPT ![held[t]].recoveries = @ + 1]
  /\ Continue(t, "commit")
  /\ UNCHANGED <<held, late, orphans, repeats>>

(* recover_ticket, first call: the followup on the ticket's timeline.       *)
RecoveryFollowup(t) ==
  /\ pc[t] = "followup"
  /\ tickets' = [tickets EXCEPT ![held[t]].recoveries = @ + 1]
  /\ \/ /\ Continue(t, "status")
        /\ UNCHANGED <<held, late, orphans, repeats>>
     \/ /\ "glpi" \in Faults
        /\ RollBack(t)
        /\ repeats' = [repeats EXCEPT ![Event(t)] = @ + 1]
        /\ UNCHANGED <<late, orphans>>

(* recover_ticket, second call: the PATCH of the status.                    *)
RecoveryStatus(t) ==
  /\ pc[t] = "status"
  /\ tickets' = [tickets EXCEPT ![held[t]].closed = TRUE]
  /\ \/ /\ Continue(t, "commit")
        /\ UNCHANGED <<held, late, orphans, repeats>>
     \/ /\ "glpi" \in Faults
        /\ RollBack(t)
        /\ LeaveBehind(t)
        /\ UNCHANGED late

(* add_followup for a problem whose payload changed.                        *)
ProblemFollowup(t) ==
  /\ pc[t] = "update"
  /\ tickets' = [tickets EXCEPT ![held[t]].updates = @ + 1]
  /\ UNCHANGED <<late, orphans, repeats>>
  /\ \/ Continue(t, "commit") /\ UNCHANGED held
     \/ "glpi" \in Faults /\ RollBack(t)

(* A call is refused before it has any effect: credentials, authentication, *)
(* maintenance mode, connection, or COMMIT itself.                          *)
Fail(t) ==
  /\ "glpi" \in Faults
  /\ pc[t] \in LockedSteps
  /\ RollBack(t)
  /\ LeaveBehind(t)
  /\ UNCHANGED <<tickets, late>>

(* json_request gives up after its timeout while GLPI still works on it.    *)
GiveUpCall(t) ==
  /\ "late" \in Faults
  /\ pc[t] \in CallSteps
  /\ late' = late \union {[job |-> job[t], op |-> pc[t], ticket |-> held[t]]}
  /\ RollBack(t)
  /\ LeaveBehind(t)
  /\ UNCHANGED tickets

Commit(t) ==
  /\ pc[t] = "commit"
  /\ db' = [db EXCEPT ![Event(t)] = NewRow(job[t].alert, row[t], held[t])]
  /\ pc' = [pc EXCEPT ![t] = "accepted"]
  /\ writer' = NoThread
  /\ UNCHANGED <<zabbixVars, job, row, held, glpiVars>>

(* do_POST answers 200 with the ticket id, or 422/502; nobody may listen.   *)
Forget(t) ==
  /\ pc' = [pc EXCEPT ![t] = "idle"]
  /\ job' = [job EXCEPT ![t] = NoJob]
  /\ row' = [row EXCEPT ![t] = NoRow]
  /\ held' = [held EXCEPT ![t] = 0]

AnswerAlwaysOk(t) ==      \* faulty variant: 200 whatever happened
  /\ pc[t] \in {"accepted", "refused"}
  /\ LET a == job[t].alert
         heard == caller[a] = t
     IN /\ status' = [status EXCEPT ![a] = IF heard THEN "sent" ELSE @]
        /\ tag' = [tag EXCEPT ![a] = IF heard THEN held[t] ELSE @]
        /\ caller' = [caller EXCEPT ![a] = IF heard THEN NoThread ELSE @]
  /\ Forget(t)
  /\ UNCHANGED <<tries, writer, db, glpiVars>>

Answer(t) ==
  LET a == job[t].alert IN
  /\ pc[t] \in {"accepted", "refused"}
  /\ \/ /\ caller[a] # t
        /\ UNCHANGED zabbixVars
     \/ /\ caller[a] = t
        /\ pc[t] = "refused"
        /\ AttemptFails(a)
        /\ UNCHANGED <<tries, tag>>
     \/ /\ caller[a] = t
        /\ pc[t] = "accepted"
        /\ status' = [status EXCEPT ![a] = "sent"]
        /\ tag' = [tag EXCEPT ![a] = held[t]]
        /\ caller' = [caller EXCEPT ![a] = NoThread]
        /\ UNCHANGED tries
  /\ Forget(t)
  /\ UNCHANGED <<writer, db, glpiVars>>

-----------------------------------------------------------------------------
(* GLPI executes a call nobody waits for any more.                          *)
LateEffect(c) ==
  /\ late' = late \ {c}
  /\ CASE c.op = "create" ->
            /\ tickets' = Append(tickets, NewTicket(c.job.alert.event))
            /\ orphans' = orphans \union {Len(tickets) + 1}
            /\ UNCHANGED repeats
       [] c.op = "followup" ->
            /\ tickets' = [tickets EXCEPT ![c.ticket].recoveries = @ + 1]
            /\ repeats' = [repeats EXCEPT ![c.job.alert.event] = @ + 1]
            /\ UNCHANGED orphans
       [] c.op = "status" ->
            /\ tickets' = [tickets EXCEPT ![c.ticket].closed = TRUE]
            /\ UNCHANGED <<orphans, repeats>>
       [] c.op = "update" ->
            /\ tickets' = [tickets EXCEPT ![c.ticket].updates = @ + 1]
            /\ UNCHANGED <<orphans, repeats>>
  /\ UNCHANGED <<zabbixVars, threadVars, db>>

(* The container dies and is restarted: threads and the open transaction    *)
(* are gone, SQLite's journal rolls back, waiting deliveries break off.     *)
Crash ==
  /\ "crash" \in Faults
  /\ \E t \in Threads : pc[t] # "idle"
  /\ status' = [a \in Alerts |-> IF status[a] # "waiting" THEN status[a]
                                 ELSE IF tries[a] < MaxAttempts THEN "queued" ELSE "failed"]
  /\ caller' = [a \in Alerts |-> NoThread]
  /\ pc' = [t \in Threads |-> "idle"]
  /\ job' = [t \in Threads |-> NoJob]
  /\ row' = [t \in Threads |-> NoRow]
  /\ held' = [t \in Threads |-> 0]
  /\ writer' = NoThread
  /\ IF writer = NoThread THEN UNCHANGED <<orphans, repeats>> ELSE LeaveBehind(writer)
  /\ UNCHANGED <<tries, tag, db, tickets, late>>

(* Every notification has been created and settled and every thread is done.*)
Quiescent ==
  /\ \A a \in Alerts : status[a] \in {"sent", "failed"}
  /\ \A t \in Threads : pc[t] = "idle"
  /\ late = {}
  /\ UNCHANGED vars

Init ==
  /\ status = [a \in Alerts |-> "new"]
  /\ tries = [a \in Alerts |-> 0]
  /\ tag = [a \in Alerts |-> 0]
  /\ caller = [a \in Alerts |-> NoThread]
  /\ pc = [t \in Threads |-> "idle"]
  /\ job = [t \in Threads |-> NoJob]
  /\ row = [t \in Threads |-> NoRow]
  /\ held = [t \in Threads |-> 0]
  /\ writer = NoThread
  /\ db = [e \in Events |-> NoRow]
  /\ tickets = << >>
  /\ late = {}
  /\ orphans = {}
  /\ repeats = [e \in Events |-> 0]

Handle(t) ==
  \/ Begin(t) \/ Busy(t)
  \/ CreateTicket(t) \/ RecoveryFollowup(t) \/ RecoveryStatus(t) \/ ProblemFollowup(t)
  \/ Fail(t) \/ GiveUpCall(t)
  \/ Commit(t) \/ Answer(t)

Next ==
  \/ \E a \in Alerts : Notify(a) \/ GiveUpWaiting(a) \/ \E t \in Threads : Deliver(a, t)
  \/ \E t \in Threads : Handle(t)
  \/ \E c \in late : LateEffect(c)
  \/ Crash
  \/ Quiescent

Spec == Init /\ [][Next]_vars

(* A handler runs until it has answered: every GLPI call has a timeout and  *)
(* BEGIN IMMEDIATE a busy timeout.  Zabbix keeps sending what is queued.    *)
Fairness ==
  /\ \A t \in Threads : WF_vars(Handle(t))
  /\ \A a \in Alerts : WF_vars(\E t \in Threads : Deliver(a, t))

FairSpec == Spec /\ Fairness
-----------------------------------------------------------------------------
(* Type invariant.                                                          *)
TypeOK ==
  /\ status \in [Alerts -> AlertStates]
  /\ tries \in [Alerts -> Nat]
  /\ tag \in [Alerts -> Nat]
  /\ caller \in [Alerts -> Threads \union {NoThread}]
  /\ pc \in [Threads -> Steps]
  /\ job \in [Threads -> [alert : Alerts, try : Nat] \union {NoJob}]
  /\ row \in [Threads -> Row \union {NoRow}]
  /\ held \in [Threads -> Nat]
  /\ writer \in Threads \union {NoThread}
  /\ db \in [Events -> Row \union {NoRow}]
  /\ tickets \in Seq(Ticket)
  /\ late \subseteq Call
  /\ orphans \subseteq Nat
  /\ repeats \in [Events -> Nat]

(* A correlation points at a ticket that exists in GLPI and was opened for  *)
(* that very event: two events never share one.                             *)
CorrelationSound ==
  \A e \in Events : db[e] # NoRow =>
    db[e].ticket \in DOMAIN tickets /\ tickets[db[e].ticket].event = e

(* An event is recorded as recovered only when its own ticket carries the   *)
(* recovery followup and has been moved to the recovery status.             *)
RecoveredIsClosed ==
  \A e \in Events : db[e].state = "recovered" =>
    LET ticket == tickets[db[e].ticket] IN ticket.closed /\ ticket.recoveries >= 1

(* What Zabbix was told is recorded for good: the ticket tag it set is the  *)
(* correlated ticket, and an accepted recovery is a recovered event.        *)
AcknowledgedIsRecorded ==
  \A a \in Alerts : status[a] = "sent" =>
    /\ db[a.event] # NoRow
    /\ tag[a] = db[a.event].ticket
    /\ a.kind = "recovery" => db[a.event].state = "recovered"

(* Whatever the retries, overlaps and crashes: of two tickets for one event *)
(* one is the residue of a creation whose answer or commit was lost, and    *)
(* such a residue is never the correlated ticket.                           *)
OnlyFaultsDuplicate ==
  /\ \A i, j \in DOMAIN tickets :
       tickets[i].event = tickets[j].event /\ i # j => i \in orphans \/ j \in orphans
  /\ \A e \in Events : db[e].ticket \notin orphans

RecoveryUnderWay(e) ==
  \E t \in Threads : writer = t /\ Event(t) = e /\ WroteRecovery(t)

(* Recovery followups are exactly accounted for: one for the recovery, and  *)
(* one for each recovery that GLPI saw and the database did not.            *)
FollowupsAccounted ==
  \A e \in Events : db[e] # NoRow =>
    tickets[db[e].ticket].recoveries =
      repeats[e] + IF db[e].state = "recovered" \/ RecoveryUnderWay(e) THEN 1 ELSE 0

(* The bridge never touches a recovered event again: its row is final, and  *)
(* its ticket changes only if GLPI executes a call given up on before.      *)
RecoveredIsFinal ==
  [][\A e \in Events : db[e].state = "recovered" =>
       LET i == db[e].ticket IN
       /\ db'[e] = db[e]
       /\ tickets'[i] # tickets[i] => \E c \in late : c.ticket = i /\ late' = late \ {c}]_vars

(* README, Contract: "repeated problem deliveries do not create another     *)
(* ticket".                                                                 *)
OneTicketPerEvent ==
  \A i, j \in DOMAIN tickets : tickets[i].event = tickets[j].event => i = j

(* README, Contract: "repeated recovery deliveries do not create another    *)
(* followup".  Refuted in the same way as OneTicketPerEvent;                *)
(* FollowupsAccounted says what holds instead.                              *)
OneRecoveryFollowup == \A i \in DOMAIN tickets : tickets[i].recoveries <= 1

(* Whatever a handler meets between BEGIN and COMMIT, the write lock is     *)
(* eventually free again for the other deliveries.                          *)
LockIsReleased == writer # NoThread ~> writer = NoThread

(* Every notification queued by Zabbix is eventually accepted or given up.  *)
EveryAlertSettles ==
  \A a \in Alerts : status[a] = "queued" ~> status[a] \in {"sent", "failed"}

(* The refinement: rows are incidents, the recovery status closes a ticket. *)
Ledger == INSTANCE IncidentLedger WITH
  incident <- [e \in Events |-> [ticket |-> db[e].ticket, state |-> db[e].state]],
  closed <- {i \in DOMAIN tickets : tickets[i].closed},
  acked <- [e \in Events |-> {a.kind : a \in {b \in Alerts : b.event = e /\ status[b] = "sent"}}]

ImplementsLedger == Ledger!LedgerSpec
=============================================================================
