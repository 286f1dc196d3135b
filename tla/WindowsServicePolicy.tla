------------------------ MODULE WindowsServicePolicy ------------------------
(***************************************************************************)
(* The Windows service policy: processes that reconcile the alert rules of *)
(* explicit hosts with the Zabbix API, guided by a ledger in a state file. *)
(* "observe" installs replacement rules switched off; "enforce" switches   *)
(* them on and retires the legacy rules; "rollback" undoes that.  A run    *)
(* may fail or be killed between any two steps and is then started again.  *)
(*                                                                         *)
(* Zabbix (items, rule, late) is external: it is modelled from how the     *)
(* reconciler calls it.  A rule is a trigger that is "absent", "off", "on".*)
(***************************************************************************)
EXTENDS Naturals, Sequences, FiniteSets

CONSTANTS
  Targets,     \* the sequence of the policy's hosts
  ItemDefs,    \* the sequence of a host's item definitions, the master first
  TriggerDefs, \* the sequence of a host's replacement triggers
  Legacy,      \* the legacy triggers of a host
  Processes,   \* invocations with --apply that may overlap
  Faults,      \* which faults may strike: a subset of FaultKinds
  MaxLate      \* bound: updates given up on and not yet made

FaultKinds == {"error", "kill", "late"}

Elements(s) == {s[n] : n \in DOMAIN s}

Hosts == Elements(Targets)
Items == Elements(ItemDefs)
Triggers == Elements(TriggerDefs)
Rules == Triggers \union Legacy

ASSUME PolicyAssumption ==
  /\ \A s \in {Targets, ItemDefs, TriggerDefs} : s \in Seq(Elements(s)) /\ s # << >>
  /\ Triggers \intersect Legacy = {} /\ Legacy # {}
  /\ "none" \notin Items \union Rules
  /\ Faults \subseteq FaultKinds
  /\ MaxLate \in Nat

VARIABLES
  items,  \* [Hosts -> SUBSET Items]: the policy items that exist in Zabbix
  rule,   \* [Hosts -> [Rules -> RuleStates]]: the triggers in Zabbix
  late,   \* Zabbix: updates the reconciler gave up on that may still be made
  file,   \* [Hosts -> Records]: the ledger on disk
  lock,   \* whether the lock file exists
  pc,     \* [Processes -> Steps]
  mode,   \* [Processes -> Modes]: the operation of the run
  led,    \* [Processes -> the ledger in memory]
  snap,   \* [Processes -> what the run has read of Zabbix, and made since]
  at      \* [Processes -> Nat]: position in Targets of the host in progress

zabbixVars == <<items, rule, late>>
vars == <<zabbixVars, file, lock, pc, mode, led, snap, at>>

Switch == {"off", "on"}
RuleStates == Switch \union {"absent"}
Modes == {"observe", "enforce", "rollback"}
Phases == {"observe", "enforce", "rolled-back"}
Steps == {"idle", "loaded", "locked", "host", "items", "item made", "triggers",
          "trigger made", "trigger listed", "status", "intent", "updated"}

NoChange == [rule |-> "none", old |-> "none", new |-> "none"]
NoRecord == [legacy |-> "none"]
Record ==
  [legacy   : [Legacy -> Switch],            \* the saved statuses
   items    : SUBSET Items,                  \* the items whose id is recorded
   triggers : SUBSET Triggers,
   statuses : [Rules -> Switch \union {"unset"}],
   phase    : Phases,
   pending  : {NoChange} \union [rule : Rules, old : Switch, new : Switch]]

Target(p) == Targets[at[p]]
Rec(p) == led[p][Target(p)]
Seen(p) == snap[p][Target(p)]

NoLedger == [h \in Hosts |-> NoRecord]
Unread == [h \in Hosts |-> [items |-> {}, rule |-> [r \in Rules |-> "absent"], made |-> "none"]]

(* The first definition of the sequence s that is not in done.              *)
IsNext(s, x, done) ==
  \E n \in DOMAIN s : s[n] = x /\ x \notin done /\ \A m \in 1 .. (n - 1) : s[m] \in done

-----------------------------------------------------------------------------
(* The checks of the whole target set before the first mutation             *)

(* The status a rule must have according to its record when nothing is      *)
(* pending for it.                                                          *)
Expected(rec, r) ==
  IF rec.statuses[r] # "unset" THEN rec.statuses[r]
  ELSE IF r \in Triggers THEN (IF rec.phase = "enforce" THEN "on" ELSE "off")
  ELSE (IF rec.phase = "enforce" THEN "off" ELSE rec.legacy[r])

StatusMatches(rec, r, actual) ==
  IF rec.pending.rule = r THEN actual \in {rec.pending.old, rec.pending.new}
  ELSE actual = Expected(rec, r)

Existing(rules) == {t \in Triggers : rules[t] # "absent"}

(* Every recorded object exists and every owned object is recorded.         *)
ScopeOK(h, rec) ==
  IF rec = NoRecord THEN items[h] = {} /\ Existing(rule[h]) = {}
  ELSE items[h] = rec.items /\ Existing(rule[h]) = rec.triggers

(* Faulty variant of HostAccepted: enforce does not ask for observe first.  *)
HostAcceptedAnyPhase(m, h, rec) ==
  /\ ScopeOK(h, rec)
  /\ rec = NoRecord => m # "rollback" /\ \A r \in Legacy : rule[h][r] = "on"
  /\ rec # NoRecord =>
       \A r \in Legacy \union Existing(rule[h]) : StatusMatches(rec, r, rule[h][r])
  /\ rec # NoRecord /\ rec.phase = "enforce" => m # "observe"

HostAccepted(m, h, rec) ==
  /\ ScopeOK(h, rec)
  /\ rec = NoRecord => m = "observe" /\ \A r \in Legacy : rule[h][r] = "on"
  /\ rec # NoRecord =>
       \A r \in Legacy \union Existing(rule[h]) : StatusMatches(rec, r, rule[h][r])
  /\ rec # NoRecord /\ rec.phase = "enforce" => m # "observe"
  /\ m = "enforce" =>
       /\ rec.phase \in {"observe", "enforce"}
       /\ items[h] = Items
       /\ Existing(rule[h]) = Triggers

PlanAccepted(m, ledger) == \A h \in Hosts : HostAccepted(m, h, ledger[h])

-----------------------------------------------------------------------------
(* One invocation                                                           *)

Goto(p, step) == pc' = [pc EXCEPT ![p] = step]

PersistNothing(p, rec) ==   \* faulty variant: only the memory is changed
  /\ led' = [led EXCEPT ![p][Target(p)] = rec]
  /\ UNCHANGED file

(* persist: the changed record of the host in progress goes to disk.        *)
Persist(p, rec) ==
  /\ led' = [led EXCEPT ![p][Target(p)] = rec]
  /\ file' = led'[p]

Leave(p) ==
  /\ Goto(p, "idle")
  /\ led' = [led EXCEPT ![p] = NoLedger]
  /\ snap' = [snap EXCEPT ![p] = Unread]
  /\ at' = [at EXCEPT ![p] = 1]
  /\ mode' = [mode EXCEPT ![p] = "observe"]

(* main reads the state file before it asks for the lock.                   *)
Load(p, m) ==
  /\ pc[p] = "idle"
  /\ led' = [led EXCEPT ![p] = file]
  /\ mode' = [mode EXCEPT ![p] = m]
  /\ Goto(p, "loaded")
  /\ UNCHANGED <<zabbixVars, file, lock, snap, at>>

TakeLock(p) ==
  /\ pc[p] = "loaded"
  /\ \/ ~ lock /\ lock' = TRUE /\ Goto(p, "locked") /\ UNCHANGED <<mode, led, snap, at>>
     \/ lock /\ UNCHANGED lock /\ Leave(p)
  /\ UNCHANGED <<zabbixVars, file>>

(* All targets are read and checked; what was read serves the whole run.    *)
Plan(p) ==
  /\ pc[p] = "locked"
  /\ PlanAccepted(mode[p], led[p])
  /\ snap' = [snap EXCEPT ![p] = [h \in Hosts |-> [items |-> items[h], rule |-> rule[h], made |-> "none"]]]
  /\ Goto(p, "host")
  /\ UNCHANGED <<zabbixVars, file, lock, mode, led, at>>

(* A check fails: one of the above, or one of the identity, routing, drift  *)
(* and freshness checks, which depend on what is not modelled.              *)
Refuse(p) ==
  /\ pc[p] = "locked"
  /\ lock' = FALSE
  /\ Leave(p)
  /\ UNCHANGED <<zabbixVars, file>>

NewRecord(seen) ==
  [legacy |-> [r \in Legacy |-> seen.rule[r]], items |-> {}, triggers |-> {},
   statuses |-> [r \in Rules |-> IF r \in Legacy THEN seen.rule[r] ELSE "unset"],
   phase |-> "observe", pending |-> NoChange]

(* A host without a record gets one; a status change left pending by an     *)
(* interrupted run is settled by what was read.                             *)
SettledUnread(p) == [Rec(p) EXCEPT !.pending = NoChange]   \* faulty: just dropped

Settled(p) ==
  LET change == Rec(p).pending IN
    [Rec(p) EXCEPT !.statuses[change.rule] = Seen(p).rule[change.rule], !.pending = NoChange]

OpenRecord(p) ==
  /\ pc[p] = "host"
  /\ Rec(p) = NoRecord
  /\ Persist(p, NewRecord(Seen(p)))
  /\ UNCHANGED <<zabbixVars, lock, pc, mode, snap, at>>

EnterHost(p) ==
  /\ pc[p] = "host"
  /\ Rec(p) # NoRecord
  /\ IF Rec(p).pending = NoChange THEN UNCHANGED <<led, file>> ELSE Persist(p, Settled(p))
  /\ Goto(p, IF mode[p] = "rollback" THEN "status" ELSE "items")
  /\ UNCHANGED <<zabbixVars, lock, mode, snap, at>>

(* item.create, and then the persisting of its id.                          *)
CreateItem(p, i) ==
  /\ pc[p] = "items"
  /\ IsNext(ItemDefs, i, Seen(p).items)
  /\ items' = [items EXCEPT ![Target(p)] = @ \union {i}]
  /\ snap' = [snap EXCEPT ![p][Target(p)].items = @ \union {i}, ![p][Target(p)].made = i]
  /\ Goto(p, "item made")
  /\ UNCHANGED <<rule, late, file, lock, mode, led, at>>

RecordItem(p) ==
  /\ pc[p] = "item made"
  /\ Persist(p, [Rec(p) EXCEPT !.items = @ \union {Seen(p).made}])
  /\ snap' = [snap EXCEPT ![p][Target(p)].made = "none"]
  /\ Goto(p, "items")
  /\ UNCHANGED <<zabbixVars, lock, mode, at>>

ItemsDone(p) ==
  /\ pc[p] = "items"
  /\ Seen(p).items = Items
  /\ Goto(p, "triggers")
  /\ UNCHANGED <<zabbixVars, file, lock, mode, led, snap, at>>

(* trigger.create, the persisting of its id, and then of its status.        *)
CreateTrigger(p, t) ==
  /\ pc[p] = "triggers"
  /\ IsNext(TriggerDefs, t, Existing(Seen(p).rule))
  /\ rule' = [rule EXCEPT ![Target(p)][t] = "off"]
  /\ snap' = [snap EXCEPT ![p][Target(p)].rule[t] = "off", ![p][Target(p)].made = t]
  /\ Goto(p, "trigger made")
  /\ UNCHANGED <<items, late, file, lock, mode, led, at>>

RecordTrigger(p) ==
  /\ pc[p] = "trigger made"
  /\ Persist(p, [Rec(p) EXCEPT !.triggers = @ \union {Seen(p).made}])
  /\ Goto(p, "trigger listed")
  /\ UNCHANGED <<zabbixVars, lock, mode, snap, at>>

RecordTriggerStatus(p) ==
  /\ pc[p] = "trigger listed"
  /\ Persist(p, [Rec(p) EXCEPT !.statuses[Seen(p).made] = "off"])
  /\ snap' = [snap EXCEPT ![p][Target(p)].made = "none"]
  /\ Goto(p, "triggers")
  /\ UNCHANGED <<zabbixVars, lock, mode, at>>

TriggersDone(p) ==
  /\ pc[p] = "triggers"
  /\ Existing(Seen(p).rule) = Triggers
  /\ Goto(p, "status")
  /\ UNCHANGED <<zabbixVars, file, lock, mode, led, snap, at>>

(* The status the run wants a rule to have.                                 *)
DesiredFromStatuses(p, r) ==   \* faulty variant: restores the last, not the first status
  IF r \in Triggers THEN (IF mode[p] = "enforce" THEN "on" ELSE "off")
  ELSE (IF mode[p] = "enforce" THEN "off" ELSE Rec(p).statuses[r])

Desired(p, r) ==
  IF r \in Triggers THEN (IF mode[p] = "enforce" THEN "on" ELSE "off")
  ELSE (IF mode[p] = "enforce" THEN "off" ELSE Rec(p).legacy[r])

Differing(p, rules) == {r \in rules : Seen(p).rule[r] # Desired(p, r)}

(* The rules to change next: the replacements first, the legacy rules last. *)
NextRulesAnyOrder(p) == Differing(p, Existing(Seen(p).rule) \union Legacy)   \* faulty

NextRulesReplacements(p) == Differing(p, Existing(Seen(p).rule))   \* faulty: no legacy rule

NextRules(p) ==
  LET replacements == Differing(p, Existing(Seen(p).rule)) IN
    IF replacements # {} THEN replacements ELSE Differing(p, Legacy)

(* change_status writes its intent to the ledger, calls trigger.update, and *)
(* writes the outcome.                                                      *)
IntentFromRecord(p, r) ==   \* faulty variant: the old status as recorded, not as read
  [rule |-> r, old |-> Rec(p).statuses[r], new |-> Desired(p, r)]

Intent(p, r) == [rule |-> r, old |-> Seen(p).rule[r], new |-> Desired(p, r)]

WriteIntent(p, r) ==
  /\ pc[p] = "status"
  /\ r \in NextRules(p)
  /\ Persist(p, [Rec(p) EXCEPT !.pending = Intent(p, r)])
  /\ Goto(p, "intent")
  /\ UNCHANGED <<zabbixVars, lock, mode, snap, at>>

UpdateStatus(p) ==
  /\ pc[p] = "intent"
  /\ LET change == Rec(p).pending IN rule' = [rule EXCEPT ![Target(p)][change.rule] = change.new]
  /\ Goto(p, "updated")
  /\ UNCHANGED <<items, late, file, lock, mode, led, snap, at>>

ConfirmStatus(p) ==
  /\ pc[p] = "updated"
  /\ LET change == Rec(p).pending IN
       /\ Persist(p, [Rec(p) EXCEPT !.statuses[change.rule] = change.new, !.pending = NoChange])
       /\ snap' = [snap EXCEPT ![p][Target(p)].rule[change.rule] = change.new]
  /\ Goto(p, "status")
  /\ UNCHANGED <<zabbixVars, lock, mode, at>>

(* The phase is persisted and the next host entered, or the run is over.    *)
FinishHost(p) ==
  /\ pc[p] = "status"
  /\ NextRules(p) = {}
  /\ LET rec == [Rec(p) EXCEPT !.phase = IF mode[p] = "rollback" THEN "rolled-back" ELSE mode[p]]
         ledger == [led[p] EXCEPT ![Target(p)] = rec]
     IN /\ file' = ledger
        /\ \/ /\ at[p] < Len(Targets)
              /\ led' = [led EXCEPT ![p] = ledger]
              /\ at' = [at EXCEPT ![p] = @ + 1]
              /\ Goto(p, "host")
              /\ UNCHANGED <<lock, mode, snap>>
           \/ /\ at[p] = Len(Targets)
              /\ lock' = FALSE
              /\ Leave(p)
  /\ UNCHANGED zabbixVars

-----------------------------------------------------------------------------
(* Faults                                                                   *)

Holding(p) == pc[p] \notin {"idle", "loaded"}

(* An exception: a call is refused or its answer lost, a write to disk      *)
(* fails, the host was edited meanwhile.  The lock file is removed.         *)
AbortKeepsLock(p) ==   \* faulty variant: the lock is removed on success only
  /\ "error" \in Faults
  /\ Holding(p) /\ pc[p] # "locked"
  /\ Leave(p)
  /\ UNCHANGED <<zabbixVars, file, lock>>

Abort(p) ==
  /\ "error" \in Faults
  /\ Holding(p) /\ pc[p] # "locked"
  /\ lock' = FALSE
  /\ Leave(p)
  /\ UNCHANGED <<zabbixVars, file>>

(* trigger.update times out while Zabbix still works on it.                 *)
GiveUpUpdate(p) ==
  /\ "late" \in Faults
  /\ Cardinality(late) < MaxLate
  /\ pc[p] = "intent"
  /\ late' = late \union {[host |-> Target(p), rule |-> Rec(p).pending.rule, new |-> Rec(p).pending.new]}
  /\ lock' = FALSE
  /\ Leave(p)
  /\ UNCHANGED <<items, rule, file>>

LateUpdate(u) ==
  /\ late' = late \ {u}
  /\ rule' = [rule EXCEPT ![u.host][u.rule] = u.new]
  /\ UNCHANGED <<items, file, lock, pc, mode, led, snap, at>>

(* The process dies where it stands: the lock file stays.                   *)
Kill(p) ==
  /\ "kill" \in Faults
  /\ Holding(p)
  /\ Leave(p)
  /\ UNCHANGED <<zabbixVars, file, lock>>

(* Somebody removes the lock file of a dead process.                        *)
RemoveStaleLock ==
  /\ lock
  /\ \A p \in Processes : ~ Holding(p)
  /\ lock' = FALSE
  /\ UNCHANGED <<zabbixVars, file, pc, mode, led, snap, at>>

-----------------------------------------------------------------------------
Init ==
  /\ items = [h \in Hosts |-> {}]
  /\ rule = [h \in Hosts |-> [r \in Rules |-> IF r \in Legacy THEN "on" ELSE "absent"]]
  /\ late = {}
  /\ file = NoLedger
  /\ lock = FALSE
  /\ pc = [p \in Processes |-> "idle"]
  /\ mode = [p \in Processes |-> "observe"]
  /\ led = [p \in Processes |-> NoLedger]
  /\ snap = [p \in Processes |-> Unread]
  /\ at = [p \in Processes |-> 1]

Reconcile(p) ==
  \/ TakeLock(p) \/ Plan(p) \/ Refuse(p)
  \/ OpenRecord(p) \/ EnterHost(p)
  \/ \E i \in Items : CreateItem(p, i)
  \/ RecordItem(p) \/ ItemsDone(p)
  \/ \E t \in Triggers : CreateTrigger(p, t)
  \/ RecordTrigger(p) \/ RecordTriggerStatus(p) \/ TriggersDone(p)
  \/ \E r \in Rules : WriteIntent(p, r)
  \/ UpdateStatus(p) \/ ConfirmStatus(p)
  \/ FinishHost(p)

Next ==
  \/ \E p \in Processes :
       \/ \E m \in Modes : Load(p, m)
       \/ Reconcile(p)
       \/ Abort(p) \/ GiveUpUpdate(p) \/ Kill(p)
  \/ \E u \in late : LateUpdate(u)
  \/ RemoveStaleLock

Spec == Init /\ [][Next]_vars

(* A run is a loop-free program whose every call has a timeout.             *)
FairSpec == Spec /\ \A p \in Processes : WF_vars(Reconcile(p))
-----------------------------------------------------------------------------
(* Type invariant.                                                          *)
Ledgers == [Hosts -> Record \union {NoRecord}]

TypeOK ==
  /\ items \in [Hosts -> SUBSET Items]
  /\ rule \in [Hosts -> [Rules -> RuleStates]]
  /\ late \subseteq [host : Hosts, rule : Rules, new : Switch]
  /\ file \in Ledgers
  /\ lock \in BOOLEAN
  /\ pc \in [Processes -> Steps]
  /\ mode \in [Processes -> Modes]
  /\ led \in [Processes -> Ledgers]
  /\ snap \in [Processes -> [Hosts -> [items : SUBSET Items, rule : [Rules -> RuleStates],
                                       made : Items \union Triggers \union {"none"}]]]
  /\ at \in [Processes -> DOMAIN Targets]

(* At every instant the ledger on disk explains the status of every rule it *)
(* knows: an interrupted run never looks like an edit from outside.         *)
JournalMatches ==
  \A h \in Hosts : file[h] # NoRecord =>
    \A r \in Legacy \union file[h].triggers : StatusMatches(file[h], r, rule[h][r])

(* Once any status differs from the original, whatever happened on the way, *)
(* the ledger on disk lets a rollback start: no partial creation, pending   *)
(* change or host without a record stands in its way.                       *)
RollbackPossible ==
  (\E h \in Hosts : (\E t \in Triggers : rule[h][t] = "on") \/ \E r \in Legacy : rule[h][r] = "off")
     => PlanAccepted("rollback", file)

(* "It disables only its recorded replacement triggers and restores the     *)
(* saved legacy trigger statuses": while the ledger says rolled-back and    *)
(* nothing is pending, the host alerts as it did before the policy.         *)
RolledBackIsOriginal ==
  \A h \in Hosts : file[h] # NoRecord =>
    (file[h].phase = "rolled-back" /\ file[h].pending = NoChange =>
       (\A t \in Triggers : rule[h][t] # "on") /\ \A r \in Legacy : rule[h][r] = "on")

(* "Retire only after all replacement triggers exist/are ready": a legacy   *)
(* rule is switched off only while every replacement of its host is on.     *)
RetireOnlyCovered ==
  [][\A h \in Hosts, r \in Legacy : rule[h][r] = "on" /\ rule'[h][r] = "off" =>
       \A t \in Triggers : rule[h][t] = "on"]_vars

(* A run that reports success has left every host as its mode demands.      *)
SuccessIsReal ==
  [][\A p \in Processes : FinishHost(p) /\ at[p] = Len(Targets) =>
       \A h \in Hosts :
         /\ \A t \in Triggers :
              rule[h][t] \in (CASE mode[p] = "observe" -> {"off"} [] mode[p] = "enforce" -> {"on"}
                                 [] mode[p] = "rollback" -> {"off", "absent"})
         /\ \A r \in Legacy : rule[h][r] = IF mode[p] = "enforce" THEN "off" ELSE "on"]_vars

(* "Run observe again before any new cutover": a host that was rolled back  *)
(* leaves that phase only when an observe run has completed.                *)
ObserveAfterRollback ==
  [][\A h \in Hosts :
       file[h] # NoRecord /\ file[h].phase = "rolled-back" /\ file'[h].phase # "rolled-back"
         => \E p \in Processes : FinishHost(p) /\ mode[p] = "observe"]_vars

(* Every run that is not killed ends, however it ends, and leaves the lock  *)
(* to the next: the loop over the statuses terminates, and no way out of it *)
(* keeps the lock file.                                                     *)
LockReturns == lock ~> ~ lock
=============================================================================
