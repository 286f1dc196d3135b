--------------------- MODULE WindowsServicePolicyProofs ---------------------
(***************************************************************************)
(* Safety of WindowsServicePolicy for any number of hosts, items, rules    *)
(* and invocations, which may fail or be killed anywhere and may have read *)
(* the ledger before another one had written it.  Updates that are made    *)
(* after the reconciler has given up on them ("late") are excluded: with   *)
(* them RollbackPossible does not hold.  The last section is about one     *)
(* invocation at a time, late updates included.                            *)
(***************************************************************************)
EXTENDS WindowsServicePolicy, Integers, TLAPS

Running(p) == Holding(p) /\ pc[p] # "locked"

(* One invocation holds the lock; a dead one may have left it behind.       *)
LockInv ==
  /\ \A p \in Processes : Holding(p) => lock
  /\ \A p, q \in Processes : Holding(p) /\ Holding(q) => p = q

(* What any record says, however old: the original statuses were "on", a    *)
(* pending change is about a rule it knows, and a host that was rolled back *)
(* has its original statuses and nothing pending.                           *)
RecordOK(rec) ==
  rec # NoRecord =>
    /\ rec \in Record
    /\ \A r \in Legacy : rec.legacy[r] = "on" /\ rec.statuses[r] # "unset"
    /\ \A t \in Triggers \ rec.triggers : rec.statuses[t] = "unset"
    /\ rec.pending # NoChange => rec.pending.rule \in Legacy \union rec.triggers
    /\ rec.phase = "rolled-back" =>
         /\ rec.pending = NoChange
         /\ \A r \in Legacy : rec.statuses[r] = "on"
         /\ \A t \in rec.triggers : rec.statuses[t] # "on"

RecordsInv ==
  \A h \in Hosts : RecordOK(file[h]) /\ \A p \in Processes : RecordOK(led[p][h])

Explains(rec, h) ==
  rec # NoRecord => \A r \in Legacy \union rec.triggers : StatusMatches(rec, r, rule[h][r])

(* A record fits what Zabbix has but for the item i and the triggers t that *)
(* are not yet recorded.                                                    *)
Fits(rec, h, i, t) ==
  /\ Explains(rec, h)
  /\ rec = NoRecord => /\ items[h] = {} /\ Existing(rule[h]) = {}
                       /\ \A r \in Legacy : rule[h][r] = "on"
  /\ rec # NoRecord => /\ items[h] = rec.items \union i
                       /\ Existing(rule[h]) = rec.triggers \union t

UnrecordedItems(p, h) ==
  IF pc[p] = "item made" /\ h = Target(p) THEN {Seen(p).made} ELSE {}

UnrecordedTriggers(p, h) ==
  IF pc[p] = "trigger made" /\ h = Target(p) THEN {Seen(p).made} ELSE {}

(* What a run knows of every host.                                          *)
HostOK(p, h) ==
  /\ Fits(led[p][h], h, UnrecordedItems(p, h), UnrecordedTriggers(p, h))
  /\ snap[p][h].items = items[h]
  /\ pc[p] # "updated" \/ h # Target(p) => snap[p][h].rule = rule[h]
  /\ led[p][h] = NoRecord => mode[p] = "observe"
  /\ mode[p] = "observe" /\ led[p][h] # NoRecord => led[p][h].phase # "enforce"
  /\ mode[p] = "enforce" => /\ led[p][h].phase \in {"observe", "enforce"}
                            /\ items[h] = Items /\ Existing(rule[h]) = Triggers

(* What it has established for the host in progress.                        *)
Creating == {"items", "item made", "triggers", "trigger made", "trigger listed"}

TargetOK(p) ==
  /\ pc[p] # "host" => /\ Rec(p) # NoRecord
                       /\ pc[p] \notin {"intent", "updated"} => Rec(p).pending = NoChange
  /\ pc[p] \in Creating => mode[p] # "rollback"
  /\ pc[p] \in {"item made", "trigger made", "trigger listed"} => mode[p] = "observe"
  /\ pc[p] = "item made" => Seen(p).made \in Items
  /\ pc[p] \in {"trigger made", "trigger listed"} =>
       /\ Seen(p).made \in Triggers /\ rule[Target(p)][Seen(p).made] = "off"
       /\ pc[p] = "trigger listed" <=> Seen(p).made \in Rec(p).triggers
  /\ pc[p] \in {"status", "intent", "updated"} /\ mode[p] # "rollback" =>
       Existing(rule[Target(p)]) = Triggers
  /\ pc[p] \in {"intent", "updated"} =>
       /\ file = led[p] /\ Rec(p).pending # NoChange
       /\ Rec(p).pending.new = Desired(p, Rec(p).pending.rule)
  /\ pc[p] = "intent" /\ Rec(p).pending.rule \in Legacy =>
       \A t \in Existing(rule[Target(p)]) : rule[Target(p)][t] = Desired(p, t)
  /\ pc[p] = "updated" =>
       rule[Target(p)] = [Seen(p).rule EXCEPT ![Rec(p).pending.rule] = Rec(p).pending.new]

(* A host is as the mode of the run demands.                                *)
Allowed(m) ==
  CASE m = "observe" -> {"off"} [] m = "enforce" -> {"on"} [] m = "rollback" -> {"off", "absent"}

Satisfied(m, h) ==
  /\ \A t \in Triggers : rule[h][t] \in Allowed(m)
  /\ \A r \in Legacy : rule[h][r] = IF m = "enforce" THEN "off" ELSE "on"

RunOK(p) ==
  /\ Running(p) => /\ \A h \in Hosts : HostOK(p, h)
                   /\ TargetOK(p)
                   /\ \A n \in 1..(at[p] - 1) : Satisfied(mode[p], Targets[n])
  /\ ~ Running(p) => at[p] = 1

RunInv == \A p \in Processes : RunOK(p)

(* Once any status differs from the original, every host has, and the       *)
(* ledger on disk records, all items and all triggers.                      *)
Changed ==
  \E h \in Hosts : (\E t \in Triggers : rule[h][t] = "on") \/ \E r \in Legacy : rule[h][r] = "off"

Complete(rec, h) ==
  /\ items[h] = Items /\ Existing(rule[h]) = Triggers
  /\ rec # NoRecord /\ rec.items = Items /\ rec.triggers = Triggers

ChangedInv == Changed => \A h \in Hosts : Complete(file[h], h)

IInv ==
  TypeOK /\ late = {} /\ LockInv /\ RecordsInv /\ JournalMatches /\ RunInv /\ ChangedInv

-----------------------------------------------------------------------------
(* Facts about records.                                                     *)

Change == [rule : Rules, old : Switch, new : Switch]

LEMMA ConstantFacts ==
  /\ Targets \in Seq(Hosts) /\ ItemDefs \in Seq(Items) /\ TriggerDefs \in Seq(Triggers)
  /\ Len(Targets) \in Nat /\ Len(Targets) >= 1 /\ DOMAIN Targets = 1..Len(Targets)
  /\ Items # {} /\ Triggers # {} /\ Legacy \subseteq Rules /\ Triggers \subseteq Rules
  /\ "none" \notin Rules /\ "none" \notin Items /\ "none" \notin Triggers
  /\ \A r \in Rules : r \in Triggers <=> r \notin Legacy
  /\ \A n \in DOMAIN Targets : Targets[n] \in Hosts
<1>1. /\ Targets \in Seq(Hosts) /\ ItemDefs \in Seq(Items) /\ TriggerDefs \in Seq(Triggers)
      /\ Targets # << >> /\ ItemDefs # << >> /\ TriggerDefs # << >>
  BY PolicyAssumption DEF Hosts, Items, Triggers
<1>2. /\ Len(Targets) \in Nat /\ Len(Targets) >= 1 /\ DOMAIN Targets = 1..Len(Targets)
  BY <1>1
<1>3. Items # {} /\ Triggers # {}
  <2>1. 1 \in DOMAIN ItemDefs /\ 1 \in DOMAIN TriggerDefs
    BY <1>1
  <2> QED
    BY <2>1 DEF Items, Triggers, Elements
<1>4. \A n \in DOMAIN Targets : Targets[n] \in Hosts
  BY DEF Hosts, Elements
<1> QED
  BY <1>1, <1>2, <1>3, <1>4, PolicyAssumption DEF Rules

LEMMA EarlierTargets ==
  ASSUME NEW k \in 1..Len(Targets)
  PROVE  \A n \in 1..(k - 1) : n \in DOMAIN Targets /\ Targets[n] \in Hosts
<1>1. Len(Targets) \in Nat /\ DOMAIN Targets = 1..Len(Targets)
  BY ConstantFacts
<1>2. ASSUME NEW n \in 1..(k - 1)
      PROVE  n \in 1..Len(Targets)
  BY <1>1
<1> QED
  BY <1>1, <1>2, ConstantFacts

LEMMA PendingFacts ==
  /\ NoChange.rule = "none" /\ NoChange \notin Change
  /\ \A c \in Change : c.rule \in Rules /\ c.old \in Switch /\ c.new \in Switch
BY DEF NoChange, Change, Switch

(* The updates of a record that the code makes.                             *)
LEMMA RecordFacts ==
  ASSUME NEW rec \in Record
  PROVE  /\ rec.legacy \in [Legacy -> Switch] /\ rec.items \in SUBSET Items
         /\ rec.triggers \in SUBSET Triggers
         /\ rec.statuses \in [Rules -> Switch \union {"unset"}]
         /\ rec.phase \in Phases /\ rec.pending \in {NoChange} \union Change
BY DEF Record, Change

LEMMA RecordUpdates ==
  ASSUME NEW rec \in Record
  PROVE  /\ \A i \in SUBSET Items : LET n == [rec EXCEPT !.items = i] IN
              /\ n \in Record /\ n.items = i /\ n.legacy = rec.legacy /\ n.triggers = rec.triggers
              /\ n.statuses = rec.statuses /\ n.phase = rec.phase /\ n.pending = rec.pending
         /\ \A t \in SUBSET Triggers : LET n == [rec EXCEPT !.triggers = t] IN
              /\ n \in Record /\ n.items = rec.items /\ n.legacy = rec.legacy /\ n.triggers = t
              /\ n.statuses = rec.statuses /\ n.phase = rec.phase /\ n.pending = rec.pending
         /\ \A c \in {NoChange} \union Change : LET n == [rec EXCEPT !.pending = c] IN
              /\ n \in Record /\ n.items = rec.items /\ n.legacy = rec.legacy
              /\ n.triggers = rec.triggers /\ n.statuses = rec.statuses /\ n.phase = rec.phase
              /\ n.pending = c
         /\ \A ph \in Phases : LET n == [rec EXCEPT !.phase = ph] IN
              /\ n \in Record /\ n.items = rec.items /\ n.legacy = rec.legacy
              /\ n.triggers = rec.triggers /\ n.statuses = rec.statuses /\ n.phase = ph
              /\ n.pending = rec.pending
<1>1. ASSUME NEW i \in SUBSET Items
      PROVE  LET n == [rec EXCEPT !.items = i] IN
              /\ n \in Record /\ n.items = i /\ n.legacy = rec.legacy /\ n.triggers = rec.triggers
              /\ n.statuses = rec.statuses /\ n.phase = rec.phase /\ n.pending = rec.pending
  BY DEF Record
<1>2. ASSUME NEW t \in SUBSET Triggers
      PROVE  LET n == [rec EXCEPT !.triggers = t] IN
              /\ n \in Record /\ n.items = rec.items /\ n.legacy = rec.legacy /\ n.triggers = t
              /\ n.statuses = rec.statuses /\ n.phase = rec.phase /\ n.pending = rec.pending
  BY DEF Record
<1>3. ASSUME NEW c \in {NoChange} \union Change
      PROVE  LET n == [rec EXCEPT !.pending = c] IN
              /\ n \in Record /\ n.items = rec.items /\ n.legacy = rec.legacy
              /\ n.triggers = rec.triggers /\ n.statuses = rec.statuses /\ n.phase = rec.phase
              /\ n.pending = c
  BY DEF Record, Change
<1>4. ASSUME NEW ph \in Phases
      PROVE  LET n == [rec EXCEPT !.phase = ph] IN
              /\ n \in Record /\ n.items = rec.items /\ n.legacy = rec.legacy
              /\ n.triggers = rec.triggers /\ n.statuses = rec.statuses /\ n.phase = ph
              /\ n.pending = rec.pending
  BY DEF Record
<1> QED
  BY <1>1, <1>2, <1>3, <1>4

LEMMA StatusUpdate ==
  ASSUME NEW rec \in Record, NEW r \in Rules, NEW v \in Switch,
         NEW n, n = [rec EXCEPT !.statuses[r] = v]
  PROVE  /\ n \in Record /\ n.items = rec.items /\ n.legacy = rec.legacy
         /\ n.triggers = rec.triggers /\ n.phase = rec.phase /\ n.pending = rec.pending
         /\ n.statuses = [rec.statuses EXCEPT ![r] = v]
<1> DEFINE s == [rec.statuses EXCEPT ![r] = v]
<1>1. s \in [Rules -> Switch \union {"unset"}]
  BY RecordFacts
<1>2. n = [rec EXCEPT !.statuses = s]
  OBVIOUS
<1> HIDE DEF s
<1>3. /\ n \in Record /\ n.statuses = s
      /\ n.items = rec.items /\ n.legacy = rec.legacy
      /\ n.triggers = rec.triggers /\ n.phase = rec.phase /\ n.pending = rec.pending
  BY <1>1, <1>2 DEF Record
<1> QED
  BY <1>3 DEF s

LEMMA NoRecordIsNone == NoRecord \notin Record
BY DEF NoRecord, Record

-----------------------------------------------------------------------------
(* What a step of p leaves alone.                                           *)

SnapRecord ==
  [items : SUBSET Items, rule : [Rules -> RuleStates], made : Items \union Triggers \union {"none"}]

LEMMA Types ==
  ASSUME TypeOK, NEW p \in Processes
  PROVE  /\ Target(p) \in Hosts /\ at[p] \in 1..Len(Targets)
         /\ led[p] \in Ledgers /\ mode[p] \in Modes /\ pc[p] \in Steps
         /\ \A h \in Hosts : /\ led[p][h] \in Record \union {NoRecord}
                            /\ snap[p][h] \in SnapRecord
                            /\ items[h] \in SUBSET Items
                            /\ rule[h] \in [Rules -> RuleStates]
         /\ snap \in [Processes -> [Hosts -> SnapRecord]]
BY ConstantFacts DEF TypeOK, Ledgers, SnapRecord, Target

LEMMA LedMoves ==
  ASSUME TypeOK, NEW p \in Processes, NEW rec \in Record,
         led' = [led EXCEPT ![p][Target(p)] = rec]
  PROVE  /\ led' \in [Processes -> Ledgers] /\ led'[p] \in Ledgers
         /\ led'[p][Target(p)] = rec
         /\ \A h \in Hosts \ {Target(p)} : led'[p][h] = led[p][h]
         /\ \A q \in Processes \ {p} : led'[q] = led[q]
<1> DEFINE l == [led[p] EXCEPT ![Target(p)] = rec]
<1>1. /\ Target(p) \in Hosts /\ led[p] \in [Hosts -> Record \union {NoRecord}]
      /\ led \in [Processes -> Ledgers]
  BY Types DEF Ledgers, TypeOK
<1>2. /\ l \in Ledgers /\ l[Target(p)] = rec
      /\ \A h \in Hosts \ {Target(p)} : l[h] = led[p][h]
  BY <1>1 DEF Ledgers
<1>3. led' = [led EXCEPT ![p] = l]
  OBVIOUS
<1> HIDE DEF l
<1> QED
  BY <1>1, <1>2, <1>3

LEMMA SnapMoves ==
  ASSUME TypeOK, NEW p \in Processes, NEW seen \in SnapRecord,
         snap' = [snap EXCEPT ![p][Target(p)] = seen]
  PROVE  /\ snap' \in [Processes -> [Hosts -> SnapRecord]]
         /\ snap'[p][Target(p)] = seen
         /\ \A h \in Hosts \ {Target(p)} : snap'[p][h] = snap[p][h]
<1> DEFINE l == [snap[p] EXCEPT ![Target(p)] = seen]
<1>1. /\ Target(p) \in Hosts /\ snap[p] \in [Hosts -> SnapRecord]
      /\ snap \in [Processes -> [Hosts -> SnapRecord]]
  BY Types
<1>2. /\ l \in [Hosts -> SnapRecord] /\ l[Target(p)] = seen
      /\ \A h \in Hosts \ {Target(p)} : l[h] = snap[p][h]
  BY <1>1
<1>3. snap' = [snap EXCEPT ![p] = l]
  OBVIOUS
<1> HIDE DEF l
<1> QED
  BY <1>1, <1>2, <1>3

(* p goes on: the others still do not run.                                  *)
LEMMA OthersRest ==
  ASSUME IInv, NEW p \in Processes, Holding(p), lock' = lock, NEW step \in Steps,
         pc' = [pc EXCEPT ![p] = step], \A q \in Processes \ {p} : at'[q] = at[q],
         RunOK(p)'
  PROVE  LockInv' /\ RunInv' /\ pc' \in [Processes -> Steps]
<1>1. pc \in [Processes -> Steps]
  BY DEF IInv, TypeOK
<1>2. pc'[p] = step /\ \A q \in Processes \ {p} : pc'[q] = pc[q]
  BY <1>1
<1>3. \A q \in Processes \ {p} : ~ Holding(q)
  BY DEF IInv, LockInv
<1>4. \A q \in Processes \ {p} : Holding(q)' = Holding(q)
  BY <1>2 DEF Holding
<1>5. \A q \in Processes \ {p} : RunOK(q)'
  BY <1>3, <1>4 DEF IInv, RunInv, RunOK, Running
<1>6. LockInv'
  BY <1>3, <1>4 DEF IInv, LockInv
<1> QED
  BY <1>1, <1>5, <1>6 DEF RunInv

LEMMA RunStays ==
  ASSUME NEW p \in Processes, RunOK(p), UNCHANGED <<items, rule, file>>,
         led'[p] = led[p], snap'[p] = snap[p], at'[p] = at[p], mode'[p] = mode[p], pc'[p] = pc[p]
  PROVE  RunOK(p)'
<1>1. Target(p)' = Target(p)
  BY DEF Target
<1>2. Rec(p)' = Rec(p) /\ Seen(p)' = Seen(p)
  BY <1>1 DEF Rec, Seen
<1>3. Running(p)' = Running(p)
  BY DEF Running, Holding
<1>4. \A h \in Hosts : HostOK(p, h)' = HostOK(p, h)
  BY <1>1, <1>2 DEF HostOK, Fits, Explains, UnrecordedItems, UnrecordedTriggers
<1>5. TargetOK(p)' = TargetOK(p)
  BY <1>1, <1>2 DEF TargetOK, Desired
<1>6. \A m, h : Satisfied(m, h)' = Satisfied(m, h)
  BY DEF Satisfied
<1> QED
  BY <1>3, <1>4, <1>5, <1>6 DEF RunOK

(* p leaves, with the lock or without it.                                   *)
LEMMA LeaveMoves ==
  ASSUME IInv, NEW p \in Processes, Leave(p), UNCHANGED zabbixVars,
         lock' = lock \/ (lock' = FALSE /\ Holding(p)),
         file' = file \/ (Holding(p) /\ file' \in Ledgers),
         \A h \in Hosts : RecordOK(file'[h]), JournalMatches', ChangedInv'
  PROVE  IInv'
<1>1. /\ TypeOK /\ pc' = [pc EXCEPT ![p] = "idle"]
      /\ led' = [led EXCEPT ![p] = NoLedger] /\ snap' = [snap EXCEPT ![p] = Unread]
      /\ at' = [at EXCEPT ![p] = 1] /\ mode' = [mode EXCEPT ![p] = "observe"]
  BY DEF Leave, Goto, IInv
<1>2. /\ pc'[p] = "idle" /\ \A q \in Processes \ {p} : pc'[q] = pc[q]
      /\ pc' \in [Processes -> Steps]
  BY <1>1 DEF TypeOK, Steps
<1>3. /\ NoLedger \in Ledgers /\ \A h \in Hosts : NoLedger[h] = NoRecord
  BY DEF NoLedger, Ledgers
<1>4. Unread \in [Hosts -> SnapRecord]
  <2>1. [r \in Rules |-> "absent"] \in [Rules -> RuleStates]
    BY DEF RuleStates
  <2> QED
    BY <2>1 DEF Unread, SnapRecord
<1>5. TypeOK'
  <2>1. led' \in [Processes -> Ledgers]
    BY <1>1, <1>3 DEF TypeOK
  <2>2. snap' \in [Processes -> [Hosts -> SnapRecord]]
    BY <1>1, <1>4 DEF TypeOK, SnapRecord
  <2>3. at' \in [Processes -> DOMAIN Targets] /\ mode' \in [Processes -> Modes]
    BY <1>1, ConstantFacts DEF TypeOK, Modes
  <2>4. lock' \in BOOLEAN
    BY <1>1 DEF TypeOK
  <2> QED
    BY <1>1, <1>2, <2>1, <2>2, <2>3, <2>4 DEF TypeOK, SnapRecord, zabbixVars
<1>6. /\ ~ Holding(p)' /\ \A q \in Processes \ {p} : Holding(q)' = Holding(q)
  BY <1>2 DEF Holding
<1>7. LockInv'
  BY <1>6 DEF IInv, LockInv
<1>8. RecordsInv'
  <2>1. \A h \in Hosts, q \in Processes : led'[q][h] = NoRecord \/ led'[q][h] = led[q][h]
    BY <1>1, <1>3 DEF TypeOK
  <2> QED
    BY <2>1 DEF IInv, RecordsInv, RecordOK
<1>9. RunInv'
  <2>1. RunOK(p)'
    BY <1>1, <1>6 DEF RunOK, Running, TypeOK
  <2>2. ASSUME NEW q \in Processes \ {p}
        PROVE  RunOK(q)'
    <3>1. /\ led'[q] = led[q] /\ snap'[q] = snap[q] /\ at'[q] = at[q] /\ mode'[q] = mode[q]
          /\ pc'[q] = pc[q] /\ UNCHANGED <<items, rule>>
      BY <1>1, <1>2 DEF TypeOK, zabbixVars
    <3>2. CASE ~ Holding(q)
      BY <1>6, <3>1, <3>2 DEF IInv, RunInv, RunOK, Running
    <3>3. CASE Holding(q)
      <4>1. file' = file
        BY <3>3 DEF IInv, LockInv
      <4> QED
        BY <3>1, <4>1, RunStays DEF IInv, RunInv
    <3> QED
      BY <3>2, <3>3
  <2> QED
    BY <2>1, <2>2 DEF RunInv
<1> QED
  BY <1>5, <1>7, <1>8, <1>9 DEF IInv, zabbixVars

LEMMA RunFacts ==
  ASSUME IInv, NEW p \in Processes, Running(p)
  PROVE  /\ TypeOK /\ Holding(p) /\ late = {} /\ TargetOK(p)
         /\ \A h \in Hosts : HostOK(p, h) /\ RecordOK(led[p][h])
         /\ \A n \in 1..(at[p] - 1) : Satisfied(mode[p], Targets[n])
BY DEF IInv, RunInv, RunOK, Running, RecordsInv

(* The ledger of a run that explains Zabbix may become the one on disk.     *)
LEMMA FileMoves ==
  ASSUME TypeOK, ChangedInv, UNCHANGED <<items, rule>>, file' \in Ledgers,
         \A h \in Hosts : Fits(file'[h], h, {}, {})
  PROVE  JournalMatches' /\ ChangedInv'
<1>1. JournalMatches'
  BY DEF JournalMatches, Fits, Explains
<1>2. ASSUME Changed, NEW h \in Hosts
      PROVE  Complete(file'[h], h)
  <2>1. items[h] = Items /\ Existing(rule[h]) = Triggers
    BY <1>2 DEF ChangedInv, Complete
  <2>2. file'[h] # NoRecord
    BY <2>1, ConstantFacts DEF Fits
  <2> QED
    BY <2>1, <2>2 DEF Fits, Complete
<1>3. ChangedInv'
  BY <1>2 DEF ChangedInv, Changed, Complete
<1> QED
  BY <1>1, <1>3

(* A run persists a new record of the host in progress.                     *)
LEMMA PersistMoves ==
  ASSUME IInv, NEW p \in Processes, Running(p), NEW rec \in Record, RecordOK(rec),
         Persist(p, rec), UNCHANGED <<items, rule, late, lock, mode, at>>,
         NEW seen \in SnapRecord, snap' = [snap EXCEPT ![p][Target(p)] = seen],
         NEW step \in Steps \ {"idle", "loaded", "locked", "item made", "trigger made", "updated"},
         Goto(p, step), Fits(rec, Target(p), {}, {}),
         seen.items = items[Target(p)], seen.rule = rule[Target(p)],
         mode[p] = "enforce" => rec.phase \in {"observe", "enforce"},
         mode[p] = "observe" => rec.phase # "enforce",
         TargetOK(p)'
  PROVE  IInv'
<1> DEFINE T == Target(p)
<1>1. /\ TypeOK /\ Holding(p) /\ late = {} /\ T \in Hosts
      /\ \A h \in Hosts : HostOK(p, h) /\ RecordOK(led[p][h])
  BY RunFacts, Types
<1>2. /\ led' \in [Processes -> Ledgers] /\ led'[p] \in Ledgers /\ led'[p][T] = rec
      /\ \A h \in Hosts \ {T} : led'[p][h] = led[p][h]
      /\ \A q \in Processes \ {p} : led'[q] = led[q]
      /\ file' = led'[p]
  BY <1>1, LedMoves DEF Persist
<1>3. /\ snap' \in [Processes -> [Hosts -> SnapRecord]] /\ snap'[p][T] = seen
      /\ \A h \in Hosts \ {T} : snap'[p][h] = snap[p][h]
  BY <1>1, SnapMoves
<1>4. pc' = [pc EXCEPT ![p] = step] /\ pc'[p] = step /\ T' = T
  BY <1>1 DEF Goto, TypeOK, Target
<1>5. ASSUME NEW h \in Hosts
      PROVE  Fits(led'[p][h], h, {}, {}) /\ HostOK(p, h)'
  <2>1. UnrecordedItems(p, h)' = {} /\ UnrecordedTriggers(p, h)' = {}
    BY <1>4 DEF UnrecordedItems, UnrecordedTriggers
  <2>2. CASE h = T
    <3>1. Fits(led'[p][h], h, {}, {})
      BY <1>2, <2>2
    <3>2. rec # NoRecord
      BY NoRecordIsNone
    <3>3. mode[p] = "enforce" => items[h] = Items /\ Existing(rule[h]) = Triggers
      BY <1>1 DEF HostOK
    <3>4. Fits(led[p][h], h, UnrecordedItems(p, h), UnrecordedTriggers(p, h))'
      BY <2>1, <3>1 DEF Fits, Explains
    <3> QED
      BY <1>2, <1>3, <2>2, <3>1, <3>2, <3>3, <3>4 DEF HostOK
  <2>3. CASE h # T
    <3>1. led'[p][h] = led[p][h] /\ snap'[p][h] = snap[p][h] /\ HostOK(p, h)
      BY <1>1, <1>2, <1>3, <2>3
    <3>2. UnrecordedItems(p, h) = {} /\ UnrecordedTriggers(p, h) = {}
      BY <2>3 DEF UnrecordedItems, UnrecordedTriggers
    <3>3. Fits(led'[p][h], h, {}, {})
      BY <3>1, <3>2 DEF HostOK
    <3>4. Fits(led[p][h], h, UnrecordedItems(p, h), UnrecordedTriggers(p, h))'
      BY <2>1, <3>3 DEF Fits, Explains
    <3> QED
      BY <1>4, <2>3, <3>1, <3>3, <3>4 DEF HostOK
  <2> QED
    BY <2>2, <2>3
<1>6. JournalMatches' /\ ChangedInv'
  BY <1>1, <1>2, <1>5, FileMoves DEF IInv
<1>7. \A n \in 1..(at'[p] - 1) : Satisfied(mode[p], Targets[n])'
  BY RunFacts DEF Satisfied
<1>8. RunOK(p)'
  <2>1. Running(p)'
    BY <1>4 DEF Running, Holding
  <2> QED
    BY <1>5, <1>7, <2>1 DEF RunOK
<1>9. LockInv' /\ RunInv' /\ pc' \in [Processes -> Steps]
  BY <1>1, <1>4, <1>8, OthersRest
<1>10. TypeOK'
  BY <1>1, <1>2, <1>3, <1>9 DEF TypeOK, SnapRecord
<1>11. RecordsInv'
  <2>1. \A h \in Hosts, q \in Processes : led'[q][h] = rec \/ led'[q][h] = led[q][h]
    BY <1>2
  <2>2. \A h \in Hosts, q \in Processes : RecordOK(led'[q][h])
    BY <2>1 DEF IInv, RecordsInv
  <2> QED
    BY <1>2, <2>2 DEF RecordsInv
<1> QED
  BY <1>1, <1>6, <1>9, <1>10, <1>11 DEF IInv

(* A run goes to its next step and does nothing else.                       *)
LEMMA GotoMoves ==
  ASSUME IInv, NEW p \in Processes, Running(p),
         UNCHANGED <<items, rule, late, file, lock, mode, led, snap, at>>,
         NEW step \in Steps \ {"idle", "loaded", "locked", "item made", "trigger made", "updated"},
         Goto(p, step), pc[p] \notin {"item made", "trigger made", "updated"},
         TargetOK(p)'
  PROVE  IInv'
<1>1. TypeOK /\ Holding(p) /\ late = {} /\ \A h \in Hosts : HostOK(p, h)
  BY RunFacts
<1>2. pc' = [pc EXCEPT ![p] = step] /\ pc'[p] = step
  BY <1>1 DEF Goto, TypeOK
<1>3. ASSUME NEW h \in Hosts
      PROVE  HostOK(p, h)'
  <2>1. /\ UnrecordedItems(p, h) = {} /\ UnrecordedTriggers(p, h) = {}
        /\ UnrecordedItems(p, h)' = {} /\ UnrecordedTriggers(p, h)' = {}
    BY <1>2 DEF UnrecordedItems, UnrecordedTriggers
  <2>2. Fits(led[p][h], h, UnrecordedItems(p, h), UnrecordedTriggers(p, h))'
    BY <1>1, <2>1 DEF HostOK, Fits, Explains
  <2> QED
    BY <1>1, <1>2, <2>2 DEF HostOK, Target
<1>4. \A n \in 1..(at'[p] - 1) : Satisfied(mode[p], Targets[n])'
  BY RunFacts DEF Satisfied
<1>5. RunOK(p)'
  <2>1. Running(p)'
    BY <1>2 DEF Running, Holding
  <2> QED
    BY <1>3, <1>4, <2>1 DEF RunOK
<1>6. LockInv' /\ RunInv' /\ pc' \in [Processes -> Steps]
  BY <1>1, <1>2, <1>5, OthersRest
<1> QED
  BY <1>1, <1>6 DEF IInv, TypeOK, RecordsInv, JournalMatches, ChangedInv, Changed, Complete

-----------------------------------------------------------------------------
(* The invocations: how a run begins and ends.                              *)

LEMMA LoadStep ==
  ASSUME IInv, NEW p \in Processes, NEW m \in Modes, Load(p, m)
  PROVE  IInv'
<1>1. /\ TypeOK /\ pc[p] = "idle" /\ UNCHANGED <<items, rule, late, file, lock, snap, at>>
      /\ led' = [led EXCEPT ![p] = file] /\ mode' = [mode EXCEPT ![p] = m]
      /\ pc' = [pc EXCEPT ![p] = "loaded"]
  BY DEF Load, Goto, zabbixVars, IInv
<1>2. TypeOK'
  BY <1>1 DEF TypeOK, Steps
<1>3. /\ ~ Holding(p) /\ ~ Holding(p)'
      /\ \A q \in Processes \ {p} : Holding(q)' = Holding(q)
  BY <1>1 DEF Holding, TypeOK
<1>4. LockInv'
  BY <1>1, <1>3 DEF IInv, LockInv
<1>5. RecordsInv'
  <2>1. \A h \in Hosts, q \in Processes : led'[q][h] = file[h] \/ led'[q][h] = led[q][h]
    BY <1>1 DEF TypeOK
  <2> QED
    BY <1>1, <2>1 DEF IInv, RecordsInv, RecordOK
<1>6. RunInv'
  <2>1. RunOK(p)'
    BY <1>1, <1>3 DEF RunOK, Running, IInv, RunInv
  <2>2. ASSUME NEW q \in Processes \ {p}
        PROVE  RunOK(q)'
    <3>1. /\ led'[q] = led[q] /\ snap'[q] = snap[q] /\ at'[q] = at[q] /\ mode'[q] = mode[q]
          /\ pc'[q] = pc[q]
      BY <1>1 DEF TypeOK
    <3> QED
      BY <1>1, <3>1, RunStays DEF IInv, RunInv
  <2> QED
    BY <2>1, <2>2 DEF RunInv
<1> QED
  BY <1>1, <1>2, <1>4, <1>5, <1>6 DEF IInv, JournalMatches, ChangedInv, Changed, Complete

(* Nothing is written by a run that gives up.                               *)
LEMMA GiveUpStep ==
  ASSUME IInv, NEW p \in Processes, Leave(p), UNCHANGED <<items, rule, late, file>>,
         lock' = lock \/ (lock' = FALSE /\ Holding(p))
  PROVE  IInv'
<1>1. JournalMatches' /\ ChangedInv'
  BY DEF IInv, JournalMatches, ChangedInv, Changed, Complete
<1>2. \A h \in Hosts : RecordOK(file'[h])
  BY DEF IInv, RecordsInv
<1> QED
  BY <1>1, <1>2, LeaveMoves DEF zabbixVars

LEMMA TakeLockStep ==
  ASSUME IInv, NEW p \in Processes, TakeLock(p)
  PROVE  IInv'
<1>1. pc[p] = "loaded" /\ UNCHANGED <<items, rule, late, file>>
  BY DEF TakeLock, zabbixVars
<1>2. CASE lock /\ UNCHANGED lock /\ Leave(p)
  BY <1>1, <1>2, GiveUpStep
<1>3. CASE ~ lock /\ lock' = TRUE /\ Goto(p, "locked") /\ UNCHANGED <<mode, led, snap, at>>
  <2>1. /\ pc' = [pc EXCEPT ![p] = "locked"] /\ TypeOK
        /\ \A q \in Processes : ~ Holding(q)
    BY <1>3 DEF Goto, IInv, LockInv
  <2>2. TypeOK' /\ pc'[p] = "locked" /\ \A q \in Processes \ {p} : pc'[q] = pc[q]
    BY <1>1, <1>3, <2>1 DEF TypeOK, Steps
  <2>3. \A q \in Processes \ {p} : ~ Holding(q)'
    BY <2>1, <2>2 DEF Holding
  <2>4. LockInv'
    BY <1>3, <2>3 DEF LockInv
  <2>5. RunInv'
    <3>1. RunOK(p)'
      BY <1>3, <2>1, <2>2 DEF RunOK, Running, IInv, RunInv
    <3>2. \A q \in Processes \ {p} : RunOK(q)'
      BY <1>3, <2>1, <2>3 DEF RunOK, Running, IInv, RunInv
    <3> QED
      BY <3>1, <3>2 DEF RunInv
  <2> QED
    BY <1>1, <1>3, <2>2, <2>4, <2>5 DEF IInv, RecordsInv, JournalMatches, ChangedInv, Changed, Complete
<1> QED
  BY <1>2, <1>3 DEF TakeLock

LEMMA EndStep ==
  ASSUME IInv, NEW p \in Processes, Refuse(p) \/ Abort(p) \/ Kill(p)
  PROVE  IInv'
<1>1. Holding(p) /\ Leave(p) /\ UNCHANGED <<items, rule, late, file>>
  BY DEF Refuse, Abort, Kill, Holding, zabbixVars
<1>2. lock' = FALSE \/ lock' = lock
  BY DEF Refuse, Abort, Kill
<1> QED
  BY <1>1, <1>2, GiveUpStep

LEMMA RemoveStaleLockStep ==
  ASSUME IInv, RemoveStaleLock
  PROVE  IInv'
<1>1. /\ UNCHANGED <<items, rule, late, file, pc, mode, led, snap, at>> /\ lock' = FALSE
      /\ \A p \in Processes : ~ Holding(p)
  BY DEF RemoveStaleLock, zabbixVars
<1>2. LockInv'
  BY <1>1 DEF LockInv, Holding
<1>3. RunInv'
  BY <1>1, RunStays DEF IInv, RunInv
<1> QED
  BY <1>1, <1>2, <1>3 DEF IInv, TypeOK, RecordsInv, JournalMatches, ChangedInv, Changed, Complete

(* What was read of Zabbix fits the ledger in memory, although it was read  *)
(* from disk before the lock was taken.                                     *)
LEMMA PlanStep ==
  ASSUME IInv, NEW p \in Processes, Plan(p)
  PROVE  IInv'
<1> DEFINE l == [h \in Hosts |-> [items |-> items[h], rule |-> rule[h], made |-> "none"]]
<1>1. /\ TypeOK /\ Holding(p) /\ pc[p] = "locked" /\ PlanAccepted(mode[p], led[p])
      /\ snap' = [snap EXCEPT ![p] = l] /\ pc' = [pc EXCEPT ![p] = "host"]
      /\ UNCHANGED <<items, rule, late, file, lock, mode, led, at>> /\ at[p] = 1
  BY DEF Plan, Goto, IInv, Holding, zabbixVars, RunInv, RunOK, Running
<1>2. l \in [Hosts -> SnapRecord] /\ \A h \in Hosts : l[h].items = items[h] /\ l[h].rule = rule[h]
  BY Types, <1>1 DEF SnapRecord
<1> HIDE DEF l
<1>3. snap' \in [Processes -> [Hosts -> SnapRecord]] /\ snap'[p] = l /\ pc'[p] = "host"
  BY <1>1, <1>2, Types DEF TypeOK
<1>4. ASSUME NEW h \in Hosts
      PROVE  HostOK(p, h)'
  <2>1. HostAccepted(mode[p], h, led[p][h])
    BY <1>1 DEF PlanAccepted
  <2>2. Fits(led[p][h], h, {}, {})
    BY <2>1 DEF HostAccepted, ScopeOK, Fits, Explains
  <2>3. UnrecordedItems(p, h)' = {} /\ UnrecordedTriggers(p, h)' = {}
    BY <1>3 DEF UnrecordedItems, UnrecordedTriggers
  <2>4. Fits(led[p][h], h, UnrecordedItems(p, h), UnrecordedTriggers(p, h))'
    BY <1>1, <2>2, <2>3 DEF Fits, Explains
  <2>5. /\ led[p][h] = NoRecord => mode[p] = "observe"
        /\ mode[p] = "observe" /\ led[p][h] # NoRecord => led[p][h].phase # "enforce"
        /\ mode[p] = "enforce" => /\ led[p][h].phase \in {"observe", "enforce"}
                                  /\ items[h] = Items /\ Existing(rule[h]) = Triggers
    BY <2>1 DEF HostAccepted
  <2> QED
    BY <1>1, <1>2, <1>3, <2>4, <2>5 DEF HostOK
<1>5. TargetOK(p)'
  BY <1>3 DEF TargetOK, Creating
<1>6. RunOK(p)'
  BY <1>1, <1>3, <1>4, <1>5 DEF RunOK, Running, Holding
<1>7. LockInv' /\ RunInv' /\ pc' \in [Processes -> Steps]
  <2>1. "host" \in Steps
    BY DEF Steps
  <2> QED
    BY <1>1, <1>6, <2>1, OthersRest
<1> QED
  BY <1>1, <1>3, <1>7 DEF IInv, TypeOK, SnapRecord, RecordsInv, JournalMatches, ChangedInv, Changed, Complete

-----------------------------------------------------------------------------
(* The steps of a run.                                                      *)

(* What a run knows of the host in progress.                                *)
LEMMA TargetFacts ==
  ASSUME IInv, NEW p \in Processes, Running(p)
  PROVE  /\ TypeOK /\ TargetOK(p) /\ HostOK(p, Target(p)) /\ RecordOK(Rec(p))
         /\ Target(p) \in Hosts /\ Rec(p) \in Record \union {NoRecord} /\ Seen(p) \in SnapRecord
         /\ rule[Target(p)] \in [Rules -> RuleStates] /\ items[Target(p)] \in SUBSET Items
         /\ Rec(p) = led[p][Target(p)] /\ Seen(p) = snap[p][Target(p)]
         /\ Seen(p).items = items[Target(p)]
         /\ pc[p] # "updated" => Seen(p).rule = rule[Target(p)]
         /\ Rec(p) # NoRecord => Explains(Rec(p), Target(p))
         /\ pc[p] \notin {"item made", "trigger made"} => Fits(Rec(p), Target(p), {}, {})
<1> DEFINE T == Target(p)
<1>1. /\ TypeOK /\ TargetOK(p) /\ \A h \in Hosts : HostOK(p, h) /\ RecordOK(led[p][h])
  BY RunFacts
<1>2. /\ T \in Hosts /\ Rec(p) \in Record \union {NoRecord} /\ Seen(p) \in SnapRecord
      /\ rule[T] \in [Rules -> RuleStates] /\ items[T] \in SUBSET Items
      /\ Rec(p) = led[p][T] /\ Seen(p) = snap[p][T]
  BY <1>1, Types DEF Rec, Seen
<1>3. HostOK(p, T) /\ RecordOK(Rec(p))
  BY <1>1, <1>2
<1>4. Fits(Rec(p), T, UnrecordedItems(p, T), UnrecordedTriggers(p, T))
  BY <1>2, <1>3 DEF HostOK
<1>5. Explains(Rec(p), T)
  BY <1>4 DEF Fits
<1>6. Seen(p).items = items[T] /\ (pc[p] # "updated" => Seen(p).rule = rule[T])
  BY <1>2, <1>3 DEF HostOK
<1>7. pc[p] \notin {"item made", "trigger made"} => Fits(Rec(p), T, {}, {})
  <2>1. pc[p] \notin {"item made", "trigger made"} =>
          UnrecordedItems(p, T) = {} /\ UnrecordedTriggers(p, T) = {}
    BY DEF UnrecordedItems, UnrecordedTriggers
  <2> QED
    BY <1>4, <2>1
<1> QED
  BY <1>1, <1>2, <1>3, <1>5, <1>6, <1>7

(* A change that has been made or not is settled.                           *)
SettledAs(rec, v) ==
  [rec EXCEPT !.statuses[rec.pending.rule] = v, !.pending = NoChange]

LEMMA SettledRecord ==
  ASSUME NEW rec \in Record, RecordOK(rec), NEW h \in Hosts, Explains(rec, h),
         rec.pending # NoChange, NEW v \in Switch, rule[h][rec.pending.rule] = v,
         NEW n, n = SettledAs(rec, v)
  PROVE  /\ n \in Record /\ RecordOK(n) /\ Explains(n, h)
         /\ n.items = rec.items /\ n.triggers = rec.triggers /\ n.phase = rec.phase
         /\ n.legacy = rec.legacy /\ n.pending = NoChange
<1> DEFINE r == rec.pending.rule
<1>1. rec # NoRecord /\ rec.pending \in Change /\ r \in Rules /\ r \in Legacy \union rec.triggers
  BY NoRecordIsNone, RecordFacts, PendingFacts DEF RecordOK
<1>2. /\ n \in Record /\ n.items = rec.items /\ n.legacy = rec.legacy
      /\ n.triggers = rec.triggers /\ n.phase = rec.phase /\ n.pending = NoChange
      /\ n.statuses = [rec.statuses EXCEPT ![r] = v]
  <2> DEFINE s == [rec.statuses EXCEPT ![r] = v]  m == [rec EXCEPT !.statuses = s]
  <2>1. n = [m EXCEPT !.pending = NoChange] /\ s \in [Rules -> Switch \union {"unset"}]
    BY <1>1, RecordFacts DEF SettledAs
  <2> HIDE DEF s
  <2>2. /\ m \in Record /\ m.items = rec.items /\ m.legacy = rec.legacy
        /\ m.triggers = rec.triggers /\ m.phase = rec.phase /\ m.statuses = s
    BY <2>1 DEF Record
  <2> HIDE DEF m
  <2>3. /\ n \in Record /\ n.items = m.items /\ n.legacy = m.legacy
        /\ n.triggers = m.triggers /\ n.statuses = m.statuses /\ n.phase = m.phase
        /\ n.pending = NoChange
    BY <2>1, <2>2 DEF Record
  <2> QED
    BY <2>2, <2>3 DEF s
<1>3. rec.statuses \in [Rules -> Switch \union {"unset"}] /\ rec.triggers \subseteq Triggers
  BY RecordFacts
<1> HIDE DEF r
<1>4. v # "unset"
  BY DEF Switch
<1>5. \A q \in Rules : n.statuses[q] = IF q = r THEN v ELSE rec.statuses[q]
  BY <1>2, <1>3
<1>6. RecordOK(n)
  <2>1. rec.phase # "rolled-back"
    BY <1>1 DEF RecordOK
  <2>2. \A q \in Legacy : n.legacy[q] = "on" /\ n.statuses[q] # "unset"
    BY <1>1, <1>2, <1>4, <1>5, ConstantFacts DEF RecordOK
  <2>3. \A t \in Triggers \ n.triggers : n.statuses[t] = "unset"
    BY <1>1, <1>2, <1>5, ConstantFacts DEF RecordOK
  <2> QED
    BY <1>2, <2>1, <2>2, <2>3 DEF RecordOK
<1>7. Explains(n, h)
  <2> SUFFICES ASSUME NEW q \in Legacy \union rec.triggers
               PROVE  StatusMatches(n, q, rule[h][q])
    BY <1>2 DEF Explains
  <2>1. q \in Rules /\ q # "none" /\ StatusMatches(rec, q, rule[h][q])
    BY <1>1, <1>3, ConstantFacts DEF Explains
  <2>2. CASE q = r
    <3>1. Expected(n, q) = v
      BY <1>4, <1>5, <2>1, <2>2 DEF Expected
    <3> QED
      BY <1>2, <2>1, <2>2, <3>1, PendingFacts DEF StatusMatches, r
  <2>3. CASE q # r
    <3>1. rule[h][q] = Expected(rec, q)
      BY <2>1, <2>3 DEF StatusMatches, r
    <3>2. Expected(n, q) = Expected(rec, q)
      BY <1>2, <1>5, <2>1, <2>3 DEF Expected
    <3> QED
      BY <1>2, <2>1, <3>1, <3>2, PendingFacts DEF StatusMatches
  <2> QED
    BY <2>2, <2>3
<1> QED
  BY <1>2, <1>6, <1>7

LEMMA OpenRecordStep ==
  ASSUME IInv, NEW p \in Processes, OpenRecord(p)
  PROVE  IInv'
<1> DEFINE T == Target(p)  rec == NewRecord(Seen(p))
<1>1. /\ pc[p] = "host" /\ Rec(p) = NoRecord /\ Persist(p, rec) /\ Running(p)
      /\ UNCHANGED <<items, rule, late, lock, pc, mode, snap, at>>
  BY DEF OpenRecord, zabbixVars, Running, Holding
<1>2. /\ T \in Hosts /\ Fits(NoRecord, T, {}, {}) /\ Seen(p) \in SnapRecord
      /\ Seen(p).items = items[T] /\ Seen(p).rule = rule[T]
      /\ mode[p] = "observe"
  BY <1>1, TargetFacts DEF HostOK
<1>3. items[T] = {} /\ Existing(rule[T]) = {} /\ \A r \in Legacy : rule[T][r] = "on"
  BY <1>2 DEF Fits
<1>4. /\ rec.legacy = [r \in Legacy |-> "on"] /\ rec.items = {} /\ rec.triggers = {}
      /\ rec.statuses = [r \in Rules |-> IF r \in Legacy THEN "on" ELSE "unset"]
      /\ rec.phase = "observe" /\ rec.pending = NoChange
  BY <1>2, <1>3 DEF NewRecord
<1>5. rec \in Record
  <2>1. rec = [legacy |-> rec.legacy, items |-> rec.items, triggers |-> rec.triggers,
               statuses |-> rec.statuses, phase |-> rec.phase, pending |-> rec.pending]
    BY DEF NewRecord
  <2>2. /\ rec.legacy \in [Legacy -> Switch] /\ rec.phase \in Phases
        /\ rec.statuses \in [Rules -> Switch \union {"unset"}]
    BY <1>4 DEF Switch, Phases
  <2> HIDE DEF rec
  <2> QED
    BY <1>4, <2>1, <2>2 DEF Record
<1> HIDE DEF rec
<1>6. RecordOK(rec)
  BY <1>4, <1>5, ConstantFacts DEF RecordOK
<1>7. Fits(rec, T, {}, {})
  <2>1. rec # NoRecord
    BY <1>5, NoRecordIsNone
  <2>2. ASSUME NEW r \in Legacy
        PROVE  StatusMatches(rec, r, rule[T][r])
    BY <1>3, <1>4, PendingFacts, ConstantFacts DEF StatusMatches, Expected
  <2> QED
    BY <1>3, <1>4, <2>1, <2>2 DEF Fits, Explains
<1>8. TargetOK(p)'
  BY <1>1 DEF TargetOK, Creating
<1>9. Goto(p, "host") /\ snap' = [snap EXCEPT ![p][T] = Seen(p)]
  <2>1. TypeOK
    BY DEF IInv
  <2>2. snap' = snap /\ snap \in [Processes -> [Hosts -> SnapRecord]]
    BY <1>1, <2>1, Types
  <2>3. snap = [snap EXCEPT ![p] = [snap[p] EXCEPT ![T] = snap[p][T]]]
    BY <1>2, <2>2
  <2> QED
    BY <1>1, <2>1, <2>2, <2>3 DEF Goto, Seen, TypeOK
<1> QED
  BY <1>1, <1>2, <1>4, <1>5, <1>6, <1>7, <1>8, <1>9, PersistMoves DEF Steps

LEMMA PersistFacts ==
  ASSUME IInv, NEW p \in Processes, Running(p), NEW rec \in Record, Persist(p, rec),
         UNCHANGED <<mode, at>>, NEW seen \in SnapRecord,
         snap' = [snap EXCEPT ![p][Target(p)] = seen], NEW step \in Steps, Goto(p, step)
  PROVE  /\ Target(p)' = Target(p) /\ Rec(p)' = rec /\ Seen(p)' = seen /\ pc'[p] = step
         /\ file' = led'[p] /\ mode'[p] = mode[p] /\ rec # NoRecord
<1>1. TypeOK
  BY DEF IInv
<1>2. Target(p)' = Target(p)
  BY DEF Target
<1>3. led'[p][Target(p)] = rec /\ file' = led'[p]
  BY <1>1, LedMoves DEF Persist
<1>4. snap'[p][Target(p)] = seen
  BY <1>1, SnapMoves
<1>5. pc'[p] = step
  BY <1>1 DEF Goto, TypeOK
<1> QED
  BY <1>2, <1>3, <1>4, <1>5, NoRecordIsNone DEF Rec, Seen

LEMMA SnapStays ==
  ASSUME TypeOK, NEW p \in Processes, snap' = snap
  PROVE  snap' = [snap EXCEPT ![p][Target(p)] = Seen(p)]
<1>1. snap \in [Processes -> [Hosts -> SnapRecord]] /\ Target(p) \in Hosts
  BY Types
<1>2. snap = [snap EXCEPT ![p] = [snap[p] EXCEPT ![Target(p)] = snap[p][Target(p)]]]
  BY <1>1
<1> QED
  BY <1>2 DEF Seen

LEMMA EnterHostStep ==
  ASSUME IInv, NEW p \in Processes, EnterHost(p)
  PROVE  IInv'
<1> DEFINE T == Target(p)  step == IF mode[p] = "rollback" THEN "status" ELSE "items"
<1>1. /\ pc[p] = "host" /\ Rec(p) # NoRecord /\ Goto(p, step) /\ Running(p)
      /\ UNCHANGED <<items, rule, late, lock, mode, snap, at>>
      /\ IF Rec(p).pending = NoChange THEN UNCHANGED <<led, file>> ELSE Persist(p, Settled(p))
  BY DEF EnterHost, zabbixVars, Running, Holding
<1>2. /\ TypeOK /\ T \in Hosts /\ HostOK(p, T) /\ RecordOK(Rec(p)) /\ Rec(p) \in Record
      /\ Seen(p) \in SnapRecord /\ Seen(p).items = items[T] /\ Seen(p).rule = rule[T]
      /\ Explains(Rec(p), T) /\ Rec(p) = led[p][T] /\ Fits(Rec(p), T, {}, {})
      /\ rule[T] \in [Rules -> RuleStates]
  <2>1. Running(p) /\ pc[p] \notin {"item made", "trigger made", "updated"}
    BY <1>1
  <2> QED
    BY <1>1, <2>1, TargetFacts
<1>3. step \in Steps \ {"idle", "loaded", "locked", "item made", "trigger made", "updated"}
  BY DEF Steps
<1>4. step \in {"items", "status"} /\ (step = "items" => mode[p] # "rollback")
      /\ (step = "status" => mode[p] = "rollback")
  OBVIOUS
<1> HIDE DEF step
<1>5. CASE Rec(p).pending = NoChange
  <2>1. UNCHANGED <<led, file>>
    BY <1>1, <1>5
  <2>2. Target(p)' = T /\ Rec(p)' = Rec(p) /\ pc'[p] = step
    BY <1>1, <1>2, <2>1 DEF Target, Rec, Goto, TypeOK
  <2>3. TargetOK(p)'
    BY <1>1, <1>4, <1>5, <2>2 DEF TargetOK, Creating
  <2> QED
    BY <1>1, <1>3, <2>1, <2>3, GotoMoves
<1>6. CASE Rec(p).pending # NoChange
  <2> DEFINE r == Rec(p).pending.rule  v == rule[T][r]  n == Settled(p)
  <2>1. Rec(p).pending \in Change /\ r \in Rules /\ r \in Legacy \union Rec(p).triggers
    BY <1>1, <1>2, <1>6, RecordFacts, PendingFacts DEF RecordOK
  <2>2. v \in Switch
    <3>1. StatusMatches(Rec(p), r, v)
      BY <1>1, <1>2, <2>1 DEF Explains
    <3> QED
      BY <2>1, <3>1, PendingFacts DEF StatusMatches
  <2>3. n = SettledAs(Rec(p), v)
    BY <1>2 DEF Settled, SettledAs
  <2> HIDE DEF n, v
  <2>4. rule[T][Rec(p).pending.rule] = v
    BY DEF v
  <2>5. /\ n \in Record /\ RecordOK(n) /\ Explains(n, T)
        /\ n.items = Rec(p).items /\ n.triggers = Rec(p).triggers /\ n.phase = Rec(p).phase
        /\ n.pending = NoChange
    <3>1. Rec(p) \in Record /\ RecordOK(Rec(p)) /\ T \in Hosts /\ Explains(Rec(p), T)
      BY <1>2
    <3> HIDE DEF T
    <3> QED
      BY <1>6, <2>2, <2>3, <2>4, <3>1, SettledRecord
  <2>6. Persist(p, n)
    BY <1>1, <1>6 DEF n
  <2>7. Fits(n, T, {}, {})
    BY <1>1, <1>2, <2>5, NoRecordIsNone DEF Fits
  <2>8. snap' = [snap EXCEPT ![p][T] = Seen(p)]
    BY <1>1, <1>2, SnapStays
  <2>9. /\ mode[p] = "enforce" => n.phase \in {"observe", "enforce"}
        /\ mode[p] = "observe" => n.phase # "enforce"
    BY <1>1, <1>2, <2>5 DEF HostOK
  <2>10. Rec(p)' = n /\ pc'[p] = step /\ mode'[p] = mode[p]
    BY <1>1, <1>2, <1>3, <2>5, <2>6, <2>8, PersistFacts
  <2>11. TargetOK(p)'
    BY <1>4, <2>5, <2>10, NoRecordIsNone DEF TargetOK, Creating
  <2> QED
    BY <1>1, <1>2, <1>3, <2>5, <2>6, <2>7, <2>8, <2>9, <2>11, PersistMoves
<1> QED
  BY <1>5, <1>6

LEMMA DoneStep ==
  ASSUME IInv, NEW p \in Processes, ItemsDone(p) \/ TriggersDone(p)
  PROVE  IInv'
<1> DEFINE step == IF pc[p] = "items" THEN "triggers" ELSE "status"
<1>1. /\ pc[p] \in {"items", "triggers"} /\ Goto(p, step) /\ Running(p)
      /\ UNCHANGED <<items, rule, late, file, lock, mode, led, snap, at>>
      /\ pc[p] = "triggers" => Existing(Seen(p).rule) = Triggers
  BY DEF ItemsDone, TriggersDone, zabbixVars, Running, Holding
<1>2. step \in Steps \ {"idle", "loaded", "locked", "item made", "trigger made", "updated"}
  BY DEF Steps
<1>3. TypeOK /\ TargetOK(p) /\ Seen(p).rule = rule[Target(p)]
  <2>1. Running(p) /\ pc[p] \notin {"item made", "trigger made", "updated"}
    BY <1>1
  <2> QED
    BY <1>1, <2>1, TargetFacts
<1>4. Target(p)' = Target(p) /\ Rec(p)' = Rec(p) /\ pc'[p] = step
  BY <1>1, <1>3 DEF Target, Rec, Goto, TypeOK
<1>5. TargetOK(p)'
  BY <1>1, <1>3, <1>4 DEF TargetOK, Creating, Existing
<1> QED
  BY <1>1, <1>2, <1>5, GotoMoves

(* What a run has read of its host, with an item or a trigger it has made.  *)
LEMMA SeenItem ==
  ASSUME TypeOK, NEW p \in Processes, NEW i \in Items,
         snap' = [snap EXCEPT ![p][Target(p)].items = @ \union {i}, ![p][Target(p)].made = i]
  PROVE  \E seen \in SnapRecord :
           /\ snap' = [snap EXCEPT ![p][Target(p)] = seen]
           /\ seen.items = Seen(p).items \union {i} /\ seen.rule = Seen(p).rule /\ seen.made = i
<1> DEFINE T == Target(p)  s == snap[p][T]
           a == [s EXCEPT !.items = s.items \union {i}]  b == [a EXCEPT !.made = i]
           l == [snap[p] EXCEPT ![T] = a]  f == [snap EXCEPT ![p] = l]
<1>1. T \in Hosts /\ s \in SnapRecord /\ snap \in [Processes -> [Hosts -> SnapRecord]]
  BY Types
<1>2. snap' = [f EXCEPT ![p] = [f[p] EXCEPT ![T] = [f[p][T] EXCEPT !.made = i]]]
  OBVIOUS
<1> HIDE DEF T
<1>3. /\ a \in SnapRecord /\ a.items = s.items \union {i} /\ a.rule = s.rule
      /\ b \in SnapRecord /\ b.items = s.items \union {i} /\ b.rule = s.rule /\ b.made = i
  BY <1>1 DEF SnapRecord
<1> HIDE DEF s
<1>4. f[p] = l /\ l[T] = a
  BY <1>1
<1>5. snap' = [f EXCEPT ![p] = [l EXCEPT ![T] = b]]
  BY <1>2, <1>4
<1> HIDE DEF a, b
<1>6. [l EXCEPT ![T] = b] = [snap[p] EXCEPT ![T] = b]
  BY <1>1
<1>7. snap' = [snap EXCEPT ![p] = [snap[p] EXCEPT ![T] = b]]
  BY <1>1, <1>5, <1>6
<1> QED
  BY <1>3, <1>7 DEF T, s, Seen

LEMMA SeenTrigger ==
  ASSUME TypeOK, NEW p \in Processes, NEW t \in Triggers, CreateTrigger(p, t)
  PROVE  \E seen \in SnapRecord :
           /\ snap' = [snap EXCEPT ![p][Target(p)] = seen]
           /\ seen.items = Seen(p).items /\ seen.rule = [Seen(p).rule EXCEPT ![t] = "off"]
           /\ seen.made = t
<1> DEFINE T == Target(p)  s == snap[p][T]  g == [s.rule EXCEPT ![t] = "off"]
           a == [s EXCEPT !.rule = g]  b == [a EXCEPT !.made = t]
           l == [snap[p] EXCEPT ![T] = a]  f == [snap EXCEPT ![p] = l]
<1>1. T \in Hosts /\ s \in SnapRecord /\ snap \in [Processes -> [Hosts -> SnapRecord]]
  BY Types
<1>2. snap' = [f EXCEPT ![p] = [f[p] EXCEPT ![T] = [f[p][T] EXCEPT !.made = t]]]
  BY DEF CreateTrigger
<1> HIDE DEF T
<1>3. g \in [Rules -> RuleStates]
  BY <1>1, ConstantFacts DEF SnapRecord, RuleStates, Switch
<1> HIDE DEF g
<1>4. /\ a \in SnapRecord /\ a.items = s.items /\ a.rule = g
      /\ b \in SnapRecord /\ b.items = s.items /\ b.rule = g /\ b.made = t
  BY <1>1, <1>3 DEF SnapRecord
<1> HIDE DEF s
<1>5. f[p] = l /\ l[T] = a
  BY <1>1
<1>6. snap' = [f EXCEPT ![p] = [l EXCEPT ![T] = b]]
  BY <1>2, <1>5
<1> HIDE DEF a, b
<1>7. [l EXCEPT ![T] = b] = [snap[p] EXCEPT ![T] = b]
  BY <1>1
<1>8. snap' = [snap EXCEPT ![p] = [snap[p] EXCEPT ![T] = b]]
  BY <1>1, <1>6, <1>7
<1> QED
  BY <1>4, <1>8 DEF T, s, g, Seen

LEMMA SeenMade ==
  ASSUME TypeOK, NEW p \in Processes,
         snap' = [snap EXCEPT ![p][Target(p)].made = "none"]
  PROVE  \E seen \in SnapRecord :
           /\ snap' = [snap EXCEPT ![p][Target(p)] = seen]
           /\ seen.items = Seen(p).items /\ seen.rule = Seen(p).rule
<1> DEFINE T == Target(p)  s == snap[p][T]  a == [s EXCEPT !.made = "none"]
<1>1. T \in Hosts /\ s \in SnapRecord
  BY Types
<1>2. a \in SnapRecord /\ a.items = s.items /\ a.rule = s.rule
  BY <1>1 DEF SnapRecord
<1> QED
  BY <1>2 DEF Seen

(* A run changes Zabbix at its host.                                        *)
LEMMA ZabbixMoves ==
  ASSUME IInv, NEW p \in Processes, Running(p), UNCHANGED <<late, file, lock, mode, led, at>>,
         pc[p] \notin {"item made", "trigger made", "updated"},
         NEW step \in Steps \ {"idle", "loaded", "locked"}, Goto(p, step),
         items' \in [Hosts -> SUBSET Items], rule' \in [Hosts -> [Rules -> RuleStates]],
         \A h \in Hosts \ {Target(p)} : items'[h] = items[h] /\ rule'[h] = rule[h],
         NEW seen \in SnapRecord, snap' = [snap EXCEPT ![p][Target(p)] = seen],
         HostOK(p, Target(p))', TargetOK(p)', JournalMatches', ChangedInv',
         Satisfied(mode[p], Target(p)) => Satisfied(mode[p], Target(p))'
  PROVE  IInv'
<1> DEFINE T == Target(p)
<1>1. /\ TypeOK /\ Holding(p) /\ late = {} /\ T \in Hosts /\ T' = T
      /\ \A h \in Hosts : HostOK(p, h)
  BY RunFacts, Types DEF Target
<1>2. pc' = [pc EXCEPT ![p] = step] /\ pc'[p] = step
  BY <1>1 DEF Goto, TypeOK
<1>3. /\ snap' \in [Processes -> [Hosts -> SnapRecord]]
      /\ \A h \in Hosts \ {T} : snap'[p][h] = snap[p][h]
  BY <1>1, SnapMoves
<1>4. ASSUME NEW h \in Hosts
      PROVE  HostOK(p, h)'
  <2>1. CASE h = T
    BY <1>1, <2>1
  <2>2. CASE h # T
    <3>1. /\ UnrecordedItems(p, h) = {} /\ UnrecordedTriggers(p, h) = {}
          /\ UnrecordedItems(p, h)' = {} /\ UnrecordedTriggers(p, h)' = {}
      BY <1>1, <2>2 DEF UnrecordedItems, UnrecordedTriggers
    <3>2. /\ items'[h] = items[h] /\ rule'[h] = rule[h] /\ snap'[p][h] = snap[p][h]
          /\ HostOK(p, h)
      BY <1>1, <1>3, <2>2
    <3>3. Fits(led[p][h], h, UnrecordedItems(p, h), UnrecordedTriggers(p, h))'
      BY <3>1, <3>2 DEF HostOK, Fits, Explains
    <3> QED
      BY <1>1, <2>2, <3>2, <3>3 DEF HostOK
  <2> QED
    BY <2>1, <2>2
<1>5. \A n \in 1..(at'[p] - 1) : Satisfied(mode[p], Targets[n])'
  <2> SUFFICES ASSUME NEW n \in 1..(at[p] - 1)
               PROVE  Satisfied(mode[p], Targets[n])'
    OBVIOUS
  <2>1. Satisfied(mode[p], Targets[n])
    BY RunFacts
  <2>2. Targets[n] \in Hosts
    BY <1>1, Types, EarlierTargets
  <2>3. CASE Targets[n] = T
    BY <1>1, <2>1, <2>3
  <2>4. CASE Targets[n] # T
    BY <2>1, <2>2, <2>4 DEF Satisfied
  <2> QED
    BY <2>3, <2>4
<1>6. RunOK(p)'
  <2>1. Running(p)'
    BY <1>2 DEF Running, Holding
  <2> QED
    BY <1>4, <1>5, <2>1 DEF RunOK
<1>7. LockInv' /\ RunInv' /\ pc' \in [Processes -> Steps]
  BY <1>1, <1>2, <1>6, OthersRest
<1>8. TypeOK'
  BY <1>1, <1>3, <1>7 DEF TypeOK, SnapRecord
<1>9. RecordsInv'
  BY DEF IInv, RecordsInv
<1> QED
  BY <1>1, <1>7, <1>8, <1>9 DEF IInv

LEMMA CreateItemStep ==
  ASSUME IInv, NEW p \in Processes, NEW i \in Items, CreateItem(p, i)
  PROVE  IInv'
<1> DEFINE T == Target(p)
<1>1. /\ pc[p] = "items" /\ Running(p) /\ Goto(p, "item made")
      /\ items' = [items EXCEPT ![T] = items[T] \union {i}]
      /\ snap' = [snap EXCEPT ![p][T].items = @ \union {i}, ![p][T].made = i]
      /\ UNCHANGED <<rule, late, file, lock, mode, led, at>> /\ i \notin Seen(p).items
  BY DEF CreateItem, Running, Holding, IsNext
<1>2. /\ TypeOK /\ T \in Hosts /\ HostOK(p, T) /\ TargetOK(p) /\ items[T] \in SUBSET Items
      /\ Seen(p).items = items[T] /\ Seen(p).rule = rule[T] /\ Rec(p) = led[p][T]
      /\ Fits(Rec(p), T, {}, {})
  BY <1>1, TargetFacts
<1>3. i \notin items[T] /\ mode[p] = "observe" /\ Rec(p) # NoRecord /\ Rec(p).pending = NoChange
  <2>1. i \notin items[T]
    BY <1>1, <1>2
  <2>2. mode[p] # "enforce"
    BY <1>2, <2>1 DEF HostOK
  <2>3. mode[p] # "rollback" /\ Rec(p) # NoRecord /\ Rec(p).pending = NoChange
    BY <1>1, <1>2 DEF TargetOK, Creating
  <2>4. mode[p] \in Modes
    BY <1>2, Types
  <2> QED
    BY <2>1, <2>2, <2>3, <2>4 DEF Modes
<1>4. PICK seen \in SnapRecord :
        /\ snap' = [snap EXCEPT ![p][T] = seen]
        /\ seen.items = Seen(p).items \union {i} /\ seen.rule = Seen(p).rule /\ seen.made = i
  BY <1>1, <1>2, SeenItem
<1>5. /\ items' \in [Hosts -> SUBSET Items] /\ rule' \in [Hosts -> [Rules -> RuleStates]]
      /\ items'[T] = items[T] \union {i} /\ \A h \in Hosts \ {T} : items'[h] = items[h]
  BY <1>1, <1>2 DEF TypeOK
<1>6. /\ Target(p)' = T /\ Rec(p)' = Rec(p) /\ Seen(p)' = seen /\ pc'[p] = "item made"
      /\ snap'[p][T] = seen
  BY <1>1, <1>2, <1>4, SnapMoves DEF Target, Rec, Seen, Goto, TypeOK
<1>7. HostOK(p, T)'
  <2>1. UnrecordedItems(p, T)' = {i} /\ UnrecordedTriggers(p, T)' = {}
    BY <1>4, <1>6 DEF UnrecordedItems, UnrecordedTriggers
  <2>2. Fits(led[p][T], T, UnrecordedItems(p, T), UnrecordedTriggers(p, T))'
    <3>1. Explains(Rec(p), T)' /\ Existing(rule[T])' = Existing(rule[T])
      BY <1>1, <1>2, <1>3, <1>6 DEF Fits, Explains
    <3>2. Fits(Rec(p), T, {i}, {})'
      BY <1>2, <1>3, <1>5, <1>6, <3>1 DEF Fits
    <3>3. led'[p][T] = Rec(p)'
      BY <1>1, <1>2, <1>6
    <3> QED
      BY <1>6, <2>1, <3>2, <3>3
  <2> QED
    BY <1>1, <1>2, <1>3, <1>4, <1>5, <1>6, <2>2 DEF HostOK
<1>8. TargetOK(p)'
  BY <1>1, <1>3, <1>4, <1>6 DEF TargetOK, Creating
<1>9. JournalMatches' /\ ChangedInv'
  <2>1. ~ Changed
    BY <1>2, <1>3 DEF IInv, ChangedInv, Complete
  <2> QED
    BY <1>1, <2>1 DEF IInv, JournalMatches, ChangedInv, Changed
<1>10. Satisfied(mode[p], T) => Satisfied(mode[p], T)'
  BY <1>1, <1>6 DEF Satisfied
<1>11. "item made" \in Steps \ {"idle", "loaded", "locked"}
  BY DEF Steps
<1> QED
  BY <1>1, <1>4, <1>5, <1>7, <1>8, <1>9, <1>10, <1>11, ZabbixMoves

LEMMA RecordItemStep ==
  ASSUME IInv, NEW p \in Processes, RecordItem(p)
  PROVE  IInv'
<1> DEFINE T == Target(p)  i == Rec(p).items \union {Seen(p).made}
           rec == [Rec(p) EXCEPT !.items = i]
<1>1. /\ pc[p] = "item made" /\ Running(p) /\ Goto(p, "items") /\ Persist(p, rec)
      /\ snap' = [snap EXCEPT ![p][T].made = "none"]
      /\ UNCHANGED <<items, rule, late, lock, mode, at>>
  BY DEF RecordItem, Running, Holding, zabbixVars
<1>2. /\ TypeOK /\ T \in Hosts /\ HostOK(p, T) /\ TargetOK(p) /\ items[T] \in SUBSET Items
      /\ RecordOK(Rec(p)) /\ Rec(p) \in Record \union {NoRecord} /\ Rec(p) = led[p][T]
      /\ Seen(p).items = items[T] /\ Seen(p).rule = rule[T]
  BY <1>1, TargetFacts
<1>3. /\ Rec(p) # NoRecord /\ Rec(p) \in Record /\ Rec(p).pending = NoChange
      /\ mode[p] = "observe" /\ Seen(p).made \in Items
  BY <1>1, <1>2 DEF TargetOK
<1>4. Fits(Rec(p), T, {Seen(p).made}, {})
  <2>1. UnrecordedItems(p, T) = {Seen(p).made} /\ UnrecordedTriggers(p, T) = {}
    BY <1>1 DEF UnrecordedItems, UnrecordedTriggers
  <2> QED
    BY <1>2, <2>1 DEF HostOK
<1>5. /\ rec \in Record /\ rec.items = i /\ rec.legacy = Rec(p).legacy
      /\ rec.triggers = Rec(p).triggers /\ rec.statuses = Rec(p).statuses
      /\ rec.phase = Rec(p).phase /\ rec.pending = Rec(p).pending
  <2>1. i \in SUBSET Items
    BY <1>3, RecordFacts
  <2> HIDE DEF i
  <2> QED
    BY <1>3, <2>1, RecordUpdates
<1> HIDE DEF rec
<1>6. PICK seen \in SnapRecord :
        /\ snap' = [snap EXCEPT ![p][T] = seen]
        /\ seen.items = Seen(p).items /\ seen.rule = Seen(p).rule
  BY <1>1, <1>2, SeenMade
<1>7. RecordOK(rec)
  BY <1>2, <1>3, <1>5 DEF RecordOK
<1>8. Fits(rec, T, {}, {})
  <2>1. rec # NoRecord
    BY <1>5, NoRecordIsNone
  <2> QED
    BY <1>3, <1>4, <1>5, <2>1 DEF Fits, Explains, StatusMatches, Expected
<1>9. "items" \in Steps \ {"idle", "loaded", "locked", "item made", "trigger made", "updated"}
  BY DEF Steps
<1>10. Rec(p)' = rec /\ pc'[p] = "items" /\ mode'[p] = mode[p] /\ rec # NoRecord
  BY <1>1, <1>5, <1>6, <1>9, PersistFacts
<1>11. TargetOK(p)'
  BY <1>3, <1>5, <1>10 DEF TargetOK, Creating
<1>12. /\ mode[p] = "enforce" => rec.phase \in {"observe", "enforce"}
       /\ mode[p] = "observe" => rec.phase # "enforce"
  BY <1>2, <1>3, <1>5 DEF HostOK
<1>13. seen.items = items[T] /\ seen.rule = rule[T]
  BY <1>2, <1>6
<1> QED
  BY <1>1, <1>5, <1>6, <1>7, <1>8, <1>9, <1>11, <1>12, <1>13, PersistMoves

(* No record expects a rule to be absent.                                   *)
LEMMA NeverAbsent ==
  ASSUME NEW rec \in Record, NEW r \in Rules, NEW v, StatusMatches(rec, r, v)
  PROVE  v \in Switch
<1>1. /\ rec.statuses[r] \in Switch \union {"unset"}
      /\ r \in Legacy => rec.legacy[r] \in Switch
      /\ rec.pending \in {NoChange} \union Change
  BY RecordFacts
<1>2. CASE rec.pending.rule = r
  <2>1. rec.pending \in Change
    BY <1>1, <1>2, PendingFacts, ConstantFacts
  <2> QED
    BY <1>2, <2>1, PendingFacts DEF StatusMatches
<1>3. CASE rec.pending.rule # r
  <2>1. Expected(rec, r) \in Switch
    BY <1>1, ConstantFacts DEF Expected, Switch
  <2> QED
    BY <1>3, <2>1 DEF StatusMatches
<1> QED
  BY <1>2, <1>3

LEMMA CreateTriggerStep ==
  ASSUME IInv, NEW p \in Processes, NEW t \in Triggers, CreateTrigger(p, t)
  PROVE  IInv'
<1> DEFINE T == Target(p)  g == [rule[T] EXCEPT ![t] = "off"]
<1>1. /\ pc[p] = "triggers" /\ Running(p) /\ Goto(p, "trigger made")
      /\ rule' = [rule EXCEPT ![T] = g]
      /\ snap' = [snap EXCEPT ![p][T].rule[t] = "off", ![p][T].made = t]
      /\ UNCHANGED <<items, late, file, lock, mode, led, at>>
      /\ t \notin Existing(Seen(p).rule)
  BY DEF CreateTrigger, Running, Holding, IsNext
<1>2. /\ TypeOK /\ T \in Hosts /\ HostOK(p, T) /\ TargetOK(p)
      /\ rule[T] \in [Rules -> RuleStates] /\ Rec(p) \in Record \union {NoRecord}
      /\ Seen(p).items = items[T] /\ Seen(p).rule = rule[T] /\ Rec(p) = led[p][T]
      /\ Fits(Rec(p), T, {}, {})
  BY <1>1, TargetFacts
<1>3. t \in Rules /\ t \notin Legacy /\ rule[T][t] = "absent"
  BY <1>1, <1>2, ConstantFacts DEF Existing
<1>4. /\ mode[p] = "observe" /\ Rec(p) # NoRecord /\ Rec(p).pending = NoChange
      /\ Rec(p) \in Record
  <2>1. mode[p] # "enforce"
    BY <1>2, <1>3 DEF HostOK, Existing
  <2>2. mode[p] # "rollback" /\ Rec(p) # NoRecord /\ Rec(p).pending = NoChange
    BY <1>1, <1>2 DEF TargetOK, Creating
  <2>3. mode[p] \in Modes
    BY <1>2, Types
  <2> QED
    BY <1>2, <2>1, <2>2, <2>3 DEF Modes
<1>5. PICK seen \in SnapRecord :
        /\ snap' = [snap EXCEPT ![p][T] = seen] /\ seen.items = Seen(p).items
        /\ seen.rule = [Seen(p).rule EXCEPT ![t] = "off"] /\ seen.made = t
  BY <1>2, SeenTrigger
<1>6. /\ g \in [Rules -> RuleStates] /\ g[t] = "off"
      /\ \A r \in Rules \ {t} : g[r] = rule[T][r]
  BY <1>2, <1>3 DEF RuleStates, Switch
<1>7. seen.rule = g
  BY <1>2, <1>5
<1> HIDE DEF g
<1>8. /\ rule' \in [Hosts -> [Rules -> RuleStates]] /\ items' \in [Hosts -> SUBSET Items]
      /\ rule'[T] = g /\ \A h \in Hosts \ {T} : rule'[h] = rule[h]
  BY <1>1, <1>2, <1>6 DEF TypeOK
<1>9. /\ Target(p)' = T /\ Rec(p)' = Rec(p) /\ Seen(p)' = seen /\ pc'[p] = "trigger made"
      /\ snap'[p][T] = seen
  <2>1. Target(p)' = T /\ Rec(p)' = Rec(p) /\ pc'[p] = "trigger made"
    BY <1>1, <1>2 DEF Target, Rec, Goto, TypeOK
  <2>2. snap'[p][T] = seen
    BY <1>2, <1>5, SnapMoves
  <2> QED
    BY <2>1, <2>2 DEF Seen
<1>10. Existing(g) = Existing(rule[T]) \union {t} /\ t \notin Existing(rule[T])
  BY <1>3, <1>6, ConstantFacts DEF Existing
<1>11. t \notin Rec(p).triggers
  BY <1>2, <1>4, <1>10 DEF Fits
<1>12. HostOK(p, T)'
  <2>1. UnrecordedItems(p, T)' = {} /\ UnrecordedTriggers(p, T)' = {t}
    BY <1>5, <1>9 DEF UnrecordedItems, UnrecordedTriggers
  <2>2. Explains(Rec(p), T)'
    <3>1. Explains(Rec(p), T)
      BY <1>2 DEF Fits
    <3>2. \A r \in Legacy \union Rec(p).triggers : g[r] = rule[T][r]
      BY <1>3, <1>4, <1>6, <1>11, RecordFacts, ConstantFacts
    <3> QED
      BY <1>4, <1>8, <1>9, <3>1, <3>2 DEF Explains
  <2>3. Existing(rule[T])' = Existing(rule[T]) \union {t}
    BY <1>8, <1>9, <1>10 DEF Existing
  <2>4. Fits(Rec(p), T, {}, {t})'
    BY <1>1, <1>2, <1>4, <1>9, <2>2, <2>3 DEF Fits
  <2>5. led'[p][T] = Rec(p)' /\ mode'[p] = "observe" /\ items'[T] = items[T]
    BY <1>1, <1>2, <1>4, <1>9
  <2>6. Fits(led[p][T], T, UnrecordedItems(p, T), UnrecordedTriggers(p, T))'
    BY <1>9, <2>1, <2>4, <2>5
  <2>7. snap'[p][T].items = items'[T] /\ snap'[p][T].rule = rule'[T]
    BY <1>2, <1>5, <1>7, <1>8, <1>9, <2>5
  <2>8. led'[p][T] # NoRecord /\ led'[p][T].phase # "enforce"
    BY <1>2, <1>4, <1>9, <2>5 DEF HostOK
  <2> QED
    BY <1>9, <2>5, <2>6, <2>7, <2>8 DEF HostOK
<1>13. TargetOK(p)'
  BY <1>1, <1>4, <1>5, <1>6, <1>8, <1>9, <1>11 DEF TargetOK, Creating
<1>14. JournalMatches'
  <2> SUFFICES ASSUME NEW h \in Hosts, file[h] # NoRecord,
                      NEW r \in Legacy \union file[h].triggers
               PROVE  StatusMatches(file[h], r, rule'[h][r])
    BY <1>1 DEF JournalMatches
  <2>1. StatusMatches(file[h], r, rule[h][r])
    BY DEF IInv, JournalMatches
  <2>2. file[h] \in Record
    BY <1>2 DEF TypeOK, Ledgers
  <2>3. r \in Rules
    BY <2>2, RecordFacts, ConstantFacts
  <2>4. h # T \/ r # t
    BY <1>3, <2>1, <2>2, <2>3, NeverAbsent DEF Switch
  <2>5. rule'[h][r] = rule[h][r]
    BY <1>6, <1>8, <2>3, <2>4
  <2> QED
    BY <2>1, <2>5
<1>15. ChangedInv'
  <2>1. ~ Changed
    BY <1>2, <1>3 DEF IInv, ChangedInv, Complete, Existing
  <2>2. \A h \in Hosts, r \in Rules : rule'[h][r] = rule[h][r] \/ (r = t /\ rule'[h][r] = "off")
    BY <1>6, <1>8
  <2>3. ~ Changed'
    BY <1>3, <2>1, <2>2, ConstantFacts DEF Changed
  <2> QED
    BY <2>3 DEF ChangedInv
<1>16. Satisfied(mode[p], T) => Satisfied(mode[p], T)'
  <2>1. ~ Satisfied(mode[p], T)
    BY <1>3, <1>4 DEF Satisfied, Allowed
  <2> QED
    BY <2>1
<1>17. "trigger made" \in Steps \ {"idle", "loaded", "locked"}
  BY DEF Steps
<1> QED
  BY <1>1, <1>5, <1>8, <1>12, <1>13, <1>14, <1>15, <1>16, <1>17, ZabbixMoves

LEMMA RecordTriggerStep ==
  ASSUME IInv, NEW p \in Processes, RecordTrigger(p)
  PROVE  IInv'
<1> DEFINE T == Target(p)  m == Seen(p).made  l == Rec(p).triggers \union {m}
           rec == [Rec(p) EXCEPT !.triggers = l]
<1>1. /\ pc[p] = "trigger made" /\ Running(p) /\ Goto(p, "trigger listed") /\ Persist(p, rec)
      /\ UNCHANGED <<items, rule, late, lock, mode, snap, at>>
  BY DEF RecordTrigger, Running, Holding, zabbixVars
<1>2. /\ TypeOK /\ T \in Hosts /\ HostOK(p, T) /\ TargetOK(p) /\ Seen(p) \in SnapRecord
      /\ RecordOK(Rec(p)) /\ Rec(p) \in Record \union {NoRecord} /\ Rec(p) = led[p][T]
      /\ Seen(p).items = items[T] /\ Seen(p).rule = rule[T]
  BY <1>1, TargetFacts
<1>3. /\ Rec(p) # NoRecord /\ Rec(p) \in Record /\ Rec(p).pending = NoChange
      /\ mode[p] = "observe" /\ m \in Triggers /\ rule[T][m] = "off"
      /\ m \notin Rec(p).triggers
  BY <1>1, <1>2 DEF TargetOK
<1>4. Fits(Rec(p), T, {}, {m}) /\ Rec(p).phase # "enforce"
  <2>1. UnrecordedItems(p, T) = {} /\ UnrecordedTriggers(p, T) = {m}
    BY <1>1 DEF UnrecordedItems, UnrecordedTriggers
  <2> QED
    BY <1>2, <1>3, <2>1 DEF HostOK
<1>5. /\ rec \in Record /\ rec.items = Rec(p).items /\ rec.legacy = Rec(p).legacy
      /\ rec.triggers = l /\ rec.statuses = Rec(p).statuses
      /\ rec.phase = Rec(p).phase /\ rec.pending = Rec(p).pending
  <2>1. l \in SUBSET Triggers
    BY <1>3, RecordFacts
  <2> HIDE DEF l
  <2> QED
    BY <1>3, <2>1, RecordUpdates
<1> HIDE DEF rec, m
<1>6. RecordOK(rec)
  <2>1. Rec(p).statuses[m] = "unset"
    BY <1>2, <1>3 DEF RecordOK
  <2> QED
    BY <1>2, <1>3, <1>5, <2>1 DEF RecordOK
<1>7. Explains(rec, T)
  <2> SUFFICES ASSUME NEW r \in Legacy \union l
               PROVE  StatusMatches(rec, r, rule[T][r])
    BY <1>5 DEF Explains
  <2>1. CASE r = m
    <3>1. Rec(p).statuses[m] = "unset" /\ m # "none"
      BY <1>2, <1>3, ConstantFacts DEF RecordOK
    <3>2. Expected(rec, m) = "off"
      BY <1>3, <1>4, <1>5, <3>1 DEF Expected
    <3> QED
      BY <1>3, <1>5, <2>1, <3>1, <3>2, PendingFacts DEF StatusMatches
  <2>2. CASE r # m
    <3>1. StatusMatches(Rec(p), r, rule[T][r])
      BY <1>3, <1>4, <2>2 DEF Fits, Explains
    <3> QED
      BY <1>5, <3>1 DEF StatusMatches, Expected
  <2> QED
    BY <2>1, <2>2
<1>8. Fits(rec, T, {}, {}) /\ rec # NoRecord
  BY <1>3, <1>4, <1>5, <1>7, NoRecordIsNone DEF Fits
<1>9. "trigger listed" \in Steps \ {"idle", "loaded", "locked", "item made", "trigger made", "updated"}
  BY DEF Steps
<1>10. snap' = [snap EXCEPT ![p][T] = Seen(p)]
  BY <1>1, <1>2, SnapStays
<1>11. /\ Rec(p)' = rec /\ pc'[p] = "trigger listed" /\ mode'[p] = mode[p]
       /\ Seen(p)' = Seen(p) /\ Target(p)' = T
  BY <1>1, <1>2, <1>5, <1>9, <1>10, PersistFacts
<1>12. TargetOK(p)'
  <2>1. Seen(p)'.made = m /\ rule'[T][m] = "off" /\ m \in rec.triggers
    BY <1>1, <1>3, <1>5, <1>11 DEF m
  <2> QED
    BY <1>3, <1>5, <1>8, <1>11, <2>1 DEF TargetOK, Creating
<1> QED
  BY <1>1, <1>2, <1>3, <1>4, <1>5, <1>6, <1>8, <1>9, <1>10, <1>12, PersistMoves

LEMMA RecordTriggerStatusStep ==
  ASSUME IInv, NEW p \in Processes, RecordTriggerStatus(p)
  PROVE  IInv'
<1> DEFINE T == Target(p)  m == Seen(p).made
           rec == [Rec(p) EXCEPT !.statuses[m] = "off"]
<1>1. /\ pc[p] = "trigger listed" /\ Running(p) /\ Goto(p, "triggers") /\ Persist(p, rec)
      /\ snap' = [snap EXCEPT ![p][T].made = "none"]
      /\ UNCHANGED <<items, rule, late, lock, mode, at>>
  BY DEF RecordTriggerStatus, Running, Holding, zabbixVars
<1>2. /\ TypeOK /\ T \in Hosts /\ HostOK(p, T) /\ TargetOK(p)
      /\ RecordOK(Rec(p)) /\ Rec(p) \in Record \union {NoRecord} /\ Rec(p) = led[p][T]
      /\ Seen(p).items = items[T] /\ Seen(p).rule = rule[T] /\ Fits(Rec(p), T, {}, {})
  BY <1>1, TargetFacts
<1>3. /\ Rec(p) # NoRecord /\ Rec(p) \in Record /\ Rec(p).pending = NoChange
      /\ mode[p] = "observe" /\ m \in Triggers /\ rule[T][m] = "off"
      /\ m \in Rec(p).triggers /\ Rec(p).phase # "enforce"
  BY <1>1, <1>2 DEF TargetOK, HostOK
<1>4. m \in Rules /\ m \notin Legacy /\ "off" \in Switch /\ "off" # "unset"
  BY <1>3, ConstantFacts DEF Switch
<1>5. /\ rec \in Record /\ rec.items = Rec(p).items /\ rec.legacy = Rec(p).legacy
      /\ rec.triggers = Rec(p).triggers /\ rec.phase = Rec(p).phase
      /\ rec.pending = Rec(p).pending
      /\ rec.statuses = [Rec(p).statuses EXCEPT ![m] = "off"]
  <2> DEFINE s == [Rec(p).statuses EXCEPT ![m] = "off"]
  <2>1. s \in [Rules -> Switch \union {"unset"}] /\ rec = [Rec(p) EXCEPT !.statuses = s]
    BY <1>3, <1>4, RecordFacts
  <2> HIDE DEF s, rec
  <2>2. /\ rec \in Record /\ rec.statuses = s
        /\ rec.items = Rec(p).items /\ rec.legacy = Rec(p).legacy
        /\ rec.triggers = Rec(p).triggers /\ rec.phase = Rec(p).phase
        /\ rec.pending = Rec(p).pending
    BY <1>3, <2>1 DEF Record
  <2> QED
    BY <2>2 DEF s
<1> HIDE DEF rec, m
<1>6. \A r \in Rules : rec.statuses[r] = IF r = m THEN "off" ELSE Rec(p).statuses[r]
  BY <1>3, <1>4, <1>5, RecordFacts
<1>7. RecordOK(rec)
  BY <1>2, <1>3, <1>4, <1>5, <1>6, ConstantFacts DEF RecordOK
<1>8. Explains(rec, T)
  <2> SUFFICES ASSUME NEW r \in Legacy \union Rec(p).triggers
               PROVE  StatusMatches(rec, r, rule[T][r])
    BY <1>5 DEF Explains
  <2>1. r \in Rules /\ r # "none"
    BY <1>3, RecordFacts, ConstantFacts
  <2>2. CASE r = m
    <3>1. Expected(rec, m) = "off"
      BY <1>4, <1>6 DEF Expected
    <3> QED
      BY <1>3, <1>5, <2>1, <2>2, <3>1, PendingFacts DEF StatusMatches
  <2>3. CASE r # m
    <3>1. StatusMatches(Rec(p), r, rule[T][r])
      BY <1>2, <1>3 DEF Fits, Explains
    <3>2. Expected(rec, r) = Expected(Rec(p), r)
      BY <1>5, <1>6, <2>1, <2>3 DEF Expected
    <3> QED
      BY <1>5, <3>1, <3>2 DEF StatusMatches
  <2> QED
    BY <2>2, <2>3
<1>9. Fits(rec, T, {}, {}) /\ rec # NoRecord
  BY <1>2, <1>3, <1>5, <1>8, NoRecordIsNone DEF Fits
<1>10. PICK seen \in SnapRecord :
        /\ snap' = [snap EXCEPT ![p][T] = seen]
        /\ seen.items = Seen(p).items /\ seen.rule = Seen(p).rule
  BY <1>1, <1>2, SeenMade
<1>11. "triggers" \in Steps \ {"idle", "loaded", "locked", "item made", "trigger made", "updated"}
  BY DEF Steps
<1>12. Rec(p)' = rec /\ pc'[p] = "triggers" /\ mode'[p] = mode[p]
  BY <1>1, <1>5, <1>10, <1>11, PersistFacts
<1>13. TargetOK(p)'
  BY <1>3, <1>5, <1>9, <1>12 DEF TargetOK, Creating
<1>14. seen.items = items[T] /\ seen.rule = rule[T]
  BY <1>2, <1>10
<1> QED
  BY <1>1, <1>3, <1>5, <1>7, <1>9, <1>10, <1>11, <1>13, <1>14, PersistMoves

(* What a run wants: nothing but the original where it does not enforce.    *)
LEMMA DesiredFacts ==
  ASSUME NEW p \in Processes, mode[p] \in Modes, Rec(p) \in Record, RecordOK(Rec(p))
  PROVE  /\ \A r \in Rules : Desired(p, r) \in Switch
         /\ \A t \in Triggers : Desired(p, t) = IF mode[p] = "enforce" THEN "on" ELSE "off"
         /\ \A r \in Legacy : Desired(p, r) = IF mode[p] = "enforce" THEN "off" ELSE "on"
<1>1. \A r \in Legacy : Rec(p).legacy[r] = "on"
  BY NoRecordIsNone DEF RecordOK
<1> QED
  BY <1>1, ConstantFacts DEF Desired, Switch

(* A rule that has its desired status leaves its host satisfied.            *)
LEMMA DesiredSatisfies ==
  ASSUME NEW p \in Processes, mode' = mode, mode[p] \in Modes, Rec(p) \in Record, RecordOK(Rec(p)),
         NEW h \in Hosts, rule[h] \in [Rules -> RuleStates], NEW r \in Rules,
         rule'[h] = [rule[h] EXCEPT ![r] = Desired(p, r)]
  PROVE  Satisfied(mode[p], h) => Satisfied(mode[p], h)'
<1>1. \A q \in Rules : rule'[h][q] = rule[h][q] \/ (q = r /\ rule'[h][q] = Desired(p, r))
  OBVIOUS
<1>2. \A t \in Triggers : Desired(p, t) \in Allowed(mode[p])
  BY DesiredFacts DEF Modes, Allowed
<1>3. ASSUME Satisfied(mode[p], h)
      PROVE  Satisfied(mode[p], h)'
  <2>1. ASSUME NEW t \in Triggers
        PROVE  rule'[h][t] \in Allowed(mode[p])
    BY <1>1, <1>2, <1>3, ConstantFacts DEF Satisfied
  <2>2. ASSUME NEW q \in Legacy
        PROVE  rule'[h][q] = IF mode[p] = "enforce" THEN "off" ELSE "on"
    BY <1>1, <1>3, DesiredFacts, ConstantFacts DEF Satisfied
  <2> QED
    BY <2>1, <2>2 DEF Satisfied, Allowed
<1> QED
  BY <1>3

LEMMA WriteIntentStep ==
  ASSUME IInv, NEW p \in Processes, NEW r \in Rules, WriteIntent(p, r)
  PROVE  IInv'
<1> DEFINE T == Target(p)  c == Intent(p, r)  rec == [Rec(p) EXCEPT !.pending = c]
<1>1. /\ pc[p] = "status" /\ Running(p) /\ Goto(p, "intent") /\ Persist(p, rec)
      /\ UNCHANGED <<items, rule, late, lock, mode, snap, at>> /\ r \in NextRules(p)
  BY DEF WriteIntent, Running, Holding, zabbixVars
<1>2. /\ TypeOK /\ T \in Hosts /\ HostOK(p, T) /\ TargetOK(p) /\ Seen(p) \in SnapRecord
      /\ RecordOK(Rec(p)) /\ Rec(p) \in Record \union {NoRecord} /\ Rec(p) = led[p][T]
      /\ Seen(p).items = items[T] /\ Seen(p).rule = rule[T] /\ Fits(Rec(p), T, {}, {})
      /\ rule[T] \in [Rules -> RuleStates]
  BY <1>1, TargetFacts
<1>3. /\ Rec(p) # NoRecord /\ Rec(p) \in Record /\ Rec(p).pending = NoChange
      /\ mode[p] # "rollback" => Existing(rule[T]) = Triggers
      /\ mode[p] \in Modes
  BY <1>1, <1>2, Types DEF TargetOK
<1>4. Existing(rule[T]) = Rec(p).triggers /\ Explains(Rec(p), T)
  BY <1>2, <1>3 DEF Fits
<1>5. /\ r \in Existing(rule[T]) \union Legacy /\ rule[T][r] # Desired(p, r)
      /\ r \in Legacy => \A t \in Existing(rule[T]) : rule[T][t] = Desired(p, t)
  <2>1. /\ r \in Differing(p, Existing(rule[T])) \union Differing(p, Legacy)
        /\ r \in Legacy => Differing(p, Existing(rule[T])) = {}
    BY <1>1, <1>2, ConstantFacts DEF NextRules, Differing, Existing
  <2> QED
    BY <1>2, <2>1 DEF Differing
<1>6. StatusMatches(Rec(p), r, rule[T][r]) /\ rule[T][r] \in Switch
  BY <1>3, <1>4, <1>5, NeverAbsent DEF Explains
<1>7. /\ c \in Change /\ c.rule = r /\ c.old = rule[T][r] /\ c.new = Desired(p, r)
  <2>1. Desired(p, r) \in Switch
    BY <1>2, <1>3, DesiredFacts
  <2> QED
    BY <1>2, <1>6, <2>1 DEF Intent, Change
<1> HIDE DEF c
<1>8. /\ rec \in Record /\ rec.items = Rec(p).items /\ rec.legacy = Rec(p).legacy
      /\ rec.triggers = Rec(p).triggers /\ rec.statuses = Rec(p).statuses
      /\ rec.phase = Rec(p).phase /\ rec.pending = c
  BY <1>3, <1>7, RecordUpdates
<1> HIDE DEF rec
<1>9. Rec(p).phase # "rolled-back"
  <2> SUFFICES ASSUME Rec(p).phase = "rolled-back"
               PROVE  FALSE
    OBVIOUS
  <2>1. mode[p] # "enforce"
    BY <1>2 DEF HostOK
  <2>2. rule[T][r] = Expected(Rec(p), r)
    BY <1>3, <1>6, PendingFacts, ConstantFacts DEF StatusMatches
  <2>3. CASE r \in Legacy
    <3>1. rule[T][r] = "on"
      BY <1>2, <1>3, <2>2, <2>3 DEF RecordOK, Expected
    <3> QED
      BY <1>2, <1>3, <1>5, <2>1, <2>3, <3>1, DesiredFacts
  <2>4. CASE r \notin Legacy
    <3>1. r \in Triggers /\ r \in Rec(p).triggers
      BY <1>4, <1>5, <2>4, ConstantFacts
    <3>2. Rec(p).statuses[r] \in Switch \union {"unset"} /\ Rec(p).statuses[r] # "on"
      BY <1>2, <1>3, <3>1, RecordFacts DEF RecordOK
    <3>3. Expected(Rec(p), r) = "off"
      BY <3>1, <3>2 DEF Expected, Switch
    <3> QED
      BY <1>2, <1>3, <1>5, <2>1, <2>2, <3>1, <3>3, DesiredFacts
  <2> QED
    BY <2>3, <2>4
<1>10. RecordOK(rec)
  BY <1>2, <1>3, <1>4, <1>5, <1>7, <1>8, <1>9 DEF RecordOK
<1>11. Explains(rec, T)
  <2> SUFFICES ASSUME NEW q \in Legacy \union Rec(p).triggers
               PROVE  StatusMatches(rec, q, rule[T][q])
    BY <1>8 DEF Explains
  <2>1. CASE q = r
    BY <1>7, <1>8, <2>1 DEF StatusMatches
  <2>2. CASE q # r
    <3>1. q \in Rules /\ q # "none" /\ StatusMatches(Rec(p), q, rule[T][q])
      BY <1>3, <1>4, RecordFacts, ConstantFacts DEF Explains
    <3>2. rule[T][q] = Expected(Rec(p), q)
      BY <1>3, <3>1, PendingFacts DEF StatusMatches
    <3>3. Expected(rec, q) = Expected(Rec(p), q)
      BY <1>8 DEF Expected
    <3> QED
      BY <1>7, <1>8, <2>2, <3>2, <3>3 DEF StatusMatches
  <2> QED
    BY <2>1, <2>2
<1>12. Fits(rec, T, {}, {}) /\ rec # NoRecord
  BY <1>2, <1>3, <1>8, <1>11, NoRecordIsNone DEF Fits
<1>13. snap' = [snap EXCEPT ![p][T] = Seen(p)]
  BY <1>1, <1>2, SnapStays
<1>14. "intent" \in Steps \ {"idle", "loaded", "locked", "item made", "trigger made", "updated"}
  BY DEF Steps
<1>15. /\ Rec(p)' = rec /\ pc'[p] = "intent" /\ mode'[p] = mode[p] /\ Target(p)' = T
       /\ file' = led'[p]
  BY <1>1, <1>2, <1>8, <1>13, <1>14, PersistFacts
<1>16. \A q : Desired(p, q)' = Desired(p, q)
  BY <1>8, <1>15 DEF Desired
<1>17. TargetOK(p)'
  <2>1. /\ file' = led'[p] /\ Rec(p)'.pending # NoChange /\ Rec(p)'.pending.rule = r
        /\ Rec(p)'.pending.new = Desired(p, r) /\ Desired(p, r)' = Desired(p, r)
    BY <1>7, <1>8, <1>15, <1>16, PendingFacts
  <2>2. Existing(rule[T])' = Existing(rule[T]) /\ rule'[T] = rule[T]
    BY <1>1, <1>15 DEF Existing
  <2> QED
    BY <1>1, <1>3, <1>5, <1>12, <1>15, <1>16, <2>1, <2>2 DEF TargetOK, Creating
<1>18. /\ mode[p] = "enforce" => rec.phase \in {"observe", "enforce"}
       /\ mode[p] = "observe" => rec.phase # "enforce"
  BY <1>2, <1>3, <1>8 DEF HostOK
<1> QED
  BY <1>1, <1>2, <1>8, <1>10, <1>12, <1>13, <1>14, <1>17, <1>18, PersistMoves

LEMMA UpdateStatusStep ==
  ASSUME IInv, NEW p \in Processes, UpdateStatus(p)
  PROVE  IInv'
<1> DEFINE T == Target(p)  r == Rec(p).pending.rule  v == Rec(p).pending.new
           g == [rule[T] EXCEPT ![r] = v]
<1>1. /\ pc[p] = "intent" /\ Running(p) /\ Goto(p, "updated")
      /\ rule' = [rule EXCEPT ![T] = g]
      /\ UNCHANGED <<items, late, file, lock, mode, led, snap, at>>
  BY DEF UpdateStatus, Running, Holding
<1>2. /\ TypeOK /\ T \in Hosts /\ HostOK(p, T) /\ TargetOK(p) /\ Seen(p) \in SnapRecord
      /\ RecordOK(Rec(p)) /\ Rec(p) \in Record \union {NoRecord} /\ Rec(p) = led[p][T]
      /\ Seen(p).items = items[T] /\ Seen(p).rule = rule[T] /\ Fits(Rec(p), T, {}, {})
      /\ rule[T] \in [Rules -> RuleStates]
  BY <1>1, TargetFacts
<1>3. /\ Rec(p) # NoRecord /\ Rec(p) \in Record /\ Rec(p).pending # NoChange
      /\ mode[p] # "rollback" => Existing(rule[T]) = Triggers
      /\ mode[p] \in Modes /\ file = led[p] /\ v = Desired(p, r)
  BY <1>1, <1>2, Types DEF TargetOK
<1>4. /\ Existing(rule[T]) = Rec(p).triggers /\ Explains(Rec(p), T)
      /\ Rec(p).pending \in Change /\ r \in Legacy \union Rec(p).triggers /\ r \in Rules
      /\ v \in Switch
  <2>1. Existing(rule[T]) = Rec(p).triggers /\ Explains(Rec(p), T)
    BY <1>2, <1>3 DEF Fits
  <2>2. Rec(p).pending \in Change /\ r \in Legacy \union Rec(p).triggers
    BY <1>2, <1>3, RecordFacts DEF RecordOK
  <2> QED
    BY <2>1, <2>2, PendingFacts
<1>5. StatusMatches(Rec(p), r, rule[T][r]) /\ rule[T][r] \in Switch /\ r # "none"
  BY <1>3, <1>4, NeverAbsent, ConstantFacts DEF Explains
<1> HIDE DEF r, v
<1>6. /\ g \in [Rules -> RuleStates] /\ g[r] = v /\ \A q \in Rules \ {r} : g[q] = rule[T][q]
      /\ Existing(g) = Existing(rule[T])
  <2>1. /\ g \in [Rules -> RuleStates] /\ g[r] = v /\ \A q \in Rules \ {r} : g[q] = rule[T][q]
    BY <1>2, <1>4 DEF RuleStates
  <2> HIDE DEF g
  <2> QED
    BY <1>4, <1>5, <2>1, ConstantFacts DEF Existing, Switch
<1>7. g = [rule[T] EXCEPT ![r] = v]
  OBVIOUS
<1> HIDE DEF g
<1>8. /\ rule' \in [Hosts -> [Rules -> RuleStates]] /\ items' \in [Hosts -> SUBSET Items]
      /\ rule'[T] = g /\ \A h \in Hosts \ {T} : rule'[h] = rule[h]
  BY <1>1, <1>2, <1>6 DEF TypeOK
<1>9. /\ Target(p)' = T /\ Rec(p)' = Rec(p) /\ Seen(p)' = Seen(p) /\ pc'[p] = "updated"
  BY <1>1, <1>2 DEF Target, Rec, Seen, Goto, TypeOK
<1>10. Explains(Rec(p), T)'
  <2> SUFFICES ASSUME NEW q \in Legacy \union Rec(p).triggers
               PROVE  StatusMatches(Rec(p), q, g[q])
    BY <1>8, <1>9 DEF Explains
  <2>1. CASE q = r
    BY <1>6, <2>1 DEF StatusMatches, r, v
  <2>2. CASE q # r
    <3>1. q \in Rules /\ StatusMatches(Rec(p), q, rule[T][q])
      BY <1>3, <1>4, RecordFacts, ConstantFacts DEF Explains
    <3> QED
      BY <1>6, <2>2, <3>1
  <2> QED
    BY <2>1, <2>2
<1>11. HostOK(p, T)'
  <2>1. UnrecordedItems(p, T)' = {} /\ UnrecordedTriggers(p, T)' = {}
    BY <1>9 DEF UnrecordedItems, UnrecordedTriggers
  <2>2. Existing(rule[T])' = Existing(rule[T])
    BY <1>6, <1>8, <1>9 DEF Existing
  <2>3. led'[p][T] = Rec(p)' /\ items'[T] = items[T] /\ mode'[p] = mode[p] /\ snap'[p][T] = snap[p][T]
    BY <1>1, <1>2, <1>9
  <2>4. Fits(Rec(p), T, {}, {})'
    BY <1>2, <1>3, <1>9, <1>10, <2>2, <2>3 DEF Fits
  <2>5. Fits(led[p][T], T, UnrecordedItems(p, T), UnrecordedTriggers(p, T))'
    BY <1>9, <2>1, <2>3, <2>4
  <2> QED
    BY <1>2, <1>3, <1>9, <2>2, <2>3, <2>5 DEF HostOK
<1>12. TargetOK(p)'
  <2>1. \A q : Desired(p, q)' = Desired(p, q)
    BY <1>1, <1>9 DEF Desired
  <2>2. Existing(rule[T])' = Existing(rule[T])
    BY <1>6, <1>8, <1>9 DEF Existing
  <2>3. rule'[T] = [Seen(p)'.rule EXCEPT ![r] = v]
    BY <1>2, <1>7, <1>8, <1>9
  <2> QED
    BY <1>1, <1>3, <1>9, <2>1, <2>2, <2>3 DEF TargetOK, Creating, r, v
<1>13. JournalMatches'
  <2> SUFFICES ASSUME NEW h \in Hosts, file[h] # NoRecord
               PROVE  \A q \in Legacy \union file[h].triggers : StatusMatches(file[h], q, rule'[h][q])
    BY <1>1 DEF JournalMatches
  <2>1. CASE h = T
    BY <1>2, <1>3, <1>9, <1>10, <2>1 DEF Explains
  <2>2. CASE h # T
    BY <1>8, <2>2 DEF IInv, JournalMatches
  <2> QED
    BY <2>1, <2>2
<1>14. ChangedInv'
  <2>1. \A h \in Hosts : Existing(rule'[h]) = Existing(rule[h]) /\ items'[h] = items[h] /\ file'[h] = file[h]
    BY <1>1, <1>6, <1>8
  <2>2. CASE mode[p] = "enforce"
    <3> SUFFICES ASSUME NEW h \in Hosts
                 PROVE  Complete(file[h], h)
      BY <2>1 DEF ChangedInv, Complete
    <3>1. HostOK(p, h) /\ UnrecordedItems(p, h) = {} /\ UnrecordedTriggers(p, h) = {}
      BY <1>1, RunFacts DEF UnrecordedItems, UnrecordedTriggers
    <3>2. Fits(file[h], h, {}, {}) /\ items[h] = Items /\ Existing(rule[h]) = Triggers
      BY <1>3, <2>2, <3>1 DEF HostOK
    <3>3. file[h] # NoRecord
      BY <3>2, ConstantFacts DEF Fits
    <3> QED
      BY <3>2, <3>3 DEF Fits, Complete
  <2>3. CASE mode[p] # "enforce"
    <3>1. /\ r \in Triggers => v = "off"
          /\ r \in Legacy => v = "on"
      BY <1>2, <1>3, <2>3, DesiredFacts
    <3>2. \A h \in Hosts, q \in Rules : rule'[h][q] = rule[h][q] \/ (q = r /\ rule'[h][q] = v)
      BY <1>6, <1>8
    <3>3. Changed' => Changed
      BY <3>1, <3>2, ConstantFacts DEF Changed
    <3> QED
      BY <2>1, <3>3 DEF IInv, ChangedInv, Complete
  <2> QED
    BY <2>2, <2>3
<1>15. Satisfied(mode[p], T) => Satisfied(mode[p], T)'
  <2>1. rule'[T] = [rule[T] EXCEPT ![r] = Desired(p, r)]
    BY <1>3, <1>7, <1>8 DEF r, v
  <2> QED
    BY <1>1, <1>2, <1>3, <1>4, <1>9, <2>1, DesiredSatisfies
<1>16. "updated" \in Steps \ {"idle", "loaded", "locked"}
  BY DEF Steps
<1>17. snap' = [snap EXCEPT ![p][T] = Seen(p)]
  BY <1>1, <1>2, SnapStays
<1> QED
  BY <1>1, <1>2, <1>8, <1>11, <1>12, <1>13, <1>14, <1>15, <1>16, <1>17, ZabbixMoves

LEMMA SeenStatus ==
  ASSUME TypeOK, NEW p \in Processes, ConfirmStatus(p),
         Rec(p).pending.rule \in Rules, Rec(p).pending.new \in Switch
  PROVE  \E seen \in SnapRecord :
           /\ snap' = [snap EXCEPT ![p][Target(p)] = seen] /\ seen.items = Seen(p).items
           /\ seen.rule = [Seen(p).rule EXCEPT ![Rec(p).pending.rule] = Rec(p).pending.new]
<1> DEFINE T == Target(p)  s == snap[p][T]  r == Rec(p).pending.rule  v == Rec(p).pending.new
           g == [s.rule EXCEPT ![r] = v]  a == [s EXCEPT !.rule = g]
<1>1. T \in Hosts /\ s \in SnapRecord
  BY Types
<1>2. snap' = [snap EXCEPT ![p] = [snap[p] EXCEPT ![T] = a]]
  BY DEF ConfirmStatus
<1>3. r \in Rules /\ v \in RuleStates
  BY DEF RuleStates
<1> HIDE DEF T, r, v
<1>4. g \in [Rules -> RuleStates]
  BY <1>1, <1>3 DEF SnapRecord
<1> HIDE DEF g
<1>5. a \in SnapRecord /\ a.items = s.items /\ a.rule = g
  BY <1>1, <1>4 DEF SnapRecord
<1> HIDE DEF a
<1> QED
  BY <1>2, <1>5 DEF T, r, v, g, Seen

LEMMA ConfirmStatusStep ==
  ASSUME IInv, NEW p \in Processes, ConfirmStatus(p)
  PROVE  IInv'
<1> DEFINE T == Target(p)  v == Rec(p).pending.new  n == SettledAs(Rec(p), v)
<1>1. /\ pc[p] = "updated" /\ Running(p) /\ Goto(p, "status") /\ Persist(p, n)
      /\ UNCHANGED <<items, rule, late, lock, mode, at>>
  BY DEF ConfirmStatus, Running, Holding, zabbixVars, SettledAs
<1> HIDE DEF n
<1>2. /\ TypeOK /\ T \in Hosts /\ HostOK(p, T) /\ TargetOK(p) /\ Seen(p) \in SnapRecord
      /\ RecordOK(Rec(p)) /\ Rec(p) \in Record \union {NoRecord} /\ Rec(p) = led[p][T]
      /\ Seen(p).items = items[T] /\ Fits(Rec(p), T, {}, {})
      /\ rule[T] \in [Rules -> RuleStates]
  BY <1>1, TargetFacts
<1>3. /\ Rec(p) # NoRecord /\ Rec(p) \in Record /\ Rec(p).pending # NoChange
      /\ mode[p] # "rollback" => Existing(rule[T]) = Triggers
      /\ rule[T] = [Seen(p).rule EXCEPT ![Rec(p).pending.rule] = v]
  BY <1>1, <1>2 DEF TargetOK
<1>4. Rec(p).pending \in Change /\ Rec(p).pending.rule \in Rules /\ v \in Switch /\ Explains(Rec(p), T)
  BY <1>2, <1>3, RecordFacts, PendingFacts DEF Fits
<1>5. rule[T][Rec(p).pending.rule] = v
  BY <1>2, <1>3, <1>4 DEF SnapRecord
<1>6. PICK seen \in SnapRecord :
        /\ snap' = [snap EXCEPT ![p][T] = seen] /\ seen.items = Seen(p).items
        /\ seen.rule = [Seen(p).rule EXCEPT ![Rec(p).pending.rule] = v]
  BY <1>2, <1>4, SeenStatus
<1>7. seen.items = items[T] /\ seen.rule = rule[T]
  BY <1>2, <1>3, <1>6
<1>8. n = SettledAs(Rec(p), v)
  BY DEF n
<1> HIDE DEF v
<1>9. /\ n \in Record /\ RecordOK(n) /\ Explains(n, T)
      /\ n.items = Rec(p).items /\ n.triggers = Rec(p).triggers /\ n.phase = Rec(p).phase
      /\ n.pending = NoChange
  <2>1. Rec(p) \in Record /\ RecordOK(Rec(p)) /\ T \in Hosts /\ Explains(Rec(p), T)
    BY <1>2, <1>3, <1>4
  <2>2. rule[T][Rec(p).pending.rule] = v /\ v \in Switch /\ Rec(p).pending # NoChange
    BY <1>3, <1>4, <1>5
  <2> HIDE DEF T
  <2> QED
    BY <1>8, <2>1, <2>2, SettledRecord
<1>10. Fits(n, T, {}, {}) /\ n # NoRecord
  BY <1>2, <1>3, <1>9, NoRecordIsNone DEF Fits
<1>11. "status" \in Steps \ {"idle", "loaded", "locked", "item made", "trigger made", "updated"}
  BY DEF Steps
<1>12. Rec(p)' = n /\ pc'[p] = "status" /\ mode'[p] = mode[p] /\ Target(p)' = T
  BY <1>1, <1>6, <1>9, <1>11, PersistFacts
<1>13. TargetOK(p)'
  <2>1. Existing(rule[T])' = Existing(rule[T])
    BY <1>1, <1>12 DEF Existing
  <2> QED
    BY <1>3, <1>9, <1>10, <1>12, <2>1 DEF TargetOK, Creating
<1>14. /\ mode[p] = "enforce" => n.phase \in {"observe", "enforce"}
       /\ mode[p] = "observe" => n.phase # "enforce"
  BY <1>2, <1>3, <1>9 DEF HostOK
<1> QED
  BY <1>1, <1>6, <1>7, <1>9, <1>10, <1>11, <1>13, <1>14, PersistMoves

(* The record with which a run leaves a host whose rules all are as wanted. *)
FinalPhase(m) == IF m = "rollback" THEN "rolled-back" ELSE m

LEMMA NothingDiffers ==
  ASSUME NEW p \in Processes, NextRules(p) = {}
  PROVE  \A r \in Existing(Seen(p).rule) \union Legacy : Seen(p).rule[r] = Desired(p, r)
<1>1. Differing(p, Existing(Seen(p).rule)) = {} /\ Differing(p, Legacy) = {}
  BY DEF NextRules
<1> QED
  BY <1>1 DEF Differing

LEMMA FinishedRecord ==
  ASSUME IInv, NEW p \in Processes, pc[p] = "status", NextRules(p) = {},
         NEW rec, rec = [Rec(p) EXCEPT !.phase = FinalPhase(mode[p])]
  PROVE  /\ rec \in Record /\ RecordOK(rec) /\ Fits(rec, Target(p), {}, {})
         /\ rec.phase = FinalPhase(mode[p]) /\ Satisfied(mode[p], Target(p))
<1> DEFINE T == Target(p)
<1>1. Running(p) /\ pc[p] \notin {"item made", "trigger made", "updated"}
  BY DEF Running, Holding
<1>2. /\ TypeOK /\ T \in Hosts /\ HostOK(p, T) /\ TargetOK(p)
      /\ RecordOK(Rec(p)) /\ Rec(p) \in Record \union {NoRecord} /\ Rec(p) = led[p][T]
      /\ Seen(p).rule = rule[T] /\ Fits(Rec(p), T, {}, {}) /\ rule[T] \in [Rules -> RuleStates]
  BY <1>1, TargetFacts
<1>3. /\ Rec(p) # NoRecord /\ Rec(p) \in Record /\ Rec(p).pending = NoChange
      /\ mode[p] # "rollback" => Existing(rule[T]) = Triggers
      /\ mode[p] \in Modes
  BY <1>2, Types DEF TargetOK
<1>4. Existing(rule[T]) = Rec(p).triggers /\ Explains(Rec(p), T) /\ Rec(p).triggers \subseteq Triggers
  BY <1>2, <1>3, RecordFacts DEF Fits
<1>5. \A r \in Rec(p).triggers \union Legacy : rule[T][r] = Desired(p, r)
  BY <1>2, <1>4, NothingDiffers
<1>6. /\ \A t \in Rec(p).triggers : rule[T][t] = IF mode[p] = "enforce" THEN "on" ELSE "off"
      /\ \A r \in Legacy : rule[T][r] = IF mode[p] = "enforce" THEN "off" ELSE "on"
  BY <1>2, <1>3, <1>4, <1>5, DesiredFacts
<1>7. \A r \in Rec(p).triggers \union Legacy : rule[T][r] = Expected(Rec(p), r)
  BY <1>3, <1>4, PendingFacts, ConstantFacts DEF Explains, StatusMatches
<1>8. /\ rec \in Record /\ rec.items = Rec(p).items /\ rec.legacy = Rec(p).legacy
      /\ rec.triggers = Rec(p).triggers /\ rec.statuses = Rec(p).statuses
      /\ rec.phase = FinalPhase(mode[p]) /\ rec.pending = NoChange
  <2>1. FinalPhase(mode[p]) \in Phases
    BY <1>3 DEF FinalPhase, Modes, Phases
  <2> QED
    BY <1>3, <2>1, RecordUpdates
<1>9. rec.phase = "enforce" <=> mode[p] = "enforce"
  BY <1>3, <1>8 DEF FinalPhase, Modes
<1>10. RecordOK(rec)
  <2>1. ASSUME rec.phase = "rolled-back"
        PROVE  /\ \A r \in Legacy : rec.statuses[r] = "on"
               /\ \A t \in rec.triggers : rec.statuses[t] # "on"
    <3>1. mode[p] # "enforce"
      BY <1>9, <2>1
    <3>2. \A r \in Legacy : rec.statuses[r] = "on"
      BY <1>2, <1>3, <1>6, <1>7, <1>8, <3>1 DEF RecordOK, Expected
    <3>3. \A t \in rec.triggers : rec.statuses[t] # "on"
      BY <1>6, <1>7, <1>8, <3>1 DEF Expected
    <3> QED
      BY <3>2, <3>3
  <2> QED
    BY <1>2, <1>3, <1>8, <2>1 DEF RecordOK
<1>11. Explains(rec, T)
  <2> SUFFICES ASSUME NEW r \in Legacy \union Rec(p).triggers
               PROVE  StatusMatches(rec, r, rule[T][r])
    BY <1>8 DEF Explains
  <2>1. r \in Rules /\ r # "none"
    BY <1>4, ConstantFacts
  <2>2. CASE Rec(p).statuses[r] # "unset"
    BY <1>7, <1>8, <2>1, <2>2, PendingFacts DEF StatusMatches, Expected
  <2>3. CASE Rec(p).statuses[r] = "unset"
    <3>1. r \in Rec(p).triggers /\ r \in Triggers
      BY <1>2, <1>3, <1>4, <2>3 DEF RecordOK
    <3>2. Expected(rec, r) = IF mode[p] = "enforce" THEN "on" ELSE "off"
      BY <1>8, <1>9, <2>3, <3>1 DEF Expected
    <3> QED
      BY <1>6, <1>8, <2>1, <3>1, <3>2, PendingFacts DEF StatusMatches
  <2> QED
    BY <2>2, <2>3
<1>12. Fits(rec, T, {}, {})
  BY <1>2, <1>3, <1>8, <1>11, NoRecordIsNone DEF Fits
<1>13. Satisfied(mode[p], T)
  <2>1. ASSUME NEW t \in Triggers
        PROVE  rule[T][t] \in Allowed(mode[p])
    <3>1. t \in Rec(p).triggers \/ (mode[p] = "rollback" /\ rule[T][t] = "absent")
      BY <1>3, <1>4 DEF Existing
    <3> QED
      BY <1>3, <1>6, <3>1 DEF Allowed, Modes
  <2> QED
    BY <1>6, <2>1 DEF Satisfied
<1> QED
  BY <1>8, <1>10, <1>12, <1>13

LEMMA FinishHostStep ==
  ASSUME IInv, NEW p \in Processes, FinishHost(p)
  PROVE  IInv'
<1> DEFINE T == Target(p)  rec == [Rec(p) EXCEPT !.phase = FinalPhase(mode[p])]
           ledger == [led[p] EXCEPT ![T] = rec]
<1>1. /\ pc[p] = "status" /\ NextRules(p) = {} /\ Running(p) /\ UNCHANGED <<items, rule, late>>
      /\ file' = ledger
      /\ \/ /\ at[p] < Len(Targets) /\ led' = [led EXCEPT ![p] = ledger]
            /\ at' = [at EXCEPT ![p] = at[p] + 1] /\ Goto(p, "host")
            /\ UNCHANGED <<lock, mode, snap>>
         \/ at[p] = Len(Targets) /\ lock' = FALSE /\ Leave(p)
  BY DEF FinishHost, FinalPhase, Running, Holding, zabbixVars
<1>2. /\ rec \in Record /\ RecordOK(rec) /\ Fits(rec, T, {}, {})
      /\ rec.phase = FinalPhase(mode[p]) /\ Satisfied(mode[p], T)
  BY <1>1, FinishedRecord
<1> HIDE DEF rec
<1>3. /\ TypeOK /\ Holding(p) /\ late = {} /\ T \in Hosts /\ mode[p] \in Modes
      /\ led[p] \in Ledgers /\ at[p] \in 1..Len(Targets)
      /\ \A h \in Hosts : HostOK(p, h) /\ RecordOK(led[p][h])
      /\ \A n \in 1..(at[p] - 1) : Satisfied(mode[p], Targets[n])
  BY <1>1, RunFacts, Types
<1>4. /\ ledger \in Ledgers /\ ledger[T] = rec
      /\ \A h \in Hosts \ {T} : ledger[h] = led[p][h]
  BY <1>2, <1>3 DEF Ledgers
<1> HIDE DEF ledger
<1>5. \A h \in Hosts : UnrecordedItems(p, h) = {} /\ UnrecordedTriggers(p, h) = {}
  BY <1>1 DEF UnrecordedItems, UnrecordedTriggers
<1>6. \A h \in Hosts : Fits(ledger[h], h, {}, {}) /\ RecordOK(ledger[h])
  BY <1>2, <1>3, <1>4, <1>5 DEF HostOK
<1>7. JournalMatches' /\ ChangedInv'
  <2>1. file' \in Ledgers /\ \A h \in Hosts : Fits(file'[h], h, {}, {})
    BY <1>1, <1>4, <1>6
  <2>2. ChangedInv
    BY DEF IInv
  <2> QED
    BY <1>1, <1>3, <2>1, <2>2, FileMoves
<1>8. CASE at[p] = Len(Targets) /\ lock' = FALSE /\ Leave(p)
  <2>1. /\ file' \in Ledgers /\ \A h \in Hosts : RecordOK(file'[h])
        /\ UNCHANGED zabbixVars
    BY <1>1, <1>4, <1>6 DEF zabbixVars
  <2> QED
    BY <1>3, <1>7, <1>8, <2>1, LeaveMoves
<1>9. CASE /\ at[p] < Len(Targets) /\ led' = [led EXCEPT ![p] = ledger]
           /\ at' = [at EXCEPT ![p] = at[p] + 1] /\ Goto(p, "host")
           /\ UNCHANGED <<lock, mode, snap>>
  <2>1. /\ led' \in [Processes -> Ledgers] /\ led'[p] = ledger
        /\ \A q \in Processes \ {p} : led'[q] = led[q]
    BY <1>3, <1>4, <1>9 DEF TypeOK
  <2>2. /\ at'[p] = at[p] + 1 /\ at'[p] \in 1..Len(Targets)
        /\ \A q \in Processes \ {p} : at'[q] = at[q]
        /\ at' \in [Processes -> DOMAIN Targets]
    BY <1>3, <1>9, ConstantFacts DEF TypeOK
  <2>3. pc' = [pc EXCEPT ![p] = "host"] /\ pc'[p] = "host"
    BY <1>3, <1>9 DEF Goto, TypeOK
  <2>4. ASSUME NEW h \in Hosts
        PROVE  HostOK(p, h)'
    <3>1. UnrecordedItems(p, h)' = {} /\ UnrecordedTriggers(p, h)' = {}
      BY <2>3 DEF UnrecordedItems, UnrecordedTriggers
    <3>2. Fits(led[p][h], h, UnrecordedItems(p, h), UnrecordedTriggers(p, h))'
      BY <1>1, <1>6, <2>1, <3>1 DEF Fits, Explains
    <3>3. /\ mode[p] = "enforce" => ledger[h].phase \in {"observe", "enforce"}
          /\ mode[p] = "observe" /\ ledger[h] # NoRecord => ledger[h].phase # "enforce"
          /\ ledger[h] = NoRecord => mode[p] = "observe"
      BY <1>2, <1>3, <1>4, NoRecordIsNone DEF HostOK, FinalPhase
    <3>4. snap[p][h].items = items[h] /\ snap[p][h].rule = rule[h]
      BY <1>1, <1>3 DEF HostOK
    <3>5. mode[p] = "enforce" => items[h] = Items /\ Existing(rule[h]) = Triggers
      BY <1>3 DEF HostOK
    <3> QED
      BY <1>1, <1>9, <2>1, <3>2, <3>3, <3>4, <3>5 DEF HostOK
  <2>5. TargetOK(p)'
    BY <2>3 DEF TargetOK, Creating
  <2>6. \A n \in 1..(at'[p] - 1) : Satisfied(mode[p], Targets[n])'
    <3> SUFFICES ASSUME NEW n \in 1..(at'[p] - 1)
                 PROVE  Satisfied(mode[p], Targets[n])'
      OBVIOUS
    <3>1. n \in 1..(at[p] - 1) \/ n = at[p]
      BY <1>3, <2>2
    <3>2. Satisfied(mode[p], Targets[n])
      BY <1>2, <1>3, <3>1 DEF Target
    <3> QED
      BY <1>1, <1>9, <3>2 DEF Satisfied
  <2>7. RunOK(p)'
    <3>1. Running(p)'
      BY <2>3 DEF Running, Holding
    <3> QED
      BY <2>4, <2>5, <2>6, <3>1 DEF RunOK
  <2>8. LockInv' /\ RunInv' /\ pc' \in [Processes -> Steps]
    <3>1. "host" \in Steps
      BY DEF Steps
    <3> QED
      BY <1>3, <1>9, <2>2, <2>3, <2>7, <3>1, OthersRest
  <2>9. TypeOK'
    <3>1. file' \in Ledgers
      BY <1>1, <1>4
    <3> QED
      BY <1>1, <1>3, <1>9, <2>1, <2>2, <2>8, <3>1 DEF TypeOK
  <2>10. RecordsInv'
    <3>1. \A h \in Hosts, q \in Processes : led'[q][h] = ledger[h] \/ led'[q][h] = led[q][h]
      BY <2>1
    <3>2. \A h \in Hosts : RecordOK(file'[h])
      BY <1>1, <1>6
    <3>3. \A h \in Hosts, q \in Processes : RecordOK(led'[q][h])
      BY <1>6, <3>1 DEF IInv, RecordsInv
    <3> QED
      BY <3>2, <3>3 DEF RecordsInv
  <2> QED
    BY <1>1, <1>3, <1>7, <2>8, <2>9, <2>10 DEF IInv
<1> QED
  BY <1>1, <1>8, <1>9

-----------------------------------------------------------------------------
(* The theorems.                                                            *)

LEMMA InitOK == Init => IInv
<1> SUFFICES ASSUME Init
             PROVE  IInv
  OBVIOUS
<1>1. NoLedger \in Ledgers /\ \A h \in Hosts : NoLedger[h] = NoRecord
  BY DEF NoLedger, Ledgers
<1>2. Unread \in [Hosts -> SnapRecord]
  <2>1. [r \in Rules |-> "absent"] \in [Rules -> RuleStates]
    BY DEF RuleStates
  <2> QED
    BY <2>1 DEF Unread, SnapRecord
<1>3. rule \in [Hosts -> [Rules -> RuleStates]]
  <2> DEFINE f == [r \in Rules |-> IF r \in Legacy THEN "on" ELSE "absent"]
  <2>1. f \in [Rules -> RuleStates]
    BY DEF RuleStates, Switch
  <2>2. rule = [h \in Hosts |-> f]
    BY DEF Init
  <2> HIDE DEF f
  <2> QED
    BY <2>1, <2>2
<1>4. TypeOK
  <2>1. items \in [Hosts -> SUBSET Items] /\ file \in Ledgers /\ lock \in BOOLEAN /\ late = {}
    BY <1>1 DEF Init
  <2>2. pc \in [Processes -> Steps] /\ mode \in [Processes -> Modes]
    BY DEF Init, Steps, Modes
  <2>3. led \in [Processes -> Ledgers] /\ snap \in [Processes -> [Hosts -> SnapRecord]]
    BY <1>1, <1>2 DEF Init
  <2>4. at \in [Processes -> DOMAIN Targets]
    BY ConstantFacts DEF Init
  <2> QED
    BY <1>3, <2>1, <2>2, <2>3, <2>4 DEF TypeOK, SnapRecord
<1>5. /\ \A h \in Hosts : file[h] = NoRecord /\ \A p \in Processes : led[p][h] = NoRecord
      /\ \A p \in Processes : pc[p] = "idle" /\ at[p] = 1
  BY <1>1 DEF Init
<1>6. LockInv /\ RecordsInv /\ JournalMatches /\ RunInv
  BY <1>5 DEF LockInv, RecordsInv, RecordOK, JournalMatches, RunInv, RunOK, Running, Holding
<1>7. ~ Changed
  <2>1. \A h \in Hosts, r \in Rules : rule[h][r] = IF r \in Legacy THEN "on" ELSE "absent"
    BY DEF Init
  <2> QED
    BY <2>1, ConstantFacts DEF Changed
<1> QED
  BY <1>4, <1>6, <1>7 DEF IInv, ChangedInv, Init

LEMMA NextOK ==
  ASSUME IInv, [Next]_vars, "late" \notin Faults
  PROVE  IInv'
<1>1. CASE UNCHANGED vars
  <2>1. UNCHANGED <<items, rule, late, file, lock, pc, mode, led, snap, at>>
    BY <1>1 DEF vars, zabbixVars
  <2>2. RunInv'
    BY <2>1, RunStays DEF IInv, RunInv
  <2> QED
    BY <2>1, <2>2 DEF IInv, TypeOK, LockInv, Holding, RecordsInv, JournalMatches, ChangedInv,
                      Changed, Complete
<1>2. ASSUME NEW p \in Processes, NEW m \in Modes, Load(p, m)
      PROVE  IInv'
  BY <1>2, LoadStep
<1>3. ASSUME NEW p \in Processes, Reconcile(p)
      PROVE  IInv'
  <2>1. CASE TakeLock(p) \/ Plan(p) \/ Refuse(p)
    BY <2>1, TakeLockStep, PlanStep, EndStep
  <2>2. CASE OpenRecord(p) \/ EnterHost(p)
    BY <2>2, OpenRecordStep, EnterHostStep
  <2>3. CASE \E i \in Items : CreateItem(p, i)
    BY <2>3, CreateItemStep
  <2>4. CASE RecordItem(p) \/ ItemsDone(p)
    BY <2>4, RecordItemStep, DoneStep
  <2>5. CASE \E t \in Triggers : CreateTrigger(p, t)
    BY <2>5, CreateTriggerStep
  <2>6. CASE RecordTrigger(p) \/ RecordTriggerStatus(p) \/ TriggersDone(p)
    BY <2>6, RecordTriggerStep, RecordTriggerStatusStep, DoneStep
  <2>7. CASE \E r \in Rules : WriteIntent(p, r)
    BY <2>7, WriteIntentStep
  <2>8. CASE UpdateStatus(p) \/ ConfirmStatus(p)
    BY <2>8, UpdateStatusStep, ConfirmStatusStep
  <2>9. CASE FinishHost(p)
    BY <2>9, FinishHostStep
  <2> QED
    BY <1>3, <2>1, <2>2, <2>3, <2>4, <2>5, <2>6, <2>7, <2>8, <2>9 DEF Reconcile
<1>4. ASSUME NEW p \in Processes, Abort(p) \/ Kill(p)
      PROVE  IInv'
  BY <1>4, EndStep
<1>5. \A p \in Processes : ~ GiveUpUpdate(p)
  BY DEF GiveUpUpdate
<1>6. ~ \E u \in late : LateUpdate(u)
  BY DEF IInv
<1>7. CASE RemoveStaleLock
  BY <1>7, RemoveStaleLockStep
<1> QED
  BY <1>1, <1>2, <1>3, <1>4, <1>5, <1>6, <1>7 DEF Next

(* The inductive invariant holds in every behaviour.                        *)
THEOREM ReconcilerInvariance ==
  ASSUME "late" \notin Faults
  PROVE  Spec => []IInv
<1>1. IInv /\ [Next]_vars => IInv'
  BY NextOK
<1> QED
  BY InitOK, <1>1, PTL DEF Spec

(* Type correctness: every variable keeps to the states the code can set.   *)
THEOREM ReconcilerTypeCorrect ==
  ASSUME "late" \notin Faults
  PROVE  Spec => []TypeOK
<1>1. IInv => TypeOK
  BY DEF IInv
<1> QED
  BY ReconcilerInvariance, <1>1, PTL

(* The ledger on disk explains every status at every instant, although it   *)
(* may have been written from what a run read before it had the lock.       *)
THEOREM JournalAlwaysMatches ==
  ASSUME "late" \notin Faults
  PROVE  Spec => []JournalMatches
<1>1. IInv => JournalMatches
  BY DEF IInv
<1> QED
  BY ReconcilerInvariance, <1>1, PTL

(* Nothing an interrupted run leaves behind keeps a rollback from starting, *)
(* once any status differs from the original.                               *)
THEOREM RollbackAlwaysPossible ==
  ASSUME "late" \notin Faults
  PROVE  Spec => []RollbackPossible
<1>1. IInv => RollbackPossible
  <2> SUFFICES ASSUME IInv, Changed
               PROVE  PlanAccepted("rollback", file)
    BY DEF RollbackPossible, Changed
  <2> SUFFICES ASSUME NEW h \in Hosts
               PROVE  HostAccepted("rollback", h, file[h])
    BY DEF PlanAccepted
  <2>1. Complete(file[h], h)
    BY DEF IInv, ChangedInv
  <2>2. \A r \in Legacy \union Existing(rule[h]) : StatusMatches(file[h], r, rule[h][r])
    BY <2>1 DEF IInv, JournalMatches, Complete
  <2> QED
    BY <2>1, <2>2 DEF HostAccepted, ScopeOK, Complete
<1> QED
  BY ReconcilerInvariance, <1>1, PTL

(* A host whose ledger entry says rolled-back alerts as before the policy.  *)
THEOREM RollbackAlwaysRestores ==
  ASSUME "late" \notin Faults
  PROVE  Spec => []RolledBackIsOriginal
<1>1. IInv => RolledBackIsOriginal
  <2> SUFFICES ASSUME IInv, NEW h \in Hosts, file[h] # NoRecord, file[h].phase = "rolled-back",
                      file[h].pending = NoChange
               PROVE  (\A t \in Triggers : rule[h][t] # "on") /\ \A r \in Legacy : rule[h][r] = "on"
    BY DEF RolledBackIsOriginal
  <2> DEFINE rec == file[h]
  <2>1. rec \in Record /\ RecordOK(rec)
    BY DEF IInv, RecordsInv, RecordOK
  <2>2. \A r \in Legacy \union rec.triggers : rule[h][r] = Expected(rec, r)
    BY <2>1, RecordFacts, PendingFacts, ConstantFacts DEF IInv, JournalMatches, StatusMatches
  <2>3. \A r \in Legacy : rule[h][r] = "on"
    BY <2>1, <2>2 DEF RecordOK, Expected
  <2>4. ASSUME NEW t \in Triggers
        PROVE  rule[h][t] # "on"
    <3>1. CASE t \in rec.triggers
      BY <2>1, <2>2, <3>1 DEF RecordOK, Expected
    <3>2. CASE t \notin rec.triggers
      <4>1. ~ Complete(rec, h)
        BY <3>2 DEF Complete
      <4>2. ~ Changed
        BY <4>1 DEF IInv, ChangedInv
      <4> QED
        BY <4>2 DEF Changed
    <3> QED
      BY <3>1, <3>2
  <2> QED
    BY <2>3, <2>4
<1> QED
  BY ReconcilerInvariance, <1>1, PTL

(* Which steps change the status of a rule, and how.                        *)
LEMMA StatusChanges ==
  ASSUME IInv, [Next]_vars, "late" \notin Faults, NEW h \in Hosts, NEW r \in Legacy,
         rule'[h][r] # rule[h][r]
  PROVE  \E p \in Processes : /\ UpdateStatus(p) /\ h = Target(p) /\ r = Rec(p).pending.rule
                              /\ rule'[h][r] = Rec(p).pending.new
<1>1. PICK p \in Processes : UpdateStatus(p) \/ \E t \in Triggers : CreateTrigger(p, t)
  <2>1. rule' # rule
    OBVIOUS
  <2>2. ~ UNCHANGED vars /\ ~ RemoveStaleLock
    BY <2>1 DEF vars, zabbixVars, RemoveStaleLock
  <2>3. ~ (\E u \in late : LateUpdate(u)) /\ \A p \in Processes : ~ GiveUpUpdate(p)
    BY DEF IInv, GiveUpUpdate
  <2>4. \A p \in Processes, m \in Modes : ~ Load(p, m)
    BY <2>1 DEF Load, zabbixVars
  <2>5. \A p \in Processes : ~ Abort(p) /\ ~ Kill(p)
    BY <2>1 DEF Abort, Kill, zabbixVars
  <2>6. PICK p \in Processes : Reconcile(p)
    BY <2>2, <2>3, <2>4, <2>5 DEF Next
  <2>7. ~ TakeLock(p) /\ ~ Plan(p) /\ ~ Refuse(p) /\ ~ OpenRecord(p) /\ ~ EnterHost(p)
    BY <2>1 DEF TakeLock, Plan, Refuse, OpenRecord, EnterHost, zabbixVars
  <2>8. /\ \A i \in Items : ~ CreateItem(p, i)
        /\ ~ RecordItem(p) /\ ~ ItemsDone(p) /\ ~ RecordTrigger(p) /\ ~ RecordTriggerStatus(p)
        /\ ~ TriggersDone(p)
    BY <2>1 DEF CreateItem, RecordItem, ItemsDone, RecordTrigger, RecordTriggerStatus,
                TriggersDone, zabbixVars
  <2>9. /\ \A q \in Rules : ~ WriteIntent(p, q)
        /\ ~ ConfirmStatus(p) /\ ~ FinishHost(p)
    BY <2>1 DEF WriteIntent, ConfirmStatus, FinishHost, zabbixVars
  <2> QED
    BY <2>6, <2>7, <2>8, <2>9 DEF Reconcile
<1>2. rule[h] \in [Rules -> RuleStates] /\ rule \in [Hosts -> [Rules -> RuleStates]] /\ r \in Rules
  BY ConstantFacts DEF IInv, TypeOK
<1>3. \A t \in Triggers : ~ CreateTrigger(p, t)
  <2> SUFFICES ASSUME NEW t \in Triggers, CreateTrigger(p, t)
               PROVE  FALSE
    OBVIOUS
  <2>1. rule' = [rule EXCEPT ![Target(p)][t] = "off"] /\ t # r
    BY ConstantFacts DEF CreateTrigger
  <2> QED
    BY <1>2, <2>1
<1>4. UpdateStatus(p)
  BY <1>1, <1>3
<1>5. rule' = [rule EXCEPT ![Target(p)][Rec(p).pending.rule] = Rec(p).pending.new]
  BY <1>4 DEF UpdateStatus
<1>6. h = Target(p) /\ r = Rec(p).pending.rule /\ rule'[h][r] = Rec(p).pending.new
  BY <1>2, <1>5
<1> QED
  BY <1>4, <1>6

(* A legacy rule is retired only while every replacement of its host is on. *)
THEOREM RetiresOnlyCovered ==
  ASSUME "late" \notin Faults
  PROVE  Spec => RetireOnlyCovered
<1>1. ASSUME IInv, [Next]_vars, NEW h \in Hosts, NEW r \in Legacy,
             rule[h][r] = "on", rule'[h][r] = "off"
      PROVE  \A t \in Triggers : rule[h][t] = "on"
  <2>1. PICK p \in Processes : /\ UpdateStatus(p) /\ h = Target(p) /\ r = Rec(p).pending.rule
                               /\ rule'[h][r] = Rec(p).pending.new
    BY <1>1, StatusChanges
  <2>2. pc[p] = "intent" /\ Running(p)
    BY <2>1 DEF UpdateStatus, Running, Holding
  <2>3. /\ TargetOK(p) /\ HostOK(p, h) /\ RecordOK(Rec(p)) /\ Rec(p) \in Record \union {NoRecord}
        /\ mode[p] \in Modes
    BY <1>1, <2>1, <2>2, TargetFacts, Types
  <2>4. /\ Rec(p) \in Record /\ Desired(p, r) = "off"
        /\ \A t \in Existing(rule[h]) : rule[h][t] = Desired(p, t)
    BY <1>1, <2>1, <2>2, <2>3 DEF TargetOK
  <2>5. mode[p] = "enforce"
    BY <2>3, <2>4, DesiredFacts
  <2>6. Existing(rule[h]) = Triggers
    BY <2>3, <2>5 DEF HostOK
  <2> QED
    BY <2>3, <2>4, <2>5, <2>6, DesiredFacts
<1>2. IInv /\ [Next]_vars =>
        [\A h \in Hosts, r \in Legacy : rule[h][r] = "on" /\ rule'[h][r] = "off" =>
           \A t \in Triggers : rule[h][t] = "on"]_vars
  BY <1>1
<1> QED
  BY ReconcilerInvariance, <1>2, PTL DEF Spec, RetireOnlyCovered

(* A run that reports success has left every host as its mode demands.      *)
THEOREM SuccessAlwaysReal ==
  ASSUME "late" \notin Faults
  PROVE  Spec => SuccessIsReal
<1>1. ASSUME IInv, NEW p \in Processes, FinishHost(p), at[p] = Len(Targets), NEW h \in Hosts
      PROVE  Satisfied(mode[p], h)
  <2> DEFINE rec == [Rec(p) EXCEPT !.phase = FinalPhase(mode[p])]
  <2>1. pc[p] = "status" /\ NextRules(p) = {} /\ Running(p)
    BY <1>1 DEF FinishHost, Running, Holding
  <2>2. Satisfied(mode[p], Target(p))
    <3>1. rec = [Rec(p) EXCEPT !.phase = FinalPhase(mode[p])]
      OBVIOUS
    <3> QED
      BY <1>1, <2>1, <3>1, FinishedRecord
  <2>3. \A n \in 1..(at[p] - 1) : Satisfied(mode[p], Targets[n])
    BY <1>1, <2>1, RunFacts
  <2>4. PICK n \in 1..Len(Targets) : h = Targets[n]
    BY ConstantFacts DEF Hosts, Elements
  <2>5. n \in 1..(Len(Targets) - 1) \/ n = Len(Targets)
    <3>1. Len(Targets) \in Nat
      BY ConstantFacts
    <3> QED
      BY <3>1
  <2> QED
    BY <1>1, <2>2, <2>3, <2>4, <2>5 DEF Target
<1> DEFINE A == \A p \in Processes : FinishHost(p) /\ at[p] = Len(Targets) =>
       \A h \in Hosts :
         /\ \A t \in Triggers :
              rule[h][t] \in (CASE mode[p] = "observe" -> {"off"} [] mode[p] = "enforce" -> {"on"}
                                 [] mode[p] = "rollback" -> {"off", "absent"})
         /\ \A r \in Legacy : rule[h][r] = IF mode[p] = "enforce" THEN "off" ELSE "on"
<1>2. IInv => A
  BY <1>1 DEF Satisfied, Allowed
<1>3. IInv /\ [Next]_vars => [A]_vars
  BY <1>2
<1> HIDE DEF A
<1>4. Spec => [][A]_vars
  BY ReconcilerInvariance, <1>3, PTL DEF Spec
<1> QED
  BY <1>4 DEF SuccessIsReal, A

-----------------------------------------------------------------------------
(* One run at a time                                                        *)

RecordFields == {"legacy", "items", "triggers", "statuses", "phase", "pending"}

(* What this needs of the types, which holds with late updates, too.        *)
LedgerShape(l) ==
  DOMAIN l = Hosts /\ \A h \in Hosts : l[h] = NoRecord \/ DOMAIN l[h] = RecordFields

ShapeInv ==
  /\ pc \in [Processes -> Steps] /\ mode \in [Processes -> Modes]
  /\ at \in [Processes -> DOMAIN Targets]
  /\ DOMAIN led = Processes /\ \A p \in Processes : LedgerShape(led[p])
  /\ LedgerShape(file)

(* Nobody else writes the ledger that a run has read before it had the      *)
(* lock; and after the checks of enforce no host is rolled back.            *)
CurrentInv == \A p \in Processes : pc[p] # "idle" => led[p] = file

Checked(p) == pc[p] \notin {"idle", "loaded", "locked"}

NotRolledBack(l) ==
  \A h \in Hosts : l[h] # NoRecord => l[h].phase # "rolled-back"

EnforceInv ==
  \A p \in Processes : mode[p] = "enforce" /\ Checked(p) => NotRolledBack(led[p])

AloneInv == ShapeInv /\ CurrentInv /\ EnforceInv

(* A record replaced by one of the same phase, or by a first one.           *)
KeepsPhase(rec, new) ==
  /\ new = NoRecord \/ DOMAIN new = RecordFields
  /\ rec # NoRecord => new.phase = rec.phase
  /\ rec = NoRecord => new = NoRecord \/ new.phase = "observe"

PhaseStays ==
  \A h \in Hosts : file[h] # NoRecord => file'[h].phase = file[h].phase

LEMMA PersistAlone ==
  ASSUME \A p, q \in Processes : p = q, AloneInv, NEW p \in Processes, NEW rec,
         Checked(p), KeepsPhase(Rec(p), rec), Persist(p, rec), NEW s \in Steps, Goto(p, s),
         UNCHANGED <<mode, at>>
  PROVE  AloneInv' /\ PhaseStays
<1> DEFINE t == Target(p)
<1>1. /\ t \in Hosts /\ led[p] = file /\ LedgerShape(file) /\ led[p][t] = Rec(p)
      /\ pc' = [pc EXCEPT ![p] = s] /\ pc \in [Processes -> Steps] /\ DOMAIN led = Processes
  BY DEF AloneInv, ShapeInv, CurrentInv, Checked, Target, Hosts, Elements, Rec, Goto
<1>2. /\ DOMAIN led' = Processes /\ file' = led'[p]
      /\ led' = [led EXCEPT ![p][t] = rec]
  BY <1>1 DEF Persist
<1> HIDE DEF t
<1>3. led'[p] = [file EXCEPT ![t] = rec]
  BY <1>1, <1>2
<1>4. /\ DOMAIN file' = Hosts /\ file'[t] = rec /\ \A h \in Hosts \ {t} : file'[h] = file[h]
  BY <1>1, <1>2, <1>3 DEF LedgerShape
<1>5. LedgerShape(file')
  BY <1>1, <1>4 DEF LedgerShape, KeepsPhase
<1>6. ShapeInv' /\ CurrentInv'
  BY <1>1, <1>2, <1>5 DEF AloneInv, ShapeInv, CurrentInv
<1>7. PhaseStays
  BY <1>1, <1>4 DEF PhaseStays, KeepsPhase
<1>8. ASSUME mode[p] = "enforce"
      PROVE  NotRolledBack(file')
  BY <1>1, <1>4, <1>8 DEF AloneInv, EnforceInv, NotRolledBack, KeepsPhase
<1>9. EnforceInv'
  BY <1>2, <1>8 DEF EnforceInv
<1> QED
  BY <1>6, <1>7, <1>9 DEF AloneInv

(* A step that lets the ledgers alone.                                      *)
LEMMA ElsewhereAlone ==
  ASSUME AloneInv, UNCHANGED <<file, led, mode, at>>, NEW p \in Processes, NEW s \in Steps,
         Goto(p, s), Checked(p)
  PROVE  AloneInv' /\ PhaseStays
<1>1. pc' \in [Processes -> Steps] /\ \A q \in Processes : pc'[q] # "idle" => pc[q] # "idle"
  BY DEF AloneInv, ShapeInv, Goto, Checked
<1>2. \A q \in Processes : Checked(q)' => Checked(q)
  BY DEF AloneInv, ShapeInv, Goto, Checked
<1> QED
  BY <1>1, <1>2 DEF AloneInv, ShapeInv, CurrentInv, EnforceInv, PhaseStays

LEMMA LeaveAlone ==
  ASSUME \A p, q \in Processes : p = q, AloneInv, NEW p \in Processes, Leave(p), LedgerShape(file')
  PROVE  AloneInv'
<1>1. /\ pc' = [pc EXCEPT ![p] = "idle"] /\ led' = [led EXCEPT ![p] = NoLedger]
      /\ at' = [at EXCEPT ![p] = 1] /\ mode' = [mode EXCEPT ![p] = "observe"]
  BY DEF Leave, Goto
<1>2. LedgerShape(NoLedger)
  BY DEF LedgerShape, NoLedger
<1>3. 1 \in DOMAIN Targets
  <2>1. Targets \in Seq(Elements(Targets)) /\ Targets # << >>
    BY PolicyAssumption
  <2> QED
    BY <2>1
<1>4. ShapeInv'
  BY <1>1, <1>2, <1>3 DEF AloneInv, ShapeInv, Steps, Modes
<1>5. \A q \in Processes : pc'[q] = "idle"
  BY <1>1 DEF AloneInv, ShapeInv
<1> QED
  BY <1>4, <1>5 DEF AloneInv, CurrentInv, EnforceInv, Checked

LEMMA FinishAlone ==
  ASSUME \A p, q \in Processes : p = q, AloneInv, NEW p \in Processes, FinishHost(p)
  PROVE  /\ AloneInv'
         /\ \A h \in Hosts :
              file[h] # NoRecord /\ file[h].phase = "rolled-back" /\ file'[h].phase # "rolled-back"
                => mode[p] = "observe"
<1> DEFINE t == Target(p)
           phase == IF mode[p] = "rollback" THEN "rolled-back" ELSE mode[p]
           rec == [Rec(p) EXCEPT !.phase = phase]
           ledger == [led[p] EXCEPT ![t] = rec]
<1>1. /\ pc[p] = "status" /\ t \in Hosts /\ led[p] = file /\ LedgerShape(file)
      /\ led[p][t] = Rec(p)
  BY DEF FinishHost, AloneInv, ShapeInv, CurrentInv, Target, Hosts, Elements, Rec
<1>2. /\ file' = ledger
      /\ \/ /\ led' = [led EXCEPT ![p] = ledger] /\ at[p] < Len(Targets)
            /\ at' = [at EXCEPT ![p] = @ + 1] /\ Goto(p, "host") /\ UNCHANGED mode
         \/ Leave(p)
  BY DEF FinishHost
<1>3. /\ Rec(p) # NoRecord => DOMAIN rec = RecordFields /\ rec.phase = phase
      /\ Rec(p) = NoRecord => rec = NoRecord
  BY <1>1 DEF LedgerShape, RecordFields, NoRecord
<1> HIDE DEF t, rec
<1>4. /\ DOMAIN file' = Hosts /\ file'[t] = rec /\ \A h \in Hosts \ {t} : file'[h] = file[h]
  BY <1>1, <1>2 DEF LedgerShape
<1>5. LedgerShape(file')
  BY <1>1, <1>3, <1>4 DEF LedgerShape
<1>6. AloneInv'
  <2>1. CASE Leave(p)
    BY <1>5, <2>1, LeaveAlone
  <2>2. CASE /\ led' = [led EXCEPT ![p] = ledger] /\ at[p] < Len(Targets)
             /\ at' = [at EXCEPT ![p] = @ + 1] /\ Goto(p, "host") /\ UNCHANGED mode
    <3> HIDE DEF ledger
    <3>1. led'[p] = file' /\ DOMAIN led' = Processes
      BY <1>2, <2>2 DEF AloneInv, ShapeInv
    <3>2. at' \in [Processes -> DOMAIN Targets]
      <4>1. Targets \in Seq(Elements(Targets))
        BY PolicyAssumption
      <4>2. at[p] + 1 \in DOMAIN Targets
        BY <2>2, <4>1 DEF AloneInv, ShapeInv
      <4> QED
        BY <2>2, <4>2 DEF AloneInv, ShapeInv
    <3>3. pc' \in [Processes -> Steps]
      BY <2>2 DEF AloneInv, ShapeInv, Goto, Steps
    <3>4. ShapeInv' /\ CurrentInv'
      BY <1>5, <2>2, <3>1, <3>2, <3>3 DEF AloneInv, ShapeInv, CurrentInv
    <3>5. mode[p] = "enforce" => NotRolledBack(file')
      BY <1>1, <1>3, <1>4 DEF AloneInv, EnforceInv, Checked, NotRolledBack
    <3> QED
      BY <2>2, <3>1, <3>4, <3>5 DEF AloneInv, EnforceInv
  <2> QED
    BY <1>2, <2>1, <2>2
<1>7. ASSUME mode[p] = "enforce", NEW h \in Hosts, file[h] # NoRecord
      PROVE  file[h].phase # "rolled-back"
  BY <1>1, <1>7 DEF AloneInv, EnforceInv, Checked, NotRolledBack
<1>8. ASSUME mode[p] = "rollback", NEW h \in Hosts, file[h] # NoRecord,
             file[h].phase = "rolled-back"
      PROVE  file'[h].phase = "rolled-back"
  BY <1>1, <1>3, <1>4, <1>8
<1>9. mode[p] \in Modes
  BY DEF AloneInv, ShapeInv
<1> QED
  BY <1>6, <1>7, <1>8, <1>9 DEF Modes

LEMMA ReconcileAlone ==
  ASSUME \A p, q \in Processes : p = q, AloneInv, NEW p \in Processes, Reconcile(p),
         ~ FinishHost(p)
  PROVE  AloneInv' /\ PhaseStays
<1>1. CASE TakeLock(p)
  <2>1. /\ file' = file /\ pc[p] = "loaded"
        /\ \/ Leave(p)
           \/ Goto(p, "locked") /\ UNCHANGED <<mode, led, at>>
    BY <1>1 DEF TakeLock
  <2>2. PhaseStays /\ LedgerShape(file')
    BY <2>1 DEF PhaseStays, AloneInv, ShapeInv
  <2>3. CASE Leave(p)
    BY <2>2, <2>3, LeaveAlone
  <2>4. CASE Goto(p, "locked") /\ UNCHANGED <<mode, led, at>>
    <3>1. pc' = [pc EXCEPT ![p] = "locked"] /\ pc \in [Processes -> Steps]
      BY <2>4 DEF AloneInv, ShapeInv, Goto
    <3>2. ShapeInv' /\ CurrentInv'
      BY <2>1, <2>4, <3>1 DEF AloneInv, ShapeInv, CurrentInv, Steps
    <3>3. EnforceInv'
      BY <2>4, <3>1 DEF AloneInv, EnforceInv, Checked
    <3> QED
      BY <2>2, <3>2, <3>3 DEF AloneInv
  <2> QED
    BY <2>1, <2>3, <2>4
<1>2. CASE Plan(p)
  <2>1. /\ UNCHANGED <<file, led, mode, at>> /\ Goto(p, "host") /\ pc[p] = "locked"
        /\ PlanAccepted(mode[p], led[p])
    BY <1>2 DEF Plan
  <2>2. pc' = [pc EXCEPT ![p] = "host"] /\ pc \in [Processes -> Steps]
    BY <2>1 DEF AloneInv, ShapeInv, Goto
  <2>3. mode[p] = "enforce" => NotRolledBack(led[p])
    BY <2>1 DEF PlanAccepted, HostAccepted, NotRolledBack
  <2>4. ShapeInv' /\ CurrentInv'
    BY <2>1, <2>2 DEF AloneInv, ShapeInv, CurrentInv, Steps
  <2>5. EnforceInv'
    BY <2>1, <2>3 DEF AloneInv, EnforceInv
  <2> QED
    BY <2>1, <2>4, <2>5 DEF AloneInv, PhaseStays
<1>3. CASE Refuse(p)
  BY <1>3, LeaveAlone DEF Refuse, AloneInv, ShapeInv, PhaseStays
<1>4. CASE OpenRecord(p)
  <2>1. KeepsPhase(Rec(p), NewRecord(Seen(p)))
    BY <1>4 DEF OpenRecord, KeepsPhase, NewRecord, RecordFields
  <2>2. Goto(p, "host")
    BY <1>4 DEF OpenRecord, Goto, AloneInv, ShapeInv
  <2> QED
    BY <1>4, <2>1, <2>2, PersistAlone DEF OpenRecord, Checked, Steps
<1>5. Rec(p) = NoRecord \/ DOMAIN Rec(p) = RecordFields
  BY DEF AloneInv, ShapeInv, LedgerShape, Rec, Target, Hosts, Elements
<1> DEFINE steps == /\ "items" \in Steps /\ "status" \in Steps /\ "item made" \in Steps
                    /\ "triggers" \in Steps /\ "trigger made" \in Steps
                    /\ "trigger listed" \in Steps /\ "intent" \in Steps /\ "updated" \in Steps
<1>6. steps
  BY DEF Steps
<1>7. CASE EnterHost(p)
  <2> DEFINE s == IF mode[p] = "rollback" THEN "status" ELSE "items"
  <2>1. /\ pc[p] = "host" /\ Goto(p, s) /\ s \in Steps /\ UNCHANGED <<mode, at>>
        /\ \/ UNCHANGED <<led, file>>
           \/ Persist(p, Settled(p))
    BY <1>6, <1>7 DEF EnterHost
  <2>2. KeepsPhase(Rec(p), Settled(p))
    BY <1>5, <1>7 DEF EnterHost, Settled, KeepsPhase, RecordFields
  <2> HIDE DEF s
  <2> QED
    BY <2>1, <2>2, PersistAlone, ElsewhereAlone DEF Checked
<1>8. ASSUME NEW i \in Items, CreateItem(p, i)
      PROVE  AloneInv' /\ PhaseStays
  BY <1>6, <1>8, ElsewhereAlone DEF CreateItem, Checked
<1>9. CASE ItemsDone(p) \/ TriggersDone(p) \/ UpdateStatus(p)
  BY <1>6, <1>9, ElsewhereAlone DEF ItemsDone, TriggersDone, UpdateStatus, Checked
<1>10. ASSUME NEW t \in Triggers, CreateTrigger(p, t)
       PROVE  AloneInv' /\ PhaseStays
  BY <1>6, <1>10, ElsewhereAlone DEF CreateTrigger, Checked
<1>11. CASE RecordItem(p)
  <2>1. KeepsPhase(Rec(p), [Rec(p) EXCEPT !.items = @ \union {Seen(p).made}])
    BY <1>5 DEF KeepsPhase, RecordFields, NoRecord
  <2> QED
    BY <1>6, <1>11, <2>1, PersistAlone DEF RecordItem, Checked
<1>12. CASE RecordTrigger(p)
  <2>1. KeepsPhase(Rec(p), [Rec(p) EXCEPT !.triggers = @ \union {Seen(p).made}])
    BY <1>5 DEF KeepsPhase, RecordFields, NoRecord
  <2> QED
    BY <1>6, <1>12, <2>1, PersistAlone DEF RecordTrigger, Checked
<1>13. CASE RecordTriggerStatus(p)
  <2>1. KeepsPhase(Rec(p), [Rec(p) EXCEPT !.statuses[Seen(p).made] = "off"])
    BY <1>5 DEF KeepsPhase, RecordFields, NoRecord
  <2> QED
    BY <1>6, <1>13, <2>1, PersistAlone DEF RecordTriggerStatus, Checked
<1>14. ASSUME NEW r \in Rules, WriteIntent(p, r)
       PROVE  AloneInv' /\ PhaseStays
  <2>1. KeepsPhase(Rec(p), [Rec(p) EXCEPT !.pending = Intent(p, r)])
    BY <1>5 DEF KeepsPhase, RecordFields, NoRecord
  <2> QED
    BY <1>6, <1>14, <2>1, PersistAlone DEF WriteIntent, Checked
<1>15. CASE ConfirmStatus(p)
  <2> DEFINE change == Rec(p).pending
             new == [Rec(p) EXCEPT !.statuses[change.rule] = change.new, !.pending = NoChange]
  <2>1. KeepsPhase(Rec(p), new)
    BY <1>5 DEF KeepsPhase, RecordFields, NoRecord
  <2>2. Persist(p, new) /\ Goto(p, "status") /\ UNCHANGED <<mode, at>> /\ pc[p] = "updated"
    BY <1>15 DEF ConfirmStatus
  <2> HIDE DEF new
  <2> QED
    BY <1>6, <2>1, <2>2, PersistAlone DEF Checked
<1> QED
  BY <1>1, <1>2, <1>3, <1>4, <1>7, <1>8, <1>9, <1>10, <1>11, <1>12, <1>13, <1>14, <1>15
     DEF Reconcile

LEMMA NextAlone ==
  ASSUME \A p, q \in Processes : p = q, AloneInv, [Next]_vars
  PROVE  /\ AloneInv'
         /\ \/ PhaseStays
            \/ \E p \in Processes :
                 /\ FinishHost(p)
                 /\ \A h \in Hosts :
                      file[h] # NoRecord /\ file[h].phase = "rolled-back"
                        /\ file'[h].phase # "rolled-back" => mode[p] = "observe"
<1>1. ASSUME NEW p \in Processes, NEW m \in Modes, Load(p, m)
      PROVE  AloneInv' /\ PhaseStays
  <2>1. /\ file' = file /\ at' = at /\ pc[p] = "idle" /\ pc' = [pc EXCEPT ![p] = "loaded"]
        /\ led' = [led EXCEPT ![p] = file] /\ mode' = [mode EXCEPT ![p] = m]
    BY <1>1 DEF Load, Goto
  <2>2. ShapeInv' /\ CurrentInv' /\ EnforceInv'
    BY <2>1 DEF AloneInv, ShapeInv, CurrentInv, EnforceInv, Checked, Steps
  <2> QED
    BY <2>1, <2>2 DEF AloneInv, PhaseStays
<1>2. ASSUME NEW p \in Processes, Abort(p) \/ GiveUpUpdate(p) \/ Kill(p)
      PROVE  AloneInv' /\ PhaseStays
  <2>1. Leave(p) /\ file' = file
    BY <1>2 DEF Abort, GiveUpUpdate, Kill
  <2> QED
    BY <2>1, LeaveAlone DEF AloneInv, ShapeInv, PhaseStays
<1>3. CASE (\E u \in late : LateUpdate(u)) \/ RemoveStaleLock \/ UNCHANGED vars
  <2>1. UNCHANGED <<file, pc, mode, led, at>>
    BY <1>3 DEF LateUpdate, RemoveStaleLock, vars
  <2> QED
    BY <2>1 DEF AloneInv, ShapeInv, CurrentInv, EnforceInv, Checked, PhaseStays
<1>4. ASSUME NEW p \in Processes, Reconcile(p), ~ FinishHost(p)
      PROVE  AloneInv' /\ PhaseStays
  BY <1>4, ReconcileAlone
<1>5. ASSUME NEW p \in Processes, FinishHost(p)
      PROVE  /\ AloneInv'
             /\ \A h \in Hosts :
                  file[h] # NoRecord /\ file[h].phase = "rolled-back"
                    /\ file'[h].phase # "rolled-back" => mode[p] = "observe"
  BY <1>5, FinishAlone
<1> QED
  BY <1>1, <1>2, <1>3, <1>4, <1>5 DEF Next

(* Where no two runs overlap, a host that was rolled back goes back to      *)
(* enforcement only after a completed observe run, whatever fails or is     *)
(* killed and whatever updates come late.  With overlapping runs it need    *)
(* not: the ledger is read before the lock is taken.                        *)
THEOREM AloneObservesFirst ==
  ASSUME \A p, q \in Processes : p = q
  PROVE  Spec => ObserveAfterRollback
<1>1. Init => AloneInv
  <2> SUFFICES ASSUME Init
               PROVE  AloneInv
    OBVIOUS
  <2>1. LedgerShape(NoLedger)
    BY DEF LedgerShape, NoLedger
  <2>2. 1 \in DOMAIN Targets
    <3>1. Targets \in Seq(Elements(Targets)) /\ Targets # << >>
      BY PolicyAssumption
    <3> QED
      BY <3>1
  <2> QED
    BY <2>1, <2>2 DEF Init, AloneInv, ShapeInv, CurrentInv, EnforceInv, Checked, Steps, Modes
<1>2. AloneInv /\ [Next]_vars => AloneInv'
  BY NextAlone
<1>3. AloneInv /\ [Next]_vars =>
        [\A h \in Hosts :
           file[h] # NoRecord /\ file[h].phase = "rolled-back" /\ file'[h].phase # "rolled-back"
             => \E p \in Processes : FinishHost(p) /\ mode[p] = "observe"]_vars
  BY NextAlone DEF PhaseStays
<1> QED
  BY <1>1, <1>2, <1>3, PTL DEF Spec, ObserveAfterRollback
=============================================================================
