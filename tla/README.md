# A TLA+ model of the infrastructure operations platform

The repository deploys NetBox, Zabbix, GLPI, an observability stack and their
backups with Ansible. Most of it is declarative. What has behaviour of its own is
a handful of programs that keep two systems in step, or one system in a known
state, while calls fail, answers are lost, processes die and runs overlap. These
modules model those programs from their source, check them with TLC on small
instances, and prove the properties that matter most with TLAPS for every value
of the constants.

Run everything from this directory:

    tlc -workers 2 -config bridge_faults.cfg MCGlpiBridge     # one of the runs
    tlapm GlpiBridgeProofs.tla                                # one of the proof modules

## 1. Inventory

| Component | Source | State it keeps | Operations | What is hard |
|---|---|---|---|---|
| Zabbix-GLPI bridge | `src/roles/zabbix_glpi_bridge/templates/zabbix-glpi-bridge.py.j2` | the SQLite table `correlations` | `POST /events` (`process_event`), `configure-zabbix` | threads, retries, lost answers, crashes between a GLPI call and COMMIT |
| Windows service policy | `src/roles/windows_service_policy/files/windows_service_policy.py` | a JSON ledger and a lock file | `observe`, `enforce`, `--rollback` | interruption at every step, an intent journal, overlapping runs |
| NetBox-Zabbix sync | `src/roles/netbox_zabbix_sync/templates/netbox-zabbix-sync.py.j2` | nothing; writes NetBox and Zabbix | one run: preflight, create, update, disable | no journal, two systems, stale inventory, interruption between them |
| UniFi OCSP verifier | `src/roles/observability/files/unifi_ocsp.py` | a state file of responses and revocations | check, fetch, record | concurrent connections, expiry, clock rollback, power loss, revocation is for ever |
| OCSP transport, AP collector | `src/roles/observability/files/unifi-ocsp-transport.go`, `unifi-ap-counts.py` | a metrics file | a run of requests, each on a connection of its own | no request before the verdict, a verifier killed after 12 seconds, connections kept |
| OCSP rollout | `src/roles/observability/tasks/unifi-ocsp.yml`, `src/filter_plugins/unifi_ocsp.py` | policy, trust and journals on the host, Compose, containers | review, guard, write, install, apply; the full provisioning | a run that ends at any task and is repeated, a lost journal, two programs that decide the same limits |
| Backups | `src/roles/{zabbix,glpi,netbox,observability}_backup/templates/*.sh.j2` | published directories, metrics | back up, publish, prune, verify | a service paused or in maintenance mode that every exit has to undo, signals under a trap that does not exit, no lock |
| External copy, recovery drill | `src/roles/{external_backup,recovery_drill}/templates/*.sh.j2` | copies, throw-away containers | copy, restore | clean-up after a failure |
| Maintenance window | `src/roles/maintenance_window/tasks/main.yml` | silences, evidence files | approve, silence, update, verify | a failure between silence and verification |
| Alert rules | `src/roles/observability/templates/*.yml.j2` | none | evaluated by Prometheus | thresholds and absence |
| Collectors, filters, provisioning scripts, deployment roles, lab automation | see `components` in `PROJECT.json` | none or declarative | | input and output |

How they interact: Zabbix raises events and delivers them to the bridge, which
writes tickets in GLPI; the sync creates in Zabbix the hosts NetBox lists, with the
`netbox_id` tag that the bridge copies into the ticket; the Windows policy changes
alert rules of exactly such hosts and refuses hosts whose events would open
tickets; the UniFi collectors let the OCSP verifier judge every connection, and the
rollout puts verifier, policy and journals in place; Prometheus watches the metrics
of the bridge, of the collectors and of the backups.

Correctness, per component:

* **Bridge** - an event has one ticket and one recovery followup; what Zabbix was
  told is recorded; a recovered event is not touched again; nothing is stuck.
* **Windows policy** - a host is never left without an alert rule by a cutover; an
  interrupted run can be resumed or rolled back; a rollback restores what was saved.
* **Sync** - no duplicate host for one object, no write outside the managed scope,
  a rerun after an interruption converges.
* **OCSP** - a certificate once recorded as revoked is never accepted, and no request
  is sent to it; no response is believed that is stale or not authentic.
* **OCSP rollout** - neither the protection nor the journal is ever lost silently,
  whatever fails; what is installed is what runs.
* **Backups** - what is published is complete and consistent; the service is running
  afterwards.

## 2. Plan

1. `IncidentLedger` (abstract), `GlpiBridge`, proofs and refinement - done.
2. `WindowsServicePolicy` - modelled, checked and proved
   (`WindowsServicePolicyProofs`).
3. `NetboxZabbixSync` - modelled, checked and proved (`NetboxZabbixSyncProofs`).
4. `OcspPolicy`, composed with the collectors in `UnifiCollector` - modelled,
   checked and proved (`OcspPolicyProofs`, `UnifiCollectorProofs`).
5. `OcspRollout` - modelled, checked and proved (`OcspRolloutProofs`).
6. `PlatformBackup` - modelled, checked and proved (`PlatformBackupProofs`).

Every invariant and action property that a passing run checks is also a theorem; the
five liveness properties are not (section 10). Each component has one module of
theorems, laid out alike: the inductive invariant as a conjunction of named parts,
facts about the data, one lemma per action, the invariance, then the listed
theorems. Where TLC could tell, the inductive invariant was first checked as an
invariant of the component's run.

Runs are kept to one per distinct question. No module uses a RECURSIVE operator, so
all of them can be proved about.

## 3. The bridge

`GlpiBridge.tla` has three parties.

* **Zabbix** (external; configured by `configure_zabbix`): a notification in
  `Alerts` is one rendered message, so a retry carries the same payload and a
  changed problem is another element of `Alerts`. `Notify`, `Deliver` and
  `GiveUpWaiting` follow the media type (one session, a number of attempts) and the
  action (the recovery goes to who was notified of the problem). The webhook script
  turns anything but a 2xx answer into a failed attempt (`AttemptFails`) and an
  answer into the tag `glpi_ticket_id` (`tag`).
* **The handler threads**: `process_event` cut at every point where another actor
  can come between - `Begin` (BEGIN IMMEDIATE and the SELECT, together since the
  lock is taken first), the GLPI calls `CreateTicket`, `RecoveryFollowup`,
  `RecoveryStatus`, `ProblemFollowup`, then `Commit`, then `Answer` (`do_POST`).
  `Branch` and `NewRow` are the if-tree of the function. `Busy` is SQLite's busy
  timeout, `Fail` an exception before an effect.
* **GLPI** (external): a sequence of tickets. A call may take effect and lose its
  answer (fault `"glpi"`), or take effect after the bridge gave up (`"late"`,
  `GiveUpCall` then `LateEffect`).

`Crash` is the container's restart: threads and the open transaction vanish, the
committed rows stay. `orphans` and `repeats` are history variables: the tickets and
followups GLPI has and the database does not know about. No guard reads them.
The fingerprint is the notification itself, as it digests all of its fields. The
ticket's text, the OAuth token and the metrics are left out.

`IncidentLedger.tla` is the promise: an incident is correlated once and for ever
with a ticket of its own, a ticket is closed only while its incident is in
progress, recovered means closed, and an acknowledgement is about what is recorded.
The mapping `Ledger` reads incidents off the rows, closed tickets off GLPI and
acknowledgements off Zabbix. A late call can re-close a ticket that is closed
already, which is a stutter of the ledger.

| Run | Instance | What it shows |
|---|---|---|
| `bridge_faults` | 1 event, 3 notifications, 2 threads, 2 attempts; `"glpi"`, `"late"`, `"crash"` | type invariant, recovered means closed and left alone, whatever is delivered after it |
| `bridge_settles` | 1 event, 2 notifications, 2 threads, 2 attempts, all faults (callers that stop waiting among them), fairness | every duplicate is the residue of a fault, acknowledged means recorded, followups are accounted for, refinement, every notification settles, the write lock is released |
| `bridge_duplicate_ticket` | as above, `"glpi"` only | the contract fails when an answer is lost: finding |

Bounds. Two threads are what it takes to overlap and the lock admits one; the media
type sends one at a time, so more overlap needs more timeouts, not more threads. Two
attempts contain every retry-after-a-fault; the violation uses the configured
three. Three notifications of one event are all the rows `Branch` tells apart
(first, changed, recovery, and each of them repeated); with every fault at once two
notifications suffice, since the changed problem adds a followup that is neither a
ticket nor a recovery. A second event shares nothing with the first but the write lock, for which
two threads with one event compete as well. The proofs below remove all of these
bounds from the safety properties; `CorrelationSound`, which is about several events
and a part of the refinement, is proved only.

Fairness (`FairSpec`): a thread inside `process_event` makes progress, because every
GLPI call has a timeout (`json_request`) and the lock a busy timeout; Zabbix keeps
sending what is queued. Nothing is assumed of GLPI, of `Notify` or of faults: a
crash may strike again and again, the attempts bound it. The deadlock check is on:
`Quiescent` is the only place where the system may stop.

### Proofs

`GlpiBridgeProofs.tla` proves `Spec => []IInv` from `BridgeAssumption` alone (any
sets of events, notifications and threads, any number of attempts, any faults).
The properties are not inductive as they stand: that a commit does not overwrite a
correlation depends on what the thread read before its call. `IInv` adds

* `LockInv` - exactly the thread between BEGIN and its end holds the lock, and the
  row it has read is still the row of the table;
* `StepInv` - what that thread knows at each step (a ticket of the right event, not
  closed and not orphaned, before the INSERT; the correlated ticket otherwise);
* `TicketInv` - each ticket is correlated, about to be, or an orphan;
* `LateInv` - an abandoned call other than a creation names the correlated ticket;
* `FollowupInv`, `AcceptedInv`, `ClosedInv` - the counts, the thread about to answer
  200, and the closing before the commit.

There is one lemma per action (`BeginStep`, `CommitStep`, ...) and shared ones for
what all rollbacks do (`RolledBack`, `LeftBehind`). The listed theorems follow:
`TypeCorrect`, `CorrelationIsSound`, `RecoveredImpliesClosed`,
`AcknowledgedImpliesRecorded`, `DuplicatesAreOrphans`, `FollowupsAreAccounted`.

`GlpiBridgeRefinement.tla` proves `Spec => ImplementsLedger` (`Refinement`), with
`CallerInv` (Zabbix listens only to a delivery in progress) as a further invariant,
and the action property `RecoveredIsFinal` (`RecoveredStaysFinal`).

`OneTicketPerEvent` and `OneRecoveryFollowup`, the README's contract as it is
written, hold only if no call or commit is lost and the container is not restarted:
`OneTicketUndisturbed` and `OneFollowupUndisturbed` prove them for
`Faults \subseteq {"timeout"}`, that is, for any overlap, repetition and retry of any
number of threads. With the other faults `bridge_duplicate_ticket` refutes the
former, and `DuplicatesAreOrphans` and `FollowupsAreAccounted` say what remains.
`EveryAlertSettles` and `LockIsReleased` are checked only.

## 4. The Windows service policy

`WindowsServicePolicy.tla` models the runs with `--apply`. A run loads the ledger
(`Load`), creates the lock file (`TakeLock`), reads and checks every target
(`Plan`, or `Refuse`), and goes through the targets in order: `OpenRecord` and
`EnterHost` (the record, a pending intent), `CreateItem`/`RecordItem`,
`CreateTrigger`/`RecordTrigger`/`RecordTriggerStatus`, then `change_status` as
`WriteIntent`, `UpdateStatus`, `ConfirmStatus` for one rule after the other, then
`FinishHost`. Each of these is a step because the process may fail (`Abort`, with
the `finally` that removes the lock file) or be killed (`Kill`, without it) after
each. `mode` is the operation of the run, `led` its ledger in memory, `snap` what it
read of Zabbix in the planning pass - on which it relies to the end - and `file` the
ledger on disk. Zabbix (`items`, `rule`, `late`) is external.

A rule is a trigger in state absent, off or on. `HostAccepted` is the planning
pass reduced to what concerns the ledger: `ScopeOK` is `check_trigger_scope`
(everything recorded exists, everything owned is recorded), `StatusMatches` is
`status_matches`. The checks that depend on other data (identity, tags, routing,
drift, freshness) are `Refuse`, which may happen in any state before the first
write; so no property relies on them. A dry run writes nothing and is left out, as
is the configuration's fingerprint.

| Run | Instance | What it shows |
|---|---|---|
| `wsp_faults` | 1 host, 2 items, 2 + 2 rules, 2 processes, errors and kills | type invariant, `JournalMatches`, `RollbackPossible`, `RolledBackIsOriginal`, `RetireOnlyCovered`, `SuccessIsReal` |
| `wsp_ends` | 2 hosts, 1 item, 1 + 1 rules, 1 process, errors and late updates, fairness | `ObserveAfterRollback`, every run ends and gives the lock back |
| `wsp_stale_ledger` | minimal, 2 processes, no fault | the ledger read before the lock: finding |

Bounds. The number of runs is not bounded. Two rules of each kind are needed for
the order between replacements and legacy rules and between two changes of one
kind; two items for an interruption between creations; two hosts for an
interruption between hosts. Two processes with one host and one with two split the
product: together they are beyond TLC, so that `RollbackPossible` is shown for one
host only. `MaxLate` bounds the updates that are under way after the run gave
them up to one. They are left out of `wsp_faults` since `JournalMatches` and
`RollbackPossible` do not survive them (section 9).

Fairness: `WF_vars(Reconcile(p))` - the program is loop-free up to the number of
rules and each call has a timeout. No fairness of `Load`, of the operator's removal
of the lock file or of faults.

No deadlock is possible: an idle process may always start a run.

### Proofs

`WindowsServicePolicyProofs.tla` assumes `PolicyAssumption` - what the inventory's
checks ensure of the configuration: at least one host, item and rule of each kind,
no rule of both kinds - and is about any number of them and of processes, which may
fail or be killed anywhere. All but the last theorem have the hypothesis
`"late" \notin Faults`: with late updates `JournalMatches` and `RollbackPossible` are
false (section 9), and the ledger says nothing reliable of Zabbix any more.

`JournalMatches` speaks of the ledger on disk, while a run works with one in memory
that it read before it had the lock. That this is harmless for it is the core of
`IInv`:

* `LockInv` - one run holds the lock; a killed one leaves it locked.
* `RecordsInv` - what any record says, however old: the original statuses were on, a
  pending change is about a rule it knows, rolled back means nothing pending. A
  stale ledger satisfies it and nothing else.
* `RunInv` - what the run past its checks knows: its record of every host fits Zabbix
  but for the one item or trigger just made (`HostOK`), so a stale ledger that got
  through the checks is as good as the one on disk; where the host in progress
  stands (`TargetOK`); and that the hosts before it are as its mode demands
  (`Satisfied`), from which `SuccessIsReal` follows at the last one.
* `ChangedInv` - once any status differs from the original, every host has all items
  and triggers and the ledger has them all. It is why `RollbackPossible` needs
  nothing of the host concerned: enforce begins only when observe has completed
  everywhere, and nothing is ever deleted.

Theorems: `ReconcilerTypeCorrect`, `JournalAlwaysMatches`, `RollbackAlwaysPossible`,
`RollbackAlwaysRestores`, `RetiresOnlyCovered`, `SuccessAlwaysReal`.

`AloneObservesFirst` proves `ObserveAfterRollback` for one process at a time, late
updates included. With two it is false (`wsp_stale_ledger`), so it has an invariant
of its own, `AloneInv`: a run alone has in memory what is on disk (`CurrentInv`), and
past the checks of enforce no host is rolled back (`EnforceInv`).

`LockReturns` is checked only.

## 5. The NetBox-Zabbix synchronisation

`NetboxZabbixSync.tla` models the loop of the container: one run with `--apply`
after the other. A run has three parts. `ReadHosts` is `host.get` and `managed`;
`ReadObjects` is the NetBox queries and the preflight over everything read
(`Refused`, with `NameTaken` for the names and `Orphans` for the scope); then the
writes, object by object: `SkipUnaddressed`, `CreateHost` or `UpdateHost`,
`UpdateInterface`, `SetHostId`, and in the end `DisableOrphan`. Each call is a step,
since people and late requests come between: `run.hosts` and `run.rows` are what
the run has read and works with, `hosts` and `nb` what there is by now. `Call` is
one request with its three outcomes - executed, refused by Zabbix (the exception
ends the run), given up and perhaps executed later (`late`, `LateRequest`). An
error before the effect, a lost answer and a stopped container look the same to the
next run and are `Interrupt`.

A row of NetBox is reduced to what the program tells apart: in scope (tag and
site), name, primary address, active or not, the profile that its platform or custom
field resolves to (`NoGroup` when to none), the stored id, one foreign custom field. A
host has its owner from the tags, both names, status, address, the managed tags as
one (`active`), local tags, and the group with its templates (`NoGroup` when it was
moved out of the managed ones). Every host has an agent interface: the branch that
makes a missing one (`hostinterface.create`) is left out. The technical name of a
virtual machine is the object itself (`netbox-vm-<id>`).

| Run | Instance | What it shows |
|---|---|---|
| `nz_sync` | 1 device, 1 VM, 2 names, perhaps an unmanaged host; 2 edits of any kind, 1 fault; fairness | type invariant, three further invariants, two action properties, convergence |

Bounds. The number of runs is not bounded. Two edits are what the hazards need: one
that gives the run something to write and one that comes between reading and
writing. One fault is enough to leave a residue for the next run; a second would
leave another of the same kind. A device and a virtual machine are the two kinds
of names; the unmanaged host has any technical and visible name, so that collisions
of technical names happen without a second device.

Fairness: `WF_vars(Sync)`, the container's loop; each call has a timeout of 30
seconds. Nothing is assumed of `Interrupt`, `LateRequest` and the edits except their
bounds. `Converges` ends in `Mirrored` or in `Blocked`, which lists what the
program leaves to people: two hosts of one object, whatever the preflight refuses,
and a visible name in use. A chain of renames (a to b while b becomes c) is of that
kind: the preflight refuses it for ever although NetBox is consistent.

The history variables `clash` and `moved` are read by the properties only. Deadlock
is impossible, since an idle loop may always read again. Left out: a second process
next to the loop (the README of the role warns against it), a NetBox object deleted
while a run writes to it, additional agent interfaces. `NamesForeseen` and
`LocalTagsKept` are refuted (section 9) and no run lists them.

### Proofs

`NetboxZabbixSyncProofs.tla` assumes only that values standing for different things
differ (`SyncAssumption`) and that no host is the value for "deleted"
(`HostAssumption`). It holds for any number of devices, virtual machines, hosts, edits
and faults; a device may even have the technical name of a virtual machine
(`netbox-vm-<id>`), which the instance leaves out and the preflight refuses.
`IInv` has these parts:

* `SyncTypeOK`, `LateInv` - the types, and that a request under way either creates a
  host of an object or changes one that a run has found managed.
* `ReadInv` - the hosts have only grown since they were read (`Grows`: a host that is
  gone stays gone, none changes its owner), and what was read has one host per
  object, since the preflight and `managed` insist.
* `WriteInv` - a run that writes passed the preflight with the rows it holds, and has
  the right host in hand.
* `StoredInv` - stored ids have been given, and are not given again, so
  `StoredIsOwn` survives deletions.
* `NamesInv` - the argument for `OneHostPerObject`. A run may create a host while an
  earlier request to create it is still under way, so nothing on the run's side
  prevents a second one. But as long as one may be in the making (`Pending`), every host
  of the object, and every request for one, has the object's technical name
  (`OneName`), and Zabbix refuses the second. A device renamed meanwhile (`moved`) has
  two such names, and is exempt in the property.
* `QuietInv` - while nobody disturbs a run, each host has the technical name that the
  run read or the one it gave it, all of which the preflight has compared:
  `TechnicalNamesForeseen`.

`SecondRunIsSilent` rests on a further invariant, `Account`: what an undisturbed run
has read and not yet written is what NetBox and Zabbix still say, so a write means
that something was not mirrored.

`ManagedOnly` is about tags and groups. The tags decide for good: no step and no late
request changes a host without them, gives one to another object, or deletes one, and
none writes a group. The groups decide as they were read: the preflight compares those
of each object's host, and `Orphans` looks at them, but `host.update` works with what
was read, so a host that somebody moves out of the scope meanwhile is still written
to. `ChangesManagedOnly` therefore has the group only while nobody disturbs the run,
and takes it from `Account`.

Theorems: `SyncTypeCorrect`, `AlwaysOneHost`, `StoredAlwaysOwn`,
`TechnicalNamesAlwaysForeseen`, `ChangesManagedOnly`, `SecondRunAlwaysSilent`.
`Converges` is checked only.

## 6. The OCSP verifier and its collectors

### The verifier

`OcspPolicy.tla` models `check`. A check waits for the lock (`Begin`, `GiveUpLock`),
reads the state file and decides what that allows (`Acquire`: unusable state, known
revocation, clock gone back, cached response, or a question to the responder), hears
from the responder (`Answered`, `Unanswered`), and saves in two steps: `Replace`
(`os.replace`) makes the new state visible to other processes, `Sync` (the fsync of
the directory) makes it durable and leaves the lock. `Record` writes the metrics and
answers. `visible` and `disk` are the two views of the one file; `PowerLoss` may
leave either. A check is the process of a connection: it may be killed anywhere.

A certificate with its issuer is one key. A response is a record of what it is
about, its status, its three times and the first flaw `validate_response` would
find; so the order authentication, times, status is that of the code, and the
cryptography is one flaw. The responder may answer with anything it has signed since
the beginning, or with any flawed response. `Timely` and `Deadline` are the code's
inequalities. A deadline is the least of what limits it, the certificates' ends being
`CertEnds`. Time is the true `time`; the local clock is `time + offset`.

| Run | Instance | What it shows |
|---|---|---|
| `ocsp` | 2 certificates, 2 checks, room for 1 response and 1 revocation, 2 ticks, a clock that may be set back, all faults | `CacheFits`, `JournalIsTrue`, `ConfirmedIsDurable`, `RefusedForever`, `BoundedStaleness` |

`RefusedForever` and `ConfirmedIsDurable` are about revocations *confirmed*: recorded
by a check that lived to report it. `BoundedStaleness` is by the local clock at the
decision, which is all the code can promise.

Bounds. One tick is enough to make a response too old (`MaxAge` 1) and two offsets
to set a clock back; `Life` 3 is longer, so that nextUpdate does not mask the age
limit. Room for one response and one revocation is where eviction and the full
journal happen with two certificates. `Skew` is 0: it only widens the accepting side
of inequalities that are checked as they stand. There is no state of rest: a
connection may always come.

### The collectors

`UnifiCollector.tla` extends it. A run is `Requests` requests; each is `Connect`
(handshake, then the certificate goes to a check), the check, `Answer` (or
`VerifierFails`, or `Killed`), and only then `Exchange`; the next request connects
anew (`Hangup`). Runs of UnPoller overlap, each with a verifier process of its own
and a limit of 12 seconds; the AP collector is one process that makes the check
itself, publishes every outcome (`Publish`) and is restarted when it cannot. The
reason it publishes with a failure is not modelled in every case (`ssl.SSLError` has a
`reason` of its own, which is taken before the `tls` of the code's default, so it is
published as `collection`); no property reads it.

| Run | Instance | What it shows |
|---|---|---|
| `ocsp_collectors` | 1 certificate, 2 overlapping runs of 2 requests, either collector, all faults, fairness | type invariant of both modules, `SuccessIsVerified`, `NoBytesToRevoked`, `EveryRunEnds` |

Bounds. Two requests are the least with a second connection to be verified (the
password goes with the first, data with the second); the code makes three and more
in the same way. Two runs are what it takes to wait for a lock. One certificate with
a clock that is right: the other cases are those of `ocsp`.

Fairness: `WF_vars(Collect(p))` - the handshake has a timeout of 15 seconds, the lock
and the responder `timeout_seconds`, the verifier 12 seconds, each request 15 or 30.
Nothing is assumed of `Start`, of `Killed` or of power losses. A run that is killed
or loses its power has ended too.

### Proofs

`OcspPolicyProofs.tla` assumes `OcspAssumption`: the limits are numbers and the words
for flaws, failures and verdicts are distinct. `RefusedForever` compares a decision
with a revocation that another check, perhaps long ended, recorded before a power
loss; the invariant that carries it through all of this is

* `FilesInv` - `confirmed \subseteq disk.revoked \subseteq visible.revoked`: what was
  confirmed is in both views of the file, and a power loss, which may leave either,
  can lose only what was not; entries are of their time and the cache has room;
* `CheckInv` - the check that holds the lock has in memory at least the revocations
  of the visible file, until it has replaced it (`MemoryOK`), and what each check knows
  at each step of the certificate it is about (`VerdictOK`).

`BoundedStaleness` adds that an entry calls good only what was not yet revoked at its
thisUpdate, and that no deadline lies beyond thisUpdate + `MaxAge` (`EntryOK`).
Theorems: `TypeCorrect`, `CacheAlwaysFits`, `JournalAlwaysTrue`,
`ConfirmedAlwaysDurable`, `ConfirmedIsRefused`, `AcceptanceIsFresh`.

`UnifiCollectorProofs.tla` first proves that the composition implements the
verifier's specification (`CollectorImplementsPolicy`: every step of a collector is,
on the verifier's variables, one of its steps or a stutter), which carries those
theorems over (`CollectorsRefuseConfirmed`). `RunInv` then relates the connection
of a run to its check and counts the verified ones: `CollectorTypeCorrect`,
`SuccessAlwaysVerified`, `RevokedGetNoBytes`. `EveryRunEnds` is checked only.

## 7. The rollout of the protection

`OcspRollout.tla` is `playbooks/unifi-ocsp.yml` as a program of tasks (`Playbook`),
executed one by one by a run with an inventory of its own (`Review`: any image,
previous image, issuer, trust and settings that pass the review). `Fail` ends a run
before any task, `Apply` may leave each container new, old or gone; the next run
starts from what is there: `compose`, `files` (policy, issuer, trust of each
collector), `journal`, `running`. `Provision` is the full provisioning, which
writes its own Compose unless `Marker` (the policy file of UnPoller) stops it. The
filters are operators: `Options`, `PolicyFilter`, `Preserved`, `Patchable`/`Patched`,
and `RuntimeOptions`/`RuntimePolicy` for what the verifier accepts in its turn.
`trust` stands for what a container reads once: the CA, the address and account of
the AP collector, the credential.

| Run | Instance | What it shows |
|---|---|---|
| `rollout` | 3 images (stock, protecting, protecting with options), 2 issuers, 2 trusts, 2 good settings and 19 beside the limits; failures, lost journals | `HistoryKept`, `RuntimeAccepts`, `ProtectionStays`, `IssuerStays` |
| `rollout_trust` | the same | trust written by a failed run is not applied by the next: finding |

Bounds. The number of runs is not bounded. Two values of what may differ are what
a change takes. The settings are the limits of each filter and their neighbours,
so `RuntimeAccepts` compares the two programs where they could differ: the profile
with its age, and the five numeric limits (timeout, size of a response, cache
entries, clock skew, cache lifetime). A journal is
lost between two runs only: a loss between the guard and the initialisation of the
same run is left out (the code would start an empty journal then). Beginning states
are the stock host, one somebody has changed and an installation of the former role.
Deadlock is impossible, since a run may always be started.

### Proofs

`OcspRolloutProofs.tla` is about any images, issuers, settings and certificates and
runs that end at any task. `IInv` is

* `MarkerInv` - protection in a Compose and revocations in a journal exist only on a
  host with the marker, which is what makes the guard of the full provisioning, a look
  for one file, sufficient; and both collectors agree on the issuer there;
* `RunInv` - what a run has established by the tasks it is past (`Done`): the review,
  the guard, a journal, the issuer; a task that wrote `None` or skipped one would
  show here. Since `Playbook` is a sequence, `run.at` says which tasks those are.

`FilterImpliesRuntime` is the lemma that the two programs agree: every settings
record that `PolicyFilter` lets through is one `RuntimePolicy` accepts, for all
numbers and not only for those beside the limits. `RuntimeAlwaysAccepts` has the
hypothesis `RuntimePolicy(OldSettings)`: the policy of the former role, which this one
did not write and leaves until the task that replaces it, is one that worked.
Theorems: `HistoryAlwaysKept`, `ProtectionAlwaysStays`, `IssuerAlwaysStays`,
`RuntimeAlwaysAccepts`.

## 8. The backups

`PlatformBackup.tla` has the four `create_backup` functions as programs of commands
(`Program`), with what bash does to them: a failing command runs the trap and ends
the script (`Fail`); INT and TERM run the trap after the command and the script goes
*on* with the next one, because the trap does not exit (`Signal`); before `trap` is
set and after it is removed both end the script as they find it (`Die`). The trap
lets the service go (`LeaveQuiet`: under the flag in GLPI, always in the
observability stack), removes the staging directory and reports failure. Wherever it
is called, the command of `LeaveQuiet` ends in `|| true`, so it may have no effect and
the script goes on (fault `"swallow"`); the observability backup then waits for its
services (`Look` at `wait`) and fails when they do not come, while GLPI's has no
such look. The `cd`, `rm` and `write_metrics` of the trap are taken to succeed. GLPI is in
maintenance mode, Prometheus and Grafana are stopped, while the data is captured;
NetBox and Zabbix go on serving.

| Run | Instance | What it shows |
|---|---|---|
| `backup` | each of the four services, 1 script at a time, 2 backups; failures, failures after the effect, swallowed failures, signals, kills | `PublishedIsWhole`, `ServiceComesBack`, `SuccessServes` |

Bounds. `MaxBackups` bounds the backups published; when it is reached the system
stops, so deadlock is not checked. Two let a backup be pruned while another is made.
One script at a time: with two (the timer, and `glpi-backup backup` by hand)
`PublishedIsWhole` fails, since nothing locks one out while the other's
`maintenance:disable` comes (the role's README gives the command, and does not say
that the two may overlap: no finding).
`verify_backup` is left out.

### Proofs

`PlatformBackupProofs.tla` proves `ServiceComesBack` (`ServiceAlwaysComesBack`) for
any number of scripts at once. Its invariant is that somebody is always responsible:
a service that does not serve, and was not abandoned, is so because a script between
quiet and resume will let it go (`ResponsibleInv`; in GLPI only if its flag is set or
about to be). `abandoned` records the three ways around it: a kill, a command that
failed after it had made the service quiet, and a swallowed failure of the one that
lets it go. The next backup that makes the service quiet and lets it go ends all
three. `ScriptInv` says where the trap is set and what has been captured;
`ProgramOrder` and `HoldingOrder` are the facts about the four programs it needs.

`PublishedAlwaysWhole` has the hypothesis `Alone` (no two scripts of a service that is
made quiet): as long as a script has its staging directory, the service is quiet for
it (`QuietInv`). A second script's `resume` breaks exactly this; the signal that makes
the first go on after its trap does not, because the trap takes the directory with it.

`SuccessAlwaysServes` has the same hypothesis. In the observability backup the services
serve from the wait on (`ServesInv`); with two scripts one may stop them after the other
has waited. In GLPI's the command that enables maintenance mode makes this script
responsible, and from then on only a swallowed failure can abandon the service
(`ServesInv`), so that at the report, where nobody is responsible any more, it serves
or was abandoned in that way.

## 9. Findings

With a run that shows it:

1. A lost answer or failed COMMIT after `create_ticket` leads to a second ticket on
   the retry (`bridge_duplicate_ticket`), and one after the recovery followup to a
   second followup, although the README says repeated deliveries do not.
2. The Windows ledger is read before the lock is taken, so an enforce run may follow
   a rollback without an observe run in between (`wsp_stale_ledger`).
3. Trust written by a rollout run that then failed is not applied by the next run
   that succeeds (`rollout_trust`).

Without one; each is a definition that TLC refutes in seconds when it is put in
the place of the properties of the run named (with the change named):

4. `RollbackPossible`, `wsp_ends` (as INVARIANT): a `trigger.update` executed after
   a later run settled its intent leaves a status the ledger does not explain; every
   run, rollback included, then refuses.
5. `NamesForeseen`, `nz_sync`: the preflight of the sync does not look at visible
   names, which Zabbix refuses in the middle of the writes.
6. `LocalTagsKept`, `nz_sync`: a tag added in Zabbix while a run is on its way is
   removed by it.
7. `AcknowledgedIsDurable`, `ocsp`: a revocation found in a file whose writer died
   before the sync is acknowledged though not durable.
8. `ConfirmedStaysBlocked`, `ocsp`: what a full journal has no room for is denied
   once and may be accepted later.
9. `ClockOnlyForward`, `ocsp`: a clock set back during a fetch is not noticed.
10. `OptionsOnlyToCapable`, `rollout`: the policy is written before the image that
    understands it runs.
11. `HandlerAlwaysAttempts`, `backup`: `maintenance:enable` that fails after its
    effect leaves GLPI in maintenance mode.
12. `QuietOnlyWhileCapturing`, `backup` with `Services = {"glpi"}` and `Faults =
    {"swallow"}`: a failing `maintenance:disable` is swallowed by `|| true`, the backup
    is published and reported as a success, and GLPI stays in maintenance mode,
    although the docs say it is there only during the capture.

The properties of the passing runs say what remains true in spite of them.

## 10. Not modelled

* The maintenance window, the external copy and the recovery drill: sequences of
  commands without state that another program reads; what they would add to
  `PlatformBackup` is its trap once more.
* `verify_backup`: a restore into throw-away containers.
* The NetBox proxy boundary and the other inventory filters: pure functions without
  state, covered by the repository's unit tests.
* The Windows policy's item and trigger expressions: their meaning is Zabbix's.
* The parsing of the controller's answers and the text of metrics.
* Declarative roles, alert rules, the platform map and the demo inventory (one-off
  scripts), lab automation and repository checks: see the notes in `PROJECT.json`.

Proved, for every value of the constants, are the safety properties of all passing
runs and the two refinements (the bridge implements `IncidentLedger`, the collectors
implement `OcspPolicy`). Out of the prover's reach and only model-checked are the
liveness properties, whose proofs need ENABLED and induction over a measure under
fairness: `EveryAlertSettles` and `LockIsReleased` of the bridge, `LockReturns` of
the Windows policy, `Converges` of the synchronisation and `EveryRunEnds` of the
collectors. The properties of the runs that expect a violation are false by design; the
theorems state under which restriction the first two hold (`OneTicketUndisturbed`,
`AloneObservesFirst`).
