-------------------------- MODULE NetboxZabbixSync --------------------------
(***************************************************************************)
(* The NetBox-Zabbix synchronisation: a loop of runs with --apply.  A run  *)
(* reads the Zabbix hosts, then the NetBox objects in scope, checks them   *)
(* all together (the preflight), and only then writes, one object and one  *)
(* call after the other.  It keeps nothing of its own between runs.        *)
(*                                                                         *)
(* Zabbix (hosts, late) is external, and so are the people who edit both   *)
(* systems while a run works on what it has read.  A host carries the      *)
(* identity of its NetBox object in tags; `active' stands for the tag      *)
(* netbox_status and for the other managed tags, which are recomputed in   *)
(* the same way, and `local' for the tags somebody added by hand.          *)
(***************************************************************************)
EXTENDS Naturals, Sequences, FiniteSets

CONSTANTS
  Devices, VMs,   \* NetBox objects that may carry the selecting tag
  Names,          \* object names
  Addresses,      \* primary addresses
  Groups,         \* monitoring profiles: the host group with its templates
  LocalTags,      \* tags that people add to hosts in Zabbix
  Edits,          \* which edits people make: a subset of EditKinds
  MaxEdits,       \* bound on the edits in one behaviour
  Faults,         \* which faults may strike: a subset of FaultKinds
  MaxFaults,      \* bound on the faults in one behaviour
  NoObject, NoAddress, NoGroup, NoHost

Objects == Devices \union VMs

EditKinds == {"select", "rename", "address", "status", "field", "profile",
              "local", "switch", "regroup", "delete"}
FaultKinds == {"interrupt", "late"}

ASSUME SyncAssumption ==
  /\ Devices \intersect VMs = {}
  /\ NoObject \notin Objects
  /\ NoAddress \notin Addresses
  /\ NoGroup \notin Groups
  /\ Edits \subseteq EditKinds /\ MaxEdits \in Nat
  /\ Faults \subseteq FaultKinds /\ MaxFaults \in Nat

VARIABLES
  nb,      \* [Objects -> Rows]: the NetBox inventory
  hosts,   \* Zabbix: the sequence of hosts ever made, NoHost where deleted
  late,    \* Zabbix: requests given up by a run that may still be executed
  run,     \* the run in progress
  clash,   \* history: the name refused in the middle of an undisturbed run
  moved,   \* history: objects renamed during a run or with a create on its way
  edits, faults  \* edits and faults so far

vars == <<nb, hosts, late, run, clash, moved, edits, faults>>

(* An object: does it carry the tag, in a configured site; its name, its    *)
(* primary address, whether its status is active, the profile its platform  *)
(* or its custom field resolves to; and of its custom fields zabbix_hostid  *)
(* (0 when empty) and one field of somebody else's.                         *)
Row == [selected : BOOLEAN, name : Names, ip : Addresses \union {NoAddress},
        active : BOOLEAN, group : Groups \union {NoGroup}, stored : Nat, other : BOOLEAN]

(* A host: the object its tags claim; technical and visible name; enabled;  *)
(* address of its agent interface; tags; group with templates.              *)
Host == [owner : Objects \union {NoObject}, host : Names \union VMs, name : Names,
         on : BOOLEAN, ip : Addresses \union {NoAddress}, active : BOOLEAN,
         local : SUBSET LocalTags, group : Groups \union {NoGroup}]

ASSUME HostAssumption == NoHost \notin Host

(* host.create has the id 0; host.update and hostinterface.update carry     *)
(* only the fields that they set.                                           *)
Request(h, set) == [host |-> h, set |-> set]

NoRun == [pc |-> "idle", hosts |-> <<>>, rows |-> <<>>, todo |-> {}, orphans |-> {},
          step |-> "choose", object |-> NoObject, host |-> 0, quiet |-> FALSE]

-----------------------------------------------------------------------------
(* What a run computes from what it has read                                *)

(* Faulty variant of Technical: virtual machines go by their name, too.     *)
TechnicalByName(o, row) == row.name

(* host_name: a stable name for a virtual machine, its name for a device.   *)
Technical(o, row) == IF o \in VMs THEN o ELSE row.name

Live(hs) == {h \in DOMAIN hs : hs[h] # NoHost}

(* managed: the hosts whose tags claim an object.                           *)
Managed(hs) == {h \in Live(hs) : hs[h].owner # NoObject}

(* Faulty variant of Owned: a host of the object's name is adopted.         *)
OwnedOrNamed(hs, o) ==
  {h \in Live(hs) : \/ hs[h].owner = o
                    \/ hs[h].owner = NoObject /\ hs[h].host = Technical(o, nb[o])}

Owned(hs, o) == {h \in Live(hs) : hs[h].owner = o}

Duplicated(hs) == \E o \in Objects : Cardinality(Owned(hs, o)) > 1

Selected == {o \in Objects : nb[o].selected}

(* Faulty variant of NameTaken: the hosts in Zabbix are not looked at.      *)
NameTakenInNetbox(hs, rows) ==
  \E o \in DOMAIN rows :
    \E p \in DOMAIN rows \ {o} : Technical(p, rows[p]) = Technical(o, rows[o])

(* The part of the preflight that concerns names.                           *)
NameTaken(hs, rows) ==
  \E o \in DOMAIN rows :
    \/ \E p \in DOMAIN rows \ {o} : Technical(p, rows[p]) = Technical(o, rows[o])
    \/ \E h \in Live(hs) \ Owned(hs, o) : hs[h].host = Technical(o, rows[o])

(* The preflight: one object that does not fit refuses the whole run.       *)
Refused(hs, rows) ==
  \/ NameTaken(hs, rows)
  \/ \E o \in DOMAIN rows :
       \/ rows[o].group = NoGroup
       \/ rows[o].stored # 0 /\ rows[o].stored \notin Owned(hs, o)
       \/ \E h \in Owned(hs, o) : hs[h].group # rows[o].group

(* Faulty variant of Orphans: the scope of the host is not looked at.       *)
OrphansAnywhere(hs, rows) ==
  {h \in Managed(hs) : hs[h].owner \notin DOMAIN rows /\ hs[h].on}

(* Managed hosts in scope, by their group, whose object is not selected.    *)
Orphans(hs, rows) ==
  {h \in Managed(hs) : hs[h].owner \notin DOMAIN rows /\ hs[h].on /\ hs[h].group # NoGroup}

(* What host.create is given.                                               *)
Mirror(o, row) ==
  [owner |-> o, host |-> Technical(o, row), name |-> row.name, on |-> row.active,
   ip |-> row.ip, active |-> row.active, local |-> {}, group |-> row.group]

(* Faulty variant of Update: the status is set on creation only.            *)
UpdateKeepsStatus(o, row, h) ==
  LET want == Mirror(o, row)
      names == IF h.host # want.host \/ h.name # want.name THEN {"host", "name"} ELSE {}
      tags == IF h.active # want.active THEN {"active", "local"} ELSE {}
  IN  [f \in names \union tags |-> IF f = "local" THEN h.local ELSE want[f]]

(* What host.update is given: the fields that differ from the host as read, *)
(* and with the managed tags the local ones as read.                        *)
Update(o, row, h) ==
  LET want == Mirror(o, row)
      names == IF h.host # want.host \/ h.name # want.name THEN {"host", "name"} ELSE {}
      on == IF h.on # want.on THEN {"on"} ELSE {}
      tags == IF h.active # want.active THEN {"active", "local"} ELSE {}
  IN  [f \in names \union on \union tags |-> IF f = "local" THEN h.local ELSE want[f]]

-----------------------------------------------------------------------------
(* Zabbix: technical and visible names are unique, each among themselves    *)

Taken(field, r) ==
  field \in DOMAIN r.set /\ \E h \in Live(hosts) \ {r.host} : hosts[h][field] = r.set[field]

Accepted(r) ==
  /\ ~Taken("host", r) /\ ~Taken("name", r)
  /\ r.host # 0 => hosts[r.host] # NoHost

Overwritten(h, set) == [f \in DOMAIN h |-> IF f \in DOMAIN set THEN set[f] ELSE h[f]]

Executed(r) ==
  IF r.host = 0 THEN Append(hosts, r.set)
                ELSE [hosts EXCEPT ![r.host] = Overwritten(@, r.set)]

-----------------------------------------------------------------------------
(* The steps of a run                                                       *)

Idle == run.pc = "idle"
Writing(step) == run.pc = "write" /\ run.step = step

(* One call with what comes after it: Zabbix executes it, or refuses it and *)
(* the exception ends the run, or the run gives up after 30 seconds while   *)
(* the request is still on its way.                                         *)
Call(r, next) ==
  /\ UNCHANGED <<nb, moved, edits>>
  /\ \/ /\ Accepted(r)
        /\ hosts' = Executed(r)
        /\ run' = next
        /\ UNCHANGED <<late, clash, faults>>
     \/ /\ ~Accepted(r)
        /\ run' = NoRun
        /\ clash' = IF ~run.quiet THEN clash
                    ELSE IF Taken("host", r) THEN "technical" ELSE "visible"
        /\ UNCHANGED <<hosts, late, faults>>
     \/ /\ "late" \in Faults /\ faults < MaxFaults
        /\ late' = late \union {r}
        /\ run' = NoRun
        /\ faults' = faults + 1
        /\ UNCHANGED <<hosts, clash>>

Silently(next) ==
  /\ run' = next
  /\ UNCHANGED <<nb, hosts, late, clash, moved, edits, faults>>

(* host.get; two hosts of one object end the run.                           *)
ReadHosts ==
  /\ Idle
  /\ run' = IF Duplicated(hosts) THEN NoRun
            ELSE [NoRun EXCEPT !.pc = "read", !.hosts = hosts, !.quiet = TRUE]
  /\ clash' = "none"
  /\ UNCHANGED <<nb, hosts, late, moved, edits, faults>>

(* Faulty variant of ReadObjects: the work list ignores tag and site.       *)
ReadObjectsUnscoped ==
  /\ run.pc = "read"
  /\ LET rows == [o \in Selected |-> nb[o]]
     IN  Silently(IF Refused(run.hosts, rows) THEN NoRun
                  ELSE [run EXCEPT !.pc = "write", !.rows = rows, !.todo = Objects,
                                   !.orphans = Orphans(run.hosts, rows)])

(* The NetBox queries, then the preflight over everything that was read.    *)
ReadObjects ==
  /\ run.pc = "read"
  /\ LET rows == [o \in Selected |-> nb[o]]
     IN  Silently(IF Refused(run.hosts, rows) THEN NoRun
                  ELSE [run EXCEPT !.pc = "write", !.rows = rows, !.todo = Selected,
                                   !.orphans = Orphans(run.hosts, rows)])

(* Devices come before virtual machines; among themselves in any order.     *)
Turn(o) ==
  /\ Writing("choose")
  /\ o \in run.todo
  /\ o \in VMs => run.todo \intersect Devices = {}

Done(o) == [run EXCEPT !.todo = @ \ {o}, !.step = "choose", !.object = NoObject, !.host = 0]
At(step, o, h) == [run EXCEPT !.step = step, !.object = o, !.host = h]

(* No primary address: the host, if there is one, is disabled.              *)
SkipUnaddressed(o) ==
  /\ Turn(o)
  /\ run.rows[o].ip = NoAddress
  /\ LET on == {h \in Owned(run.hosts, o) : run.hosts[h].on}
     IN  \/ on = {} /\ Silently(Done(o))
         \/ \E h \in on : Call(Request(h, [on |-> FALSE]), Done(o))

CreateHost(o) ==
  /\ Turn(o)
  /\ run.rows[o].ip # NoAddress
  /\ Owned(run.hosts, o) = {}
  /\ Call(Request(0, Mirror(o, run.rows[o])), At("store", o, Len(hosts) + 1))

UpdateHost(o) ==
  /\ Turn(o)
  /\ run.rows[o].ip # NoAddress
  /\ \E h \in Owned(run.hosts, o) :
       LET set == Update(o, run.rows[o], run.hosts[h])
       IN  IF DOMAIN set = {} THEN Silently(At("interface", o, h))
                              ELSE Call(Request(h, set), At("interface", o, h))

(* hostinterface.update.                                                    *)
UpdateInterface ==
  /\ Writing("interface")
  /\ LET ip == run.rows[run.object].ip
         next == At("store", run.object, run.host)
     IN  IF run.hosts[run.host].ip = ip THEN Silently(next)
                                        ELSE Call(Request(run.host, [ip |-> ip]), next)

(* set_hostid: all custom fields of the row are saved, as they were read.   *)
Stored(row, read, h) ==
  IF read.stored = h THEN row ELSE [row EXCEPT !.stored = h, !.other = read.other]

SetHostId ==
  /\ Writing("store")
  /\ nb' = [nb EXCEPT ![run.object] = Stored(@, run.rows[run.object], run.host)]
  /\ run' = Done(run.object)
  /\ UNCHANGED <<hosts, late, clash, moved, edits, faults>>

DisableOrphan ==
  /\ Writing("choose")
  /\ run.todo = {}
  /\ \E h \in run.orphans :
       Call(Request(h, [on |-> FALSE]), [run EXCEPT !.orphans = @ \ {h}])

Finish ==
  /\ Writing("choose")
  /\ run.todo = {} /\ run.orphans = {}
  /\ Silently(NoRun)

(* A call fails, its answer is lost or the container is stopped: the next   *)
(* run of the loop starts from nothing.                                     *)
Interrupt ==
  /\ "interrupt" \in Faults /\ faults < MaxFaults
  /\ ~Idle
  /\ run' = NoRun
  /\ faults' = faults + 1
  /\ UNCHANGED <<nb, hosts, late, clash, moved, edits>>

-----------------------------------------------------------------------------
(* The surroundings                                                         *)

Disturbed == [run EXCEPT !.quiet = FALSE]

LateRequest ==
  \E r \in late :
    /\ late' = late \ {r}
    /\ hosts' = IF Accepted(r) THEN Executed(r) ELSE hosts
    /\ run' = Disturbed
    /\ UNCHANGED <<nb, clash, moved, edits, faults>>

(* A host for o may be in the making under its former name.                 *)
BeingMade(o) ==
  \/ ~Idle
  \/ \E r \in late : r.host = 0 /\ r.set.owner = o

Edit(kind) ==
  /\ kind \in Edits /\ edits < MaxEdits
  /\ edits' = edits + 1
  /\ run' = Disturbed
  /\ UNCHANGED <<late, clash, faults>>

EditObject(o) ==
  /\ UNCHANGED hosts
  /\ \/ Edit("select") /\ nb' = [nb EXCEPT ![o].selected = ~@] /\ UNCHANGED moved
     \/ /\ Edit("rename")
        /\ \E n \in Names \ {nb[o].name} : nb' = [nb EXCEPT ![o].name = n]
        /\ moved' = IF BeingMade(o) THEN moved \union {o} ELSE moved
     \/ /\ Edit("address")
        /\ \E a \in (Addresses \union {NoAddress}) \ {nb[o].ip} : nb' = [nb EXCEPT ![o].ip = a]
        /\ UNCHANGED moved
     \/ Edit("status") /\ nb' = [nb EXCEPT ![o].active = ~@] /\ UNCHANGED moved
     \/ Edit("field") /\ nb' = [nb EXCEPT ![o].other = ~@] /\ UNCHANGED moved
     \/ /\ Edit("profile")
        /\ \E g \in (Groups \union {NoGroup}) \ {nb[o].group} : nb' = [nb EXCEPT ![o].group = g]
        /\ UNCHANGED moved

EditHost(h) ==
  /\ UNCHANGED <<nb, moved>>
  /\ \/ /\ Edit("local")
        /\ \E t \in LocalTags : hosts' = [hosts EXCEPT ![h].local = @ \union {t}]
     \/ Edit("switch") /\ hosts' = [hosts EXCEPT ![h].on = ~@]
     \/ /\ Edit("regroup")
        /\ \E g \in (Groups \union {NoGroup}) \ {hosts[h].group} : hosts' = [hosts EXCEPT ![h].group = g]
     \/ Edit("delete") /\ hosts' = [hosts EXCEPT ![h] = NoHost]

-----------------------------------------------------------------------------

(* A first run: nothing stored, and perhaps one host that is not managed.   *)
Unmanaged(n, v) ==
  [owner |-> NoObject, host |-> n, name |-> v, on |-> TRUE, ip |-> NoAddress,
   active |-> FALSE, local |-> {}, group |-> NoGroup]

Init ==
  /\ \E name \in [Objects -> Names], ip \in Addresses, g \in Groups :
       nb = [o \in Objects |-> [selected |-> TRUE, name |-> name[o], ip |-> ip, active |-> TRUE,
                                group |-> g, stored |-> 0, other |-> FALSE]]
  /\ \/ hosts = <<>>
     \/ \E n, v \in Names : hosts = <<Unmanaged(n, v)>>
  /\ late = {} /\ run = NoRun /\ clash = "none" /\ moved = {}
  /\ edits = 0 /\ faults = 0

Sync ==
  \/ ReadHosts \/ ReadObjects
  \/ \E o \in Objects : SkipUnaddressed(o) \/ CreateHost(o) \/ UpdateHost(o)
  \/ UpdateInterface \/ SetHostId \/ DisableOrphan \/ Finish

Next ==
  \/ Sync \/ Interrupt \/ LateRequest
  \/ \E o \in Objects : EditObject(o)
  \/ \E h \in Live(hosts) : EditHost(h)

Spec == Init /\ [][Next]_vars

(* The loop of the container always goes on; nothing is assumed of faults   *)
(* and of people but that they stop at their bounds.                        *)
FairSpec == Spec /\ WF_vars(Sync)

-----------------------------------------------------------------------------
(* Properties                                                               *)

(* Every variable has its type.                                             *)
TypeOK ==
  /\ nb \in [Objects -> Row]
  /\ \A h \in DOMAIN hosts : hosts[h] \in Host \union {NoHost}
  /\ \A r \in late : r.host \in 0..Len(hosts) /\ DOMAIN r.set \subseteq DOMAIN Unmanaged(0, 0)
  /\ run.pc \in {"idle", "read", "write"} /\ run.step \in {"choose", "interface", "store"}
  /\ run.todo \subseteq DOMAIN run.rows /\ DOMAIN run.rows \subseteq Objects
  /\ run.orphans \subseteq DOMAIN run.hosts /\ run.host \in 0..Len(hosts)
  /\ clash \in {"none", "technical", "visible"}
  /\ moved \subseteq Objects /\ edits \in 0..MaxEdits /\ faults \in 0..MaxFaults

(* An object has at most one host, whatever calls and answers are lost      *)
(* between host.create and set_hostid: a rerun finds the host by its tags,  *)
(* and a request that comes late is refused for its name.  Only a device    *)
(* renamed in between can be made twice; a virtual machine cannot, since    *)
(* its technical name does not change (see host_name).           *)
OneHostPerObject ==
  \A h \in Managed(hosts), g \in Managed(hosts) :
    h # g /\ hosts[h].owner = hosts[g].owner => hosts[h].owner \in Devices \intersect moved

(* The id stored in NetBox is never that of another object's host, so two   *)
(* objects never share a host: set_hostid after every interruption.         *)
StoredIsOwn ==
  \A o \in Objects : nb[o].stored \in Live(hosts) => hosts[nb[o].stored].owner = o

(* The preflight foresees every collision of technical names: unless        *)
(* somebody edits meanwhile, host.create and host.update are never refused  *)
(* for one in the middle of a run.                                          *)
TechnicalNamesForeseen == clash # "technical"

(* Collisions of names block a run before its first write (the role's       *)
(* deployment guide), visible names included.  Refuted: Zabbix also wants   *)
(* visible names unique, and nobody compares them.                          *)
NamesForeseen == clash = "none"

(* A step of the synchronisation, or a request of its, changes managed      *)
(* hosts only, and never to whom a host belongs or its group: no takeover,  *)
(* no deletion.  In a run that nobody disturbs such a host is in one of the *)
(* groups in scope; one regrouped after it was read is still written to.    *)
ManagedOnly ==
  [][edits' = edits =>
       \A h \in DOMAIN hosts : hosts'[h] # hosts[h] =>
         /\ h \in Managed(hosts) /\ hosts'[h] # NoHost
         /\ hosts'[h].owner = hosts[h].owner /\ hosts'[h].group = hosts[h].group
         /\ run.quiet /\ run'.quiet => hosts[h].group # NoGroup]_vars

(* Tags that people add in Zabbix are preserved (the role's README): no     *)
(* step of the synchronisation takes one away.  Refuted: host.update sends  *)
(* the tags as read at the beginning of the run.                            *)
LocalTagsKept ==
  [][edits' = edits =>
       \A h \in Live(hosts) : hosts[h].local \subseteq hosts'[h].local]_vars

(* Zabbix shows NetBox: each object with an address has its host, as        *)
(* host.create would make it, with its id stored; no other host in scope    *)
(* is enabled.                                                              *)
Mirrored ==
  /\ \A o \in Selected : nb[o].ip # NoAddress =>
       \E h \in Owned(hosts, o) :
         hosts[h] = [Mirror(o, nb[o]) EXCEPT !.local = hosts[h].local] /\ nb[o].stored = h
  /\ \A h \in Managed(hosts) : hosts[h].on /\ hosts[h].group # NoGroup =>
       hosts[h].owner \in Selected /\ nb[hosts[h].owner].ip # NoAddress

(* What no run repairs and a person has to: two hosts of one object, the    *)
(* preflight's refusals, and a visible name in use.                         *)
Blocked ==
  \/ Duplicated(hosts)
  \/ Refused(hosts, [o \in Selected |-> nb[o]])
  \/ \E o \in Selected :
       \/ \E p \in Selected \ {o} : nb[p].name = nb[o].name
       \/ \E h \in Live(hosts) \ Owned(hosts, o) : hosts[h].name = nb[o].name

(* A second run makes no changes (the acceptance step of the deployment     *)
(* guide): an undisturbed run writes only while something is to be done.    *)
SecondRunIsSilent ==
  [][run.quiet /\ run'.quiet /\ <<nb, hosts>>' # <<nb, hosts>> => ~Mirrored]_vars

(* However runs are interrupted, in the end Zabbix shows NetBox for good,   *)
(* unless a person has something to resolve.                                *)
Converges == <>[](Mirrored \/ Blocked)

=============================================================================
