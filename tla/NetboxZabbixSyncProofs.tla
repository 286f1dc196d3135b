----------------------- MODULE NetboxZabbixSyncProofs -----------------------
(***************************************************************************)
(* Safety of NetboxZabbixSync for any inventory, any people's edits and any *)
(* faults.                                                                  *)
(***************************************************************************)
EXTENDS NetboxZabbixSync, Integers, FiniteSetTheorems, TLAPS

-----------------------------------------------------------------------------
(* The inductive invariant                                                  *)

HostList == Seq(Host \union {NoHost})

RunFields ==
  {"pc", "hosts", "rows", "todo", "orphans", "step", "object", "host", "quiet"}

RunOK(r) ==
  /\ DOMAIN r = RunFields
  /\ r.pc \in {"idle", "read", "write"} /\ r.step \in {"choose", "interface", "store"}
  /\ r.pc # "write" => r.step = "choose"
  /\ r.step = "choose" => r.host = 0
  /\ r.hosts \in HostList /\ r.host \in Nat /\ r.quiet \in BOOLEAN
  /\ DOMAIN r.rows \subseteq Objects /\ \A o \in DOMAIN r.rows : r.rows[o] \in Row
  /\ r.todo \subseteq DOMAIN r.rows /\ r.orphans \subseteq Managed(r.hosts)

UpdateFields == {"host", "name", "on", "ip", "active", "local"}

(* What a run sends in host.update and hostinterface.update.                *)
UpdateOK(set) ==
  /\ DOMAIN set \subseteq UpdateFields
  /\ "host" \in DOMAIN set => set.host \in Names \union VMs
  /\ "name" \in DOMAIN set => set.name \in Names
  /\ "on" \in DOMAIN set => set.on \in BOOLEAN
  /\ "ip" \in DOMAIN set => set.ip \in Addresses \union {NoAddress}
  /\ "active" \in DOMAIN set => set.active \in BOOLEAN
  /\ "local" \in DOMAIN set => set.local \subseteq LocalTags

(* A request is for a new host of an object or for a host some run has      *)
(* found managed.                                                           *)
CreateOK(r) == r.host = 0 /\ r.set \in Host /\ r.set.owner \in Objects
ChangeOK(r) ==
  /\ r.host \in DOMAIN hosts /\ UpdateOK(r.set)
  /\ hosts[r.host] # NoHost => hosts[r.host].owner \in Objects
RequestOK(r) == CreateOK(r) \/ ChangeOK(r)

SyncTypeOK ==
  /\ nb \in [Objects -> Row] /\ hosts \in HostList /\ RunOK(run)
  /\ clash \in {"none", "technical", "visible"}
  /\ moved \subseteq Objects /\ edits \in 0..MaxEdits /\ faults \in 0..MaxFaults

LateInv == \A r \in late : RequestOK(r)

(* From hs to later, a host that is gone stays gone, and none changes its   *)
(* owner.                                                                   *)
Grows(hs, later) ==
  /\ Len(hs) <= Len(later)
  /\ \A h \in DOMAIN hs : later[h] # NoHost =>
       hs[h] # NoHost /\ later[h].owner = hs[h].owner

(* One host per object in what a run has read.                              *)
Single(hs) ==
  \A g, h \in Managed(hs) : hs[g].owner = hs[h].owner => g = h

ReadInv ==
  /\ Grows(run.hosts, hosts)
  /\ Single(run.hosts)
  /\ ~ Idle => \A r \in late : r.host <= Len(run.hosts)

(* What the object in hand has for a host.                                  *)
InHand ==
  /\ run.step = "interface" =>
       run.object \in DOMAIN run.rows /\ run.host \in Owned(run.hosts, run.object)
  /\ run.step = "store" =>
       /\ run.object \in DOMAIN run.rows /\ run.host \in DOMAIN hosts
       /\ hosts[run.host] # NoHost => hosts[run.host].owner = run.object

(* An object whose technical name is what it was when the run began, and    *)
(* when any request for a host of it was made.                              *)
Constant(o) == o \in Objects /\ o \notin Devices \intersect moved

WriteInv ==
  run.pc = "write" =>
    /\ ~ NameTaken(run.hosts, run.rows)
    /\ InHand
    /\ \A o \in DOMAIN run.rows :
         Constant(o) => Technical(o, run.rows[o]) = Technical(o, nb[o])

StoredInv == \A o \in Objects : nb[o].stored <= Len(hosts)

(* A second host of the object may be in the making.                        *)
Pending(o) ==
  \/ ~ Idle /\ Owned(run.hosts, o) = {}
  \/ \E r \in late : CreateOK(r) /\ r.set.owner = o

(* A request for a host of o, or for its technical name, asks for n.        *)
Asks(r, o, n) ==
  /\ CreateOK(r) /\ r.set.owner = o => r.set.host = n
  /\ r.host \in Owned(hosts, o) /\ "host" \in DOMAIN r.set => r.set.host = n

(* Then every host of the object, and every request for one, has the        *)
(* object's technical name, for Zabbix to refuse the second.                *)
OneName(o) ==
  /\ \A h \in Owned(hosts, o) : hosts[h].host = Technical(o, nb[o])
  /\ \A r \in late : Asks(r, o, Technical(o, nb[o]))

NamesInv == \A o \in Objects : Constant(o) /\ Pending(o) => OneName(o)

(* As long as nobody disturbs a run, each host has the technical name the   *)
(* run has read or the one it has given it.                                 *)
Undisturbed(h) ==
  LET o == hosts[h].owner
  IN  \/ h \in Live(run.hosts) /\ hosts[h].host = run.hosts[h].host
      \/ /\ o \in DOMAIN run.rows /\ hosts[h].host = Technical(o, run.rows[o])
         /\ \/ h \in Live(run.hosts) \/ o \notin run.todo
            \/ run.step # "choose" /\ run.object = o

QuietInv ==
  /\ clash # "technical"
  /\ run.quiet /\ run.pc = "read" => hosts = run.hosts
  /\ run.quiet /\ run.pc = "write" => \A h \in Live(hosts) : Undisturbed(h)

IInv ==
  /\ SyncTypeOK /\ LateInv /\ ReadInv /\ WriteInv /\ StoredInv /\ StoredIsOwn
  /\ OneHostPerObject /\ NamesInv /\ QuietInv

-----------------------------------------------------------------------------
(* Requests                                                                 *)

LEMMA Typing ==
  ASSUME SyncTypeOK
  PROVE  /\ Len(hosts) \in Nat /\ DOMAIN hosts = 1..Len(hosts)
         /\ \A h \in Live(hosts) : hosts[h] \in Host /\ h \in DOMAIN hosts
         /\ Len(run.hosts) \in Nat /\ DOMAIN run.hosts = 1..Len(run.hosts)
         /\ \A h \in Live(run.hosts) : run.hosts[h] \in Host /\ h \in DOMAIN run.hosts
         /\ \A o \in Objects : nb[o] \in Row
BY DEF SyncTypeOK, HostList, Live, RunOK

LEMMA HostRecord ==
  ASSUME NEW h \in Host
  PROVE  /\ h # NoHost /\ DOMAIN h = DOMAIN Unmanaged(0, 0)
         /\ h.owner \in Objects \union {NoObject} /\ h.host \in Names \union VMs
         /\ h.name \in Names /\ h.on \in BOOLEAN /\ h.ip \in Addresses \union {NoAddress}
         /\ h.active \in BOOLEAN /\ h.local \subseteq LocalTags
         /\ h.group \in Groups \union {NoGroup}
BY HostAssumption DEF Host, Unmanaged

LEMMA Overwriting ==
  ASSUME NEW h \in Host, NEW set, UpdateOK(set)
  PROVE  /\ Overwritten(h, set) \in Host /\ Overwritten(h, set).owner = h.owner
         /\ Overwritten(h, set).host = IF "host" \in DOMAIN set THEN set.host ELSE h.host
         /\ Overwritten(h, set).group = h.group
         /\ "ip" \notin DOMAIN set => Overwritten(h, set).ip = h.ip
BY DEF Host, UpdateOK, Overwritten, UpdateFields

LEMMA Mirroring ==
  ASSUME NEW o \in Objects, NEW row \in Row
  PROVE  /\ Mirror(o, row) \in Host /\ Mirror(o, row).owner = o
         /\ Mirror(o, row).host = Technical(o, row)
BY DEF Host, Row, Mirror, Technical, Objects

LEMMA Updating ==
  ASSUME NEW o \in Objects, NEW row \in Row, NEW h \in Host
  PROVE  /\ UpdateOK(Update(o, row, h))
         /\ "host" \in DOMAIN Update(o, row, h) =>
              Update(o, row, h).host = Technical(o, row)
         /\ "ip" \notin DOMAIN Update(o, row, h)
BY DEF Host, Row, UpdateOK, Update, Mirror, Technical, UpdateFields, Objects

LEMMA SwitchingOff ==
  /\ UpdateOK([on |-> FALSE]) /\ "host" \notin DOMAIN [on |-> FALSE]
<1>1. ASSUME NEW x \in BOOLEAN
      PROVE  UpdateOK([on |-> x]) /\ "host" \notin DOMAIN [on |-> x]
  BY DEF UpdateOK, UpdateFields
<1> QED
  BY <1>1

LEMMA Moving ==
  ASSUME NEW ip \in Addresses \union {NoAddress}
  PROVE  UpdateOK([ip |-> ip]) /\ "host" \notin DOMAIN [ip |-> ip]
BY DEF UpdateOK, UpdateFields

LEMMA Growing ==
  ASSUME NEW a \in HostList, NEW b \in HostList, NEW c \in HostList,
         Grows(a, b), Grows(b, c)
  PROVE  Grows(a, c)
<1>1. Len(a) \in Nat /\ Len(b) \in Nat /\ Len(c) \in Nat
      /\ DOMAIN a = 1..Len(a) /\ DOMAIN b = 1..Len(b)
  BY DEF HostList
<1> QED
  BY <1>1 DEF Grows

(* What Zabbix makes of a request it accepts.                               *)
LEMMA Creating ==
  ASSUME SyncTypeOK, NEW r, CreateOK(r)
  PROVE  /\ Executed(r) \in HostList /\ Grows(hosts, Executed(r))
         /\ Len(Executed(r)) = Len(hosts) + 1
         /\ Executed(r)[Len(hosts) + 1] = r.set
         /\ \A h \in DOMAIN hosts : Executed(r)[h] = hosts[h]
<1>1. Executed(r) = Append(hosts, r.set)
  BY DEF Executed, CreateOK
<1>2. hosts \in Seq(Host \union {NoHost}) /\ r.set \in Host \union {NoHost}
  BY DEF SyncTypeOK, HostList, CreateOK
<1> QED
  BY <1>1, <1>2 DEF Grows, HostList

LEMMA Changing ==
  ASSUME SyncTypeOK, NEW r, ChangeOK(r), Accepted(r)
  PROVE  /\ Executed(r) \in HostList /\ Grows(hosts, Executed(r))
         /\ Len(Executed(r)) = Len(hosts) /\ r.host \in Managed(hosts)
         /\ Executed(r)[r.host] = Overwritten(hosts[r.host], r.set)
         /\ \A h \in DOMAIN hosts \ {r.host} : Executed(r)[h] = hosts[h]
<1>1. r.host # 0 /\ r.host \in DOMAIN hosts /\ hosts \in Seq(Host \union {NoHost})
  BY Typing DEF ChangeOK, SyncTypeOK, HostList
<1>2. hosts[r.host] \in Host /\ hosts[r.host] # NoHost
  BY <1>1 DEF Accepted
<1>3. /\ Overwritten(hosts[r.host], r.set) \in Host
      /\ Overwritten(hosts[r.host], r.set).owner = hosts[r.host].owner
  BY <1>2, Overwriting DEF ChangeOK
<1>4. Executed(r) = [hosts EXCEPT ![r.host] = Overwritten(hosts[r.host], r.set)]
  BY <1>1 DEF Executed
<1>5. r.host \in Managed(hosts)
  BY <1>1, <1>2, SyncAssumption DEF Managed, Live, ChangeOK
<1> QED
  BY <1>1, <1>2, <1>3, <1>4, <1>5 DEF Grows, HostList

LEMMA Executing ==
  ASSUME SyncTypeOK, NEW r, RequestOK(r), Accepted(r)
  PROVE  Executed(r) \in HostList /\ Grows(hosts, Executed(r))
BY Creating, Changing DEF RequestOK

(* Requests stay what they are while hosts come and go.                     *)
LEMMA RequestsStay ==
  ASSUME SyncTypeOK, hosts' \in HostList, Grows(hosts, hosts'), NEW r, RequestOK(r)
  PROVE  RequestOK(r)'
<1>1. CASE CreateOK(r)
  BY <1>1 DEF RequestOK, CreateOK
<1>2. CASE ChangeOK(r)
  <2>1. DOMAIN hosts \subseteq DOMAIN hosts'
    BY Typing DEF Grows, HostList
  <2> QED
    BY <1>2, <2>1 DEF RequestOK, ChangeOK, Grows
<1> QED
  BY <1>1, <1>2 DEF RequestOK

-----------------------------------------------------------------------------
(* What a step keeps                                                        *)

(* No identity of a host is used again, so a stored one remains its own.    *)
LEMMA StoredStays ==
  ASSUME IInv, hosts' \in HostList, Grows(hosts, hosts'),
         \A o \in Objects : nb'[o].stored = nb[o].stored
  PROVE  StoredInv' /\ StoredIsOwn'
<1>1. Len(hosts) \in Nat /\ Len(hosts') \in Nat /\ Len(hosts) <= Len(hosts')
      /\ DOMAIN hosts = 1..Len(hosts) /\ DOMAIN hosts' = 1..Len(hosts')
  BY Typing DEF IInv, Grows, HostList
<1>2. \A o \in Objects : nb[o].stored \in Nat /\ nb[o].stored <= Len(hosts)
  BY Typing DEF IInv, Row, StoredInv
<1>3. StoredInv'
  BY <1>1, <1>2 DEF StoredInv
<1>4. ASSUME NEW o \in Objects, nb'[o].stored \in Live(hosts')
      PROVE  hosts'[nb'[o].stored].owner = o
  <2>1. nb[o].stored \in DOMAIN hosts
    BY <1>1, <1>2, <1>4 DEF Live
  <2>2. nb[o].stored \in Live(hosts) /\ hosts'[nb[o].stored].owner = hosts[nb[o].stored].owner
    BY <1>4, <2>1 DEF Live, Grows
  <2> QED
    BY <2>2 DEF IInv, StoredIsOwn
<1> QED
  BY <1>3, <1>4 DEF StoredIsOwn

(* A run that is over.                                                      *)
LEMMA RunOver ==
  ASSUME run' = NoRun, hosts' \in HostList
  PROVE  /\ RunOK(run') /\ ReadInv' /\ WriteInv'
         /\ ~ run'.quiet /\ run'.pc = "idle" /\ run'.hosts = << >>
<1>1. RunOK(NoRun)
  BY DEF RunOK, NoRun, RunFields, HostList, Managed, Live
<1>2. NoRun.hosts = << >> /\ NoRun.pc = "idle" /\ NoRun.quiet = FALSE
  BY DEF NoRun
<1>3. ReadInv'
  <2>1. Grows(<< >>, hosts')
    BY DEF Grows, HostList
  <2>2. Single(<< >>)
    BY DEF Single, Managed, Live
  <2> QED
    BY <1>2, <2>1, <2>2 DEF ReadInv, Idle
<1> QED
  BY <1>1, <1>2, <1>3 DEF WriteInv

(* A run that goes on with what it has read.                                *)
LEMMA RunOn ==
  ASSUME IInv, RunOK(run'), run'.hosts = run.hosts, Idle => run'.pc = "idle",
         hosts' \in HostList, Grows(hosts, hosts'), late' \subseteq late
  PROVE  ReadInv'
<1>1. run.hosts \in HostList /\ hosts \in HostList
  BY DEF IInv, SyncTypeOK, RunOK
<1>2. Grows(run.hosts, hosts')
  BY <1>1, Growing DEF IInv, ReadInv
<1>3. Grows(run.hosts, hosts)'
  BY <1>2
<1>4. Single(run.hosts)'
  BY DEF IInv, ReadInv, Single, Managed, Live
<1>5. (~ Idle)' => \A r \in late' : r.host <= Len(run'.hosts)
  BY DEF IInv, ReadInv, Idle
<1> QED
  BY <1>3, <1>4, <1>5 DEF ReadInv

(* A step after which every host has the owner and the technical name it    *)
(* had, and no more is asked for than before.                               *)
LEMMA NamesStay ==
  ASSUME IInv, late' \subseteq late, hosts' \in HostList, Len(hosts') = Len(hosts),
         \A h \in Live(hosts') :
           /\ h \in Live(hosts) /\ hosts'[h].owner = hosts[h].owner
           /\ hosts'[h].host = hosts[h].host,
         nb' \in [Objects -> Row], moved \subseteq moved',
         \A o \in Objects : Constant(o)' /\ Pending(o)' =>
           Pending(o) /\ Technical(o, nb'[o]) = Technical(o, nb[o])
  PROVE  OneHostPerObject' /\ NamesInv'
<1>1. \A o : Constant(o)' => Constant(o)
  BY DEF Constant
<1>2. \A o \in Objects : Owned(hosts', o) \subseteq Owned(hosts, o)
  BY DEF Owned
<1>3. OneHostPerObject'
  BY <1>1 DEF IInv, OneHostPerObject, Managed
<1>4. ASSUME NEW o \in Objects, Constant(o)', Pending(o)'
      PROVE  OneName(o)'
  <2> DEFINE n == Technical(o, nb[o])
  <2>1. OneName(o) /\ Technical(o, nb'[o]) = n
    BY <1>1, <1>4 DEF IInv, NamesInv
  <2>2. \A h \in Owned(hosts', o) : hosts'[h].host = n
    BY <1>2, <2>1 DEF OneName, Owned
  <2>3. \A r \in late' : Asks(r, o, n)'
    BY <1>2, <2>1 DEF OneName, Asks, CreateOK
  <2> QED
    BY <2>1, <2>2, <2>3 DEF OneName
<1> QED
  BY <1>3, <1>4 DEF NamesInv

(* The requests for hosts with one technical name for each object.          *)
NameOK(r) ==
  \A o \in Objects : Constant(o) =>
    /\ CreateOK(r) /\ r.set.owner = o => Pending(o)
    /\ Pending(o) => Asks(r, o, Technical(o, nb[o]))

(* Zabbix executes one of them.                                             *)
LEMMA NamesGrow ==
  ASSUME IInv, NEW r, RequestOK(r), NameOK(r), Accepted(r), hosts' = Executed(r),
         late' \subseteq late, nb' = nb, moved' = moved,
         \A o \in Objects : Pending(o)' => Pending(o)
  PROVE  OneHostPerObject' /\ NamesInv'
<1> DEFINE new == Len(hosts) + 1
<1>1. /\ SyncTypeOK /\ Len(hosts) \in Nat /\ DOMAIN hosts = 1..Len(hosts)
      /\ \A o : Constant(o)' <=> Constant(o)
  BY Typing DEF IInv, Constant
<1>2. CASE CreateOK(r)
  <2> DEFINE p == r.set.owner
  <2>1. /\ hosts'[new] = r.set /\ \A h \in DOMAIN hosts : hosts'[h] = hosts[h]
        /\ DOMAIN hosts' = DOMAIN hosts \union {new} /\ new \notin DOMAIN hosts
    <3>1. /\ hosts' \in HostList /\ Len(hosts') = Len(hosts) + 1 /\ hosts'[new] = r.set
          /\ \A h \in DOMAIN hosts : hosts'[h] = hosts[h]
      BY <1>1, <1>2, Creating
    <3>2. DOMAIN hosts' = 1..(Len(hosts) + 1)
      BY <3>1 DEF HostList
    <3> QED
      BY <1>1, <3>1, <3>2
  <2>2. r.set # NoHost /\ p \in Objects /\ p # NoObject
    BY <1>2, HostAssumption, SyncAssumption DEF CreateOK
  <2>3. Live(hosts') = Live(hosts) \union {new}
    BY <2>1, <2>2 DEF Live
  <2>4. \A o \in Objects :
          Owned(hosts', o) = IF o = p THEN Owned(hosts, o) \union {new} ELSE Owned(hosts, o)
    BY <2>1, <2>3 DEF Owned, Live
  <2>5. Constant(p) => /\ OneName(p) /\ r.set.host = Technical(p, nb[p])
                       /\ Owned(hosts, p) = {}
    <3> SUFFICES ASSUME Constant(p)
                 PROVE  /\ OneName(p) /\ r.set.host = Technical(p, nb[p])
                        /\ Owned(hosts, p) = {}
      OBVIOUS
    <3>1. Pending(p) /\ r.set.host = Technical(p, nb[p])
      BY <1>2, <2>2 DEF NameOK, Asks
    <3>2. OneName(p)
      BY <2>2, <3>1 DEF IInv, NamesInv
    <3>3. \A h \in Live(hosts) : hosts[h].host # r.set.host
      <4>1. "host" \in DOMAIN r.set /\ r.host = 0
        BY <1>2, HostRecord DEF CreateOK, Unmanaged
      <4>2. \A h \in Live(hosts) : h # 0
        BY <1>1 DEF Live
      <4> QED
        BY <4>1, <4>2 DEF Accepted, Taken
    <3> QED
      BY <3>1, <3>2, <3>3 DEF OneName, Owned
  <2>6. OneHostPerObject'
    <3> SUFFICES ASSUME NEW h \in Managed(hosts'), NEW g \in Managed(hosts'),
                        h # g, hosts'[h].owner = hosts'[g].owner
                 PROVE  hosts'[h].owner \in Devices \intersect moved
      BY DEF OneHostPerObject
    <3>1. h \in Live(hosts') /\ g \in Live(hosts') /\ hosts'[h].owner # NoObject
      BY DEF Managed
    <3>2. CASE h # new /\ g # new
      BY <2>1, <2>3, <3>1, <3>2 DEF IInv, OneHostPerObject, Managed, Live
    <3>3. CASE h = new \/ g = new
      <4>1. hosts'[h].owner = p /\ Owned(hosts, p) # {}
        BY <2>1, <2>3, <3>1, <3>3 DEF Owned, Live
      <4> QED
        BY <2>2, <2>5, <4>1 DEF Constant
    <3> QED
      BY <3>2, <3>3
  <2>7. ASSUME NEW o \in Objects, Constant(o)', Pending(o)'
        PROVE  OneName(o)'
    <3> DEFINE n == Technical(o, nb[o])
    <3>1. OneName(o)
      BY <1>1, <2>7 DEF IInv, NamesInv
    <3>2. \A h \in Owned(hosts', o) : hosts'[h].host = n
      BY <1>1, <2>1, <2>4, <2>5, <2>7, <3>1 DEF OneName, Owned, Live
    <3>3. \A q \in late' : Asks(q, o, n)'
      <4> SUFFICES ASSUME NEW q \in late'
                   PROVE  Asks(q, o, n)'
        OBVIOUS
      <4>1. Asks(q, o, n) /\ q.host # new
        <5>1. RequestOK(q)
          BY DEF IInv, LateInv
        <5> QED
          BY <1>1, <3>1, <5>1 DEF OneName, RequestOK, CreateOK, ChangeOK
      <4> QED
        BY <2>4, <4>1 DEF Asks, CreateOK
    <3> QED
      BY <3>2, <3>3 DEF OneName
  <2> QED
    BY <2>6, <2>7 DEF NamesInv
<1>3. CASE ChangeOK(r)
  <2> DEFINE k == r.host
  <2>1. /\ k \in Managed(hosts) /\ hosts'[k] = Overwritten(hosts[k], r.set)
        /\ \A h \in DOMAIN hosts \ {k} : hosts'[h] = hosts[h]
        /\ DOMAIN hosts' = DOMAIN hosts
    BY <1>1, <1>3, Changing DEF HostList
  <2>2. /\ hosts'[k] # NoHost /\ hosts'[k].owner = hosts[k].owner
        /\ hosts'[k].host = IF "host" \in DOMAIN r.set THEN r.set.host ELSE hosts[k].host
    <3>1. hosts[k] \in Host /\ UpdateOK(r.set)
      BY <1>1, <1>3, <2>1, Typing DEF Managed, ChangeOK
    <3> QED
      BY <2>1, <3>1, Overwriting, HostAssumption
  <2>3. Live(hosts') = Live(hosts) /\ \A h \in Live(hosts) : hosts'[h].owner = hosts[h].owner
    BY <2>1, <2>2 DEF Live, Managed
  <2>4. \A o \in Objects : Owned(hosts', o) = Owned(hosts, o)
    BY <2>3 DEF Owned
  <2>5. OneHostPerObject'
    BY <2>3 DEF IInv, OneHostPerObject, Managed
  <2>6. ASSUME NEW o \in Objects, Constant(o)', Pending(o)'
        PROVE  OneName(o)'
    <3> DEFINE n == Technical(o, nb[o])
    <3>1. OneName(o) /\ Asks(r, o, n)
      BY <1>1, <2>6 DEF IInv, NamesInv, NameOK
    <3>2. ASSUME NEW h \in Owned(hosts', o)
          PROVE  hosts'[h].host = n
      BY <2>1, <2>2, <2>4, <3>1, <3>2 DEF OneName, Asks, Owned, Live
    <3>3. \A q \in late' : Asks(q, o, n)'
      BY <2>4, <3>1 DEF OneName, Asks, CreateOK
    <3> QED
      BY <3>2, <3>3 DEF OneName
  <2> QED
    BY <2>5, <2>6 DEF NamesInv
<1> QED
  BY <1>2, <1>3 DEF RequestOK

-----------------------------------------------------------------------------
(* Every action preserves the invariant                                     *)

(* A run ends: the last call is refused, or given up while its request is   *)
(* on its way, or there is nothing more to do.                              *)
LEMMA EndStep ==
  ASSUME IInv, ~ Idle, run' = NoRun, nb' = nb, hosts' = hosts, moved' = moved,
         edits' = edits, faults' \in 0..MaxFaults,
         clash' \in {"none", "visible", clash},
         NEW R, late' = late \union R, \A r \in R : RequestOK(r) /\ NameOK(r)
  PROVE  IInv'
<1>1. /\ RunOK(run') /\ ReadInv' /\ WriteInv'
      /\ ~ run'.quiet /\ run'.pc = "idle" /\ run'.hosts = << >>
  BY RunOver DEF IInv, SyncTypeOK
<1>2. SyncTypeOK'
  BY <1>1 DEF IInv, SyncTypeOK
<1>3. LateInv'
  BY DEF IInv, LateInv, RequestOK, CreateOK, ChangeOK
<1>4. StoredInv' /\ StoredIsOwn' /\ OneHostPerObject'
  BY DEF IInv, StoredInv, StoredIsOwn, OneHostPerObject
<1>5. ASSUME NEW o \in Objects, Constant(o)', Pending(o)'
      PROVE  OneName(o)'
  <2>1. Constant(o)
    BY <1>5 DEF Constant
  <2>2. \E r \in late' : CreateOK(r) /\ r.set.owner = o
    BY <1>1, <1>5 DEF Pending, Idle, CreateOK
  <2>3. Pending(o)
    BY <2>1, <2>2 DEF Pending, NameOK
  <2>4. OneName(o) /\ \A r \in R : Asks(r, o, Technical(o, nb[o]))
    BY <2>1, <2>3 DEF IInv, NamesInv, NameOK
  <2> QED
    BY <2>4 DEF OneName, Asks, CreateOK
<1>6. QuietInv'
  BY <1>1 DEF IInv, QuietInv
<1> QED
  BY <1>1, <1>2, <1>3, <1>4, <1>5, <1>6 DEF IInv, NamesInv

(* What a step of a run that writes makes of the run.                       *)
Onward(next) ==
  /\ RunOK(next) /\ next.pc = "write" /\ next.quiet = run.quiet
  /\ next.hosts = run.hosts /\ next.rows = run.rows

AsRead == \A h \in Live(hosts) : Undisturbed(h)

LEMMA OnwardPending ==
  ASSUME ~ Idle, Onward(run'), late' = late
  PROVE  \A o \in Objects : Pending(o)' => Pending(o)
BY DEF Pending, Idle, Onward, CreateOK

LEMMA OnwardRows ==
  ASSUME IInv, run.pc = "write", Onward(run'), InHand', moved' = moved,
         \A o \in Objects : Technical(o, nb'[o]) = Technical(o, nb[o])
  PROVE  WriteInv'
<1>1. ~ NameTaken(run'.hosts, run'.rows)
  BY DEF IInv, WriteInv, Onward
<1>2. DOMAIN run'.rows \subseteq Objects
  BY DEF Onward, RunOK
<1>3. \A o : Constant(o)' <=> Constant(o)
  BY DEF Constant
<1>4. \A o \in DOMAIN run'.rows :
        Constant(o)' => Technical(o, run'.rows[o]) = Technical(o, nb'[o])
  BY <1>2, <1>3 DEF IInv, WriteInv, Onward
<1> QED
  BY <1>1, <1>4 DEF WriteInv

(* A step of a run that writes nothing to Zabbix.                           *)
LEMMA SilentStep ==
  ASSUME IInv, run.pc = "write", Onward(run'), InHand', hosts' = hosts, late' = late,
         nb' = nb, UNCHANGED <<clash, moved, edits, faults>>,
         run.quiet => AsRead'
  PROVE  IInv'
<1>1. SyncTypeOK'
  BY DEF IInv, SyncTypeOK, Onward
<1>2. Grows(hosts, hosts') /\ Len(hosts') = Len(hosts) /\ hosts' \in HostList
  BY Typing DEF IInv, SyncTypeOK, Grows
<1>3. LateInv'
  BY DEF IInv, LateInv, RequestOK, CreateOK, ChangeOK
<1>4. StoredInv' /\ StoredIsOwn'
  BY DEF IInv, StoredInv, StoredIsOwn
<1>5. ~ Idle /\ \A o : Constant(o)' <=> Constant(o)
  BY DEF Idle, Constant
<1>6. ReadInv'
  BY <1>2, <1>5, RunOn DEF Onward
<1>7. WriteInv'
  BY OnwardRows
<1>8. \A o \in Objects : Pending(o)' => Pending(o)
  BY <1>5, OnwardPending
<1>9. OneHostPerObject' /\ NamesInv'
  BY <1>2, <1>5, <1>8, NamesStay DEF IInv, SyncTypeOK
<1>10. QuietInv'
  BY DEF IInv, QuietInv, Onward, AsRead
<1> QED
  BY <1>1, <1>3, <1>4, <1>6, <1>7, <1>9, <1>10 DEF IInv

(* A call, once the request and what comes after it are known to be right.  *)
LEMMA CallStep ==
  ASSUME IInv, run.pc = "write", NEW r, NEW next, Call(r, next),
         RequestOK(r), NameOK(r), run.quiet => ~ Taken("host", r),
         Onward(next),
         Accepted(r) /\ hosts' = Executed(r) /\ run' = next =>
           InHand' /\ (run.quiet => AsRead')
  PROVE  IInv'
<1>1. UNCHANGED <<nb, moved, edits>> /\ ~ Idle /\ run.pc # "read"
  BY DEF Call, Idle
<1>2. CASE Accepted(r) /\ hosts' = Executed(r) /\ run' = next
           /\ UNCHANGED <<late, clash, faults>>
  <2>1. InHand' /\ (run.quiet => AsRead') /\ Onward(run')
    BY <1>2
  <2>2. hosts' \in HostList /\ Grows(hosts, hosts')
    BY <1>2, Executing DEF IInv
  <2>3. SyncTypeOK'
    BY <1>1, <1>2, <2>1, <2>2 DEF IInv, SyncTypeOK, Onward
  <2>4. LateInv'
    BY <1>2, <2>2, RequestsStay DEF IInv, LateInv
  <2>5. StoredInv' /\ StoredIsOwn'
    BY <1>1, <2>2, StoredStays
  <2>6. ReadInv'
    BY <1>1, <1>2, <2>1, <2>2, RunOn DEF Onward
  <2>7. WriteInv'
    BY <1>1, <2>1, OnwardRows
  <2>8. \A o \in Objects : Pending(o)' => Pending(o)
    BY <1>1, <1>2, <2>1, OnwardPending
  <2>9. OneHostPerObject' /\ NamesInv'
    BY <1>1, <1>2, <2>8, NamesGrow
  <2>10. QuietInv'
    BY <1>1, <1>2, <2>1 DEF IInv, QuietInv, Onward, AsRead
  <2> QED
    BY <2>3, <2>4, <2>5, <2>6, <2>7, <2>9, <2>10 DEF IInv
<1>3. CASE run' = NoRun /\ UNCHANGED <<hosts, late, faults>>
           /\ clash' = IF ~ run.quiet THEN clash
                       ELSE IF Taken("host", r) THEN "technical" ELSE "visible"
  <2>1. clash' \in {"none", "visible", clash} /\ faults' \in 0..MaxFaults
    BY <1>3 DEF IInv, SyncTypeOK
  <2> DEFINE R == {}
  <2>2. late' = late \union R /\ \A q \in R : RequestOK(q) /\ NameOK(q)
    BY <1>3
  <2> HIDE DEF R
  <2> QED
    BY <1>1, <1>3, <2>1, <2>2, EndStep
<1>4. CASE /\ faults < MaxFaults /\ late' = late \union {r} /\ run' = NoRun
           /\ faults' = faults + 1 /\ UNCHANGED <<hosts, clash>>
  <2>1. faults' \in 0..MaxFaults
    BY <1>4, SyncAssumption DEF IInv, SyncTypeOK
  <2> DEFINE R == {r}
  <2>2. late' = late \union R /\ \A q \in R : RequestOK(q) /\ NameOK(q)
    BY <1>4
  <2> HIDE DEF R
  <2> QED
    BY <1>1, <1>4, <2>1, <2>2, EndStep
<1> QED
  BY <1>2, <1>3, <1>4 DEF Call

(* A run knows the hosts that it writes to.                                 *)
LEMMA Found ==
  ASSUME IInv, NEW h \in Managed(run.hosts)
  PROVE  /\ h \in DOMAIN hosts /\ h # 0 /\ run.hosts[h] \in Host
         /\ run.hosts[h].owner \in Objects
         /\ h \in Live(hosts) => hosts[h].owner = run.hosts[h].owner
<1>1. /\ h \in DOMAIN run.hosts /\ run.hosts[h] \in Host
      /\ run.hosts[h].owner # NoObject
  BY Typing DEF IInv, Managed
<1>2. run.hosts[h].owner \in Objects
  BY <1>1, HostRecord
<1>3. Grows(run.hosts, hosts)
  BY DEF IInv, ReadInv
<1>4. h \in DOMAIN hosts /\ h # 0
  BY <1>1, <1>3, Typing DEF IInv, Grows
<1> QED
  BY <1>1, <1>2, <1>3, <1>4 DEF Grows, Live

LEMMA OwnedFound ==
  ASSUME IInv, NEW o \in Objects, NEW h \in Owned(run.hosts, o)
  PROVE  /\ h \in Managed(run.hosts) /\ run.hosts[h].owner = o
         /\ h \in DOMAIN hosts /\ h # 0 /\ run.hosts[h] \in Host
         /\ h \in Live(hosts) => hosts[h].owner = o
<1>1. h \in Managed(run.hosts) /\ run.hosts[h].owner = o
  BY SyncAssumption DEF Owned, Managed
<1> QED
  BY <1>1, Found

LEMMA ChangeFound ==
  ASSUME IInv, NEW h \in Managed(run.hosts), NEW set, UpdateOK(set)
  PROVE  /\ RequestOK(Request(h, set)) /\ ChangeOK(Request(h, set))
         /\ ~ CreateOK(Request(h, set))
         /\ Request(h, set).host = h /\ Request(h, set).set = set
<1>1. Request(h, set).host = h /\ Request(h, set).set = set
  BY DEF Request
<1>2. ChangeOK(Request(h, set))
  BY <1>1, Found DEF ChangeOK, Live
<1> QED
  BY <1>1, <1>2, Found DEF RequestOK, CreateOK

(* A change that is not of the technical name.                              *)
LEMMA PlainCall ==
  ASSUME IInv, run.pc = "write", NEW h \in Managed(run.hosts), NEW set, UpdateOK(set),
         "host" \notin DOMAIN set, NEW next, Call(Request(h, set), next), Onward(next),
         next.step = "store" => run.step = "interface" /\ next.object = run.object
                                /\ next.host = run.host,
         next.step # "interface",
         next.todo \subseteq run.todo,
         run.step # "choose" => next.object = run.object /\ next.step # "choose"
  PROVE  IInv'
<1> DEFINE r == Request(h, set)
<1>1. /\ RequestOK(r) /\ ChangeOK(r) /\ ~ CreateOK(r) /\ r.host = h /\ r.set = set
  BY ChangeFound
<1> HIDE DEF r
<1>2. NameOK(r) /\ ~ Taken("host", r)
  BY <1>1 DEF NameOK, Asks, Taken
<1>3. ASSUME Accepted(r), hosts' = Executed(r), run' = next
      PROVE  InHand' /\ (run.quiet => AsRead')
  <2>1. /\ r.host \in Managed(hosts) /\ hosts' \in HostList /\ Grows(hosts, hosts')
        /\ hosts'[h] = Overwritten(hosts[h], set) /\ Len(hosts') = Len(hosts)
        /\ \A g \in DOMAIN hosts \ {h} : hosts'[g] = hosts[g]
    BY <1>1, <1>3, Changing DEF IInv
  <2>2. DOMAIN hosts' = DOMAIN hosts /\ hosts[h] \in Host /\ h \in Live(hosts)
    BY <1>1, <2>1, Typing DEF IInv, HostList, Managed
  <2>3. /\ hosts'[h].owner = hosts[h].owner /\ hosts'[h].host = hosts[h].host
        /\ hosts'[h] # NoHost
    BY <2>1, <2>2, Overwriting, HostAssumption
  <2>4. /\ Live(hosts') = Live(hosts)
        /\ \A g \in Live(hosts) : /\ hosts'[g].owner = hosts[g].owner
                                  /\ hosts'[g].host = hosts[g].host
    BY <2>1, <2>2, <2>3 DEF Live
  <2>5. InHand'
    <3>1. run'.step # "interface"
      BY <1>3
    <3>2. ASSUME run'.step = "store"
          PROVE  /\ run'.object \in DOMAIN run'.rows /\ run'.host \in DOMAIN hosts'
                 /\ hosts'[run'.host] # NoHost => hosts'[run'.host].owner = run'.object
      <4>1. /\ run.step = "interface" /\ run'.object = run.object /\ run'.host = run.host
            /\ run'.rows = run.rows
        BY <1>3, <3>2 DEF Onward
      <4>2. /\ run.object \in DOMAIN run.rows /\ run.host \in Owned(run.hosts, run.object)
            /\ run.object \in Objects
        BY <4>1 DEF IInv, WriteInv, InHand, SyncTypeOK, RunOK
      <4>3. /\ run.host \in DOMAIN hosts
            /\ run.host \in Live(hosts) => hosts[run.host].owner = run.object
        BY <4>2, OwnedFound
      <4> QED
        BY <2>2, <2>4, <4>1, <4>2, <4>3 DEF Live
    <3> QED
      BY <3>1, <3>2 DEF InHand
  <2>6. ASSUME run.quiet, NEW g \in Live(hosts')
        PROVE  Undisturbed(g)'
    <3>1. Undisturbed(g)
      BY <2>4, <2>6 DEF IInv, QuietInv
    <3> QED
      BY <1>3, <2>4, <3>1 DEF Undisturbed, Onward
  <2> QED
    BY <2>5, <2>6 DEF AsRead
<1> QED
  BY <1>1, <1>2, <1>3, CallStep DEF r

LEMMA TurnStep ==
  ASSUME IInv, NEW o \in Objects, Turn(o)
  PROVE  /\ run.pc = "write" /\ run.step = "choose" /\ o \in DOMAIN run.rows
         /\ run.rows[o] \in Row /\ o \in run.todo /\ RunOK(run)
BY DEF Turn, Writing, IInv, SyncTypeOK, RunOK

LEMMA DoneRun ==
  ASSUME RunOK(run), run.pc = "write", NEW o \in Objects, NEW n, n = Done(o)
  PROVE  /\ Onward(n) /\ n.step = "choose" /\ n.todo = run.todo \ {o}
         /\ n.orphans = run.orphans
BY DEF Done, Onward, RunOK, RunFields

LEMMA AtRun ==
  ASSUME RunOK(run), run.pc = "write", NEW s \in {"interface", "store"},
         NEW o \in Objects, NEW h \in Nat, NEW n, n = At(s, o, h)
  PROVE  /\ Onward(n) /\ n.step = s /\ n.object = o /\ n.host = h /\ n.todo = run.todo
         /\ n.orphans = run.orphans
BY DEF At, Onward, RunOK, RunFields

(* What is undisturbed stays it in a step that lets the hosts alone.        *)
LEMMA ReadStays ==
  ASSUME IInv, run.pc = "write", run.quiet, hosts' = hosts, Onward(run'),
         run'.todo \subseteq run.todo,
         run.step # "choose" =>
           \/ run'.step # "choose" /\ run'.object = run.object
           \/ run.object \notin run'.todo
  PROVE  AsRead'
<1> SUFFICES ASSUME NEW h \in Live(hosts')
             PROVE  Undisturbed(h)'
  BY DEF AsRead
<1>1. Undisturbed(h)
  BY DEF IInv, QuietInv
<1> QED
  BY <1>1 DEF Undisturbed, Onward

LEMMA SkipStep ==
  ASSUME IInv, NEW o \in Objects, SkipUnaddressed(o)
  PROVE  IInv'
<1> DEFINE n == Done(o)  on == {h \in Owned(run.hosts, o) : run.hosts[h].on}
<1>1. /\ run.pc = "write" /\ run.step = "choose" /\ RunOK(run)
  BY TurnStep DEF SkipUnaddressed
<1>2. Onward(n) /\ n.step = "choose" /\ n.todo = run.todo \ {o}
  BY <1>1, DoneRun
<1>3. Silently(n) \/ \E h \in on : Call(Request(h, [on |-> FALSE]), n)
  BY DEF SkipUnaddressed
<1> HIDE DEF n
<1>4. CASE Silently(n)
  <2>1. run' = n /\ UNCHANGED <<nb, hosts, late, clash, moved, edits, faults>>
    BY <1>4 DEF Silently
  <2>2. InHand' /\ (run.quiet => AsRead')
    BY <1>1, <1>2, <2>1, ReadStays DEF InHand
  <2> QED
    BY <1>1, <1>2, <2>1, <2>2, SilentStep
<1>5. ASSUME NEW h \in on, Call(Request(h, [on |-> FALSE]), n)
      PROVE  IInv'
  <2>1. h \in Managed(run.hosts)
    BY OwnedFound
  <2> QED
    BY <1>1, <1>2, <1>5, <2>1, SwitchingOff, PlainCall
<1> QED
  BY <1>3, <1>4, <1>5

LEMMA InterfaceStep ==
  ASSUME IInv, UpdateInterface
  PROVE  IInv'
<1> DEFINE o == run.object  h == run.host  ip == run.rows[o].ip
           n == At("store", o, h)
<1>1. /\ run.pc = "write" /\ run.step = "interface" /\ RunOK(run)
      /\ o \in DOMAIN run.rows /\ h \in Owned(run.hosts, o)
  BY DEF UpdateInterface, Writing, IInv, WriteInv, InHand, SyncTypeOK
<1>2. o \in Objects /\ run.rows[o] \in Row /\ h \in Nat
  BY <1>1 DEF RunOK
<1>3. h \in Managed(run.hosts) /\ h \in DOMAIN hosts
      /\ (h \in Live(hosts) => hosts[h].owner = o)
  BY <1>1, <1>2, OwnedFound
<1>4. Onward(n) /\ n.step = "store" /\ n.object = o /\ n.host = h /\ n.todo = run.todo
  BY <1>1, <1>2, AtRun
<1>5. Silently(n) \/ Call(Request(h, [ip |-> ip]), n)
  BY DEF UpdateInterface
<1>6. ip \in Addresses \union {NoAddress}
  BY <1>2 DEF Row
<1> HIDE DEF n, ip
<1>7. CASE Silently(n)
  <2>1. run' = n /\ UNCHANGED <<nb, hosts, late, clash, moved, edits, faults>>
    BY <1>7 DEF Silently
  <2>2. InHand' /\ (run.quiet => AsRead')
    BY <1>1, <1>3, <1>4, <2>1, ReadStays DEF InHand, Onward, Live
  <2> QED
    BY <1>1, <1>4, <2>1, <2>2, SilentStep
<1>8. CASE Call(Request(h, [ip |-> ip]), n)
  BY <1>1, <1>3, <1>4, <1>6, <1>8, Moving, PlainCall
<1> QED
  BY <1>5, <1>7, <1>8

LEMMA OrphanStep ==
  ASSUME IInv, DisableOrphan
  PROVE  IInv'
<1>1. run.pc = "write" /\ run.step = "choose" /\ RunOK(run)
  BY DEF DisableOrphan, Writing, IInv, SyncTypeOK
<1>2. PICK h \in run.orphans :
        Call(Request(h, [on |-> FALSE]), [run EXCEPT !.orphans = @ \ {h}])
  BY DEF DisableOrphan
<1> DEFINE n == [run EXCEPT !.orphans = @ \ {h}]
<1>3. Onward(n) /\ n.step = "choose" /\ n.todo = run.todo /\ h \in Managed(run.hosts)
  BY <1>1 DEF Onward, RunOK, RunFields
<1> HIDE DEF n
<1> QED
  BY <1>1, <1>2, <1>3, SwitchingOff, PlainCall DEF n

LEMMA SetHostIdStep ==
  ASSUME IInv, SetHostId
  PROVE  IInv'
<1> DEFINE o == run.object  h == run.host
           row == Stored(nb[o], run.rows[o], h)
<1>1. /\ run.pc = "write" /\ run.step = "store" /\ RunOK(run)
      /\ o \in DOMAIN run.rows /\ h \in DOMAIN hosts
      /\ hosts[h] # NoHost => hosts[h].owner = o
  BY DEF SetHostId, Writing, IInv, WriteInv, InHand, SyncTypeOK
<1>2. /\ o \in Objects /\ run.rows[o] \in Row /\ nb[o] \in Row /\ nb \in [Objects -> Row]
      /\ h \in Nat /\ h <= Len(hosts)
  BY <1>1, Typing DEF RunOK, IInv, SyncTypeOK
<1>3. /\ nb' = [nb EXCEPT ![o] = row] /\ run' = Done(o)
      /\ UNCHANGED <<hosts, late, clash, moved, edits, faults>>
  BY DEF SetHostId
<1>4. Onward(run') /\ run'.step = "choose" /\ run'.todo = run.todo \ {o}
  BY <1>1, <1>2, <1>3, DoneRun
<1>5. /\ row \in Row /\ row.stored \in {nb[o].stored, h} /\ row.name = nb[o].name
      /\ run.rows[o].stored # h => row.stored = h
  BY <1>2 DEF Stored, Row
<1> HIDE DEF row
<1>6. nb' \in [Objects -> Row] /\ nb'[o] = row /\ \A p \in Objects \ {o} : nb'[p] = nb[p]
  BY <1>2, <1>3, <1>5
<1>7. \A p \in Objects : Technical(p, nb'[p]) = Technical(p, nb[p])
  BY <1>5, <1>6 DEF Technical
<1>8. SyncTypeOK'
  BY <1>3, <1>4, <1>6 DEF IInv, SyncTypeOK, Onward
<1>9. Grows(hosts, hosts') /\ Len(hosts') = Len(hosts) /\ hosts' \in HostList
  BY <1>3, Typing DEF IInv, SyncTypeOK, Grows
<1>10. LateInv'
  BY <1>3 DEF IInv, LateInv, RequestOK, CreateOK, ChangeOK
<1>11. StoredInv' /\ StoredIsOwn'
  <2>1. StoredInv'
    BY <1>2, <1>3, <1>5, <1>6 DEF IInv, StoredInv
  <2>2. StoredIsOwn'
    BY <1>1, <1>3, <1>5, <1>6 DEF IInv, StoredIsOwn, Live
  <2> QED
    BY <2>1, <2>2
<1>12. InHand'
  BY <1>4 DEF InHand
<1>13. ~ Idle
  BY <1>1 DEF Idle
<1>14. ReadInv'
  BY <1>3, <1>4, <1>9, <1>13, RunOn DEF Onward
<1>15. WriteInv'
  BY <1>1, <1>3, <1>4, <1>7, <1>12, OnwardRows
<1>16. \A p \in Objects : Pending(p)' => Pending(p)
  BY <1>3, <1>4, <1>13, OnwardPending
<1>17. OneHostPerObject' /\ NamesInv'
  BY <1>3, <1>6, <1>7, <1>9, <1>16, NamesStay
<1>18. QuietInv'
  <2>1. run.quiet => AsRead'
    BY <1>1, <1>3, <1>4, ReadStays
  <2> QED
    BY <1>3, <1>4, <2>1 DEF IInv, QuietInv, Onward, AsRead
<1> QED
  BY <1>8, <1>10, <1>11, <1>14, <1>15, <1>17, <1>18 DEF IInv

LEMMA CreateStep ==
  ASSUME IInv, NEW o \in Objects, CreateHost(o)
  PROVE  IInv'
<1> DEFINE row == run.rows[o]  r == Request(0, Mirror(o, row))
           n == At("store", o, Len(hosts) + 1)
<1>1. /\ run.pc = "write" /\ run.step = "choose" /\ RunOK(run) /\ row \in Row
      /\ o \in run.todo /\ o \in DOMAIN run.rows
  BY TurnStep DEF CreateHost
<1>2. Owned(run.hosts, o) = {} /\ Call(r, n)
  BY DEF CreateHost
<1>3. Len(hosts) \in Nat /\ DOMAIN hosts = 1..Len(hosts)
  BY Typing DEF IInv
<1>4. Onward(n) /\ n.step = "store" /\ n.object = o /\ n.host = Len(hosts) + 1
      /\ n.todo = run.todo
  BY <1>1, <1>3, AtRun
<1>5. /\ r.host = 0 /\ r.set \in Host /\ r.set.owner = o /\ r.set.host = Technical(o, row)
      /\ CreateOK(r)
  BY <1>1, Mirroring DEF Request, CreateOK
<1> HIDE DEF n, r
<1>6. RequestOK(r) /\ 0 \notin Live(hosts)
  BY <1>3, <1>5 DEF RequestOK, Live
<1>7. NameOK(r)
  <2>1. Pending(o)
    BY <1>1, <1>2 DEF Pending, Idle
  <2>2. Constant(o) => r.set.host = Technical(o, nb[o])
    BY <1>1, <1>5 DEF IInv, WriteInv
  <2> QED
    BY <1>5, <1>6, <2>1, <2>2 DEF NameOK, Asks, Owned
<1>8. ASSUME run.quiet
      PROVE  ~ Taken("host", r)
  <2> SUFFICES ASSUME NEW h \in Live(hosts), hosts[h].host = Technical(o, row)
               PROVE  FALSE
    BY <1>5 DEF Taken
  <2>1. Undisturbed(h)
    BY <1>1, <1>8 DEF IInv, QuietInv
  <2>2. ~ NameTaken(run.hosts, run.rows)
    BY <1>1 DEF IInv, WriteInv
  <2>3. CASE h \in Live(run.hosts)
    <3>1. hosts[h].owner = run.hosts[h].owner
      BY <1>3, <2>3, Typing DEF IInv, ReadInv, Grows, Live
    <3>2. hosts[h].owner # o
      BY <1>2, <2>3, <3>1 DEF Owned
    <3>3. hosts[h].host = run.hosts[h].host => FALSE
      BY <1>1, <1>2, <2>2, <2>3 DEF NameTaken
    <3>4. hosts[h].host = Technical(hosts[h].owner, run.rows[hosts[h].owner])
          /\ hosts[h].owner \in DOMAIN run.rows
      BY <2>1, <3>3 DEF Undisturbed
    <3> QED
      BY <1>1, <2>2, <3>2, <3>4 DEF NameTaken
  <2>4. CASE h \notin Live(run.hosts)
    <3>1. /\ hosts[h].owner \in DOMAIN run.rows /\ hosts[h].owner \notin run.todo
          /\ hosts[h].host = Technical(hosts[h].owner, run.rows[hosts[h].owner])
      BY <1>1, <2>1, <2>4 DEF Undisturbed
    <3> QED
      BY <1>1, <2>2, <3>1 DEF NameTaken
  <2> QED
    BY <2>3, <2>4
<1>9. ASSUME Accepted(r), hosts' = Executed(r), run' = n
      PROVE  InHand' /\ (run.quiet => AsRead')
  <2> DEFINE new == Len(hosts) + 1
  <2>1. /\ hosts' \in HostList /\ Len(hosts') = new /\ hosts'[new] = r.set
        /\ \A h \in DOMAIN hosts : hosts'[h] = hosts[h]
    BY <1>5, <1>9, Creating DEF IInv
  <2>2. DOMAIN hosts' = 1..new
    BY <2>1 DEF HostList
  <2>3. new \in DOMAIN hosts' /\ \A h \in DOMAIN hosts' : h \in DOMAIN hosts \/ h = new
    BY <1>3, <2>2
  <2>4. InHand'
    BY <1>1, <1>4, <1>5, <1>9, <2>1, <2>3 DEF InHand, Onward
  <2>5. ASSUME run.quiet, NEW h \in Live(hosts')
        PROVE  Undisturbed(h)'
    <3>1. CASE h = new
      BY <1>1, <1>4, <1>5, <1>9, <2>1, <3>1 DEF Undisturbed, Onward
    <3>2. CASE h # new
      <4>1. h \in Live(hosts) /\ hosts'[h] = hosts[h]
        BY <2>1, <2>3, <2>5, <3>2 DEF Live
      <4>2. Undisturbed(h)
        BY <1>1, <2>5, <4>1 DEF IInv, QuietInv
      <4> QED
        BY <1>1, <1>4, <1>9, <4>1, <4>2 DEF Undisturbed, Onward
    <3> QED
      BY <3>1, <3>2
  <2> QED
    BY <2>4, <2>5 DEF AsRead
<1> QED
  BY <1>1, <1>2, <1>4, <1>6, <1>7, <1>8, <1>9, CallStep

LEMMA UpdateStep ==
  ASSUME IInv, NEW o \in Objects, UpdateHost(o)
  PROVE  IInv'
<1>1. PICK h \in Owned(run.hosts, o) :
        LET set == Update(o, run.rows[o], run.hosts[h])
        IN  IF DOMAIN set = {} THEN Silently(At("interface", o, h))
                               ELSE Call(Request(h, set), At("interface", o, h))
  BY DEF UpdateHost
<1> DEFINE row == run.rows[o]  set == Update(o, row, run.hosts[h])  r == Request(h, set)
           n == At("interface", o, h)
<1>2. /\ run.pc = "write" /\ run.step = "choose" /\ RunOK(run) /\ row \in Row
      /\ o \in run.todo /\ o \in DOMAIN run.rows
  BY TurnStep DEF UpdateHost
<1>3. /\ h \in Managed(run.hosts) /\ run.hosts[h].owner = o /\ run.hosts[h] \in Host
      /\ h \in DOMAIN hosts /\ h # 0 /\ h \in Live(run.hosts)
      /\ h \in Live(hosts) => hosts[h].owner = o
  BY OwnedFound DEF Managed
<1>4. UpdateOK(set) /\ ("host" \in DOMAIN set => set.host = Technical(o, row))
  BY <1>2, <1>3, Updating
<1>5. h \in Nat
  BY <1>3, Typing DEF IInv
<1>6. Onward(n) /\ n.step = "interface" /\ n.object = o /\ n.host = h /\ n.todo = run.todo
  BY <1>2, <1>5, AtRun
<1>7. Silently(n) \/ Call(r, n)
  BY <1>1
<1>8. /\ RequestOK(r) /\ ChangeOK(r) /\ ~ CreateOK(r) /\ r.host = h /\ r.set = set
  BY <1>3, <1>4, ChangeFound
<1> HIDE DEF n, r, set
<1>9. CASE Silently(n)
  <2>1. run' = n /\ UNCHANGED <<nb, hosts, late, clash, moved, edits, faults>>
    BY <1>9 DEF Silently
  <2>2. InHand'
    BY <1>2, <1>6, <2>1 DEF InHand, Onward
  <2>3. run.quiet => AsRead'
    BY <1>2, <1>6, <2>1, ReadStays
  <2> QED
    BY <1>2, <1>6, <2>1, <2>2, <2>3, SilentStep
<1>10. CASE Call(r, n)
  <2>1. NameOK(r)
    <3>1. Constant(o) => Technical(o, row) = Technical(o, nb[o])
      BY <1>2 DEF IInv, WriteInv
    <3> QED
      BY <1>3, <1>4, <1>8, <3>1 DEF NameOK, Asks, Owned
  <2>2. ASSUME run.quiet
        PROVE  ~ Taken("host", r)
    <3> SUFFICES ASSUME NEW g \in Live(hosts) \ {h}, hosts[g].host = Technical(o, row)
                 PROVE  FALSE
      BY <1>4, <1>8 DEF Taken
    <3>1. Undisturbed(g)
      BY <1>2, <2>2 DEF IInv, QuietInv
    <3>2. ~ NameTaken(run.hosts, run.rows) /\ Single(run.hosts)
      BY <1>2 DEF IInv, WriteInv, ReadInv
    <3>3. CASE g \in Live(run.hosts)
      <4>1. hosts[g].owner = run.hosts[g].owner
        BY <3>3, Typing DEF IInv, ReadInv, Grows, Live
      <4>2. hosts[g].owner # o
        BY <1>3, <3>2, <3>3, <4>1, SyncAssumption DEF Single, Managed
      <4>3. hosts[g].host # run.hosts[g].host
        BY <1>2, <3>2, <3>3, <4>1, <4>2 DEF NameTaken, Owned
      <4>4. hosts[g].host = Technical(hosts[g].owner, run.rows[hosts[g].owner])
            /\ hosts[g].owner \in DOMAIN run.rows
        BY <3>1, <4>3 DEF Undisturbed
      <4> QED
        BY <1>2, <3>2, <4>2, <4>4 DEF NameTaken
    <3>4. CASE g \notin Live(run.hosts)
      <4>1. /\ hosts[g].owner \in DOMAIN run.rows /\ hosts[g].owner \notin run.todo
            /\ hosts[g].host = Technical(hosts[g].owner, run.rows[hosts[g].owner])
        BY <1>2, <3>1, <3>4 DEF Undisturbed
      <4> QED
        BY <1>2, <3>2, <4>1 DEF NameTaken
    <3> QED
      BY <3>3, <3>4
  <2>3. ASSUME Accepted(r), hosts' = Executed(r), run' = n
        PROVE  InHand' /\ (run.quiet => AsRead')
    <3>1. /\ r.host \in Managed(hosts) /\ hosts' \in HostList /\ Len(hosts') = Len(hosts)
          /\ hosts'[h] = Overwritten(hosts[h], set)
          /\ \A g \in DOMAIN hosts \ {h} : hosts'[g] = hosts[g]
      BY <1>8, <2>3, Changing DEF IInv
    <3>2. DOMAIN hosts' = DOMAIN hosts /\ hosts[h] \in Host /\ h \in Live(hosts)
      BY <1>8, <3>1, Typing DEF IInv, HostList, Managed
    <3>3. /\ hosts'[h].owner = o /\ hosts[h].owner = o
          /\ hosts'[h].host = IF "host" \in DOMAIN set THEN set.host ELSE hosts[h].host
      BY <1>3, <1>4, <3>1, <3>2, Overwriting
    <3>4. InHand'
      BY <1>2, <1>6, <2>3 DEF InHand, Onward
    <3>5. ASSUME run.quiet, NEW g \in Live(hosts')
          PROVE  Undisturbed(g)'
      <4>1. g \in Live(hosts)
        BY <3>1, <3>2, <3>5 DEF Live
      <4>2. Undisturbed(g)
        BY <1>2, <3>5, <4>1 DEF IInv, QuietInv
      <4>3. CASE g = h /\ "host" \in DOMAIN set
        BY <1>2, <1>3, <1>4, <1>6, <2>3, <3>3, <4>3 DEF Undisturbed, Onward
      <4>4. CASE g # h \/ "host" \notin DOMAIN set
        <5>1. hosts'[g].host = hosts[g].host /\ hosts'[g].owner = hosts[g].owner
          BY <3>1, <3>3, <4>1, <4>4 DEF Live
        <5> QED
          BY <1>2, <1>6, <2>3, <4>2, <5>1 DEF Undisturbed, Onward
      <4> QED
        BY <4>3, <4>4
    <3> QED
      BY <3>4, <3>5 DEF AsRead
  <2> QED
    BY <1>2, <1>6, <1>8, <1>10, <2>1, <2>2, <2>3, CallStep
<1> QED
  BY <1>7, <1>9, <1>10

(* Two hosts of one object are Duplicated.                                  *)
LEMMA NotDuplicated ==
  ASSUME NEW hs \in HostList, ~ Duplicated(hs)
  PROVE  Single(hs)
<1> SUFFICES ASSUME NEW g \in Managed(hs), NEW h \in Managed(hs),
                    hs[g].owner = hs[h].owner, g # h
             PROVE  FALSE
  BY DEF Single
<1> DEFINE o == hs[g].owner  S == Owned(hs, o)
<1>1. /\ DOMAIN hs = 1..Len(hs) /\ Len(hs) \in Nat
      /\ hs[g] \in Host /\ o # NoObject /\ g \in S /\ h \in S /\ S \subseteq 1..Len(hs)
  BY DEF HostList, Managed, Live, Owned
<1>2. o \in Objects
  BY <1>1, HostRecord
<1>3. IsFiniteSet(S)
  <2>1. IsFiniteSet(1..Len(hs))
    BY <1>1, FS_Interval
  <2> QED
    BY <1>1, <2>1, FS_Subset
<1>4. Cardinality({g, h}) = 2 /\ {g, h} \subseteq S /\ IsFiniteSet({g, h})
  <2>1. IsFiniteSet({g}) /\ Cardinality({g}) = 1
    BY FS_Singleton
  <2>2. h \notin {g} /\ {g, h} = {g} \union {h}
    OBVIOUS
  <2>3. Cardinality({g} \union {h}) = 2 /\ IsFiniteSet({g} \union {h})
    BY <2>1, <2>2, FS_AddElement
  <2> QED
    BY <1>1, <2>2, <2>3
<1>5. Cardinality({g, h}) <= Cardinality(S) /\ Cardinality(S) \in Nat
  BY <1>3, <1>4, FS_Subset, FS_CardinalityType
<1> QED
  BY <1>2, <1>4, <1>5 DEF Duplicated

LEMMA ReadHostsStep ==
  ASSUME IInv, ReadHosts
  PROVE  IInv'
<1>1. /\ Idle /\ clash' = "none" /\ UNCHANGED <<nb, hosts, late, moved, edits, faults>>
      /\ run' = IF Duplicated(hosts) THEN NoRun
                ELSE [NoRun EXCEPT !.pc = "read", !.hosts = hosts, !.quiet = TRUE]
  BY DEF ReadHosts
<1>2. hosts \in HostList /\ hosts' \in HostList
  BY <1>1 DEF IInv, SyncTypeOK
<1>3. /\ RunOK(run') /\ ReadInv' /\ WriteInv' /\ run'.pc # "write"
      /\ (run'.pc = "read" => run'.hosts = hosts')
  <2>1. CASE Duplicated(hosts)
    BY <1>1, <1>2, <2>1, RunOver
  <2>2. CASE ~ Duplicated(hosts)
    <3>1. /\ run'.pc = "read" /\ run'.hosts = hosts /\ run'.step = "choose"
          /\ RunOK(run')
      BY <1>1, <1>2, <2>2 DEF NoRun, RunOK, RunFields
    <3>2. Single(hosts')
      BY <1>1, <1>2, <2>2, NotDuplicated
    <3>3. \A r \in late' : r.host <= Len(hosts')
      BY <1>1, Typing DEF IInv, LateInv, RequestOK, CreateOK, ChangeOK
    <3>4. Grows(hosts', hosts')
      BY <1>1, Typing DEF IInv, Grows
    <3>5. ReadInv'
      BY <1>1, <3>1, <3>2, <3>3, <3>4 DEF ReadInv
    <3> QED
      BY <1>1, <3>1, <3>5 DEF WriteInv
  <2> QED
    BY <2>1, <2>2
<1>4. SyncTypeOK'
  BY <1>1, <1>3 DEF IInv, SyncTypeOK
<1>5. LateInv'
  BY <1>1 DEF IInv, LateInv, RequestOK, CreateOK, ChangeOK
<1>6. StoredInv' /\ StoredIsOwn' /\ OneHostPerObject'
  BY <1>1 DEF IInv, StoredInv, StoredIsOwn, OneHostPerObject
<1>7. ASSUME NEW o \in Objects, Constant(o)', Pending(o)'
      PROVE  OneName(o)'
  <2>1. Constant(o)
    BY <1>1, <1>7 DEF Constant
  <2>2. CASE Pending(o)
    <3>1. OneName(o)
      BY <2>1, <2>2 DEF IInv, NamesInv
    <3> QED
      BY <1>1, <3>1 DEF OneName, Asks, CreateOK
  <2>3. CASE ~ Pending(o)
    <3>1. /\ \A r \in late : ~ (CreateOK(r) /\ r.set.owner = o)
          /\ \A r : CreateOK(r)' <=> CreateOK(r)
      BY <2>3 DEF Pending, CreateOK
    <3>2. (~ Idle)' /\ Owned(run'.hosts, o) = {}
      BY <1>1, <1>7, <3>1 DEF Pending
    <3>3. Owned(hosts', o) = {}
      BY <1>3, <3>2 DEF Idle, SyncTypeOK, RunOK
    <3> QED
      BY <1>1, <3>1, <3>3 DEF OneName, Asks
  <2> QED
    BY <2>2, <2>3
<1>8. QuietInv'
  BY <1>1, <1>3 DEF QuietInv
<1> QED
  BY <1>3, <1>4, <1>5, <1>6, <1>7, <1>8 DEF IInv, NamesInv

LEMMA ReadObjectsStep ==
  ASSUME IInv, ReadObjects
  PROVE  IInv'
<1> DEFINE rows == [o \in Selected |-> nb[o]]
           n == [run EXCEPT !.pc = "write", !.rows = rows, !.todo = Selected,
                            !.orphans = Orphans(run.hosts, rows)]
<1>1. /\ run.pc = "read" /\ RunOK(run)
      /\ UNCHANGED <<nb, hosts, late, clash, moved, edits, faults>>
      /\ run' = IF Refused(run.hosts, rows) THEN NoRun ELSE n
  BY DEF ReadObjects, Silently, IInv, SyncTypeOK
<1>2. /\ DOMAIN rows = Selected /\ Selected \subseteq Objects
      /\ \A o \in Selected : rows[o] = nb[o] /\ nb[o] \in Row
  BY Typing DEF Selected, IInv
<1>3. Orphans(run.hosts, rows) \subseteq Managed(run.hosts)
  BY DEF Orphans
<1> HIDE DEF rows
<1>4. /\ n.pc = "write" /\ n.rows = rows /\ n.todo = Selected /\ n.hosts = run.hosts
      /\ n.orphans = Orphans(run.hosts, rows)
      /\ n.step = run.step /\ n.quiet = run.quiet /\ RunOK(n)
  BY <1>1, <1>2, <1>3 DEF RunOK, RunFields
<1>5. run.step = "choose"
  BY <1>1 DEF RunOK
<1>6. CASE Refused(run.hosts, rows)
  <2>1. run' = NoRun /\ clash' \in {"none", "visible", clash} /\ faults' \in 0..MaxFaults
    BY <1>1, <1>6 DEF IInv, SyncTypeOK
  <2> DEFINE R == {}
  <2>2. late' = late \union R /\ \A q \in R : RequestOK(q) /\ NameOK(q)
    BY <1>1
  <2>3. ~ Idle
    BY <1>1 DEF Idle
  <2> HIDE DEF R
  <2> QED
    BY <1>1, <2>1, <2>2, <2>3, EndStep
<1>7. CASE ~ Refused(run.hosts, rows)
  <2> HIDE DEF n
  <2>1. run' = n
    BY <1>1, <1>7
  <2>2. SyncTypeOK'
    BY <1>1, <1>4, <2>1 DEF IInv, SyncTypeOK
  <2>3. LateInv'
    BY <1>1 DEF IInv, LateInv, RequestOK, CreateOK, ChangeOK
  <2>4. Grows(hosts, hosts') /\ Len(hosts') = Len(hosts) /\ hosts' \in HostList
    BY <1>1, Typing DEF IInv, SyncTypeOK, Grows
  <2>5. ReadInv'
    BY <1>1, <1>4, <2>1, <2>4, RunOn DEF Idle
  <2>6. WriteInv'
    <3>1. ~ NameTaken(run'.hosts, run'.rows)
      BY <1>4, <1>7, <2>1 DEF Refused
    <3>2. InHand'
      BY <1>4, <1>5, <2>1 DEF InHand
    <3>3. \A o \in DOMAIN run'.rows : Technical(o, run'.rows[o]) = Technical(o, nb'[o])
      BY <1>1, <1>2, <1>4, <2>1
    <3> QED
      BY <3>1, <3>2, <3>3 DEF WriteInv
  <2>7. StoredInv' /\ StoredIsOwn'
    BY <1>1 DEF IInv, StoredInv, StoredIsOwn
  <2>8. \A o \in Objects : Pending(o)' => Pending(o)
    BY <1>1, <1>4, <2>1 DEF Pending, Idle, CreateOK
  <2>9. OneHostPerObject' /\ NamesInv'
    BY <1>1, <2>4, <2>8, NamesStay DEF IInv, SyncTypeOK
  <2>10. QuietInv'
    <3>1. ASSUME run'.quiet, NEW h \in Live(hosts')
          PROVE  Undisturbed(h)'
      <4>1. hosts = run.hosts
        BY <1>1, <1>4, <2>1, <3>1 DEF IInv, QuietInv
      <4> QED
        BY <1>1, <1>4, <2>1, <3>1, <4>1 DEF Undisturbed
    <3> QED
      BY <1>1, <1>4, <2>1, <3>1 DEF IInv, QuietInv
  <2> QED
    BY <2>2, <2>3, <2>5, <2>6, <2>7, <2>9, <2>10 DEF IInv
<1> QED
  BY <1>6, <1>7

LEMMA FinishStep ==
  ASSUME IInv, Finish \/ Interrupt
  PROVE  IInv'
<1>1. /\ ~ Idle /\ run' = NoRun /\ UNCHANGED <<nb, hosts, late, clash, moved, edits>>
      /\ faults' \in 0..MaxFaults
  BY SyncAssumption DEF Finish, Interrupt, Silently, Writing, Idle, IInv, SyncTypeOK
<1> DEFINE R == {}
<1>2. late' = late \union R /\ \A q \in R : RequestOK(q) /\ NameOK(q)
  BY <1>1
<1>3. clash' \in {"none", "visible", clash}
  BY <1>1
<1> HIDE DEF R
<1> QED
  BY <1>1, <1>2, <1>3, EndStep

(* A run that is disturbed knows what it knew.                              *)
LEMMA DisturbedRun ==
  ASSUME IInv, run' = Disturbed
  PROVE  /\ RunOK(run') /\ run'.quiet = FALSE
         /\ run'.pc = run.pc /\ run'.hosts = run.hosts /\ run'.rows = run.rows
         /\ run'.step = run.step /\ run'.object = run.object /\ run'.host = run.host
BY DEF Disturbed, IInv, SyncTypeOK, RunOK, RunFields

LEMMA DisturbedStep ==
  ASSUME IInv, run' = Disturbed, hosts' \in HostList, Grows(hosts, hosts'),
         late' \subseteq late, clash' = clash, nb' \in [Objects -> Row],
         moved \subseteq moved', moved' \subseteq Objects,
         edits' \in 0..MaxEdits, faults' \in 0..MaxFaults,
         \A o \in Objects : nb'[o].stored = nb[o].stored,
         \A o \in Objects : Constant(o)' /\ ~ Idle =>
           Technical(o, nb'[o]) = Technical(o, nb[o])
  PROVE  /\ SyncTypeOK' /\ LateInv' /\ ReadInv' /\ WriteInv' /\ StoredInv' /\ StoredIsOwn'
         /\ QuietInv'
<1>1. /\ RunOK(run') /\ run'.quiet = FALSE
      /\ run'.pc = run.pc /\ run'.hosts = run.hosts /\ run'.rows = run.rows
      /\ run'.step = run.step /\ run'.object = run.object /\ run'.host = run.host
  BY DisturbedRun
<1>2. SyncTypeOK'
  BY <1>1 DEF IInv, SyncTypeOK
<1>3. LateInv'
  BY RequestsStay DEF IInv, LateInv
<1>4. ReadInv'
  BY <1>1, RunOn DEF Idle
<1>5. StoredInv' /\ StoredIsOwn'
  BY StoredStays
<1>6. ASSUME run.pc = "write"
      PROVE  WriteInv'
  <2>1. ~ NameTaken(run'.hosts, run'.rows)
    BY <1>1, <1>6 DEF IInv, WriteInv
  <2>2. InHand'
    <3>1. DOMAIN hosts \subseteq DOMAIN hosts'
      BY Typing DEF IInv, Grows, HostList
    <3> QED
      BY <1>1, <1>6, <3>1 DEF IInv, WriteInv, InHand, Grows
  <2>3. \A o \in DOMAIN run'.rows :
          Constant(o)' => Technical(o, run'.rows[o]) = Technical(o, nb'[o])
    <3>1. \A o : Constant(o)' => Constant(o)
      BY DEF Constant
    <3>2. DOMAIN run'.rows \subseteq Objects
      BY <1>1 DEF RunOK
    <3> QED
      BY <1>1, <1>6, <3>1, <3>2 DEF IInv, WriteInv, Idle
  <2> QED
    BY <2>1, <2>2, <2>3 DEF WriteInv
<1>7. WriteInv'
  BY <1>1, <1>6 DEF WriteInv
<1>8. QuietInv'
  BY <1>1 DEF IInv, QuietInv
<1> QED
  BY <1>2, <1>3, <1>4, <1>5, <1>7, <1>8

LEMMA DisturbedPending ==
  ASSUME IInv, run' = Disturbed, late' \subseteq late
  PROVE  \A o \in Objects : Pending(o)' => Pending(o)
BY DisturbedRun DEF Pending, Idle, CreateOK

(* A request that comes late is one that could have been made now.          *)
LEMMA LateStep ==
  ASSUME IInv, LateRequest
  PROVE  IInv'
<1>1. PICK r \in late :
        /\ late' = late \ {r} /\ hosts' = IF Accepted(r) THEN Executed(r) ELSE hosts
        /\ run' = Disturbed /\ UNCHANGED <<nb, clash, moved, edits, faults>>
  BY DEF LateRequest
<1>2. RequestOK(r)
  BY DEF IInv, LateInv
<1>3. hosts' \in HostList /\ Grows(hosts, hosts')
  <2>1. Accepted(r) => Executed(r) \in HostList /\ Grows(hosts, Executed(r))
    BY <1>2, Executing DEF IInv
  <2>2. hosts \in HostList /\ Grows(hosts, hosts)
    BY Typing DEF IInv, SyncTypeOK, Grows
  <2> QED
    BY <1>1, <2>1, <2>2
<1>4. late' \subseteq late
  BY <1>1
<1>5. /\ SyncTypeOK' /\ LateInv' /\ ReadInv' /\ WriteInv' /\ StoredInv' /\ StoredIsOwn'
      /\ QuietInv'
  BY <1>1, <1>3, <1>4, DisturbedStep DEF IInv, SyncTypeOK
<1>6. \A o \in Objects : Pending(o)' => Pending(o)
  BY <1>1, <1>4, DisturbedPending
<1>7. NameOK(r)
  <2>1. \A o \in Objects : CreateOK(r) /\ r.set.owner = o => Pending(o)
    BY DEF Pending
  <2>2. \A o \in Objects : Constant(o) /\ Pending(o) => Asks(r, o, Technical(o, nb[o]))
    BY DEF IInv, NamesInv, OneName
  <2> QED
    BY <2>1, <2>2 DEF NameOK
<1>8. OneHostPerObject' /\ NamesInv'
  <2>1. CASE Accepted(r)
    BY <1>1, <1>2, <1>4, <1>6, <1>7, <2>1, NamesGrow
  <2>2. CASE ~ Accepted(r)
    BY <1>1, <1>3, <1>4, <1>6, <2>2, NamesStay DEF IInv, SyncTypeOK
  <2> QED
    BY <2>1, <2>2
<1> QED
  BY <1>5, <1>8 DEF IInv

(* A person edits an object; a rename while a host may be in the making is  *)
(* recorded as one.                                                         *)
LEMMA EditedRow ==
  ASSUME IInv, NEW o \in Objects, EditObject(o)
  PROVE  /\ run' = Disturbed /\ UNCHANGED <<hosts, late, clash, faults>>
         /\ edits' = edits + 1 /\ edits' \in 0..MaxEdits
         /\ nb' \in [Objects -> Row] /\ \A p \in Objects \ {o} : nb'[p] = nb[p]
         /\ nb'[o].stored = nb[o].stored
         /\ moved \subseteq moved' /\ moved' \subseteq Objects
         /\ nb'[o].name = nb[o].name \/ ~ BeingMade(o) \/ o \in moved'
<1>1. nb \in [Objects -> Row] /\ nb[o] \in Row /\ moved \subseteq Objects
  BY DEF IInv, SyncTypeOK
<1>2. \A kind : Edit(kind) =>
        /\ run' = Disturbed /\ UNCHANGED <<late, clash, faults>>
        /\ edits' = edits + 1 /\ edits' \in 0..MaxEdits
  BY SyncAssumption DEF Edit, IInv, SyncTypeOK
<1>3. ASSUME NEW row \in Row, row.stored = nb[o].stored, nb' = [nb EXCEPT ![o] = row]
      PROVE  /\ nb' \in [Objects -> Row] /\ \A p \in Objects \ {o} : nb'[p] = nb[p]
             /\ nb'[o] = row
  BY <1>1, <1>3
<1>4. hosts' = hosts
  BY DEF EditObject
<1>5. CASE Edit("select") /\ nb' = [nb EXCEPT ![o].selected = ~@] /\ UNCHANGED moved
  <2> DEFINE row == [nb[o] EXCEPT !.selected = ~@]
  <2>1. row \in Row /\ row.stored = nb[o].stored /\ row.name = nb[o].name
    BY <1>1 DEF Row
  <2>2. nb' = [nb EXCEPT ![o] = row]
    BY <1>5
  <2> HIDE DEF row
  <2> QED
    BY <1>1, <1>2, <1>3, <1>4, <1>5, <2>1, <2>2
<1>6. CASE /\ Edit("rename")
           /\ \E n \in Names \ {nb[o].name} : nb' = [nb EXCEPT ![o].name = n]
           /\ moved' = IF BeingMade(o) THEN moved \union {o} ELSE moved
  <2>1. PICK n \in Names : nb' = [nb EXCEPT ![o].name = n]
    BY <1>6
  <2> DEFINE row == [nb[o] EXCEPT !.name = n]
  <2>2. row \in Row /\ row.stored = nb[o].stored
    BY <1>1 DEF Row
  <2>3. nb' = [nb EXCEPT ![o] = row]
    BY <2>1
  <2> HIDE DEF row
  <2> QED
    BY <1>1, <1>2, <1>3, <1>4, <1>6, <2>2, <2>3
<1>7. CASE /\ Edit("address")
           /\ \E a \in (Addresses \union {NoAddress}) \ {nb[o].ip} : nb' = [nb EXCEPT ![o].ip = a]
           /\ UNCHANGED moved
  <2>1. PICK a \in Addresses \union {NoAddress} : nb' = [nb EXCEPT ![o].ip = a]
    BY <1>7
  <2> DEFINE row == [nb[o] EXCEPT !.ip = a]
  <2>2. row \in Row /\ row.stored = nb[o].stored /\ row.name = nb[o].name
    BY <1>1 DEF Row
  <2>3. nb' = [nb EXCEPT ![o] = row]
    BY <2>1
  <2> HIDE DEF row
  <2> QED
    BY <1>1, <1>2, <1>3, <1>4, <1>7, <2>2, <2>3
<1>8. CASE Edit("status") /\ nb' = [nb EXCEPT ![o].active = ~@] /\ UNCHANGED moved
  <2> DEFINE row == [nb[o] EXCEPT !.active = ~@]
  <2>1. row \in Row /\ row.stored = nb[o].stored /\ row.name = nb[o].name
    BY <1>1 DEF Row
  <2>2. nb' = [nb EXCEPT ![o] = row]
    BY <1>8
  <2> HIDE DEF row
  <2> QED
    BY <1>1, <1>2, <1>3, <1>4, <1>8, <2>1, <2>2
<1>9. CASE Edit("field") /\ nb' = [nb EXCEPT ![o].other = ~@] /\ UNCHANGED moved
  <2> DEFINE row == [nb[o] EXCEPT !.other = ~@]
  <2>1. row \in Row /\ row.stored = nb[o].stored /\ row.name = nb[o].name
    BY <1>1 DEF Row
  <2>2. nb' = [nb EXCEPT ![o] = row]
    BY <1>9
  <2> HIDE DEF row
  <2> QED
    BY <1>1, <1>2, <1>3, <1>4, <1>9, <2>1, <2>2
<1>10. CASE /\ Edit("profile")
            /\ \E g \in (Groups \union {NoGroup}) \ {nb[o].group} : nb' = [nb EXCEPT ![o].group = g]
            /\ UNCHANGED moved
  <2>1. PICK g \in Groups \union {NoGroup} : nb' = [nb EXCEPT ![o].group = g]
    BY <1>10
  <2> DEFINE row == [nb[o] EXCEPT !.group = g]
  <2>2. row \in Row /\ row.stored = nb[o].stored /\ row.name = nb[o].name
    BY <1>1 DEF Row
  <2>3. nb' = [nb EXCEPT ![o] = row]
    BY <2>1
  <2> HIDE DEF row
  <2> QED
    BY <1>1, <1>2, <1>3, <1>4, <1>10, <2>2, <2>3
<1> QED
  BY <1>5, <1>6, <1>7, <1>8, <1>9, <1>10 DEF EditObject

LEMMA EditObjectStep ==
  ASSUME IInv, NEW o \in Objects, EditObject(o)
  PROVE  IInv'
<1>1. /\ run' = Disturbed /\ UNCHANGED <<hosts, late, clash, faults>>
      /\ edits' = edits + 1 /\ edits' \in 0..MaxEdits
      /\ nb' \in [Objects -> Row] /\ \A p \in Objects \ {o} : nb'[p] = nb[p]
      /\ nb'[o].stored = nb[o].stored
      /\ moved \subseteq moved' /\ moved' \subseteq Objects
      /\ nb'[o].name = nb[o].name \/ ~ BeingMade(o) \/ o \in moved'
  BY EditedRow
<1>2. ASSUME NEW p \in Objects, Constant(p)', ~ Idle \/ Pending(p)
      PROVE  Technical(p, nb'[p]) = Technical(p, nb[p])
  <2>1. CASE p # o \/ nb'[o].name = nb[o].name
    BY <1>1, <2>1 DEF Technical
  <2>2. CASE p = o /\ nb'[o].name # nb[o].name
    <3>1. BeingMade(o)
      BY <1>2, <2>2 DEF Pending, BeingMade, CreateOK
    <3>2. o \in VMs
      BY <1>1, <1>2, <2>2, <3>1 DEF Constant, Objects
    <3> QED
      BY <2>2, <3>2 DEF Technical
  <2> QED
    BY <2>1, <2>2
<1>3. hosts' \in HostList /\ Grows(hosts, hosts') /\ Len(hosts') = Len(hosts)
  BY <1>1, Typing DEF IInv, SyncTypeOK, Grows
<1>4. /\ SyncTypeOK' /\ LateInv' /\ ReadInv' /\ WriteInv' /\ StoredInv' /\ StoredIsOwn'
      /\ QuietInv'
  BY <1>1, <1>2, <1>3, DisturbedStep DEF IInv, SyncTypeOK
<1>5. \A p \in Objects : Pending(p)' => Pending(p)
  BY <1>1, DisturbedPending
<1>6. OneHostPerObject' /\ NamesInv'
  BY <1>1, <1>2, <1>3, <1>5, NamesStay
<1> QED
  BY <1>4, <1>6 DEF IInv

LEMMA EditHostStep ==
  ASSUME IInv, NEW h \in Live(hosts), EditHost(h)
  PROVE  IInv' /\ edits' # edits
<1>1. hosts \in Seq(Host \union {NoHost}) /\ hosts[h] \in Host /\ h \in DOMAIN hosts
  BY Typing DEF IInv, SyncTypeOK, HostList
<1>2. UNCHANGED <<nb, moved>> /\ \E kind : Edit(kind)
  BY DEF EditHost
<1>3. /\ run' = Disturbed /\ UNCHANGED <<nb, moved, late, clash, faults>>
      /\ edits' = edits + 1 /\ edits' \in 0..MaxEdits /\ edits' # edits
  BY <1>2, SyncAssumption DEF Edit, IInv, SyncTypeOK
<1>4. \E new \in Host \union {NoHost} :
        /\ hosts' = [hosts EXCEPT ![h] = new]
        /\ new # NoHost => new.owner = hosts[h].owner /\ new.host = hosts[h].host
  <2>1. ASSUME NEW t \in LocalTags, hosts' = [hosts EXCEPT ![h].local = @ \union {t}]
        PROVE  \E new \in Host : /\ hosts' = [hosts EXCEPT ![h] = new]
                                 /\ new.owner = hosts[h].owner /\ new.host = hosts[h].host
    <3> DEFINE new == [hosts[h] EXCEPT !.local = @ \union {t}]
    <3>1. new \in Host /\ new.owner = hosts[h].owner /\ new.host = hosts[h].host
      BY <1>1 DEF Host
    <3>2. hosts' = [hosts EXCEPT ![h] = new]
      BY <2>1
    <3> HIDE DEF new
    <3> QED
      BY <3>1, <3>2
  <2>2. ASSUME hosts' = [hosts EXCEPT ![h].on = ~@]
        PROVE  \E new \in Host : /\ hosts' = [hosts EXCEPT ![h] = new]
                                 /\ new.owner = hosts[h].owner /\ new.host = hosts[h].host
    <3> DEFINE new == [hosts[h] EXCEPT !.on = ~@]
    <3>1. new \in Host /\ new.owner = hosts[h].owner /\ new.host = hosts[h].host
      BY <1>1 DEF Host
    <3>2. hosts' = [hosts EXCEPT ![h] = new]
      BY <2>2
    <3> HIDE DEF new
    <3> QED
      BY <3>1, <3>2
  <2>3. ASSUME NEW g \in Groups \union {NoGroup}, hosts' = [hosts EXCEPT ![h].group = g]
        PROVE  \E new \in Host : /\ hosts' = [hosts EXCEPT ![h] = new]
                                 /\ new.owner = hosts[h].owner /\ new.host = hosts[h].host
    <3> DEFINE new == [hosts[h] EXCEPT !.group = g]
    <3>1. new \in Host /\ new.owner = hosts[h].owner /\ new.host = hosts[h].host
      BY <1>1 DEF Host
    <3>2. hosts' = [hosts EXCEPT ![h] = new]
      BY <2>3
    <3> HIDE DEF new
    <3> QED
      BY <3>1, <3>2
  <2> QED
    BY <2>1, <2>2, <2>3 DEF EditHost
<1>5. PICK new \in Host \union {NoHost} :
        /\ hosts' = [hosts EXCEPT ![h] = new]
        /\ new # NoHost => new.owner = hosts[h].owner /\ new.host = hosts[h].host
  BY <1>4
<1>6. /\ hosts' \in HostList /\ Len(hosts') = Len(hosts) /\ hosts'[h] = new
      /\ DOMAIN hosts' = DOMAIN hosts /\ \A g \in DOMAIN hosts \ {h} : hosts'[g] = hosts[g]
  BY <1>1, <1>5 DEF HostList
<1>7. \A g \in Live(hosts') : /\ g \in Live(hosts) /\ hosts'[g].owner = hosts[g].owner
                              /\ hosts'[g].host = hosts[g].host
  BY <1>5, <1>6 DEF Live
<1>8. Grows(hosts, hosts')
  <2>1. Len(hosts) <= Len(hosts')
    BY <1>6, Typing DEF IInv
  <2> QED
    BY <1>6, <1>7, <2>1 DEF Grows, Live
<1>9. /\ SyncTypeOK' /\ LateInv' /\ ReadInv' /\ WriteInv' /\ StoredInv' /\ StoredIsOwn'
      /\ QuietInv'
  BY <1>3, <1>6, <1>8, DisturbedStep DEF IInv, SyncTypeOK
<1>10. \A p \in Objects : Pending(p)' => Pending(p)
  BY <1>3, DisturbedPending
<1>11. OneHostPerObject' /\ NamesInv'
  BY <1>3, <1>6, <1>7, <1>10, NamesStay DEF IInv, SyncTypeOK
<1> QED
  BY <1>3, <1>9, <1>11 DEF IInv

LEMMA NextStep ==
  ASSUME IInv, [Next]_vars
  PROVE  IInv'
<1>1. CASE Sync
  BY <1>1, ReadHostsStep, ReadObjectsStep, SkipStep, CreateStep, UpdateStep, InterfaceStep,
     SetHostIdStep, OrphanStep, FinishStep DEF Sync
<1>2. CASE Interrupt \/ LateRequest
  BY <1>2, FinishStep, LateStep
<1>3. CASE (\E o \in Objects : EditObject(o)) \/ (\E h \in Live(hosts) : EditHost(h))
  BY <1>3, EditObjectStep, EditHostStep
<1>4. CASE UNCHANGED vars
  <2>1. UNCHANGED <<nb, hosts, late, run, clash, moved, edits, faults>>
    BY <1>4 DEF vars
  <2>2. SyncTypeOK' /\ LateInv' /\ ReadInv' /\ WriteInv'
    BY <2>1 DEF IInv, SyncTypeOK, LateInv, RequestOK, CreateOK, ChangeOK, ReadInv, Idle,
                WriteInv, InHand, Constant
  <2>3. StoredInv' /\ StoredIsOwn' /\ OneHostPerObject'
    BY <2>1 DEF IInv, StoredInv, StoredIsOwn, OneHostPerObject
  <2>4. \A o \in Objects : Pending(o)' => Pending(o)
    BY <2>1 DEF Pending, Idle, CreateOK
  <2>5. NamesInv'
    BY <2>1, <2>4, NamesStay, Typing DEF IInv, SyncTypeOK
  <2>6. QuietInv'
    BY <2>1 DEF IInv, QuietInv, Undisturbed
  <2> QED
    BY <2>2, <2>3, <2>5, <2>6 DEF IInv
<1> QED
  BY <1>1, <1>2, <1>3, <1>4 DEF Next

LEMMA InitInv ==
  ASSUME Init
  PROVE  IInv
<1>1. PICK name \in [Objects -> Names], ip \in Addresses, g \in Groups :
        nb = [o \in Objects |-> [selected |-> TRUE, name |-> name[o], ip |-> ip, active |-> TRUE,
                                 group |-> g, stored |-> 0, other |-> FALSE]]
  BY DEF Init
<1>2. /\ late = {} /\ run = NoRun /\ clash = "none" /\ moved = {} /\ edits = 0 /\ faults = 0
      /\ hosts = << >> \/ \E n, v \in Names : hosts = <<Unmanaged(n, v)>>
  BY DEF Init
<1>3. nb \in [Objects -> Row] /\ \A o \in Objects : nb[o].stored = 0
  BY <1>1 DEF Row
<1>4. hosts \in HostList /\ \A h \in Live(hosts) : hosts[h].owner = NoObject
  <2>1. CASE hosts = << >>
    BY <2>1 DEF HostList, Live
  <2>2. ASSUME NEW n \in Names, NEW v \in Names, hosts = <<Unmanaged(n, v)>>
        PROVE  hosts \in HostList /\ \A h \in Live(hosts) : hosts[h].owner = NoObject
    <3> DEFINE u == Unmanaged(n, v)
    <3>1. u \in Host /\ u.owner = NoObject
      BY DEF Unmanaged, Host
    <3>2. hosts = <<u>>
      BY <2>2
    <3> HIDE DEF u
    <3> QED
      BY <3>1, <3>2 DEF HostList, Live
  <2> QED
    BY <1>2, <2>1, <2>2
<1>5. RunOK(run) /\ run.hosts = << >> /\ run.pc = "idle" /\ run.quiet = FALSE
  <2>1. RunOK(NoRun)
    BY DEF RunOK, NoRun, RunFields, HostList, Managed, Live
  <2> QED
    BY <1>2, <2>1 DEF NoRun
<1>6. SyncTypeOK
  BY <1>2, <1>3, <1>4, <1>5, SyncAssumption DEF SyncTypeOK
<1>7. ReadInv
  <2>1. Grows(<< >>, hosts)
    BY <1>4 DEF Grows, HostList
  <2>2. Single(<< >>)
    BY DEF Single, Managed, Live
  <2> QED
    BY <1>5, <2>1, <2>2 DEF ReadInv, Idle
<1>8. StoredInv /\ StoredIsOwn
  <2>1. Len(hosts) \in Nat /\ DOMAIN hosts = 1..Len(hosts)
    BY <1>6, Typing
  <2> QED
    BY <1>3, <2>1 DEF StoredInv, StoredIsOwn, Live
<1>9. OneHostPerObject
  BY <1>4 DEF OneHostPerObject, Managed
<1>10. LateInv /\ WriteInv /\ NamesInv /\ QuietInv
  BY <1>2, <1>5 DEF LateInv, WriteInv, NamesInv, Pending, Idle, QuietInv
<1> QED
  BY <1>6, <1>7, <1>8, <1>9, <1>10 DEF IInv

-----------------------------------------------------------------------------
(* The theorems                                                             *)

(* The invariant holds of any inventory, any edits and any faults.          *)
THEOREM SyncInvariance == Spec => []IInv
<1>1. Init => IInv
  BY InitInv
<1>2. IInv /\ [Next]_vars => IInv'
  BY NextStep
<1> QED
  BY <1>1, <1>2, PTL DEF Spec

(* Every variable keeps its type: what a run has read, and a request that   *)
(* is still on its way, included.                                           *)
THEOREM SyncTypeCorrect == Spec => []TypeOK
<1>1. IInv => TypeOK
  <2> SUFFICES ASSUME IInv
               PROVE  TypeOK
    OBVIOUS
  <2>1. /\ nb \in [Objects -> Row] /\ RunOK(run)
        /\ clash \in {"none", "technical", "visible"}
        /\ moved \subseteq Objects /\ edits \in 0..MaxEdits /\ faults \in 0..MaxFaults
    BY DEF IInv, SyncTypeOK
  <2>2. \A h \in DOMAIN hosts : hosts[h] \in Host \union {NoHost}
    BY DEF IInv, SyncTypeOK, HostList
  <2>3. Len(hosts) \in Nat /\ DOMAIN hosts = 1..Len(hosts)
    BY Typing DEF IInv
  <2>4. ASSUME NEW r \in late
        PROVE  r.host \in 0..Len(hosts) /\ DOMAIN r.set \subseteq DOMAIN Unmanaged(0, 0)
    <3>1. RequestOK(r)
      BY DEF IInv, LateInv
    <3>2. CASE CreateOK(r)
      BY <2>3, <3>2, HostRecord DEF CreateOK
    <3>3. CASE ChangeOK(r)
      BY <2>3, <3>3 DEF ChangeOK, UpdateOK, UpdateFields, Unmanaged
    <3> QED
      BY <3>1, <3>2, <3>3 DEF RequestOK
  <2>5. run.orphans \subseteq DOMAIN run.hosts
    BY <2>1 DEF RunOK, Managed, Live
  <2>6. run.host \in 0..Len(hosts)
    <3>1. CASE run.step = "choose"
      BY <2>1, <2>3, <3>1 DEF RunOK
    <3>2. CASE run.step # "choose"
      <4>1. run.pc = "write" /\ InHand /\ DOMAIN run.rows \subseteq Objects
            /\ run.step \in {"interface", "store"}
        BY <2>1, <3>2 DEF IInv, WriteInv, RunOK
      <4>2. run.host \in DOMAIN hosts
        BY <3>2, <4>1, OwnedFound DEF InHand
      <4> QED
        BY <2>3, <4>2
    <3> QED
      BY <3>1, <3>2
  <2> QED
    BY <2>1, <2>2, <2>4, <2>5, <2>6 DEF TypeOK, RunOK
<1> QED
  BY <1>1, SyncInvariance, PTL

(* An object has at most one host, whatever calls and answers are lost and  *)
(* whatever people edit, unless it is a device renamed while a host for it  *)
(* could be in the making.                                                  *)
THEOREM AlwaysOneHost == Spec => []OneHostPerObject
<1>1. IInv => OneHostPerObject
  BY DEF IInv
<1> QED
  BY <1>1, SyncInvariance, PTL

(* No object has the host of another stored.                                *)
THEOREM StoredAlwaysOwn == Spec => []StoredIsOwn
<1>1. IInv => StoredIsOwn
  BY DEF IInv
<1> QED
  BY <1>1, SyncInvariance, PTL

(* The preflight foresees every refusal for a technical name, unless        *)
(* somebody edits, or a late request arrives, while the run is at work.     *)
THEOREM TechnicalNamesAlwaysForeseen == Spec => []TechnicalNamesForeseen
<1>1. IInv => TechnicalNamesForeseen
  BY DEF IInv, QuietInv, TechnicalNamesForeseen
<1> QED
  BY <1>1, SyncInvariance, PTL

-----------------------------------------------------------------------------
(* Nothing is changed but what is managed, nor without need                 *)

(* What a step writes to Zabbix, if anything.                               *)
Writes == \E r : RequestOK(r) /\ Accepted(r) /\ hosts' = Executed(r)

LEMMA CallWrites ==
  ASSUME NEW r, NEW next, Call(r, next), RequestOK(r)
  PROVE  hosts' = hosts \/ Writes
BY DEF Call, Writes

LEMMA SyncWrites ==
  ASSUME IInv, Sync
  PROVE  hosts' = hosts \/ Writes
<1>1. CASE ReadHosts \/ ReadObjects \/ SetHostId \/ Finish
  BY <1>1 DEF ReadHosts, ReadObjects, SetHostId, Finish, Silently
<1>2. ASSUME NEW o \in Objects, SkipUnaddressed(o)
      PROVE  hosts' = hosts \/ Writes
  <2>1. CASE hosts' = hosts
    BY <2>1
  <2>2. CASE hosts' # hosts
    <3>1. PICK h \in Owned(run.hosts, o) : Call(Request(h, [on |-> FALSE]), Done(o))
      BY <1>2, <2>2 DEF SkipUnaddressed, Silently
    <3>2. RequestOK(Request(h, [on |-> FALSE]))
      BY OwnedFound, SwitchingOff, ChangeFound
    <3> QED
      BY <3>1, <3>2, CallWrites
  <2> QED
    BY <2>1, <2>2
<1>3. ASSUME NEW o \in Objects, CreateHost(o)
      PROVE  hosts' = hosts \/ Writes
  <2> DEFINE r == Request(0, Mirror(o, run.rows[o]))
  <2>1. run.rows[o] \in Row
    BY <1>3, TurnStep DEF CreateHost
  <2>2. RequestOK(r)
    BY <2>1, Mirroring DEF Request, RequestOK, CreateOK
  <2>3. Call(r, At("store", o, Len(hosts) + 1))
    BY <1>3 DEF CreateHost
  <2> HIDE DEF r
  <2> QED
    BY <2>2, <2>3, CallWrites
<1>4. ASSUME NEW o \in Objects, UpdateHost(o)
      PROVE  hosts' = hosts \/ Writes
  <2>1. PICK h \in Owned(run.hosts, o) :
          \/ Silently(At("interface", o, h))
          \/ Call(Request(h, Update(o, run.rows[o], run.hosts[h])), At("interface", o, h))
    BY <1>4 DEF UpdateHost
  <2> DEFINE set == Update(o, run.rows[o], run.hosts[h])
  <2>2. run.rows[o] \in Row
    BY <1>4, TurnStep DEF UpdateHost
  <2>3. h \in Managed(run.hosts) /\ run.hosts[h] \in Host
    BY OwnedFound
  <2>4. UpdateOK(set)
    BY <2>2, <2>3, Updating
  <2> HIDE DEF set
  <2>5. RequestOK(Request(h, set))
    BY <2>3, <2>4, ChangeFound
  <2> QED
    BY <2>1, <2>5, CallWrites DEF set, Silently
<1>5. CASE UpdateInterface
  <2> DEFINE ip == run.rows[run.object].ip  next == At("store", run.object, run.host)
  <2>1. Silently(next) \/ Call(Request(run.host, [ip |-> ip]), next)
    BY <1>5 DEF UpdateInterface
  <2>2. /\ run.pc = "write" /\ RunOK(run) /\ run.object \in DOMAIN run.rows
        /\ run.host \in Owned(run.hosts, run.object)
    BY <1>5 DEF UpdateInterface, Writing, IInv, WriteInv, InHand, SyncTypeOK
  <2>3. run.object \in Objects /\ ip \in Addresses \union {NoAddress}
    BY <2>2 DEF RunOK, Row
  <2>4. run.host \in Managed(run.hosts)
    BY <2>2, <2>3, OwnedFound
  <2> HIDE DEF ip, next
  <2>5. RequestOK(Request(run.host, [ip |-> ip]))
    BY <2>3, <2>4, Moving, ChangeFound
  <2> QED
    BY <2>1, <2>5, CallWrites DEF Silently
<1>6. CASE DisableOrphan
  <2>1. PICK h \in run.orphans :
          Call(Request(h, [on |-> FALSE]), [run EXCEPT !.orphans = @ \ {h}])
    BY <1>6 DEF DisableOrphan
  <2>2. h \in Managed(run.hosts)
    BY DEF IInv, SyncTypeOK, RunOK
  <2>3. RequestOK(Request(h, [on |-> FALSE]))
    BY <2>2, SwitchingOff, ChangeFound
  <2> QED
    BY <2>1, <2>3, CallWrites
<1> QED
  BY <1>1, <1>2, <1>3, <1>4, <1>5, <1>6 DEF Sync

LEMMA ManagedStep ==
  ASSUME IInv, [Next]_vars, edits' = edits, NEW h \in DOMAIN hosts, hosts'[h] # hosts[h]
  PROVE  /\ h \in Managed(hosts) /\ hosts'[h] # NoHost
         /\ hosts'[h].owner = hosts[h].owner /\ hosts'[h].group = hosts[h].group
<1>1. CASE Writes
  <2>1. PICK r : RequestOK(r) /\ Accepted(r) /\ hosts' = Executed(r)
    BY <1>1 DEF Writes
  <2>2. CASE CreateOK(r)
    BY <2>1, <2>2, Creating DEF IInv
  <2>3. CASE ChangeOK(r)
    <3>1. /\ r.host \in Managed(hosts) /\ h = r.host
          /\ hosts'[h] = Overwritten(hosts[h], r.set)
      BY <2>1, <2>3, Changing DEF IInv
    <3>2. hosts[h] \in Host /\ UpdateOK(r.set)
      BY <2>3, <3>1, Typing DEF IInv, Managed, ChangeOK
    <3> QED
      BY <3>1, <3>2, Overwriting, HostAssumption
  <2> QED
    BY <2>1, <2>2, <2>3 DEF RequestOK
<1>2. hosts' = hosts \/ Writes
  <2>1. CASE Sync
    BY <2>1, SyncWrites
  <2>2. CASE Interrupt
    BY <2>2 DEF Interrupt
  <2>3. CASE LateRequest
    BY <2>3 DEF LateRequest, IInv, LateInv, Writes
  <2>4. CASE \E o \in Objects : EditObject(o)
    BY <2>4 DEF EditObject
  <2>5. CASE \E g \in Live(hosts) : EditHost(g)
    BY <2>5, EditHostStep
  <2>6. CASE UNCHANGED vars
    BY <2>6 DEF vars
  <2> QED
    BY <2>1, <2>2, <2>3, <2>4, <2>5, <2>6 DEF Next
<1> QED
  BY <1>1, <1>2

-----------------------------------------------------------------------------
(* A second run is silent                                                   *)

(* Objects whose turn is yet to come, and hosts no step has written to.     *)
Waiting(o) == o \in run.todo /\ ~ (run.step # "choose" /\ run.object = o)
Untouched(h) == Waiting(run.hosts[h].owner) \/ h \in run.orphans

(* An undisturbed run's rows are the objects, but for what it has stored.   *)
RowsAccount ==
  /\ DOMAIN run.rows = Selected
  /\ \A o \in DOMAIN run.rows :
       /\ run.rows[o].group # NoGroup /\ run.rows[o].ip = nb[o].ip
       /\ \A h \in Owned(run.hosts, o) : run.hosts[h].group = run.rows[o].group
       /\ o \in run.todo => nb[o] = run.rows[o]
  /\ run.orphans \subseteq Orphans(run.hosts, run.rows)

(* The hosts it has read are the hosts, but for those it has written to.    *)
HostsAccount ==
  \A h \in Live(hosts) \intersect Live(run.hosts) :
    /\ hosts[h].group = run.hosts[h].group
    /\ Untouched(h) => hosts[h] = run.hosts[h]

(* The object in hand has no other host.                                    *)
HandAccount ==
  /\ run.step # "choose" =>
       /\ run.object \in run.todo /\ run.rows[run.object].ip # NoAddress
       /\ Owned(hosts, run.object) \subseteq {run.host}
  /\ run.step = "interface" /\ run.host \in Live(hosts) =>
       hosts[run.host].ip = run.hosts[run.host].ip

Account ==
  run.quiet /\ run.pc = "write" => RowsAccount /\ HostsAccount /\ HandAccount

LEMMA RowsStay ==
  ASSUME RunOK(run), RowsAccount, Onward(run'), run'.todo \subseteq run.todo,
         run'.orphans \subseteq run.orphans, nb' = nb
  PROVE  RowsAccount'
<1>1. Selected' = Selected
  BY DEF Selected
<1> QED
  BY <1>1 DEF RowsAccount, Onward

LEMMA HostsStay ==
  ASSUME HostsAccount, run'.hosts = run.hosts,
         \A h \in Live(hosts') \intersect Live(run.hosts) :
           /\ h \in Live(hosts) /\ hosts'[h].group = hosts[h].group
           /\ Untouched(h)' => Untouched(h) /\ hosts'[h] = hosts[h]
  PROVE  HostsAccount'
BY DEF HostsAccount

(* A call after which the run goes on.                                      *)
LEMMA CallAnswered ==
  ASSUME NEW r, NEW next, Call(r, next), run'.quiet
  PROVE  Accepted(r) /\ hosts' = Executed(r) /\ run' = next /\ nb' = nb
<1>1. ~ NoRun.quiet
  BY DEF NoRun
<1> QED
  BY <1>1 DEF Call

LEMMA ChangedHost ==
  ASSUME IInv, NEW h \in Managed(run.hosts), NEW set, UpdateOK(set),
         Accepted(Request(h, set)), hosts' = Executed(Request(h, set))
  PROVE  /\ Live(hosts') = Live(hosts) /\ h \in Managed(hosts)
         /\ \A g \in Live(hosts) \ {h} : hosts'[g] = hosts[g]
         /\ hosts'[h].owner = hosts[h].owner /\ hosts'[h].group = hosts[h].group
         /\ "ip" \notin DOMAIN set => hosts'[h].ip = hosts[h].ip
         /\ \A o : Owned(hosts', o) = Owned(hosts, o)
<1> DEFINE r == Request(h, set)
<1>1. ChangeOK(r) /\ r.host = h /\ r.set = set
  BY ChangeFound
<1> HIDE DEF r
<1>2. /\ h \in Managed(hosts) /\ hosts' \in HostList /\ Len(hosts') = Len(hosts)
      /\ hosts'[h] = Overwritten(hosts[h], set)
      /\ \A g \in DOMAIN hosts \ {h} : hosts'[g] = hosts[g]
  BY <1>1, Changing DEF IInv, r
<1>3. hosts[h] \in Host /\ DOMAIN hosts' = DOMAIN hosts /\ h \in Live(hosts)
  BY <1>2, Typing DEF IInv, HostList, Managed
<1>4. /\ hosts'[h] # NoHost /\ hosts'[h].owner = hosts[h].owner
      /\ hosts'[h].group = hosts[h].group
      /\ "ip" \notin DOMAIN set => hosts'[h].ip = hosts[h].ip
  BY <1>2, <1>3, Overwriting, HostAssumption
<1>5. Live(hosts') = Live(hosts)
  BY <1>2, <1>3, <1>4 DEF Live
<1>6. \A g \in Live(hosts) : hosts'[g].owner = hosts[g].owner
  BY <1>2, <1>4 DEF Live
<1> QED
  BY <1>2, <1>4, <1>5, <1>6 DEF Owned, Live

(* The hosts of an object that waits are those the run has read.            *)
LEMMA OwnedRead ==
  ASSUME IInv, run.pc = "write", run.quiet, NEW o \in Objects, Waiting(o)
  PROVE  Owned(hosts, o) \subseteq Owned(run.hosts, o)
<1> SUFFICES ASSUME NEW h \in Owned(hosts, o)
             PROVE  h \in Owned(run.hosts, o)
  OBVIOUS
<1>1. h \in Live(hosts) /\ hosts[h].owner = o /\ Undisturbed(h)
  BY DEF Owned, IInv, QuietInv
<1>2. h \in Live(run.hosts)
  BY <1>1 DEF Undisturbed, Waiting
<1>3. run.hosts[h].owner = o
  BY <1>1, <1>2, Typing DEF IInv, ReadInv, Grows, Live
<1> QED
  BY <1>2, <1>3 DEF Owned

LEMMA OwnedOnce ==
  ASSUME IInv, NEW o \in Objects, NEW h \in Owned(run.hosts, o)
  PROVE  Owned(run.hosts, o) \subseteq {h}
BY OwnedFound DEF IInv, ReadInv, Single

(* A row whose turn has come: its host, if the run has read one, is as read.*)
LEMMA TurnAccount ==
  ASSUME IInv, Account, NEW o \in Objects, Turn(o), run.quiet
  PROVE  /\ RowsAccount /\ HostsAccount /\ Waiting(o) /\ o \in Selected
         /\ nb[o] = run.rows[o] /\ run.rows[o].group # NoGroup
         /\ Owned(hosts, o) \subseteq Owned(run.hosts, o)
         /\ \A h \in Owned(run.hosts, o) :
              /\ run.hosts[h].group # NoGroup
              /\ h \in Live(hosts) => hosts[h] = run.hosts[h]
<1>1. /\ run.pc = "write" /\ run.step = "choose" /\ o \in DOMAIN run.rows /\ o \in run.todo
  BY TurnStep
<1>2. RowsAccount /\ HostsAccount /\ Waiting(o)
  BY <1>1 DEF Account, Waiting
<1>3. Owned(hosts, o) \subseteq Owned(run.hosts, o)
  BY <1>1, <1>2, OwnedRead
<1>4. /\ o \in Selected /\ nb[o] = run.rows[o] /\ run.rows[o].group # NoGroup
      /\ \A h \in Owned(run.hosts, o) : run.hosts[h].group = run.rows[o].group
  BY <1>1, <1>2 DEF RowsAccount
<1>5. ASSUME NEW h \in Owned(run.hosts, o), h \in Live(hosts)
      PROVE  hosts[h] = run.hosts[h]
  <2>1. h \in Live(run.hosts) /\ run.hosts[h].owner = o
    BY DEF Owned
  <2> QED
    BY <1>2, <1>5, <2>1 DEF HostsAccount, Untouched
<1> QED
  BY <1>2, <1>3, <1>4, <1>5

(* An undisturbed run keeps account, and what it changes is not mirrored.   *)
Needed == Account' /\ (Mirrored => UNCHANGED <<nb, hosts>>)

LEMMA SkipAccount ==
  ASSUME IInv, Account, run.quiet, run'.quiet, NEW o \in Objects, SkipUnaddressed(o)
  PROVE  Needed
<1> DEFINE n == Done(o)
<1>1. /\ run.pc = "write" /\ run.step = "choose" /\ RunOK(run) /\ o \in DOMAIN run.rows
  BY TurnStep DEF SkipUnaddressed
<1>2. /\ Onward(n) /\ n.step = "choose" /\ n.todo = run.todo \ {o}
      /\ n.orphans = run.orphans
  BY <1>1, DoneRun
<1>3. /\ RowsAccount /\ HostsAccount /\ Waiting(o) /\ nb[o] = run.rows[o]
      /\ \A h \in Owned(run.hosts, o) : /\ run.hosts[h].group # NoGroup
                                        /\ h \in Live(hosts) => hosts[h] = run.hosts[h]
  BY TurnAccount DEF SkipUnaddressed
<1>4. \/ Silently(n)
      \/ \E h \in Owned(run.hosts, o) : /\ run.hosts[h].on
                                        /\ Call(Request(h, [on |-> FALSE]), n)
  BY DEF SkipUnaddressed
<1>5. run.rows[o].ip = NoAddress
  BY DEF SkipUnaddressed
<1> HIDE DEF n
<1>6. run' = n => HandAccount' /\ \A p : Waiting(p)' => Waiting(p) /\ p # o
  BY <1>1, <1>2 DEF HandAccount, Waiting
<1>7. run' = n => \A h : Untouched(h)' => Untouched(h)
  BY <1>2, <1>6 DEF Untouched, Onward
<1>8. CASE Silently(n)
  <2>1. run' = n /\ UNCHANGED <<nb, hosts>>
    BY <1>8 DEF Silently
  <2>2. RowsAccount'
    BY <1>1, <1>2, <1>3, <2>1, RowsStay
  <2>3. HostsAccount'
    BY <1>2, <1>3, <1>7, <2>1, HostsStay DEF Onward
  <2> QED
    BY <1>6, <2>1, <2>2, <2>3 DEF Account, Needed
<1>9. ASSUME NEW h \in Owned(run.hosts, o), run.hosts[h].on,
             Call(Request(h, [on |-> FALSE]), n)
      PROVE  Needed
  <2> DEFINE set == [on |-> FALSE]
  <2>1. UpdateOK(set)
    BY SwitchingOff
  <2> HIDE DEF set
  <2>2. Accepted(Request(h, set)) /\ hosts' = Executed(Request(h, set)) /\ run' = n /\ nb' = nb
    BY <1>9, CallAnswered DEF set
  <2>3. h \in Managed(run.hosts) /\ run.hosts[h].owner = o
    BY OwnedFound
  <2>4. /\ Live(hosts') = Live(hosts) /\ h \in Managed(hosts)
        /\ \A g \in Live(hosts) \ {h} : hosts'[g] = hosts[g]
        /\ hosts'[h].group = hosts[h].group
    BY <2>1, <2>2, <2>3, ChangedHost
  <2>5. RowsAccount'
    BY <1>1, <1>2, <1>3, <2>2, RowsStay
  <2>6. ~ Untouched(h)'
    <3>1. o \in DOMAIN run.rows
      BY <1>1
    <3>2. h \notin run.orphans
      BY <1>3, <2>3, <3>1 DEF RowsAccount, Orphans
    <3> QED
      BY <1>2, <1>6, <2>2, <2>3, <3>2 DEF Untouched, Onward
  <2>7. HostsAccount'
    BY <1>2, <1>3, <1>7, <2>2, <2>4, <2>6, HostsStay DEF Onward
  <2>8. ~ Mirrored
    <3>1. hosts[h].on /\ hosts[h].group # NoGroup /\ hosts[h].owner = o
      BY <1>3, <1>9, <2>3, <2>4 DEF Managed
    <3> QED
      BY <1>3, <1>5, <2>4, <3>1 DEF Mirrored
  <2> QED
    BY <1>6, <2>2, <2>5, <2>7, <2>8 DEF Account, Needed
<1> QED
  BY <1>4, <1>8, <1>9

LEMMA CreateAccount ==
  ASSUME IInv, Account, run.quiet, run'.quiet, NEW o \in Objects, CreateHost(o)
  PROVE  Needed
<1> DEFINE row == run.rows[o]  r == Request(0, Mirror(o, row))  new == Len(hosts) + 1
           n == At("store", o, new)
<1>1. /\ run.pc = "write" /\ run.step = "choose" /\ RunOK(run) /\ row \in Row
      /\ o \in run.todo
  BY TurnStep DEF CreateHost
<1>2. Owned(run.hosts, o) = {} /\ Call(r, n) /\ row.ip # NoAddress
  BY DEF CreateHost
<1>3. Len(hosts) \in Nat /\ DOMAIN hosts = 1..Len(hosts)
  BY Typing DEF IInv
<1>4. /\ Onward(n) /\ n.step = "store" /\ n.object = o /\ n.host = new
      /\ n.todo = run.todo /\ n.orphans = run.orphans
  BY <1>1, <1>3, AtRun
<1>5. r.host = 0 /\ r.set \in Host /\ CreateOK(r)
  BY <1>1, Mirroring DEF Request, CreateOK
<1>6. /\ RowsAccount /\ HostsAccount /\ nb[o] = row /\ o \in Selected
      /\ Owned(hosts, o) = {}
  BY <1>2, TurnAccount DEF CreateHost
<1> HIDE DEF n, r
<1>7. hosts' = Executed(r) /\ run' = n /\ nb' = nb
  BY <1>2, CallAnswered
<1>8. /\ hosts' \in HostList /\ Len(hosts') = new
      /\ \A h \in DOMAIN hosts : hosts'[h] = hosts[h]
  BY <1>5, <1>7, Creating DEF IInv
<1>9. DOMAIN hosts' = 1..new
  BY <1>8 DEF HostList
<1>10. \A h \in Live(hosts') : h # new => h \in Live(hosts) /\ hosts'[h] = hosts[h]
  BY <1>3, <1>8, <1>9 DEF Live
<1>11. new \notin Live(run.hosts)
  BY <1>3, Typing DEF IInv, ReadInv, Grows, Live
<1>12. RowsAccount'
  BY <1>1, <1>4, <1>6, <1>7, RowsStay
<1>13. \A h : Untouched(h)' => Untouched(h)
  BY <1>1, <1>4, <1>7 DEF Untouched, Waiting, Onward
<1>14. HostsAccount'
  BY <1>4, <1>6, <1>7, <1>10, <1>11, <1>13, HostsStay DEF Onward
<1>15. HandAccount'
  <2>1. Owned(hosts', o) \subseteq {new}
    BY <1>6, <1>10 DEF Owned
  <2> QED
    BY <1>1, <1>2, <1>4, <1>7, <2>1 DEF HandAccount, Onward
<1>16. ~ Mirrored
  BY <1>2, <1>6 DEF Mirrored
<1> QED
  BY <1>12, <1>14, <1>15, <1>16 DEF Account, Needed

(* An object that is mirrored has nothing to update.                        *)
LEMMA MirroredUpdate ==
  ASSUME NEW o \in Objects, NEW row \in Row, NEW h \in Host,
         h = [Mirror(o, row) EXCEPT !.local = h.local]
  PROVE  DOMAIN Update(o, row, h) = {}
<1>1. /\ h.host = Mirror(o, row).host /\ h.name = Mirror(o, row).name
      /\ h.on = Mirror(o, row).on /\ h.active = Mirror(o, row).active
  BY DEF Mirror
<1> QED
  BY <1>1 DEF Update

LEMMA UpdateAccount ==
  ASSUME IInv, Account, run.quiet, run'.quiet, NEW o \in Objects, UpdateHost(o)
  PROVE  Needed
<1>1. PICK h \in Owned(run.hosts, o) :
        LET set == Update(o, run.rows[o], run.hosts[h])
        IN  IF DOMAIN set = {} THEN Silently(At("interface", o, h))
                               ELSE Call(Request(h, set), At("interface", o, h))
  BY DEF UpdateHost
<1> DEFINE row == run.rows[o]  set == Update(o, row, run.hosts[h])
           n == At("interface", o, h)
<1>2. /\ run.pc = "write" /\ run.step = "choose" /\ RunOK(run) /\ row \in Row
      /\ o \in run.todo
  BY TurnStep DEF UpdateHost
<1>3. /\ h \in Managed(run.hosts) /\ run.hosts[h].owner = o /\ run.hosts[h] \in Host
      /\ h \in Live(run.hosts)
  BY OwnedFound DEF Managed
<1>4. UpdateOK(set) /\ "ip" \notin DOMAIN set
  BY <1>2, <1>3, Updating
<1>5. h \in Nat
  BY <1>3, Typing DEF IInv
<1>6. /\ Onward(n) /\ n.step = "interface" /\ n.object = o /\ n.host = h
      /\ n.todo = run.todo /\ n.orphans = run.orphans
  BY <1>2, <1>5, AtRun
<1>7. /\ RowsAccount /\ HostsAccount /\ Waiting(o) /\ nb[o] = row /\ o \in Selected
      /\ Owned(hosts, o) \subseteq {h}
      /\ h \in Live(hosts) => hosts[h] = run.hosts[h]
  BY TurnAccount, OwnedOnce DEF UpdateHost
<1>8. row.ip # NoAddress
  BY DEF UpdateHost
<1>9. Mirrored => DOMAIN set = {}
  <2> SUFFICES ASSUME Mirrored
               PROVE  DOMAIN set = {}
    OBVIOUS
  <2>1. PICK g \in Owned(hosts, o) :
          hosts[g] = [Mirror(o, nb[o]) EXCEPT !.local = hosts[g].local]
    BY <1>7, <1>8 DEF Mirrored
  <2>2. g = h /\ g \in Live(hosts)
    BY <1>7, <2>1 DEF Owned
  <2>3. run.hosts[h] = [Mirror(o, row) EXCEPT !.local = run.hosts[h].local]
    BY <1>7, <2>1, <2>2
  <2> QED
    BY <1>2, <1>3, <2>3, MirroredUpdate
<1>10. (DOMAIN set = {} /\ Silently(n)) \/ (DOMAIN set # {} /\ Call(Request(h, set), n))
  BY <1>1
<1> HIDE DEF n, set
<1>11. run' = n => \A g : Untouched(g)' => Untouched(g) /\ g # h
  <2>1. h \notin run.orphans
    BY <1>2, <1>3, <1>7 DEF RowsAccount, Orphans, TurnStep, RunOK
  <2> QED
    BY <1>2, <1>3, <1>6, <2>1 DEF Untouched, Waiting, Onward
<1>12. CASE DOMAIN set = {} /\ Silently(n)
  <2>1. run' = n /\ UNCHANGED <<nb, hosts>>
    BY <1>12 DEF Silently
  <2>2. RowsAccount'
    BY <1>2, <1>6, <1>7, <2>1, RowsStay
  <2>3. HostsAccount'
    BY <1>6, <1>7, <1>11, <2>1, HostsStay DEF Onward
  <2>4. HandAccount'
    BY <1>2, <1>6, <1>7, <1>8, <2>1 DEF HandAccount, Onward
  <2> QED
    BY <2>1, <2>2, <2>3, <2>4 DEF Account, Needed
<1>13. CASE DOMAIN set # {} /\ Call(Request(h, set), n)
  <2>1. Accepted(Request(h, set)) /\ hosts' = Executed(Request(h, set)) /\ run' = n /\ nb' = nb
    BY <1>13, CallAnswered
  <2>2. /\ Live(hosts') = Live(hosts) /\ h \in Live(hosts)
        /\ \A g \in Live(hosts) \ {h} : hosts'[g] = hosts[g]
        /\ hosts'[h].group = hosts[h].group /\ hosts'[h].ip = hosts[h].ip
        /\ Owned(hosts', o) = Owned(hosts, o)
    BY <1>3, <1>4, <2>1, ChangedHost DEF Managed
  <2>3. RowsAccount'
    BY <1>2, <1>6, <1>7, <2>1, RowsStay
  <2>4. HostsAccount'
    BY <1>6, <1>7, <1>11, <2>1, <2>2, HostsStay DEF Onward
  <2>5. HandAccount'
    BY <1>2, <1>6, <1>7, <1>8, <2>1, <2>2 DEF HandAccount, Onward
  <2> QED
    BY <1>9, <1>13, <2>3, <2>4, <2>5 DEF Account, Needed
<1> QED
  BY <1>10, <1>12, <1>13

LEMMA InterfaceAccount ==
  ASSUME IInv, Account, run.quiet, run'.quiet, UpdateInterface
  PROVE  Needed
<1> DEFINE o == run.object  h == run.host  ip == run.rows[o].ip
           n == At("store", o, h)
<1>1. /\ run.pc = "write" /\ run.step = "interface" /\ RunOK(run)
      /\ o \in DOMAIN run.rows /\ h \in Owned(run.hosts, o)
  BY DEF UpdateInterface, Writing, IInv, WriteInv, InHand, SyncTypeOK
<1>2. o \in Objects /\ run.rows[o] \in Row /\ h \in Nat
  BY <1>1 DEF RunOK
<1>3. h \in Managed(run.hosts) /\ run.hosts[h].owner = o /\ h \in Live(run.hosts)
  BY <1>1, <1>2, OwnedFound DEF Managed
<1>4. /\ Onward(n) /\ n.step = "store" /\ n.object = o /\ n.host = h /\ n.todo = run.todo
      /\ n.orphans = run.orphans
  BY <1>1, <1>2, AtRun
<1>5. \/ Silently(n)
      \/ run.hosts[h].ip # ip /\ Call(Request(h, [ip |-> ip]), n)
  BY DEF UpdateInterface
<1>6. ip \in Addresses \union {NoAddress}
  BY <1>2 DEF Row
<1>7. RowsAccount /\ HostsAccount /\ HandAccount
  BY <1>1 DEF Account
<1>8. /\ o \in run.todo /\ ip # NoAddress /\ Owned(hosts, o) \subseteq {h}
      /\ h \in Live(hosts) => hosts[h].ip = run.hosts[h].ip
  BY <1>1, <1>7 DEF HandAccount
<1>9. nb[o] = run.rows[o] /\ o \in Selected
  BY <1>1, <1>7, <1>8 DEF RowsAccount
<1> DEFINE set == [ip |-> ip]
<1>10. UpdateOK(set)
  BY <1>6, Moving
<1> HIDE DEF n, set
<1>11. run' = n => \A g : Untouched(g)' => Untouched(g) /\ g # h
  <2>1. h \notin run.orphans
    BY <1>1, <1>3, <1>7 DEF RowsAccount, Orphans
  <2> QED
    BY <1>1, <1>3, <1>4, <2>1 DEF Untouched, Waiting, Onward
<1>12. CASE Silently(n)
  <2>1. run' = n /\ UNCHANGED <<nb, hosts>>
    BY <1>12 DEF Silently
  <2>2. RowsAccount'
    BY <1>1, <1>4, <1>7, <2>1, RowsStay
  <2>3. HostsAccount'
    BY <1>4, <1>7, <1>11, <2>1, HostsStay DEF Onward
  <2>4. HandAccount'
    BY <1>4, <1>8, <2>1 DEF HandAccount, Onward
  <2> QED
    BY <2>1, <2>2, <2>3, <2>4 DEF Account, Needed
<1>13. CASE run.hosts[h].ip # ip /\ Call(Request(h, set), n)
  <2>1. Accepted(Request(h, set)) /\ hosts' = Executed(Request(h, set)) /\ run' = n /\ nb' = nb
    BY <1>13, CallAnswered
  <2>2. /\ Live(hosts') = Live(hosts) /\ h \in Live(hosts)
        /\ \A g \in Live(hosts) \ {h} : hosts'[g] = hosts[g]
        /\ hosts'[h].group = hosts[h].group /\ Owned(hosts', o) = Owned(hosts, o)
    BY <1>3, <1>10, <2>1, ChangedHost DEF Managed
  <2>3. RowsAccount'
    BY <1>1, <1>4, <1>7, <2>1, RowsStay
  <2>4. HostsAccount'
    BY <1>4, <1>7, <1>11, <2>1, <2>2, HostsStay DEF Onward
  <2>5. HandAccount'
    BY <1>4, <1>8, <2>1, <2>2 DEF HandAccount, Onward
  <2>6. ~ Mirrored
    <3> SUFFICES ASSUME Mirrored
                 PROVE  FALSE
      OBVIOUS
    <3>1. PICK g \in Owned(hosts, o) :
            hosts[g] = [Mirror(o, nb[o]) EXCEPT !.local = hosts[g].local]
      BY <1>8, <1>9 DEF Mirrored
    <3>2. hosts[g].ip = ip /\ g = h
      BY <1>8, <1>9, <3>1 DEF Mirror
    <3> QED
      BY <1>8, <1>13, <2>2, <3>2
  <2> QED
    BY <2>3, <2>4, <2>5, <2>6 DEF Account, Needed
<1> QED
  BY <1>5, <1>12, <1>13 DEF set

LEMMA SetHostIdAccount ==
  ASSUME IInv, Account, run.quiet, run'.quiet, SetHostId
  PROVE  Needed
<1> DEFINE o == run.object  h == run.host
           row == Stored(nb[o], run.rows[o], h)
<1>1. /\ run.pc = "write" /\ run.step = "store" /\ RunOK(run) /\ o \in DOMAIN run.rows
  BY DEF SetHostId, Writing, IInv, WriteInv, InHand, SyncTypeOK
<1>2. o \in Objects /\ nb[o] \in Row /\ nb \in [Objects -> Row] /\ h \in Nat
  BY <1>1 DEF RunOK, IInv, SyncTypeOK
<1>3. nb' = [nb EXCEPT ![o] = row] /\ run' = Done(o) /\ hosts' = hosts
  BY DEF SetHostId
<1>4. /\ Onward(run') /\ run'.step = "choose" /\ run'.todo = run.todo \ {o}
      /\ run'.orphans = run.orphans
  BY <1>1, <1>2, <1>3, DoneRun
<1>5. RowsAccount /\ HostsAccount /\ HandAccount
  BY <1>1 DEF Account
<1>6. /\ nb[o] = run.rows[o] /\ run.rows[o].ip # NoAddress /\ o \in Selected
      /\ Owned(hosts, o) \subseteq {h}
  BY <1>1, <1>5 DEF HandAccount, RowsAccount
<1>7. /\ row.selected = nb[o].selected /\ row.ip = nb[o].ip
      /\ run.rows[o].stored = h => row = nb[o]
  BY <1>2 DEF Stored, Row
<1> HIDE DEF row
<1>8. nb'[o] = row /\ \A p \in Objects \ {o} : nb'[p] = nb[p]
  BY <1>2, <1>3
<1>9. Selected' = Selected
  BY <1>7, <1>8 DEF Selected
<1>10. RowsAccount'
  <2>1. DOMAIN run'.rows = Selected'
    BY <1>4, <1>5, <1>9 DEF RowsAccount, Onward
  <2>2. DOMAIN run.rows \subseteq Objects
    BY <1>1 DEF RunOK
  <2>3. ASSUME NEW p \in DOMAIN run'.rows
        PROVE  /\ run'.rows[p].group # NoGroup /\ run'.rows[p].ip = nb'[p].ip
               /\ \A g \in Owned(run'.hosts, p) : run'.hosts[g].group = run'.rows[p].group
               /\ p \in run'.todo => nb'[p] = run'.rows[p]
    <3>1. /\ p \in DOMAIN run.rows /\ p \in Objects
          /\ run'.rows = run.rows /\ run'.hosts = run.hosts
      BY <1>4, <2>2 DEF Onward
    <3>2. nb'[p].ip = nb[p].ip /\ (p # o => nb'[p] = nb[p])
      BY <1>7, <1>8, <3>1
    <3> QED
      BY <1>4, <1>5, <3>1, <3>2 DEF RowsAccount
  <2>4. run'.orphans \subseteq Orphans(run'.hosts, run'.rows)
    BY <1>4, <1>5 DEF RowsAccount, Onward
  <2> QED
    BY <2>1, <2>3, <2>4 DEF RowsAccount
<1>11. \A g : Untouched(g)' => Untouched(g)
  BY <1>1, <1>4 DEF Untouched, Waiting, Onward
<1>12. HostsAccount'
  BY <1>3, <1>4, <1>5, <1>11, HostsStay DEF Onward
<1>13. HandAccount'
  BY <1>4 DEF HandAccount
<1>14. Mirrored => nb' = nb
  <2> SUFFICES ASSUME Mirrored
               PROVE  nb' = nb
    OBVIOUS
  <2>1. PICK g \in Owned(hosts, o) : nb[o].stored = g
    BY <1>6 DEF Mirrored
  <2>2. row = nb[o]
    BY <1>6, <1>7, <2>1
  <2> QED
    BY <1>2, <1>3, <2>2
<1> QED
  BY <1>3, <1>10, <1>12, <1>13, <1>14 DEF Account, Needed

LEMMA OrphanAccount ==
  ASSUME IInv, Account, run.quiet, run'.quiet, DisableOrphan
  PROVE  Needed
<1>1. /\ run.pc = "write" /\ run.step = "choose" /\ RunOK(run) /\ run.todo = {}
  BY DEF DisableOrphan, Writing, IInv, SyncTypeOK
<1>2. PICK h \in run.orphans :
        Call(Request(h, [on |-> FALSE]), [run EXCEPT !.orphans = @ \ {h}])
  BY DEF DisableOrphan
<1> DEFINE n == [run EXCEPT !.orphans = @ \ {h}]  set == [on |-> FALSE]
<1>3. /\ Onward(n) /\ n.step = "choose" /\ n.todo = run.todo
      /\ n.orphans = run.orphans \ {h} /\ h \in Managed(run.hosts)
  BY <1>1 DEF Onward, RunOK, RunFields
<1>4. UpdateOK(set)
  BY SwitchingOff
<1>5. Call(Request(h, set), n)
  BY <1>2
<1> HIDE DEF n, set
<1>6. Accepted(Request(h, set)) /\ hosts' = Executed(Request(h, set)) /\ run' = n /\ nb' = nb
  BY <1>5, CallAnswered
<1>7. /\ Live(hosts') = Live(hosts) /\ h \in Managed(hosts)
      /\ \A g \in Live(hosts) \ {h} : hosts'[g] = hosts[g]
      /\ hosts'[h].group = hosts[h].group
  BY <1>3, <1>4, <1>6, ChangedHost
<1>8. RowsAccount /\ HostsAccount
  BY <1>1 DEF Account
<1>9. RowsAccount'
  BY <1>1, <1>3, <1>6, <1>8, RowsStay
<1>10. \A g : Untouched(g)' => Untouched(g) /\ g # h
  BY <1>1, <1>3, <1>6 DEF Untouched, Waiting, Onward
<1>11. HostsAccount'
  BY <1>3, <1>6, <1>7, <1>8, <1>10, HostsStay DEF Onward
<1>12. HandAccount'
  BY <1>3, <1>6 DEF HandAccount
<1>13. ~ Mirrored
  <2>1. /\ h \in Live(run.hosts) /\ run.hosts[h].owner \notin DOMAIN run.rows
        /\ run.hosts[h].on /\ run.hosts[h].group # NoGroup
    BY <1>8 DEF RowsAccount, Orphans, Managed
  <2>2. hosts[h] = run.hosts[h]
    BY <1>7, <1>8, <2>1 DEF HostsAccount, Untouched, Managed
  <2> QED
    BY <1>7, <1>8, <2>1, <2>2 DEF Mirrored, RowsAccount
<1> QED
  BY <1>9, <1>11, <1>12, <1>13 DEF Account, Needed

LEMMA ReadAccount ==
  ASSUME IInv, Account, run.quiet, run'.quiet, ReadObjects
  PROVE  Needed
<1> DEFINE rows == [o \in Selected |-> nb[o]]
           n == [run EXCEPT !.pc = "write", !.rows = rows, !.todo = Selected,
                            !.orphans = Orphans(run.hosts, rows)]
<1>1. /\ run.pc = "read" /\ RunOK(run) /\ UNCHANGED <<nb, hosts>>
      /\ run' = IF Refused(run.hosts, rows) THEN NoRun ELSE n
  BY DEF ReadObjects, Silently, IInv, SyncTypeOK
<1>2. ~ NoRun.quiet
  BY DEF NoRun
<1>3. ~ Refused(run.hosts, rows) /\ run' = n
  BY <1>1, <1>2
<1>4. DOMAIN rows = Selected /\ \A o \in Selected : rows[o] = nb[o]
  OBVIOUS
<1> HIDE DEF rows
<1>5. /\ run'.rows = rows /\ run'.hosts = run.hosts
      /\ run'.orphans = Orphans(run.hosts, rows) /\ run'.step = "choose"
  BY <1>1, <1>3 DEF RunOK, RunFields
<1>6. Selected' = Selected
  BY <1>1 DEF Selected
<1>7. RowsAccount'
  <2>1. \A o \in DOMAIN rows :
          /\ rows[o].group # NoGroup
          /\ \A h \in Owned(run.hosts, o) : run.hosts[h].group = rows[o].group
    BY <1>3 DEF Refused
  <2> QED
    BY <1>1, <1>4, <1>5, <1>6, <2>1 DEF RowsAccount
<1>8. HostsAccount'
  BY <1>1, <1>5 DEF HostsAccount, IInv, QuietInv
<1>9. HandAccount'
  BY <1>5 DEF HandAccount
<1> QED
  BY <1>1, <1>7, <1>8, <1>9 DEF Account, Needed

(* No run becomes quiet again.                                              *)
LEMMA QuietBefore ==
  ASSUME IInv, run'.quiet,
         \/ ReadObjects \/ UpdateInterface \/ SetHostId \/ DisableOrphan
         \/ \E o \in Objects : SkipUnaddressed(o) \/ CreateHost(o) \/ UpdateHost(o)
  PROVE  run.quiet
<1>1. NoRun.quiet = FALSE
  BY DEF NoRun
<1>2. DOMAIN run = RunFields
  BY DEF IInv, SyncTypeOK, RunOK
<1>3. \A s, o, h : Done(o).quiet = run.quiet /\ At(s, o, h).quiet = run.quiet
  BY <1>2 DEF Done, At, RunFields
<1>4. \A r, next : Call(r, next) \/ Silently(next) => run' = next
  BY <1>1 DEF Call, Silently
<1>5. CASE ReadObjects
  BY <1>1, <1>2, <1>4, <1>5 DEF ReadObjects, RunFields
<1>6. CASE UpdateInterface
  BY <1>3, <1>4, <1>6 DEF UpdateInterface
<1>7. CASE SetHostId
  BY <1>3, <1>7 DEF SetHostId
<1>8. CASE DisableOrphan
  BY <1>2, <1>4, <1>8 DEF DisableOrphan, RunFields
<1>9. ASSUME NEW o \in Objects, SkipUnaddressed(o) \/ CreateHost(o) \/ UpdateHost(o)
      PROVE  run.quiet
  <2>1. CASE SkipUnaddressed(o)
    BY <1>3, <1>4, <2>1 DEF SkipUnaddressed
  <2>2. CASE CreateHost(o)
    BY <1>3, <1>4, <2>2 DEF CreateHost
  <2>3. CASE UpdateHost(o)
    BY <1>3, <1>4, <2>3 DEF UpdateHost
  <2> QED
    BY <1>9, <2>1, <2>2, <2>3
<1> QED
  BY <1>5, <1>6, <1>7, <1>8, <1>9

LEMMA NeededStep ==
  ASSUME IInv, Account, [Next]_vars
  PROVE  Account' /\ (run.quiet /\ run'.quiet /\ Mirrored => UNCHANGED <<nb, hosts>>)
<1>1. NoRun.quiet = FALSE /\ NoRun.pc = "idle"
  BY DEF NoRun
<1>2. CASE run'.quiet # TRUE
  BY <1>2 DEF Account, IInv, SyncTypeOK, RunOK
<1>3. CASE run'.quiet = TRUE
  <2>1. CASE ReadHosts
    <3>1. UNCHANGED <<nb, hosts>> /\ run'.pc # "write"
      BY <2>1, <1>1 DEF ReadHosts, NoRun
    <3> QED
      BY <3>1 DEF Account
  <2>2. CASE /\ ~ ReadHosts
             /\ \/ Finish \/ Interrupt \/ LateRequest
                \/ \E o \in Objects : EditObject(o)
                \/ \E h \in Live(hosts) : EditHost(h)
    <3>1. run' = NoRun \/ run' = Disturbed
      BY <2>2 DEF Finish, Silently, Interrupt, LateRequest, EditObject, EditHost, Edit
    <3> QED
      BY <1>1, <1>3, <3>1, DisturbedRun
  <2>3. CASE UNCHANGED vars
    <3>1. UNCHANGED <<nb, hosts, run>>
      BY <2>3 DEF vars
    <3>2. (RowsAccount <=> RowsAccount') /\ (HostsAccount <=> HostsAccount')
          /\ (HandAccount <=> HandAccount')
      BY <3>1 DEF RowsAccount, Selected, HostsAccount, Untouched, Waiting, HandAccount
    <3> QED
      BY <3>1, <3>2 DEF Account
  <2>4. CASE \/ ReadObjects \/ UpdateInterface \/ SetHostId \/ DisableOrphan
             \/ \E o \in Objects : SkipUnaddressed(o) \/ CreateHost(o) \/ UpdateHost(o)
    <3>1. run.quiet
      BY <1>3, <2>4, QuietBefore
    <3> QED
      BY <1>3, <2>4, <3>1, ReadAccount, InterfaceAccount, SetHostIdAccount, OrphanAccount,
         SkipAccount, CreateAccount, UpdateAccount DEF Needed
  <2> QED
    BY <2>1, <2>2, <2>3, <2>4 DEF Next, Sync
<1> QED
  BY <1>2, <1>3, DisturbedRun DEF IInv, SyncTypeOK, RunOK

LEMMA AccountKept == Spec => []Account
<1>1. Init => Account
  BY DEF Init, Account, NoRun
<1>2. IInv /\ Account /\ [Next]_vars => Account'
  BY NeededStep
<1> QED
  BY <1>1, <1>2, SyncInvariance, PTL DEF Spec

(* A run that nobody disturbs writes only while Zabbix or the ids stored in *)
(* NetBox are not yet what NetBox says: a second run makes no changes.      *)
THEOREM SecondRunAlwaysSilent == Spec => SecondRunIsSilent
<1>1. IInv /\ Account /\ [Next]_vars =>
        [run.quiet /\ run'.quiet /\ <<nb, hosts>>' # <<nb, hosts>> => ~ Mirrored]_vars
  BY NeededStep
<1> QED
  BY <1>1, AccountKept, SyncInvariance, PTL DEF Spec, SecondRunIsSilent

-----------------------------------------------------------------------------
(* Nothing is touched that is not managed                                   *)

(* A call changes the host it is about.                                     *)
LEMMA CallChanges ==
  ASSUME IInv, NEW g \in Managed(run.hosts), NEW set, UpdateOK(set), NEW next,
         Call(Request(g, set), next), run'.quiet,
         NEW h \in DOMAIN hosts, hosts'[h] # hosts[h]
  PROVE  h = g /\ h \in Live(hosts)
<1> DEFINE r == Request(g, set)
<1>1. ChangeOK(r) /\ r.host = g
  BY ChangeFound
<1>2. Accepted(r) /\ hosts' = Executed(r)
  BY CallAnswered
<1> HIDE DEF r
<1>3. /\ g \in Managed(hosts)
      /\ \A q \in DOMAIN hosts \ {g} : hosts'[q] = hosts[q]
  BY <1>1, <1>2, Changing DEF IInv
<1> QED
  BY <1>3 DEF Managed

(* A host that an undisturbed run writes to was in scope when it was read,  *)
(* and nobody has regrouped it since.                                       *)
LEMMA InScope ==
  ASSUME IInv, Account, run.quiet, run.pc = "write", NEW h \in Live(hosts),
         \/ h \in run.orphans
         \/ \E o \in DOMAIN run.rows : h \in Owned(run.hosts, o)
  PROVE  hosts[h].group # NoGroup
<1>1. RowsAccount /\ HostsAccount
  BY DEF Account
<1>2. h \in Live(run.hosts) /\ run.hosts[h].group # NoGroup
  <2>1. CASE h \in run.orphans
    BY <1>1, <2>1 DEF RowsAccount, Orphans, Managed
  <2>2. CASE \E o \in DOMAIN run.rows : h \in Owned(run.hosts, o)
    BY <1>1, <2>2 DEF RowsAccount, Owned
  <2> QED
    BY <2>1, <2>2
<1> QED
  BY <1>1, <1>2 DEF HostsAccount

LEMMA ScopeStep ==
  ASSUME IInv, Account, [Next]_vars, run.quiet, run'.quiet,
         NEW h \in DOMAIN hosts, hosts'[h] # hosts[h]
  PROVE  hosts[h].group # NoGroup
<1>1. NoRun.quiet = FALSE
  BY DEF NoRun
<1>2. ASSUME NEW o \in Objects, SkipUnaddressed(o)
      PROVE  hosts[h].group # NoGroup
  <2>1. run.pc = "write" /\ o \in DOMAIN run.rows
    BY <1>2, TurnStep DEF SkipUnaddressed
  <2>2. PICK g \in Owned(run.hosts, o) : Call(Request(g, [on |-> FALSE]), Done(o))
    BY <1>2 DEF SkipUnaddressed, Silently
  <2>3. g \in Managed(run.hosts)
    BY OwnedFound
  <2>4. h = g /\ h \in Live(hosts)
    BY <2>2, <2>3, SwitchingOff, CallChanges
  <2> QED
    BY <2>1, <2>4, InScope
<1>3. ASSUME NEW o \in Objects, CreateHost(o)
      PROVE  hosts' = hosts \/ hosts' = Append(hosts, Mirror(o, run.rows[o]))
  <2>1. Call(Request(0, Mirror(o, run.rows[o])), At("store", o, Len(hosts) + 1))
    BY <1>3 DEF CreateHost
  <2> QED
    BY <2>1, CallAnswered DEF Executed, Request
<1>4. ASSUME NEW o \in Objects, UpdateHost(o)
      PROVE  hosts[h].group # NoGroup
  <2>1. /\ run.pc = "write" /\ o \in DOMAIN run.rows /\ run.rows[o] \in Row
    BY <1>4, TurnStep DEF UpdateHost
  <2>2. PICK g \in Owned(run.hosts, o) :
          \/ Silently(At("interface", o, g))
          \/ Call(Request(g, Update(o, run.rows[o], run.hosts[g])), At("interface", o, g))
    BY <1>4 DEF UpdateHost
  <2> DEFINE set == Update(o, run.rows[o], run.hosts[g])
  <2>3. g \in Managed(run.hosts) /\ run.hosts[g] \in Host
    BY OwnedFound
  <2>4. UpdateOK(set)
    BY <2>1, <2>3, Updating
  <2>5. Call(Request(g, set), At("interface", o, g))
    BY <2>2 DEF Silently
  <2> HIDE DEF set
  <2>6. h = g /\ h \in Live(hosts)
    BY <2>3, <2>4, <2>5, CallChanges
  <2> QED
    BY <2>1, <2>6, InScope
<1>5. CASE UpdateInterface
  <2> DEFINE ip == run.rows[run.object].ip  next == At("store", run.object, run.host)
  <2>1. Call(Request(run.host, [ip |-> ip]), next)
    BY <1>5 DEF UpdateInterface, Silently
  <2>2. /\ run.pc = "write" /\ RunOK(run) /\ run.object \in DOMAIN run.rows
        /\ run.host \in Owned(run.hosts, run.object)
    BY <1>5 DEF UpdateInterface, Writing, IInv, WriteInv, InHand, SyncTypeOK
  <2>3. run.object \in Objects /\ ip \in Addresses \union {NoAddress}
    BY <2>2 DEF RunOK, Row
  <2>4. run.host \in Managed(run.hosts)
    BY <2>2, <2>3, OwnedFound
  <2> HIDE DEF ip, next
  <2>5. h = run.host /\ h \in Live(hosts)
    BY <2>1, <2>3, <2>4, Moving, CallChanges
  <2> QED
    BY <2>2, <2>5, InScope
<1>6. CASE DisableOrphan
  <2>1. PICK g \in run.orphans :
          Call(Request(g, [on |-> FALSE]), [run EXCEPT !.orphans = @ \ {g}])
    BY <1>6 DEF DisableOrphan
  <2>2. run.pc = "write" /\ g \in Managed(run.hosts)
    BY <1>6 DEF DisableOrphan, Writing, IInv, SyncTypeOK, RunOK
  <2>3. h = g /\ h \in Live(hosts)
    BY <2>1, <2>2, SwitchingOff, CallChanges
  <2> QED
    BY <2>1, <2>2, <2>3, InScope
<1>7. CASE \/ LateRequest \/ \E o \in Objects : EditObject(o)
           \/ \E g \in Live(hosts) : EditHost(g)
  <2>1. run' = Disturbed
    BY <1>7 DEF LateRequest, EditObject, EditHost, Edit
  <2> QED
    BY <2>1, DisturbedRun
<1>8. CASE ReadHosts \/ ReadObjects \/ SetHostId \/ Finish \/ Interrupt \/ UNCHANGED vars
  BY <1>8 DEF ReadHosts, ReadObjects, SetHostId, Finish, Interrupt, Silently, vars
<1>9. hosts' # hosts /\ \A x : hosts' # Append(hosts, x)
  <2>1. hosts \in Seq(Host \union {NoHost})
    BY DEF IInv, SyncTypeOK, HostList
  <2> QED
    BY <2>1
<1> QED
  BY <1>2, <1>3, <1>4, <1>5, <1>6, <1>7, <1>8, <1>9 DEF Next, Sync

(* Nobody but the people changes a host that is not managed, takes one      *)
(* over, regroups or deletes one: no step of the synchronisation and no     *)
(* request of its that arrives late.  As long as nobody disturbs the run,   *)
(* it does not write to a managed host outside the groups in scope either.  *)
THEOREM ChangesManagedOnly == Spec => ManagedOnly
<1>1. IInv /\ Account /\ [Next]_vars =>
        [edits' = edits =>
           \A h \in DOMAIN hosts : hosts'[h] # hosts[h] =>
             /\ h \in Managed(hosts) /\ hosts'[h] # NoHost
             /\ hosts'[h].owner = hosts[h].owner /\ hosts'[h].group = hosts[h].group
             /\ run.quiet /\ run'.quiet => hosts[h].group # NoGroup]_vars
  BY ManagedStep, ScopeStep
<1> QED
  BY <1>1, AccountKept, SyncInvariance, PTL DEF Spec, ManagedOnly
=============================================================================
