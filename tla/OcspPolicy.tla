----------------------------- MODULE OcspPolicy -----------------------------
(***************************************************************************)
(* The OCSP verifier of the UniFi collectors.  Several checks may be under *)
(* way at once on one state file: UnPoller starts a process for every      *)
(* connection, and kills it when it takes too long.  A check works under a *)
(* lock on that file, in three parts: what the file says (Acquire), what   *)
(* the responder says (Answered, Unanswered), and the saving, which is     *)
(* visible before it is durable (Replace, Sync).                           *)
(*                                                                         *)
(* The CA and its responder (revokedAt, Responses), the clocks and the     *)
(* disk are external.  A leaf certificate with its issuer is one key, an   *)
(* element of Certs; the responder may answer with whatever it has signed  *)
(* since the beginning.                                                    *)
(***************************************************************************)
EXTENDS Integers, FiniteSets

CONSTANTS
  Certs,         \* leaf certificates of the controller
  Checks,        \* the checks that may be under way at once
  MaxAge,        \* max_age_seconds
  Skew,          \* clock_skew_seconds
  Ttl,           \* cache_ttl_seconds
  Entries,       \* cache_entries
  JournalLimit,  \* how many revocations the state file holds (4096)
  Life,          \* nextUpdate - thisUpdate of what the responder signs
  CertEnds,      \* when the first of leaf, issuer and signer expires
  Offsets,       \* how far the local clock may be from the true one
  LastTick,      \* bound on the true time
  Flaws,         \* what may be wrong with a response
  Failures,      \* why there may be none
  Faults,        \* a subset of FaultKinds
  NoCheck, NoCert

FaultKinds == {"kill", "disk", "power", "metrics"}

ASSUME OcspAssumption ==
  /\ {MaxAge, Ttl, Entries, JournalLimit, Life} \subseteq Nat \ {0}
  /\ {Skew, LastTick} \subseteq Nat
  /\ CertEnds \in Int /\ Offsets \subseteq Int /\ 0 \in Offsets
  /\ Ttl <= MaxAge
  /\ Flaws \subseteq {"malformed", "identity", "responder", "signature", "unknown"}
  /\ Failures \subseteq {"timeout", "unavailable", "http", "tls", "malformed"}
  /\ Faults \subseteq FaultKinds
  /\ NoCheck \notin Checks /\ NoCert \notin Certs

VARIABLES
  time, offset,  \* the true time, and the local clock minus it
  revokedAt,     \* the CA: when it revoked a certificate
  visible,       \* the state file, as a process reads it
  disk,          \* the state file, as a power loss leaves it
  lock,          \* the check that holds the lock
  check,         \* the checks
  confirmed,     \* history: revocations reported by the check that saved them
  unlisted       \* history: revocations found with the journal full

diskVars == <<visible, disk>>
historyVars == <<confirmed, unlisted>>
ocspVars == <<time, offset, revokedAt, diskVars, lock, check, historyVars>>

Never == LastTick + 1
Now == time + offset

Accepting == {"good", "cache"}
Verdicts == Accepting \union Flaws \union Failures \union
  {"revoked", "identity", "time", "clock", "state", "timeout", "cache_expired",
   "internal", "killed", "none"}

(* A single response: the first flaw validate_response would find, if any   *)
(* (a matching CertID, an authorised responder and a signature otherwise).  *)
Response == [cert : Certs, status : {"good", "revoked"}, this : Int, produced : Int,
             next : Int, flaw : Flaws \union {"none"}]

Caches == UNION {[S -> [response : Response, deadline : Int]] : S \in SUBSET Certs}
File == [revoked : SUBSET Certs, cache : Caches, clock : Int]

EmptyFile == [revoked |-> {}, cache |-> <<>>, clock |-> 0]
NoFile == [revoked |-> {}, cache |-> <<>>, clock |-> -1]

(* pc: idle, lock, fetch, save, sync, record.  mem is `state' in memory,    *)
(* had whether there was a cached response.                                 *)
Idle == [pc |-> "idle", cert |-> NoCert, mem |-> NoFile, had |-> FALSE, verdict |-> "none"]

-----------------------------------------------------------------------------
(* Pure parts                                                               *)

Least(S) == CHOOSE x \in S : \A y \in S : x <= y

(* Faulty variant of Fresh: only nextUpdate limits the age.                 *)
FreshUntilNext(r, now) == now < r.next

Fresh(r, now) == /\ now < r.next
                 /\ now - r.produced <= MaxAge
                 /\ now - r.this <= MaxAge

(* The times of a response and of the certificates, checked at `now'.       *)
Timely(r, now) ==
  /\ now < CertEnds
  /\ r.produced <= now + Skew /\ r.this <= now + Skew
  /\ r.this < r.next
  /\ r.produced >= r.this - Skew /\ r.produced <= r.next + Skew
  /\ Fresh(r, now)

(* Faulty variant of Validate: the status is interpreted first.             *)
StatusFirst(r, c, now) ==
  IF r.status = "revoked" /\ r.cert = c THEN "revoked"
  ELSE IF r.flaw # "none" THEN r.flaw
  ELSE IF r.cert # c THEN "identity"
  ELSE IF ~Timely(r, now) THEN "time"
  ELSE r.status

(* validate_response: authentication, then the times, then the status.      *)
Validate(r, c, now) ==
  IF r.flaw # "none" THEN r.flaw
  ELSE IF r.cert # c THEN "identity"
  ELSE IF ~Timely(r, now) THEN "time"
  ELSE r.status

(* ... and the deadline it returns.                                         *)
Deadline(r) == Least({r.next, CertEnds, r.produced + MaxAge, r.this + MaxAge})

Restricted(f, S) == [k \in S |-> f[k]]

(* Faulty variant of MakeRoom: it evicts one too late.                      *)
MakeRoomLate(cache, now) ==
  LET live == {k \in DOMAIN cache : cache[k].deadline > now}
      oldest == CHOOSE k \in live : \A l \in live : cache[k].deadline <= cache[l].deadline
  IN Restricted(cache, IF Cardinality(live) > Entries THEN live \ {oldest} ELSE live)

(* The cache before an insertion: what has expired goes, and the entry      *)
(* nearest to its deadline when there is no room.                           *)
MakeRoom(cache, now) ==
  LET live == {k \in DOMAIN cache : cache[k].deadline > now}
      oldest == CHOOSE k \in live : \A l \in live : cache[k].deadline <= cache[l].deadline
  IN Restricted(cache, IF Cardinality(live) >= Entries THEN live \ {oldest} ELSE live)

Put(cache, c, entry) ==
  [k \in DOMAIN cache \union {c} |-> IF k = c THEN entry ELSE cache[k]]

Drop(file, c) == [file EXCEPT !.cache = Restricted(@, DOMAIN @ \ {c})]

(* What the responder may answer.                                           *)
Signed(c, t) == IF revokedAt[c] <= t THEN "revoked" ELSE "good"

Responses ==
  {[cert |-> c, status |-> Signed(c, t), this |-> t, produced |-> u,
    next |-> t + Life, flaw |-> "none"] : c \in Certs, t \in 0..time, u \in {time}}
  \union
  {[cert |-> c, status |-> Signed(c, t), this |-> t, produced |-> t,
    next |-> t + Life, flaw |-> "none"] : c \in Certs, t \in 0..time}
  \union
  {[cert |-> c, status |-> s, this |-> time, produced |-> time,
    next |-> time + Life, flaw |-> f] : c \in Certs, s \in {"good", "revoked"}, f \in Flaws}

-----------------------------------------------------------------------------
(* The checks                                                               *)

Init ==
  /\ time = 0 /\ offset \in Offsets
  /\ revokedAt = [c \in Certs |-> Never]
  /\ visible = EmptyFile /\ disk = EmptyFile
  /\ lock = NoCheck
  /\ check = [p \in Checks |-> Idle]
  /\ confirmed = {} /\ unlisted = {}

External == <<time, offset, revokedAt>>

(* The lock is left with a verdict that is still to be recorded.            *)
Decide(p, v) ==
  /\ check' = [check EXCEPT ![p].pc = "record", ![p].verdict = v, ![p].mem = NoFile]
  /\ lock' = NoCheck

(* The state is to be saved before the verdict counts.                      *)
SaveThen(p, file, v) ==
  /\ check' = [check EXCEPT ![p].pc = "save", ![p].verdict = v, ![p].mem = file]
  /\ UNCHANGED lock

(* check: a connection presents the certificate c.                          *)
Begin(p, c) ==
  /\ check[p].pc = "idle"
  /\ check' = [check EXCEPT ![p] = [Idle EXCEPT !.pc = "lock", !.cert = c]]
  /\ UNCHANGED <<External, diskVars, lock, historyVars>>

(* locked: given up after timeout_seconds.                                  *)
GiveUpLock(p) ==
  /\ check[p].pc = "lock" /\ lock # NoCheck
  /\ check' = [check EXCEPT ![p].pc = "record", ![p].verdict = "timeout"]
  /\ UNCHANGED <<External, diskVars, lock, historyVars>>

(* Faulty variant of LockFree: nobody waits.                                *)
NoLocking == TRUE

LockFree == lock = NoCheck

(* The lock is taken, the state read, and what it says decided: denials of  *)
(* unusable states, of revoked certificates and of a clock that went back,  *)
(* a cached response, or else the responder is to be asked.                 *)
Acquire(p) ==
  LET c == check[p].cert
      cached == c \in DOMAIN visible.cache
      young == cached /\ Now < visible.cache[c].deadline
      valid == young /\ Validate(visible.cache[c].response, c, Now) = "good"
      known == c \in visible.revoked
      back == Now < visible.clock
      usable == Cardinality(DOMAIN visible.cache) <= Entries
  IN
  /\ check[p].pc = "lock" /\ LockFree
  /\ \/ /\ ~usable \/ known
        /\ Decide(p, IF usable THEN "revoked" ELSE "state")
     \/ /\ usable /\ ~known
        /\ lock' = p
        /\ check' = [check EXCEPT
             ![p].pc = IF back \/ valid THEN "save" ELSE "fetch",
             ![p].had = cached,
             ![p].verdict = IF back THEN "clock" ELSE IF valid THEN "cache" ELSE "none",
             ![p].mem = IF back THEN [visible EXCEPT !.cache = <<>>]
                        ELSE IF valid THEN [visible EXCEPT !.clock = Now]
                        ELSE IF young THEN Drop(visible, c)
                        ELSE visible]
  /\ UNCHANGED <<External, diskVars, historyVars>>

(* fetch: no response.                                                      *)
Unanswered(p, failure) ==
  /\ check[p].pc = "fetch"
  /\ Decide(p, IF check[p].had /\ failure \in {"timeout", "unavailable", "http"}
               THEN "cache_expired" ELSE failure)
  /\ UNCHANGED <<External, diskVars, historyVars>>

(* The state after a response that says good: room, entry, clock.           *)
Learned(file, c, r, now) ==
  [file EXCEPT !.clock = now,
               !.cache = Put(MakeRoom(@, now), c,
                   [response |-> r, deadline |-> Least({Deadline(r), now + Ttl})])]

(* fetch, and validate_response at a fresh reading of the clock: a good     *)
(* status is cached, a revocation is recorded as long as there is room for  *)
(* it, anything else is a denial that leaves the state alone.               *)
Answered(p, r) ==
  LET c == check[p].cert
      file == check[p].mem
      v == Validate(r, c, Now)
      full == Cardinality(file.revoked) >= JournalLimit
  IN
  /\ check[p].pc = "fetch"
  /\ \/ /\ v = "good"
        /\ SaveThen(p, Learned(file, c, r, Now), "good")
        /\ UNCHANGED unlisted
     \/ /\ v = "revoked" /\ ~full
        /\ SaveThen(p, Drop([file EXCEPT !.revoked = @ \union {c}], c), "revoked")
        /\ UNCHANGED unlisted
     \/ /\ v = "revoked" /\ full
        /\ Decide(p, "state")
        /\ unlisted' = unlisted \union {c}
     \/ /\ v \notin {"good", "revoked"}
        /\ Decide(p, v)
        /\ UNCHANGED unlisted
  /\ UNCHANGED <<External, diskVars, confirmed>>

(* save: the temporary file is written, synced and put in place ...         *)
Replace(p) ==
  /\ check[p].pc = "save"
  /\ visible' = check[p].mem
  /\ check' = [check EXCEPT ![p].pc = "sync"]
  /\ UNCHANGED <<External, disk, lock, historyVars>>

(* Faulty variant of Synced: the directory is not synced.                   *)
NotSynced == disk

(* What is on the disk once the directory is synced.                        *)
Synced == visible

(* ... and the directory is synced; the lock is left.                       *)
Sync(p) ==
  /\ check[p].pc = "sync"
  /\ disk' = Synced
  /\ check' = [check EXCEPT ![p].pc = "record"]
  /\ lock' = NoCheck
  /\ UNCHANGED <<External, visible, historyVars>>

(* Faulty variant of Released: an exception keeps the lock.                 *)
Kept == lock

(* The lock after an exception.                                             *)
Released == NoCheck

(* An error of the disk in either part: an exception that is no Denied, so  *)
(* nothing is recorded and the answer is `internal'.                        *)
SaveFails(p) ==
  /\ "disk" \in Faults /\ check[p].pc \in {"save", "sync"}
  /\ check' = [check EXCEPT ![p] = Idle]
  /\ lock' = Released
  /\ UNCHANGED <<External, diskVars, historyVars>>

(* record, and the answer.  An acknowledged revocation is in the journal if *)
(* this check has put it there.                                             *)
Record(p) ==
  LET c == check[p].cert  v == check[p].verdict IN
  /\ check[p].pc = "record"
  /\ confirmed' = IF v = "revoked" /\ check[p].mem # NoFile
                  THEN confirmed \union {c} ELSE confirmed
  /\ check' = [check EXCEPT ![p] = Idle]
  /\ UNCHANGED <<External, diskVars, lock, unlisted>>

(* The metrics cannot be written: whatever the verdict, the answer is no.   *)
RecordFails(p) ==
  /\ "metrics" \in Faults /\ check[p].pc = "record"
  /\ check' = [check EXCEPT ![p] = Idle]
  /\ UNCHANGED <<External, diskVars, lock, historyVars>>

(* The process is killed; the kernel drops its lock.                        *)
Kill(p) ==
  /\ "kill" \in Faults /\ check[p].pc # "idle"
  /\ check' = [check EXCEPT ![p] = Idle]
  /\ lock' = IF lock = p THEN NoCheck ELSE lock
  /\ UNCHANGED <<External, diskVars, historyVars>>

(* The power fails: every process is gone, and the state file is the synced *)
(* one, or the visible one if the kernel had written it back.               *)
PowerLoss ==
  /\ "power" \in Faults
  /\ \E f \in {visible, disk} : visible' = f /\ disk' = f
  /\ check' = [p \in Checks |-> Idle]
  /\ lock' = NoCheck
  /\ UNCHANGED <<External, historyVars>>

(* External: time passes, the local clock is set, a certificate is revoked. *)
Tick ==
  /\ time < LastTick
  /\ time' = time + 1
  /\ UNCHANGED <<offset, revokedAt, diskVars, lock, check, historyVars>>

SetClock ==
  /\ \E o \in Offsets : o < offset /\ offset' = o
  /\ UNCHANGED <<time, revokedAt, diskVars, lock, check, historyVars>>

Revoke(c) ==
  /\ revokedAt[c] = Never
  /\ revokedAt' = [revokedAt EXCEPT ![c] = time]
  /\ UNCHANGED <<time, offset, diskVars, lock, check, historyVars>>

Step(p) ==
  \/ GiveUpLock(p) \/ Acquire(p)
  \/ \E f \in Failures : Unanswered(p, f)
  \/ \E r \in Responses : Answered(p, r)
  \/ Replace(p) \/ Sync(p) \/ Record(p)

Fault == \/ \E p \in Checks : SaveFails(p) \/ RecordFails(p) \/ Kill(p)
         \/ PowerLoss

World == Tick \/ SetClock \/ \E c \in Certs : Revoke(c)

Next == \/ \E p \in Checks : Step(p) \/ \E c \in Certs : Begin(p, c)
        \/ Fault \/ World

Spec == Init /\ [][Next]_ocspVars

-----------------------------------------------------------------------------
(* Properties                                                               *)

Pcs == {"idle", "lock", "fetch", "save", "sync", "record"}

(* Every variable has its type; the lock belongs to the check that is       *)
(* between reading the state and having saved it.                           *)
TypeOK ==
  /\ time \in 0..LastTick /\ offset \in Offsets
  /\ revokedAt \in [Certs -> 0..Never]
  /\ visible.revoked \subseteq Certs /\ DOMAIN visible.cache \subseteq Certs
  /\ disk.revoked \subseteq Certs /\ DOMAIN disk.cache \subseteq Certs
  /\ \A p \in Checks :
       /\ check[p].pc \in Pcs /\ check[p].cert \in Certs \union {NoCert}
       /\ check[p].verdict \in Verdicts /\ check[p].had \in BOOLEAN
       /\ check[p].pc \in {"fetch", "save", "sync"} <=> lock = p
  /\ confirmed \subseteq Certs /\ unlisted \subseteq Certs

(* The state file never holds more responses than cache_entries: with one   *)
(* more, every later check would be denied for good (line 323).             *)
CacheFits ==
  \A f \in {visible, disk} : Cardinality(DOMAIN f.cache) <= Entries

(* Only what the CA has revoked is in the journal: no response that is not  *)
(* authentic, and none for another certificate, gets a certificate banned   *)
(* for ever.                                                                *)
JournalIsTrue ==
  \A c \in visible.revoked \union disk.revoked : revokedAt[c] <= time

(* A revocation that a check has recorded and reported survives a power     *)
(* loss: the reports come after the directory has been synced.              *)
ConfirmedIsDurable == confirmed \subseteq disk.revoked

(* The step by which a check p reaches a saved decision for its certificate.*)
Accepts(p) == /\ check[p].pc = "sync" /\ check'[p].pc = "record"
              /\ check[p].verdict \in Accepting

(* Once a check has recorded and reported the revocation of a certificate,  *)
(* no check accepts it again, whatever a lagging responder, the cache, the  *)
(* clock, a concurrent check, a kill or a power loss may do.                *)
RefusedForever ==
  [][\A p \in Checks : Accepts(p) => check[p].cert \notin confirmed]_ocspVars

(* Whoever is accepted, by a fresh response or a cached one, was not yet    *)
(* revoked max_age_seconds before the decision, by the local clock.         *)
BoundedStaleness ==
  [][\A p \in Checks :
       /\ check[p].verdict \notin Accepting
       /\ check'[p].verdict \in Accepting
       => revokedAt[check[p].cert] > Now - MaxAge]_ocspVars

(* What the runbook says: a confirmed revocation remains blocked, and a     *)
(* full journal fails closed.  Not so for a revocation that the full        *)
(* journal has no room for: a later check may accept the certificate.       *)
ConfirmedStaysBlocked ==
  [][\A p \in Checks :
       Accepts(p) => check[p].cert \notin confirmed \union unlisted]_ocspVars

(* What the comment at the sync of the directory says: no revocation is     *)
(* acknowledged before it is durable.  Not so for a check that finds it in  *)
(* a file whose writer died before the sync.                                *)
AcknowledgedIsDurable ==
  [][\A p \in Checks :
       /\ check[p].pc = "record" /\ check'[p].pc = "idle"
       /\ check[p].verdict = "revoked"
       => check[p].cert \in disk.revoked]_ocspVars

(* What the architecture says: a clock that goes back never extends the     *)
(* life of the cache, so the clock in the file only goes forward.  Not so   *)
(* when the clock is set while the responder is asked.                      *)
ClockOnlyForward == [][visible'.clock >= visible.clock]_ocspVars
=============================================================================
