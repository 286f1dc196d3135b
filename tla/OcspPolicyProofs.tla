-------------------------- MODULE OcspPolicyProofs --------------------------
(***************************************************************************)
(* Safety of OcspPolicy for any certificates, checks, clocks and faults.   *)
(***************************************************************************)
EXTENDS OcspPolicy, FiniteSetTheorems, NaturalsInduction, TLAPS

Entry == [response : Response, deadline : Int]

(* An entry is of its time, and a certificate that it calls good was not    *)
(* revoked before.                                                          *)
EntryOK(e) ==
  /\ e.response.this <= time
  /\ e.deadline <= e.response.this + MaxAge
  /\ e.response.status = "good" => revokedAt[e.response.cert] >= e.response.this

(* What may be in the state file, on disk or in memory.                     *)
FileOK(f) ==
  /\ IsFiniteSet(DOMAIN f.cache) /\ Cardinality(DOMAIN f.cache) <= Entries
  /\ \A c \in f.revoked : revokedAt[c] <= time
  /\ \A c \in DOMAIN f.cache : EntryOK(f.cache[c])

Locked == {"fetch", "save", "sync"}

CheckRecord == [pc : Pcs, cert : Certs \union {NoCert}, mem : File, had : BOOLEAN,
                verdict : Verdicts]

(* Revocations are only added on the way from the visible file to the       *)
(* memory of the check that holds the lock, and back.                       *)
MemoryOK(k) ==
  /\ FileOK(k.mem)
  /\ k.pc # "sync" => visible.revoked \subseteq k.mem.revoked
  /\ k.pc = "sync" => visible = k.mem

(* What a check has found out at each of its steps.                         *)
VerdictOK(k) ==
  /\ k.pc \in {"idle", "lock", "fetch"} => k.verdict = "none"
  /\ k.pc \in {"idle", "lock"} => k.mem = NoFile
  /\ k.pc # "idle" => k.cert \in Certs
  /\ k.pc = "fetch" => k.cert \notin k.mem.revoked
  /\ k.pc \in {"save", "sync"} =>
       /\ k.verdict \in Accepting => k.cert \notin k.mem.revoked
       /\ k.verdict = "revoked" => k.cert \in k.mem.revoked
  /\ k.pc = "record" /\ k.verdict = "revoked" /\ k.mem # NoFile =>
       k.cert \in disk.revoked

FilesInv ==
  /\ visible \in File /\ FileOK(visible)
  /\ disk \in File /\ FileOK(disk)
  /\ confirmed \subseteq disk.revoked
  /\ disk.revoked \subseteq visible.revoked

CheckInv ==
  /\ check \in [Checks -> CheckRecord]
  /\ \A p \in Checks :
       /\ check[p].pc \in Locked => MemoryOK(check[p])
       /\ VerdictOK(check[p])

IInv == TypeOK /\ FilesInv /\ CheckInv
-----------------------------------------------------------------------------
(* Facts about the parts of the state.                                      *)

LEMMA Constants ==
  /\ MaxAge \in Nat /\ Ttl \in Nat /\ Life \in Nat /\ LastTick \in Nat
  /\ Entries \in Nat \ {0} /\ JournalLimit \in Nat
  /\ Offsets \subseteq Int /\ "none" \notin Flaws
  /\ Flaws \intersect (Accepting \union {"revoked"}) = {}
  /\ Failures \intersect (Accepting \union {"revoked"}) = {}
  /\ CertEnds \in Int /\ NoCheck \notin Checks
BY OcspAssumption DEF Accepting

LEMMA CachesMember ==
  ASSUME NEW h
  PROVE  h \in Caches <=> /\ DOMAIN h \subseteq Certs
                          /\ h \in [DOMAIN h -> Entry]
BY DEF Caches, Entry

LEMMA EmptyCache == <<>> \in Caches /\ DOMAIN <<>> = {}
<1>1. DOMAIN <<>> = {} /\ <<>> \in [{} -> Entry]
  OBVIOUS
<1> QED
  BY <1>1, CachesMember

LEMMA EmptyFiles ==
  /\ EmptyFile \in File /\ FileOK(EmptyFile)
  /\ NoFile \in File /\ Idle \in CheckRecord
<1>1. EmptyFile \in File /\ NoFile \in File
  BY EmptyCache DEF EmptyFile, NoFile, File
<1>2. FileOK(EmptyFile)
  BY EmptyCache, FS_EmptySet, Constants DEF FileOK, EmptyFile
<1>3. Idle \in CheckRecord
  BY <1>1 DEF Idle, CheckRecord, Pcs, Verdicts
<1> QED
  BY <1>1, <1>2, <1>3

(* A check whose record is changed leaves the others as they are.           *)
LEMMA LocalStep ==
  ASSUME IInv, NEW p \in Checks, NEW k \in CheckRecord,
         check' = [check EXCEPT ![p] = k],
         UNCHANGED <<time, offset, revokedAt, visible, disk, confirmed>>,
         unlisted' \subseteq Certs,
         \/ lock' = lock /\ (k.pc \in Locked <=> lock = p)
         \/ /\ check[p].pc \in Locked \/ lock = NoCheck
            /\ lock' = IF k.pc \in Locked THEN p ELSE NoCheck,
         k.pc \in Locked => MemoryOK(k),
         VerdictOK(k)
  PROVE  IInv'
<1>1. /\ check' \in [Checks -> CheckRecord]
      /\ check'[p] = k
      /\ \A q \in Checks \ {p} : check'[q] = check[q]
  BY DEF IInv, CheckInv
<1>2. TypeOK'
  <2>1. \A q \in Checks : check'[q].pc \in Locked <=> lock' = q
    BY <1>1, Constants DEF IInv, TypeOK, Locked
  <2>2. \A q \in Checks : check'[q] \in CheckRecord
    BY <1>1
  <2> QED
    BY <2>1, <2>2 DEF IInv, TypeOK, CheckRecord, Locked
<1>3. FilesInv'
  BY DEF IInv, FilesInv, FileOK, EntryOK
<1>4. CheckInv'
  <2>1. ASSUME NEW q \in Checks
        PROVE  /\ check'[q].pc \in Locked => MemoryOK(check[q])'
               /\ VerdictOK(check[q])'
    <3>1. CASE q = p
      BY <1>1, <3>1 DEF MemoryOK, VerdictOK, FileOK, EntryOK
    <3>2. CASE q # p
      BY <1>1, <3>2 DEF MemoryOK, VerdictOK, FileOK, EntryOK, IInv, CheckInv
    <3> QED
      BY <3>1, <3>2
  <2> QED
    BY <1>1, <2>1 DEF CheckInv
<1> QED
  BY <1>2, <1>3, <1>4 DEF IInv
-----------------------------------------------------------------------------
(* Facts about the cache and the file.                                      *)

LEMMA RestrictedCache ==
  ASSUME NEW h \in Caches, NEW S \in SUBSET DOMAIN h
  PROVE  /\ Restricted(h, S) \in Caches /\ DOMAIN Restricted(h, S) = S
         /\ \A k \in S : Restricted(h, S)[k] = h[k]
<1>1. DOMAIN h \subseteq Certs /\ h \in [DOMAIN h -> Entry]
  BY CachesMember
<1>2. /\ DOMAIN Restricted(h, S) = S /\ Restricted(h, S) \in [S -> Entry]
      /\ \A k \in S : Restricted(h, S)[k] = h[k]
  BY <1>1 DEF Restricted
<1> QED
  BY <1>1, <1>2, CachesMember

(* A set of entries that expire in the future has one that expires first.   *)
LEMMA FirstDeadline ==
  ASSUME NEW h, NEW S, S # {}, NEW now \in Int,
         \A k \in S : h[k].deadline \in Int /\ h[k].deadline > now
  PROVE  \E k \in S : \A l \in S : h[k].deadline <= h[l].deadline
<1> DEFINE T == {h[k].deadline - now : k \in S}
<1>1. T \subseteq Nat /\ T # {}
  OBVIOUS
<1>2. PICK x \in T : \A y \in T : ~ (<<y, x>> \in OpToRel(<, Nat))
  BY <1>1, WFMin, NatLessThanWellFounded
<1>3. \A y \in T : ~ (y < x)
  BY <1>1, <1>2 DEF OpToRel
<1>4. PICK k \in S : x = h[k].deadline - now
  OBVIOUS
<1>5. ASSUME NEW l \in S
      PROVE  h[k].deadline <= h[l].deadline
  <2>1. ~ (h[l].deadline - now < x)
    BY <1>3
  <2> QED
    BY <2>1, <1>4
<1> QED
  BY <1>5

LEMMA RoomMade ==
  ASSUME NEW h \in Caches, NEW now \in Int,
         IsFiniteSet(DOMAIN h), Cardinality(DOMAIN h) <= Entries
  PROVE  LET m == MakeRoom(h, now) IN
         /\ m \in Caches /\ IsFiniteSet(DOMAIN m) /\ Cardinality(DOMAIN m) < Entries
         /\ DOMAIN m \subseteq DOMAIN h /\ \A k \in DOMAIN m : m[k] = h[k]
<1> DEFINE live == {k \in DOMAIN h : h[k].deadline > now}
           oldest == CHOOSE k \in live : \A l \in live : h[k].deadline <= h[l].deadline
           kept == IF Cardinality(live) >= Entries THEN live \ {oldest} ELSE live
<1>1. IsFiniteSet(live) /\ Cardinality(live) <= Entries /\ Cardinality(live) \in Nat
  BY FS_Subset, FS_CardinalityType, Constants
<1>2. IsFiniteSet(kept) /\ Cardinality(kept) < Entries
  <2>1. CASE Cardinality(live) >= Entries
    <3>1. live # {}
      BY <2>1, FS_EmptySet, Constants
    <3>2. \A k \in live : h[k].deadline \in Int /\ h[k].deadline > now
      BY CachesMember DEF Entry
    <3>3. \E k \in live : \A l \in live : h[k].deadline <= h[l].deadline
      BY <3>1, <3>2, FirstDeadline
    <3>4. oldest \in live
      BY <3>3
    <3>5. kept = live \ {oldest}
      BY <2>1
    <3> HIDE DEF live, oldest, kept
    <3>6. IsFiniteSet(kept) /\ Cardinality(kept) = Cardinality(live) - 1
      BY <1>1, <3>4, <3>5, FS_RemoveElement
    <3> QED
      BY <1>1, <3>6, Constants
  <2>2. CASE ~ (Cardinality(live) >= Entries)
    BY <1>1, <2>2, Constants
  <2> QED
    BY <2>1, <2>2
<1>3. kept \subseteq DOMAIN h
  OBVIOUS
<1>4. MakeRoom(h, now) = Restricted(h, kept)
  BY DEF MakeRoom
<1> HIDE DEF kept
<1> QED
  BY <1>2, <1>3, <1>4, RestrictedCache

LEMMA EntryPut ==
  ASSUME NEW m \in Caches, NEW c \in Certs, NEW e \in Entry,
         IsFiniteSet(DOMAIN m), Cardinality(DOMAIN m) < Entries
  PROVE  LET n == Put(m, c, e) IN
         /\ n \in Caches /\ IsFiniteSet(DOMAIN n) /\ Cardinality(DOMAIN n) <= Entries
         /\ DOMAIN n = DOMAIN m \union {c}
         /\ n[c] = e /\ \A k \in DOMAIN m \ {c} : n[k] = m[k]
<1>1. DOMAIN m \subseteq Certs /\ m \in [DOMAIN m -> Entry]
  BY CachesMember
<1>2. /\ DOMAIN Put(m, c, e) = DOMAIN m \union {c}
      /\ Put(m, c, e) \in [DOMAIN m \union {c} -> Entry]
      /\ Put(m, c, e)[c] = e /\ \A k \in DOMAIN m \ {c} : Put(m, c, e)[k] = m[k]
  BY <1>1 DEF Put
<1>3. IsFiniteSet(DOMAIN m \union {c}) /\ Cardinality(DOMAIN m \union {c}) <= Entries
  <2>1. Cardinality(DOMAIN m) \in Nat
    BY FS_CardinalityType
  <2>2. /\ IsFiniteSet(DOMAIN m \union {c})
        /\ Cardinality(DOMAIN m \union {c}) \in {Cardinality(DOMAIN m), Cardinality(DOMAIN m) + 1}
    BY FS_AddElement
  <2> QED
    BY <2>1, <2>2, Constants
<1> QED
  BY <1>1, <1>2, <1>3, CachesMember

LEMMA DroppedFile ==
  ASSUME NEW f \in File, NEW c, FileOK(f)
  PROVE  /\ Drop(f, c) \in File /\ FileOK(Drop(f, c))
         /\ Drop(f, c).revoked = f.revoked
<1> DEFINE S == DOMAIN f.cache \ {c}
<1>1. /\ f.cache \in Caches /\ S \subseteq DOMAIN f.cache
  BY DEF File
<1>2. /\ Restricted(f.cache, S) \in Caches /\ DOMAIN Restricted(f.cache, S) = S
      /\ \A k \in S : Restricted(f.cache, S)[k] = f.cache[k]
  BY <1>1, RestrictedCache
<1>3. IsFiniteSet(S) /\ Cardinality(S) <= Entries
  BY FS_RemoveElement, FS_Subset, FS_CardinalityType, Constants DEF FileOK
<1>4. /\ Drop(f, c) \in File /\ Drop(f, c).revoked = f.revoked
      /\ Drop(f, c).cache = Restricted(f.cache, S)
  BY <1>2 DEF Drop, File
<1> QED
  BY <1>1, <1>2, <1>3, <1>4 DEF FileOK

(* The deadline of a response is no later than max_age_seconds after it.    *)
LEMMA DeadlineBound ==
  ASSUME NEW r \in Response, NEW now \in Int
  PROVE  LET d == Least({Deadline(r), now + Ttl}) IN
         d \in Int /\ d <= r.this + MaxAge
<1>1. ASSUME NEW a \in Int, NEW b \in Int
      PROVE  /\ Least({a, b}) \in Int
             /\ Least({a, b}) <= a /\ Least({a, b}) <= b
  <2>1. \E x \in {a, b} : \A y \in {a, b} : x <= y
    BY <1>1
  <2> QED
    BY <2>1 DEF Least
<1>2. ASSUME NEW a \in Int, NEW b \in Int, NEW c \in Int, NEW d \in Int
      PROVE  Least({a, b, c, d}) \in Int /\ Least({a, b, c, d}) <= d
  <2>1. \E x \in {a, b, c, d} : \A y \in {a, b, c, d} : x <= y
    BY <1>2
  <2> QED
    BY <2>1 DEF Least
<1>3. /\ r.next \in Int /\ CertEnds \in Int
      /\ r.produced + MaxAge \in Int /\ r.this + MaxAge \in Int /\ now + Ttl \in Int
  BY Constants DEF Response
<1>4. Deadline(r) \in Int /\ Deadline(r) <= r.this + MaxAge
  BY <1>2, <1>3 DEF Deadline
<1>5. /\ Least({Deadline(r), now + Ttl}) \in Int
      /\ Least({Deadline(r), now + Ttl}) <= Deadline(r)
  BY <1>1, <1>3, <1>4
<1> HIDE DEF Deadline
<1> QED
  BY <1>3, <1>4, <1>5

LEMMA LearnedFile ==
  ASSUME NEW f \in File, NEW c \in Certs, NEW r \in Response, NEW now \in Int,
         FileOK(f), r.this <= time, time \in Int,
         r.status = "good" => revokedAt[r.cert] >= r.this
  PROVE  /\ Learned(f, c, r, now) \in File /\ FileOK(Learned(f, c, r, now))
         /\ Learned(f, c, r, now).revoked = f.revoked
<1> DEFINE d == Least({Deadline(r), now + Ttl})
           e == [response |-> r, deadline |-> d]
           m == MakeRoom(f.cache, now)
           n == Put(m, c, e)
<1>1. d \in Int /\ d <= r.this + MaxAge
  BY DeadlineBound
<1>2. e \in Entry /\ EntryOK(e)
  BY <1>1 DEF Entry, EntryOK
<1>3. f.cache \in Caches
  BY DEF File
<1>4. /\ m \in Caches /\ IsFiniteSet(DOMAIN m) /\ Cardinality(DOMAIN m) < Entries
      /\ DOMAIN m \subseteq DOMAIN f.cache /\ \A k \in DOMAIN m : m[k] = f.cache[k]
  BY <1>3, RoomMade DEF FileOK
<1> HIDE DEF d, e, m
<1>5. /\ n \in Caches /\ IsFiniteSet(DOMAIN n) /\ Cardinality(DOMAIN n) <= Entries
      /\ DOMAIN n = DOMAIN m \union {c}
      /\ n[c] = e /\ \A k \in DOMAIN m \ {c} : n[k] = m[k]
  BY <1>2, <1>4, EntryPut
<1> HIDE DEF n
<1>6. /\ Learned(f, c, r, now) \in File /\ Learned(f, c, r, now).revoked = f.revoked
      /\ Learned(f, c, r, now).cache = n
  BY <1>5 DEF Learned, File, d, e, m, n
<1>7. \A k \in DOMAIN n : EntryOK(n[k])
  BY <1>2, <1>4, <1>5 DEF FileOK
<1> QED
  BY <1>5, <1>6, <1>7 DEF FileOK
-----------------------------------------------------------------------------
(* Facts about responses.                                                   *)

LEMMA Types ==
  ASSUME IInv
  PROVE  /\ time \in 0..LastTick /\ Now \in Int /\ time \in Int
         /\ \A c \in Certs : revokedAt[c] \in 0..Never
         /\ check \in [Checks -> CheckRecord]
BY Constants DEF IInv, TypeOK, CheckInv, Now, Never

(* What is authentic was signed by the CA: good only before the revocation, *)
(* and revoked only after it.                                               *)
LEMMA SignedResponses ==
  ASSUME IInv, NEW r \in Responses
  PROVE  /\ r \in Response /\ r.this <= time
         /\ r.flaw = "none" /\ r.status = "good" => revokedAt[r.cert] > r.this
         /\ r.flaw = "none" /\ r.status = "revoked" => revokedAt[r.cert] <= time
<1>1. \A c \in Certs, t \in 0..time :
        /\ Signed(c, t) \in {"good", "revoked"}
        /\ Signed(c, t) = "good" => revokedAt[c] > t
        /\ Signed(c, t) = "revoked" => revokedAt[c] <= time
  BY Types, Constants DEF Signed, Never
<1> HIDE DEF Signed
<1>2. CASE \E c \in Certs, t \in 0..time : \E u \in {t, time} :
             r = [cert |-> c, status |-> Signed(c, t), this |-> t, produced |-> u,
                  next |-> t + Life, flaw |-> "none"]
  BY <1>1, <1>2, Types, Constants DEF Response
<1>3. CASE \E c \in Certs, s \in {"good", "revoked"}, f \in Flaws :
             r = [cert |-> c, status |-> s, this |-> time, produced |-> time,
                  next |-> time + Life, flaw |-> f]
  BY <1>3, Types, Constants DEF Response
<1> QED
  BY <1>2, <1>3 DEF Responses

LEMMA Validated ==
  ASSUME NEW r \in Response, NEW c, NEW now
  PROVE  /\ Validate(r, c, now) \in {"good", "revoked"} =>
              /\ r.flaw = "none" /\ r.cert = c /\ Timely(r, now)
              /\ r.status = Validate(r, c, now)
         /\ Validate(r, c, now) \in Verdicts
BY Constants DEF Validate, Response, Verdicts, Accepting

-----------------------------------------------------------------------------
(* Every action preserves the invariant.                                    *)

LEMMA BeginStep ==
  ASSUME IInv, NEW p \in Checks, NEW c \in Certs, Begin(p, c)
  PROVE  IInv'
<1> DEFINE k == [Idle EXCEPT !.pc = "lock", !.cert = c]
<1>1. k \in CheckRecord /\ k.pc = "lock" /\ k.cert = c
      /\ k.verdict = "none" /\ k.mem = NoFile
  BY EmptyFiles DEF Idle, CheckRecord, Pcs
<1>2. check' = [check EXCEPT ![p] = k]
  BY DEF Begin
<1>3. k.pc \notin Locked /\ check[p].pc \notin Locked /\ VerdictOK(k)
  BY <1>1 DEF Begin, Locked, VerdictOK
<1>4. lock' = lock /\ lock # p
  BY <1>3 DEF Begin, IInv, TypeOK, Locked
<1>5. UNCHANGED <<time, offset, revokedAt, visible, disk, confirmed, unlisted>>
      /\ unlisted \subseteq Certs
  BY DEF Begin, External, diskVars, historyVars, IInv, TypeOK
<1> HIDE DEF k
<1> QED
  BY <1>1, <1>2, <1>3, <1>4, <1>5, LocalStep

(* A check that leaves without saving, with the verdict v.                  *)
LEMMA DecideStep ==
  ASSUME IInv, NEW p \in Checks, NEW v \in Verdicts, Decide(p, v),
         check[p].pc \in {"lock", "fetch"}, check[p].pc = "lock" => lock = NoCheck,
         UNCHANGED <<time, offset, revokedAt, visible, disk, confirmed>>,
         unlisted' \subseteq Certs
  PROVE  IInv'
<1> DEFINE k == [check[p] EXCEPT !.pc = "record", !.verdict = v, !.mem = NoFile]
<1>1. check[p] \in CheckRecord /\ check[p].cert \in Certs
  BY DEF IInv, CheckInv, VerdictOK
<1>2. /\ k \in CheckRecord /\ k.pc = "record" /\ k.cert = check[p].cert
      /\ k.mem = NoFile
  BY <1>1, EmptyFiles DEF CheckRecord, Pcs
<1>3. check' = [check EXCEPT ![p] = k] /\ lock' = NoCheck
  BY DEF Decide, IInv, CheckInv
<1>4. k.pc \notin Locked /\ VerdictOK(k)
  BY <1>1, <1>2 DEF Locked, VerdictOK
<1>5. check[p].pc \in Locked \/ lock = NoCheck
  BY DEF Locked
<1> HIDE DEF k
<1> QED
  BY <1>2, <1>3, <1>4, <1>5, LocalStep

(* A check that holds the lock and is to save `file', with the verdict v.   *)
LEMMA SaveStep ==
  ASSUME IInv, NEW p \in Checks, NEW file \in File, NEW v \in Verdicts,
         SaveThen(p, file, v),
         check[p].pc = "fetch", FileOK(file), visible.revoked \subseteq file.revoked,
         v \in Accepting => check[p].cert \notin file.revoked,
         v = "revoked" => check[p].cert \in file.revoked,
         UNCHANGED <<time, offset, revokedAt, visible, disk, confirmed, unlisted>>
  PROVE  IInv'
<1> DEFINE k == [check[p] EXCEPT !.pc = "save", !.verdict = v, !.mem = file]
<1>1. check[p] \in CheckRecord /\ check[p].cert \in Certs
  BY DEF IInv, CheckInv, VerdictOK
<1>2. /\ k \in CheckRecord /\ k.pc = "save" /\ k.cert = check[p].cert
      /\ k.mem = file /\ k.verdict = v
  BY <1>1 DEF CheckRecord, Pcs
<1>3. check' = [check EXCEPT ![p] = k] /\ lock' = lock
  BY DEF SaveThen, IInv, CheckInv
<1>4. k.pc \in Locked /\ VerdictOK(k) /\ MemoryOK(k)
  BY <1>1, <1>2 DEF Locked, VerdictOK, MemoryOK
<1>5. lock = p /\ unlisted' \subseteq Certs
  BY DEF IInv, TypeOK
<1> HIDE DEF k
<1> QED
  BY <1>2, <1>3, <1>4, <1>5, LocalStep

LEMMA GiveUpStep ==
  ASSUME IInv, NEW p \in Checks, GiveUpLock(p)
  PROVE  IInv'
<1> DEFINE k == [check[p] EXCEPT !.pc = "record", !.verdict = "timeout"]
<1>1. check[p] \in CheckRecord /\ check[p].cert \in Certs
  BY DEF IInv, CheckInv, VerdictOK, GiveUpLock
<1>2. /\ k \in CheckRecord /\ k.pc = "record" /\ k.cert = check[p].cert
      /\ k.verdict = "timeout"
  BY <1>1 DEF CheckRecord, Pcs, Verdicts
<1>3. check' = [check EXCEPT ![p] = k] /\ lock' = lock
  BY DEF GiveUpLock, IInv, CheckInv
<1>4. k.pc \notin Locked /\ VerdictOK(k) /\ lock # p
  BY <1>1, <1>2 DEF Locked, VerdictOK, GiveUpLock, IInv, TypeOK
<1>5. UNCHANGED <<time, offset, revokedAt, visible, disk, confirmed, unlisted>>
      /\ unlisted \subseteq Certs
  BY DEF GiveUpLock, External, diskVars, historyVars, IInv, TypeOK
<1> HIDE DEF k
<1> QED
  BY <1>2, <1>3, <1>4, <1>5, LocalStep

LEMMA UnansweredStep ==
  ASSUME IInv, NEW p \in Checks, NEW failure \in Failures, Unanswered(p, failure)
  PROVE  IInv'
<1>1. PICK v \in Verdicts : Decide(p, v)
  BY DEF Unanswered, Verdicts
<1>2. /\ UNCHANGED <<time, offset, revokedAt, visible, disk, confirmed>>
      /\ unlisted' \subseteq Certs /\ check[p].pc = "fetch"
  BY DEF Unanswered, External, diskVars, historyVars, IInv, TypeOK
<1> QED
  BY <1>1, <1>2, DecideStep

LEMMA AnsweredStep ==
  ASSUME IInv, NEW p \in Checks, NEW r \in Responses, Answered(p, r)
  PROVE  IInv'
<1> DEFINE c == check[p].cert
           file == check[p].mem
           v == Validate(r, c, Now)
<1>1. /\ check[p] \in CheckRecord /\ c \in Certs /\ file \in File
      /\ c \notin file.revoked /\ check[p].pc = "fetch"
      /\ FileOK(file) /\ visible.revoked \subseteq file.revoked
  <2>1. check[p] \in CheckRecord /\ check[p].pc = "fetch"
    BY DEF IInv, CheckInv, Answered
  <2> QED
    BY <2>1 DEF IInv, CheckInv, VerdictOK, MemoryOK, CheckRecord, Locked
<1>2. r \in Response /\ r.this <= time /\ Now \in Int /\ time \in Int
  BY SignedResponses, Types
<1>3. /\ v \in {"good", "revoked"} => r.flaw = "none" /\ r.cert = c /\ r.status = v
      /\ v \in Verdicts
  BY <1>2, Validated
<1>4. /\ UNCHANGED <<time, offset, revokedAt, visible, disk, confirmed>>
      /\ unlisted' \subseteq Certs
  BY <1>1 DEF Answered, External, diskVars, IInv, TypeOK
<1> HIDE DEF c, file, v
<1>5. CASE v = "good" /\ SaveThen(p, Learned(file, c, r, Now), "good") /\ UNCHANGED unlisted
  <2>1. revokedAt[r.cert] >= r.this
    BY <1>2, <1>3, <1>5, SignedResponses, Types DEF Response, Never
  <2>2. /\ Learned(file, c, r, Now) \in File /\ FileOK(Learned(file, c, r, Now))
        /\ Learned(file, c, r, Now).revoked = file.revoked
    BY <1>1, <1>2, <2>1, LearnedFile
  <2> QED
    BY <1>1, <1>4, <1>5, <2>2, SaveStep DEF c, Verdicts, Accepting
<1>6. CASE /\ v = "revoked"
           /\ SaveThen(p, Drop([file EXCEPT !.revoked = file.revoked \union {c}], c), "revoked")
           /\ UNCHANGED unlisted
  <2> DEFINE f == [file EXCEPT !.revoked = file.revoked \union {c}]
  <2>1. revokedAt[c] <= time
    BY <1>3, <1>6, SignedResponses
  <2>2. f \in File /\ f.revoked = file.revoked \union {c} /\ f.cache = file.cache
    BY <1>1 DEF File
  <2>3. FileOK(f)
    BY <1>1, <2>1, <2>2 DEF FileOK
  <2> HIDE DEF f
  <2>4. /\ Drop(f, c) \in File /\ FileOK(Drop(f, c))
        /\ Drop(f, c).revoked = file.revoked \union {c}
    BY <2>2, <2>3, DroppedFile
  <2>5. SaveThen(p, Drop(f, c), "revoked")
    BY <1>6 DEF f
  <2> QED
    BY <1>1, <1>4, <1>6, <2>4, <2>5, SaveStep DEF c, Verdicts, Accepting
<1>7. CASE \E w \in Verdicts : Decide(p, w)
  BY <1>1, <1>4, <1>7, DecideStep
<1>8. \/ v = "good" /\ SaveThen(p, Learned(file, c, r, Now), "good") /\ UNCHANGED unlisted
      \/ /\ v = "revoked"
         /\ SaveThen(p, Drop([file EXCEPT !.revoked = file.revoked \union {c}], c), "revoked")
         /\ UNCHANGED unlisted
      \/ Decide(p, "state") \/ Decide(p, v)
  BY DEF Answered, c, file, v
<1> QED
  BY <1>3, <1>5, <1>6, <1>7, <1>8 DEF Verdicts

LEMMA AcquireStep ==
  ASSUME IInv, NEW p \in Checks, Acquire(p)
  PROVE  IInv'
<1> DEFINE c == check[p].cert
           cached == c \in DOMAIN visible.cache
           young == cached /\ Now < visible.cache[c].deadline
           valid == young /\ Validate(visible.cache[c].response, c, Now) = "good"
           known == c \in visible.revoked
           back == Now < visible.clock
           usable == Cardinality(DOMAIN visible.cache) <= Entries
           mem == IF back THEN [visible EXCEPT !.cache = <<>>]
                  ELSE IF valid THEN [visible EXCEPT !.clock = Now]
                  ELSE IF young THEN Drop(visible, c)
                  ELSE visible
           pc == IF back \/ valid THEN "save" ELSE "fetch"
           v == IF back THEN "clock" ELSE IF valid THEN "cache" ELSE "none"
           k == [check[p] EXCEPT !.pc = pc, !.had = cached, !.verdict = v, !.mem = mem]
<1>1. /\ check[p] \in CheckRecord /\ c \in Certs /\ check[p].pc = "lock"
      /\ lock = NoCheck /\ visible \in File /\ FileOK(visible)
      /\ Now \in Int /\ time \in Int
  BY Types DEF Acquire, LockFree, IInv, CheckInv, VerdictOK, FilesInv
<1>2. /\ UNCHANGED <<time, offset, revokedAt, visible, disk, confirmed, unlisted>>
      /\ unlisted' \subseteq Certs
  BY DEF Acquire, External, diskVars, historyVars, IInv, TypeOK
<1>3. CASE \E w \in {"revoked", "state"} : Decide(p, w)
  BY <1>1, <1>2, <1>3, DecideStep DEF Verdicts
<1>4. CASE ~ known /\ lock' = p /\ check' = [check EXCEPT ![p] = k]
  <2>1. mem \in File /\ FileOK(mem) /\ mem.revoked = visible.revoked
    <3>1. CASE back
      <4>1. mem = [visible EXCEPT !.cache = <<>>]
        BY <3>1
      <4>2. mem \in File /\ mem.revoked = visible.revoked /\ mem.cache = <<>>
        BY <1>1, <4>1, EmptyCache DEF File
      <4> HIDE DEF mem
      <4> QED
        BY <1>1, <4>2, EmptyCache, FS_EmptySet, Constants DEF FileOK
    <3>2. CASE ~ back /\ valid
      <4>1. mem = [visible EXCEPT !.clock = Now]
        BY <3>2
      <4>2. mem \in File /\ mem.revoked = visible.revoked /\ mem.cache = visible.cache
        BY <1>1, <4>1 DEF File
      <4> QED
        BY <1>1, <4>2 DEF FileOK
    <3>3. CASE ~ back /\ ~ valid /\ young
      BY <1>1, <3>3, DroppedFile
    <3>4. CASE ~ back /\ ~ valid /\ ~ young
      BY <1>1, <3>4
    <3> QED
      BY <3>1, <3>2, <3>3, <3>4
  <2>2. /\ pc \in {"save", "fetch"} /\ v \in {"clock", "cache", "none"}
        /\ pc = "fetch" => v = "none"
        /\ cached \in BOOLEAN
    OBVIOUS
  <2> HIDE DEF mem, pc, v, cached
  <2>3. /\ k \in CheckRecord /\ k.pc = pc /\ k.cert = c /\ k.mem = mem /\ k.verdict = v
    BY <1>1, <2>1, <2>2 DEF CheckRecord, Pcs, Verdicts, Accepting
  <2> HIDE DEF k
  <2>4. VerdictOK(k) /\ MemoryOK(k) /\ k.pc \in Locked
    BY <1>1, <1>4, <2>1, <2>2, <2>3 DEF VerdictOK, MemoryOK, Locked, Accepting
  <2> QED
    BY <1>1, <1>2, <1>4, <2>3, <2>4, LocalStep
<1>5. \/ Decide(p, IF usable THEN "revoked" ELSE "state")
      \/ ~ known /\ lock' = p /\ check' = [check EXCEPT ![p] = k]
  BY <1>1 DEF Acquire, IInv, CheckInv
<1> QED
  BY <1>3, <1>4, <1>5

LEMMA ReplaceStep ==
  ASSUME IInv, NEW p \in Checks, Replace(p)
  PROVE  IInv'
<1>1. /\ check \in [Checks -> CheckRecord] /\ check[p].pc = "save" /\ lock = p
      /\ MemoryOK(check[p]) /\ VerdictOK(check[p])
  BY DEF IInv, CheckInv, Replace, Locked, TypeOK
<1>2. /\ check' \in [Checks -> CheckRecord]
      /\ check'[p] = [check[p] EXCEPT !.pc = "sync"]
      /\ \A q \in Checks \ {p} : check'[q] = check[q]
      /\ visible' = check[p].mem
      /\ UNCHANGED <<time, offset, revokedAt, disk, lock, confirmed, unlisted>>
  BY <1>1 DEF Replace, CheckRecord, Pcs, External, historyVars
<1>3. \A q \in Checks \ {p} : check[q].pc \notin Locked
  BY <1>1 DEF IInv, TypeOK, Locked
<1>4. visible' \in File /\ FileOK(visible)' /\ disk.revoked \subseteq visible'.revoked
  BY <1>1, <1>2 DEF MemoryOK, FileOK, EntryOK, CheckRecord, IInv, FilesInv
<1>5. FilesInv'
  BY <1>2, <1>4 DEF IInv, FilesInv, FileOK, EntryOK
<1>6. CheckInv'
  <2>1. MemoryOK(check[p])' /\ VerdictOK(check[p])'
    BY <1>1, <1>2, <1>4 DEF MemoryOK, VerdictOK, CheckRecord
  <2>2. ASSUME NEW q \in Checks \ {p}
        PROVE  check'[q].pc \notin Locked /\ VerdictOK(check[q])'
    BY <1>2, <1>3 DEF IInv, CheckInv, VerdictOK
  <2> QED
    BY <1>2, <2>1, <2>2 DEF CheckInv
<1>7. TypeOK'
  <2>1. visible'.revoked \subseteq Certs /\ DOMAIN visible'.cache \subseteq Certs
    BY <1>4, CachesMember DEF File
  <2>2. \A q \in Checks : check'[q] \in CheckRecord /\ (check'[q].pc \in Locked <=> lock' = q)
    BY <1>1, <1>2, <1>3 DEF IInv, TypeOK, Locked, CheckRecord
  <2> QED
    BY <1>2, <2>1, <2>2 DEF IInv, TypeOK, CheckRecord, Locked
<1> QED
  BY <1>5, <1>6, <1>7 DEF IInv

LEMMA SyncStep ==
  ASSUME IInv, NEW p \in Checks, Sync(p)
  PROVE  IInv'
<1>1. /\ check \in [Checks -> CheckRecord] /\ check[p].pc = "sync" /\ lock = p
      /\ MemoryOK(check[p]) /\ VerdictOK(check[p])
  BY DEF IInv, CheckInv, Sync, Locked, TypeOK
<1>2. /\ check' \in [Checks -> CheckRecord]
      /\ check'[p] = [check[p] EXCEPT !.pc = "record"]
      /\ \A q \in Checks \ {p} : check'[q] = check[q]
      /\ disk' = visible /\ lock' = NoCheck
      /\ UNCHANGED <<time, offset, revokedAt, visible, confirmed, unlisted>>
  BY <1>1 DEF Sync, Synced, CheckRecord, Pcs, External, historyVars
<1>3. \A q \in Checks \ {p} : check[q].pc \notin Locked
  BY <1>1 DEF IInv, TypeOK, Locked
<1>4. FilesInv'
  BY <1>2 DEF IInv, FilesInv, FileOK, EntryOK
<1>5. CheckInv'
  <2>1. check'[p].pc \notin Locked /\ VerdictOK(check[p])'
    BY <1>1, <1>2 DEF MemoryOK, VerdictOK, CheckRecord, Locked
  <2>2. ASSUME NEW q \in Checks \ {p}
        PROVE  check'[q].pc \notin Locked /\ VerdictOK(check[q])'
    BY <1>2, <1>3 DEF IInv, CheckInv, FilesInv, VerdictOK
  <2> QED
    BY <1>2, <2>1, <2>2 DEF CheckInv
<1>6. TypeOK'
  <2>1. \A q \in Checks : check'[q] \in CheckRecord /\ check'[q].pc \notin Locked
    BY <1>2, <1>3 DEF Locked, CheckRecord
  <2> QED
    BY <1>2, <2>1, Constants DEF IInv, TypeOK, CheckRecord, Locked
<1> QED
  BY <1>4, <1>5, <1>6 DEF IInv

(* A check that is gone, with the lock if it held it.                       *)
LEMMA LeaveStep ==
  ASSUME IInv, NEW p \in Checks,
         check' = [check EXCEPT ![p] = Idle],
         lock' = IF lock = p THEN NoCheck ELSE lock,
         UNCHANGED <<External, diskVars, historyVars>>
  PROVE  IInv'
<1>1. /\ Idle \in CheckRecord /\ Idle.pc = "idle" /\ Idle.mem = NoFile
      /\ Idle.verdict = "none"
  BY EmptyFiles DEF Idle
<1>2. Idle.pc \notin Locked /\ VerdictOK(Idle)
  BY <1>1 DEF Locked, VerdictOK
<1>3. UNCHANGED <<time, offset, revokedAt, visible, disk, confirmed, unlisted>>
      /\ unlisted \subseteq Certs
  BY DEF External, diskVars, historyVars, IInv, TypeOK
<1>4. lock = p => check[p].pc \in Locked
  BY DEF IInv, TypeOK, Locked
<1>5. NoCheck # p
  BY Constants
<1> QED
  BY <1>1, <1>2, <1>3, <1>4, <1>5, LocalStep

LEMMA SaveFailsStep ==
  ASSUME IInv, NEW p \in Checks, SaveFails(p)
  PROVE  IInv'
<1>1. lock = p
  BY DEF SaveFails, IInv, TypeOK
<1> QED
  BY <1>1, LeaveStep DEF SaveFails, Released

LEMMA RecordFailsStep ==
  ASSUME IInv, NEW p \in Checks, RecordFails(p)
  PROVE  IInv'
<1>1. lock # p
  BY DEF RecordFails, IInv, TypeOK
<1> QED
  BY <1>1, LeaveStep DEF RecordFails

LEMMA KillStep ==
  ASSUME IInv, NEW p \in Checks, Kill(p)
  PROVE  IInv'
BY LeaveStep DEF Kill

LEMMA RecordStep ==
  ASSUME IInv, NEW p \in Checks, Record(p)
  PROVE  IInv'
<1>1. /\ check \in [Checks -> CheckRecord] /\ check[p].pc = "record" /\ lock # p
      /\ VerdictOK(check[p])
  BY DEF IInv, CheckInv, TypeOK, Record
<1>2. /\ check' \in [Checks -> CheckRecord] /\ check'[p] = Idle
      /\ \A q \in Checks \ {p} : check'[q] = check[q]
      /\ UNCHANGED <<time, offset, revokedAt, visible, disk, lock, unlisted>>
  BY <1>1, EmptyFiles DEF Record, External, diskVars
<1>3. confirmed' \subseteq disk.revoked /\ confirmed' \subseteq Certs
  BY <1>1 DEF Record, VerdictOK, IInv, FilesInv, TypeOK
<1>4. FilesInv'
  BY <1>2, <1>3 DEF IInv, FilesInv, FileOK, EntryOK
<1>5. CheckInv'
  <2>1. check'[p].pc \notin Locked /\ VerdictOK(check[p])'
    BY <1>2 DEF VerdictOK, Idle, Locked
  <2>2. ASSUME NEW q \in Checks \ {p}
        PROVE  /\ check'[q].pc \in Locked => MemoryOK(check[q])'
               /\ VerdictOK(check[q])'
    BY <1>2 DEF IInv, CheckInv, VerdictOK, MemoryOK, FileOK, EntryOK
  <2> QED
    BY <1>2, <2>1, <2>2 DEF CheckInv
<1>6. TypeOK'
  <2>1. \A q \in Checks : check'[q] \in CheckRecord /\ (check'[q].pc \in Locked <=> lock' = q)
    BY <1>1, <1>2 DEF IInv, TypeOK, Locked, CheckRecord, Idle
  <2> QED
    BY <1>2, <1>3, <2>1 DEF IInv, TypeOK, CheckRecord, Locked
<1> QED
  BY <1>4, <1>5, <1>6 DEF IInv

LEMMA PowerLossStep ==
  ASSUME IInv, PowerLoss
  PROVE  IInv'
<1>1. /\ \E f \in {visible, disk} : visible' = f /\ disk' = f
      /\ check' = [q \in Checks |-> Idle] /\ lock' = NoCheck
      /\ UNCHANGED <<time, offset, revokedAt, confirmed, unlisted>>
  BY DEF PowerLoss, External, historyVars
<1>2. /\ visible' \in File /\ FileOK(visible)' /\ disk' = visible'
      /\ confirmed \subseteq disk'.revoked
  BY <1>1 DEF IInv, FilesInv, FileOK, EntryOK
<1>3. FilesInv'
  BY <1>1, <1>2 DEF FilesInv, FileOK, EntryOK
<1>4. CheckInv'
  BY <1>1, EmptyFiles DEF CheckInv, VerdictOK, Idle, Locked
<1>5. TypeOK'
  <2>1. visible'.revoked \subseteq Certs /\ DOMAIN visible'.cache \subseteq Certs
    BY <1>2, CachesMember DEF File
  <2>2. \A q \in Checks : check'[q] \in CheckRecord /\ check'[q].pc \notin Locked
    BY <1>1, EmptyFiles DEF Idle, Locked
  <2> QED
    BY <1>1, <1>2, <2>1, <2>2, Constants DEF IInv, TypeOK, CheckRecord, Locked
<1> QED
  BY <1>3, <1>4, <1>5 DEF IInv

LEMMA WorldStep ==
  ASSUME IInv, World
  PROVE  IInv'
<1>1. /\ UNCHANGED <<visible, disk, lock, check, confirmed, unlisted>>
      /\ time' \in 0..LastTick /\ time <= time' /\ offset' \in Offsets
      /\ revokedAt' \in [Certs -> 0..Never]
      /\ \A c \in Certs : \/ revokedAt'[c] = revokedAt[c]
                          \/ revokedAt'[c] = time' /\ revokedAt[c] = Never /\ time' = time
  <2>1. /\ time \in 0..LastTick /\ offset \in Offsets /\ revokedAt \in [Certs -> 0..Never]
        /\ LastTick \in Nat
    BY Constants DEF IInv, TypeOK
  <2>2. CASE Tick
    <3>1. UNCHANGED <<visible, disk, lock, check, confirmed, unlisted, offset, revokedAt>>
      BY <2>2 DEF Tick, diskVars, historyVars
    <3>2. time' \in 0..LastTick /\ time <= time'
      BY <2>1, <2>2 DEF Tick
    <3> QED
      BY <2>1, <3>1, <3>2
  <2>3. CASE SetClock
    <3>1. UNCHANGED <<visible, disk, lock, check, confirmed, unlisted, time, revokedAt>>
      BY <2>3 DEF SetClock, diskVars, historyVars
    <3>2. offset' \in Offsets
      BY <2>3 DEF SetClock
    <3> QED
      BY <2>1, <3>1, <3>2
  <2>4. CASE \E c \in Certs : Revoke(c)
    <3>1. PICK c \in Certs : Revoke(c)
      BY <2>4
    <3>2. UNCHANGED <<visible, disk, lock, check, confirmed, unlisted, time, offset>>
      BY <3>1 DEF Revoke, diskVars, historyVars
    <3>3. revokedAt' = [revokedAt EXCEPT ![c] = time] /\ revokedAt[c] = Never
      BY <3>1 DEF Revoke
    <3> QED
      BY <2>1, <3>2, <3>3 DEF Never
  <2> QED
    BY <2>2, <2>3, <2>4 DEF World
<1>2. ASSUME NEW f \in File, FileOK(f)
      PROVE  /\ \A c \in f.revoked : revokedAt'[c] <= time'
             /\ \A c \in DOMAIN f.cache :
                  LET e == f.cache[c] IN
                  /\ e.response.this <= time'
                  /\ e.deadline <= e.response.this + MaxAge
                  /\ e.response.status = "good" => revokedAt'[e.response.cert] >= e.response.this
  <2>1. f.revoked \subseteq Certs /\ DOMAIN f.cache \subseteq Certs
        /\ f.cache \in [DOMAIN f.cache -> Entry]
    BY CachesMember DEF File
  <2>2. \A c \in f.revoked : revokedAt'[c] <= time'
    BY <1>1, <1>2, <2>1, Types, Constants DEF FileOK, Never
  <2>3. ASSUME NEW c \in DOMAIN f.cache
        PROVE  LET e == f.cache[c] IN
               /\ e.response.this <= time'
               /\ e.deadline <= e.response.this + MaxAge
               /\ e.response.status = "good" => revokedAt'[e.response.cert] >= e.response.this
    <3> DEFINE e == f.cache[c]
    <3>1. e.response.cert \in Certs /\ e.response.this \in Int
      BY <2>1 DEF Entry, Response
    <3>2. EntryOK(e)
      BY <1>2 DEF FileOK
    <3> HIDE DEF e
    <3>3. /\ e.response.this <= time'
          /\ e.deadline <= e.response.this + MaxAge
          /\ e.response.status = "good" => revokedAt'[e.response.cert] >= e.response.this
      BY <1>1, <3>1, <3>2, Types, Constants DEF EntryOK, Never
    <3> QED
      BY <3>3 DEF e
  <2> QED
    BY <2>2, <2>3
<1>3. FilesInv'
  BY <1>1, <1>2 DEF IInv, FilesInv, FileOK, EntryOK
<1>4. CheckInv'
  <2>1. ASSUME NEW p \in Checks, check'[p].pc \in Locked
        PROVE  MemoryOK(check[p])'
    <3>1. check[p].mem \in File /\ MemoryOK(check[p])
      BY <1>1, <2>1 DEF IInv, CheckInv, CheckRecord
    <3> QED
      BY <1>1, <1>2, <3>1 DEF MemoryOK, FileOK, EntryOK
  <2> QED
    BY <1>1, <2>1 DEF IInv, CheckInv, VerdictOK
<1>5. TypeOK'
  BY <1>1 DEF IInv, TypeOK, Never
<1> QED
  BY <1>3, <1>4, <1>5 DEF IInv

LEMMA Initially == Init => IInv
<1> SUFFICES ASSUME Init
             PROVE  IInv
  OBVIOUS
<1>1. /\ Idle \in CheckRecord /\ Idle.pc = "idle" /\ Idle.mem = NoFile
      /\ Idle.verdict = "none"
  BY EmptyFiles DEF Idle
<1>2. check = [p \in Checks |-> Idle] /\ visible = EmptyFile /\ disk = EmptyFile
      /\ confirmed = {}
  BY DEF Init
<1>3. CheckInv
  BY <1>1, <1>2 DEF CheckInv, VerdictOK, Locked
<1>4. FilesInv
  BY <1>2, EmptyFiles DEF FilesInv
<1>5. TypeOK
  <2>1. visible.revoked = {} /\ DOMAIN visible.cache = {}
    BY <1>2, EmptyCache DEF EmptyFile
  <2>2. \A p \in Checks : check[p] \in CheckRecord /\ check[p].pc \notin Locked
    BY <1>1, <1>2 DEF Locked
  <2>3. /\ time \in 0..LastTick /\ offset \in Offsets
        /\ revokedAt \in [Certs -> 0..Never]
    BY Constants DEF Init, Never
  <2> QED
    BY <1>2, <2>1, <2>2, <2>3, Constants DEF Init, TypeOK, CheckRecord, Locked
<1> QED
  BY <1>3, <1>4, <1>5 DEF IInv

LEMMA Stuttering == IInv /\ UNCHANGED ocspVars => IInv'
<1> SUFFICES ASSUME IInv, UNCHANGED ocspVars
             PROVE  IInv'
  OBVIOUS
<1>1. UNCHANGED <<time, offset, revokedAt, visible, disk, lock, check, confirmed, unlisted>>
  BY DEF ocspVars, diskVars, historyVars
<1>2. TypeOK'
  BY <1>1 DEF IInv, TypeOK, Never
<1>3. FilesInv'
  BY <1>1 DEF IInv, FilesInv, FileOK, EntryOK
<1>4. CheckInv'
  BY <1>1 DEF IInv, CheckInv, FileOK, EntryOK, MemoryOK, VerdictOK
<1> QED
  BY <1>2, <1>3, <1>4 DEF IInv

LEMMA Inductive == IInv /\ [Next]_ocspVars => IInv'
<1> SUFFICES ASSUME IInv, Next
             PROVE  IInv'
  BY Stuttering
<1>1. ASSUME NEW p \in Checks, Step(p)
      PROVE  IInv'
  BY <1>1, GiveUpStep, AcquireStep, UnansweredStep, AnsweredStep, ReplaceStep, SyncStep,
     RecordStep DEF Step
<1>2. ASSUME NEW p \in Checks, NEW c \in Certs, Begin(p, c)
      PROVE  IInv'
  BY <1>2, BeginStep
<1>3. CASE Fault
  BY <1>3, SaveFailsStep, RecordFailsStep, KillStep, PowerLossStep DEF Fault
<1>4. CASE World
  BY <1>4, WorldStep
<1> QED
  BY <1>1, <1>2, <1>3, <1>4 DEF Next

(* The inductive invariant holds in every behaviour.                        *)
THEOREM Invariance == Spec => []IInv
BY Initially, Inductive, PTL DEF Spec

-----------------------------------------------------------------------------
(* Every variable has its type, and the lock belongs to the check that is   *)
(* between reading the state and having saved it: no exit of a check keeps  *)
(* the lock, and none loses it early.                                       *)
THEOREM TypeCorrect == Spec => []TypeOK
<1>1. IInv => TypeOK
  BY DEF IInv
<1> QED
  BY <1>1, Invariance, PTL

(* The file never holds more responses than cache_entries, whatever the     *)
(* clock does to their deadlines: no save makes the state unusable.         *)
THEOREM CacheAlwaysFits == Spec => []CacheFits
<1>1. IInv => CacheFits
  BY DEF IInv, FilesInv, FileOK, CacheFits
<1> QED
  BY <1>1, Invariance, PTL

(* Only what the CA has revoked is in the journal.                          *)
THEOREM JournalAlwaysTrue == Spec => []JournalIsTrue
<1>1. IInv => JournalIsTrue
  BY DEF IInv, FilesInv, FileOK, JournalIsTrue
<1> QED
  BY <1>1, Invariance, PTL

(* A revocation recorded and reported survives a power loss.                *)
THEOREM ConfirmedAlwaysDurable == Spec => []ConfirmedIsDurable
<1>1. IInv => ConfirmedIsDurable
  BY DEF IInv, FilesInv, ConfirmedIsDurable
<1> QED
  BY <1>1, Invariance, PTL

(* A check that reaches the decision to accept has read a journal with      *)
(* everything that was confirmed, and its certificate is not there.         *)
LEMMA AcceptedUnconfirmed ==
  ASSUME IInv, NEW p \in Checks, Accepts(p)
  PROVE  check[p].cert \notin confirmed
<1>1. /\ check[p].pc = "sync" /\ check[p].verdict \in Accepting
  BY DEF Accepts
<1>2. visible = check[p].mem /\ check[p].cert \notin check[p].mem.revoked
  BY <1>1 DEF IInv, CheckInv, Locked, MemoryOK, VerdictOK
<1> QED
  BY <1>2 DEF IInv, FilesInv

(* No check accepts a certificate after its revocation was confirmed,       *)
(* whatever interleaves with it.                                            *)
THEOREM ConfirmedIsRefused == Spec => RefusedForever
<1>1. IInv /\ [Next]_ocspVars =>
        [\A p \in Checks : Accepts(p) => check[p].cert \notin confirmed]_ocspVars
  BY AcceptedUnconfirmed
<1> QED
  BY <1>1, Invariance, PTL DEF Spec, RefusedForever

(* A verdict that accepts is only ever given by Acquire and by Answered.    *)
LEMMA NewVerdict ==
  ASSUME IInv, Next, NEW p \in Checks,
         check[p].verdict \notin Accepting, check'[p].verdict \in Accepting
  PROVE  Acquire(p) \/ \E r \in Responses : Answered(p, r)
<1>1. check \in [Checks -> CheckRecord] /\ Idle.verdict = "none"
  BY Types DEF Idle
<1>2. ASSUME NEW q \in Checks, Step(q)
      PROVE  Acquire(p) \/ \E r \in Responses : Answered(p, r)
  <2>1. ASSUME q # p
        PROVE  check'[p].verdict = check[p].verdict
    BY <1>1, <1>2, <2>1 DEF Step, GiveUpLock, Acquire, Unanswered, Answered, Replace, Sync,
       Record, Decide, SaveThen
  <2>2. q = p
    BY <2>1
  <2>3. CASE GiveUpLock(p)
    BY <1>1, <2>3 DEF GiveUpLock, Accepting
  <2>4. ASSUME NEW f \in Failures, Unanswered(p, f)
        PROVE  FALSE
    BY <1>1, <2>4, Constants DEF Unanswered, Decide, Accepting
  <2>5. CASE Replace(p) \/ Sync(p)
    BY <1>1, <2>5 DEF Replace, Sync, CheckRecord
  <2>6. CASE Record(p)
    BY <1>1, <2>6 DEF Record, Accepting
  <2> QED
    BY <1>2, <2>2, <2>3, <2>4, <2>5, <2>6 DEF Step
<1>3. ASSUME NEW q \in Checks, NEW c \in Certs, Begin(q, c)
      PROVE  FALSE
  BY <1>1, <1>3 DEF Begin, Idle, Accepting
<1>4. CASE Fault
  BY <1>1, <1>4 DEF Fault, SaveFails, RecordFails, Kill, PowerLoss, Accepting
<1>5. CASE World
  BY <1>5 DEF World, Tick, SetClock, Revoke
<1> QED
  BY <1>2, <1>3, <1>4, <1>5 DEF Next

LEMMA AcquireIsFresh ==
  ASSUME IInv, NEW p \in Checks, Acquire(p), check'[p].verdict \in Accepting
  PROVE  revokedAt[check[p].cert] > Now - MaxAge
<1> DEFINE c == check[p].cert
           e == visible.cache[c]
<1>1. c \in DOMAIN visible.cache /\ Now < e.deadline /\ Validate(e.response, c, Now) = "good"
  <2> DEFINE valid == /\ c \in DOMAIN visible.cache /\ Now < e.deadline
                      /\ Validate(e.response, c, Now) = "good"
             back == Now < visible.clock
  <2>1. check \in [Checks -> CheckRecord]
    BY Types
  <2>2. ASSUME NEW v \in {"revoked", "state"}, Decide(p, v)
        PROVE  FALSE
    BY <2>1, <2>2 DEF Decide, CheckRecord, Accepting
  <2> DEFINE young == c \in DOMAIN visible.cache /\ Now < e.deadline
             pc == IF back \/ valid THEN "save" ELSE "fetch"
             v == IF back THEN "clock" ELSE IF valid THEN "cache" ELSE "none"
             mem == IF back THEN [visible EXCEPT !.cache = <<>>]
                    ELSE IF valid THEN [visible EXCEPT !.clock = Now]
                    ELSE IF young THEN Drop(visible, c)
                    ELSE visible
             k == [check[p] EXCEPT !.pc = pc, !.had = c \in DOMAIN visible.cache,
                                   !.verdict = v, !.mem = mem]
  <2>3. \/ \E w \in {"revoked", "state"} : Decide(p, w)
        \/ check' = [check EXCEPT ![p] = k]
    BY <2>1 DEF Acquire
  <2>4. check' = [check EXCEPT ![p] = k]
    BY <2>2, <2>3
  <2>5. k.verdict = v
    BY <2>1 DEF CheckRecord
  <2> HIDE DEF k
  <2>6. check'[p].verdict = v
    BY <2>1, <2>4, <2>5
  <2> QED
    BY <2>6 DEF Accepting
<1>2. e \in Entry /\ EntryOK(e) /\ c \in Certs
  BY <1>1, CachesMember DEF IInv, FilesInv, FileOK, File
<1> HIDE DEF e
<1>3. e.response \in Response /\ e.deadline \in Int
  BY <1>2 DEF Entry
<1>4. e.response.status = "good" /\ e.response.cert = c /\ e.response.this \in Int
  BY <1>1, <1>3, Validated DEF Response
<1> QED
  BY <1>1, <1>2, <1>3, <1>4, Types, Constants DEF EntryOK, Never

LEMMA AnswerIsFresh ==
  ASSUME IInv, NEW p \in Checks, NEW r \in Responses, Answered(p, r),
         check'[p].verdict \in Accepting
  PROVE  revokedAt[check[p].cert] > Now - MaxAge
<1> DEFINE c == check[p].cert
           v == Validate(r, c, Now)
<1>1. v = "good"
  <2>1. check \in [Checks -> CheckRecord]
    BY Types
  <2>2. r \in Response
    BY SignedResponses
  <2>3. "none" \notin Accepting /\ v # "cache"
    BY <2>2, Constants DEF Validate, Response, Accepting
  <2> HIDE DEF v
  <2>4. v \notin {"good", "revoked"} => check'[p].verdict = v
    BY <2>1 DEF Answered, Decide, CheckRecord, v
  <2>5. v = "revoked" => check'[p].verdict \in {"revoked", "state"}
    BY <2>1 DEF Answered, Decide, SaveThen, CheckRecord, v
  <2> QED
    BY <2>3, <2>4, <2>5 DEF Accepting
<1>2. r \in Response /\ r.flaw = "none" /\ r.cert = c /\ r.status = "good" /\ Timely(r, Now)
  BY <1>1, SignedResponses, Validated
<1>3. revokedAt[c] > r.this /\ Now - r.this <= MaxAge /\ c \in Certs /\ r.this \in Int
  BY <1>2, SignedResponses DEF Timely, Fresh, Response
<1> QED
  BY <1>3, Types, Constants DEF Never

(* Whoever is accepted was not yet revoked max_age_seconds before, by the   *)
(* local clock, for any clock and any responder that signs what is true.    *)
THEOREM AcceptanceIsFresh == Spec => BoundedStaleness
<1> DEFINE A == \A p \in Checks :
                  /\ check[p].verdict \notin Accepting
                  /\ check'[p].verdict \in Accepting
                  => revokedAt[check[p].cert] > Now - MaxAge
<1>1. IInv /\ [Next]_ocspVars => [A]_ocspVars
  BY NewVerdict, AcquireIsFresh, AnswerIsFresh
<1> QED
  BY <1>1, Invariance, PTL DEF Spec, BoundedStaleness
=============================================================================
