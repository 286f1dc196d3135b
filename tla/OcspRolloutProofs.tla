------------------------- MODULE OcspRolloutProofs -------------------------
(***************************************************************************)
(* Safety of OcspRollout for any images, issuers, settings and            *)
(* certificates, and for runs that end at any task.                        *)
(***************************************************************************)
EXTENDS OcspRollout, TLAPS

FilesRecord == [policy : Settings \union {None}, issuer : Issuers \union {None},
                trust : Trusts \union {None}]

RunRecord == [at : 0..9, image : Images \union {None}, issuer : Issuers \union {None},
              trust : Trusts \union {None}, settings : Settings \union {None},
              changed : BOOLEAN]

RolloutTypeOK ==
  /\ files \in [Collectors -> FilesRecord]
  /\ journal \in [Collectors -> (SUBSET Certs) \union {None}]
  /\ ever \in [Collectors -> SUBSET Certs]
  /\ run \in RunRecord
  /\ run # NoRun => run.at # 0 /\ run.settings # None

(* The run under way is past this task.                                     *)
Done(task, k) ==
  run # NoRun /\ \E j \in 1..(run.at - 1) : Playbook[j] = Step(task, k)

(* What only a host with the marker has: the other policy, Compose that     *)
(* protects, revocations; and its collectors agree on the issuer.           *)
MarkerInv ==
  /\ files["ap"].policy # None => Marker
  /\ \A k \in Collectors : Protects(compose[k]) \/ ever[k] # {} => Marker
  /\ Marker => files["ap"].issuer = files["unpoller"].issuer

(* What a run has established by the tasks it is past.                      *)
RunInv ==
  /\ run # NoRun => PolicyFilter(run.settings)
  /\ Done("guard", "both") => Guarded
  /\ \A k \in Collectors : /\ Done("journal", k) => journal[k] # None
                           /\ Done("trust", k) => files[k].issuer = run.issuer
  /\ Done("policy", "unpoller") => Marker

IInv == RolloutTypeOK /\ MarkerInv /\ RunInv /\ HistoryKept

-----------------------------------------------------------------------------
(* Facts about the playbook and the filters.                                *)

LEMMA PlaybookOrder ==
  \A n \in 1..9 :
    /\ Playbook[n] = Step("guard", "both") <=> n = 1
    /\ Playbook[n] = Step("journal", "unpoller") <=> n = 2
    /\ Playbook[n] = Step("journal", "ap") <=> n = 3
    /\ Playbook[n] = Step("trust", "unpoller") <=> n = 4
    /\ Playbook[n] = Step("trust", "ap") <=> n = 5
    /\ Playbook[n] = Step("policy", "unpoller") <=> n = 6
    /\ Playbook[n] = Step("policy", "ap") <=> n = 7
    /\ Playbook[n] = Step("install", "both") <=> n = 8
    /\ Playbook[n] = Step("apply", "both") <=> n = 9
<1>1. \A n \in 1..9 : n = 1 \/ n = 2 \/ n = 3 \/ n = 4 \/ n = 5 \/ n = 6 \/ n = 7 \/ n = 8 \/ n = 9
  OBVIOUS
<1> QED
  BY <1>1 DEF Playbook, Step

(* The verifier accepts every policy the inventory filter lets through.     *)
LEMMA FilterImpliesRuntime ==
  ASSUME NEW s, PolicyFilter(s)
  PROVE  RuntimePolicy(s)
<1>1. /\ Options(s) /\ s.timeout \in 1..5 /\ s.limit \in 1..Response
      /\ s.entries \in 1..128 /\ s.skew \in 0..120
      /\ s.ttl \in 1..300 /\ s.ttl <= s.age
  BY DEF PolicyFilter
<1> Hour \in Int /\ Day \in Int
  BY DEF Hour, Day
<1> Response \in Int
  BY DEF Response
<1>2. s.age \in 1..Hour \/ s.age \in (Hour + 1)..Day
  BY <1>1 DEF Options
<1>3. RuntimeOptions(s)
  <2>1. CASE s.profile = "strict" /\ ~s.accepted /\ s.age \in 1..Hour
    <3>1. 1 <= s.age /\ s.age <= Hour
      BY <2>1
    <3> QED
      BY <1>1, <2>1, <3>1, Zenon DEF Options, RuntimeOptions
  <2>2. CASE s.profile = "bounded-24h" /\ s.accepted /\ s.given /\ s.age \in (Hour + 1)..Day
    <3>1. Hour < s.age /\ s.age <= Day /\ s.profile # "strict"
      BY <2>2
    <3> QED
      BY <1>1, <2>2, <3>1, Zenon DEF Options, RuntimeOptions
  <2> QED
    BY <1>1, <2>1, <2>2 DEF Options
<1>4. /\ 0 < s.timeout /\ s.timeout <= 10 /\ 0 < s.limit /\ s.limit <= Response
      /\ 0 < s.entries /\ s.entries <= 128 /\ 0 <= s.skew /\ s.skew <= 120
      /\ 0 < s.ttl /\ s.ttl <= s.age /\ s.ttl <= 300
  BY <1>1
<1> QED
  BY <1>3, <1>4 DEF RuntimePolicy

(* A run that goes on is past what it was past, and past the task it did.   *)
LEMMA Advanced ==
  ASSUME RolloutTypeOK, run # NoRun, run.at # 9, NEW c \in BOOLEAN, Advance(c)
  PROVE  /\ run' \in RunRecord /\ run' # NoRun /\ run'.at = run.at + 1
         /\ run'.issuer = run.issuer /\ run'.settings = run.settings
         /\ \A t, k : Done(t, k)' <=> Done(t, k) \/ At(t, k)
<1>1. run \in RunRecord /\ run.at \in 1..8 /\ run.changed \in BOOLEAN
  BY DEF RolloutTypeOK, RunRecord
<1> DEFINE changed == run.changed \/ c
<1>2. changed \in BOOLEAN
  BY <1>1
<1>3. run' = [run EXCEPT !.at = run.at + 1, !.changed = changed]
  BY <1>1 DEF Advance, RunRecord
<1> HIDE DEF changed
<1>4. /\ run' \in RunRecord /\ run'.at = run.at + 1
      /\ run'.issuer = run.issuer /\ run'.settings = run.settings
  <2> DEFINE n == run.at + 1
  <2>1. n \in 0..9
    BY <1>1
  <2> HIDE DEF n
  <2>2. run' = [run EXCEPT !.at = n, !.changed = changed]
    BY <1>3 DEF n
  <2>3. run' \in RunRecord
    BY <1>1, <1>2, <2>1, <2>2 DEF RunRecord
  <2>4. run'.at = n /\ run'.issuer = run.issuer /\ run'.settings = run.settings
    BY <1>1, <2>2 DEF RunRecord
  <2> QED
    BY <2>3, <2>4 DEF n
<1>5. run' # NoRun
  BY <1>1, <1>4 DEF NoRun
<1>6. \A j : j \in 1..(run'.at - 1) <=> j \in 1..(run.at - 1) \/ j = run.at
  BY <1>1, <1>4
<1>7. \A t, k : Done(t, k)' <=> Done(t, k) \/ At(t, k)
  BY <1>5, <1>6 DEF Done, At
<1> QED
  BY <1>4, <1>5, <1>7

(* What a run is past when it is at a task.                                 *)
LEMMA Past ==
  ASSUME RolloutTypeOK, NEW t, NEW k, At(t, k)
  PROVE  /\ run # NoRun /\ (t # "apply" => run.at # 9)
         /\ t \in {"journal", "trust", "policy"} => Done("guard", "both")
         /\ t = "policy" => \A j \in Collectors : Done("journal", j) /\ Done("trust", j)
         /\ <<t, k>> = <<"policy", "ap">> \/ t = "install" => Done("policy", "unpoller")
<1>1. run # NoRun /\ run.at \in 1..9 /\ Playbook[run.at] = Step(t, k)
  BY DEF At, RolloutTypeOK, RunRecord
<1> DEFINE n == run.at
<1>2. /\ t # "apply" => n # 9
      /\ t # "guard" => n # 1
      /\ t = "policy" => n \notin 1..5
      /\ <<t, k>> = <<"policy", "ap">> \/ t = "install" => n \notin 1..6
  BY <1>1 DEF Playbook, Step
<1>3. \A j \in 1..9 : j < n => j \in 1..(n - 1)
  BY <1>1
<1> HIDE DEF n
<1>4. n # 1 => Done("guard", "both")
  BY <1>1, <1>3, PlaybookOrder DEF Done, n
<1>5. n \notin 1..5 => \A j \in Collectors : Done("journal", j) /\ Done("trust", j)
  <2> SUFFICES ASSUME n \notin 1..5
               PROVE  \A j \in Collectors : Done("journal", j) /\ Done("trust", j)
    OBVIOUS
  <2>1. 2 \in 1..(n - 1) /\ 3 \in 1..(n - 1) /\ 4 \in 1..(n - 1) /\ 5 \in 1..(n - 1)
    BY <1>1 DEF n
  <2> QED
    BY <1>1, <2>1, PlaybookOrder DEF Done, n, Collectors
<1>6. n \notin 1..6 => Done("policy", "unpoller")
  <2> SUFFICES ASSUME n \notin 1..6
               PROVE  Done("policy", "unpoller")
    OBVIOUS
  <2>1. 6 \in 1..(n - 1)
    BY <1>1 DEF n
  <2> QED
    BY <1>1, <2>1, PlaybookOrder DEF Done, n
<1> QED
  BY <1>1, <1>2, <1>4, <1>5, <1>6 DEF n

-----------------------------------------------------------------------------
(* Every action preserves the invariant.                                    *)

(* A task of a run that does not end it.                                    *)
LEMMA TaskMoves ==
  ASSUME IInv, NEW t, NEW k, At(t, k), t # "apply", NEW c \in BOOLEAN, Advance(c),
         files' \in [Collectors -> FilesRecord],
         journal' \in [Collectors -> (SUBSET Certs) \union {None}], ever' = ever
  PROVE  /\ RolloutTypeOK'
         /\ run'.issuer = run.issuer /\ run'.settings = run.settings
         /\ PolicyFilter(run'.settings)
         /\ \A u, j : Done(u, j)' <=> Done(u, j) \/ <<u, j>> = <<t, k>>
<1>1. run # NoRun /\ run.at # 9 /\ run.at # 0 /\ run.at \in 0..9 /\ run.settings # None
  BY Past DEF IInv, RolloutTypeOK, RunRecord
<1>2. /\ run' \in RunRecord /\ run' # NoRun /\ run'.at = run.at + 1
      /\ run'.issuer = run.issuer /\ run'.settings = run.settings
      /\ \A u, j : Done(u, j)' <=> Done(u, j) \/ At(u, j)
  BY <1>1, Advanced DEF IInv
<1>3. \A u, j : At(u, j) <=> <<u, j>> = <<t, k>>
  BY DEF At, Step
<1>4. RolloutTypeOK'
  BY <1>1, <1>2 DEF RolloutTypeOK, IInv
<1> QED
  BY <1>1, <1>2, <1>3, <1>4 DEF IInv, RunInv

LEMMA GuardStep ==
  ASSUME IInv, Guard
  PROVE  IInv'
<1>1. /\ At("guard", "both") /\ Guarded /\ Advance(FALSE)
      /\ UNCHANGED <<compose, files, journal, ever>>
  BY DEF Guard
<1>2. /\ RolloutTypeOK' /\ PolicyFilter(run'.settings) /\ run'.issuer = run.issuer
      /\ \A u, j : Done(u, j)' <=> Done(u, j) \/ <<u, j>> = <<"guard", "both">>
  BY <1>1, TaskMoves DEF IInv, RolloutTypeOK
<1>3. RunInv'
  BY <1>1, <1>2 DEF IInv, RunInv, Guarded, Marker
<1> QED
  BY <1>1, <1>2, <1>3 DEF IInv, MarkerInv, Marker, HistoryKept, Protects

LEMMA InitJournalStep ==
  ASSUME IInv, NEW k \in Collectors, InitJournal(k)
  PROVE  IInv'
<1>1. /\ At("journal", k) /\ Advance(FALSE) /\ UNCHANGED <<compose, files, ever>>
      /\ journal' = IF journal[k] = None THEN [journal EXCEPT ![k] = {}] ELSE journal
  BY DEF InitJournal
<1>2. Done("guard", "both") /\ Guarded
  BY <1>1, Past DEF IInv, RunInv
<1>3. {} # None
  BY RolloutAssumption
<1>4. /\ journal' \in [Collectors -> (SUBSET Certs) \union {None}]
      /\ journal'[k] # None
      /\ \A j \in Collectors : journal'[j] # journal[j] => j = k /\ journal[j] = None
      /\ \A j \in Collectors : journal[j] # None => journal'[j] = journal[j]
  BY <1>1, <1>3 DEF IInv, RolloutTypeOK
<1>5. /\ RolloutTypeOK' /\ PolicyFilter(run'.settings) /\ run'.issuer = run.issuer
      /\ \A u, j : Done(u, j)' <=> Done(u, j) \/ <<u, j>> = <<"journal", k>>
  BY <1>1, <1>4, TaskMoves DEF IInv, RolloutTypeOK
<1>6. RunInv'
  BY <1>1, <1>2, <1>4, <1>5 DEF IInv, RunInv, Guarded, Marker
<1>7. HistoryKept'
  <2> SUFFICES ASSUME NEW j \in Collectors, journal'[j] # None
               PROVE  ever[j] \subseteq journal'[j]
    BY <1>1 DEF HistoryKept
  <2>1. CASE journal[j] # None
    BY <2>1, <1>4 DEF IInv, HistoryKept
  <2>2. CASE journal[j] = None
    BY <2>2, <1>2 DEF IInv, MarkerInv, Guarded
  <2> QED
    BY <2>1, <2>2
<1> QED
  BY <1>1, <1>5, <1>6, <1>7 DEF IInv, MarkerInv, Marker, Protects

LEMMA WriteTrustStep ==
  ASSUME IInv, NEW k \in Collectors, WriteTrust(k)
  PROVE  IInv'
<1> DEFINE c == files' # files
<1>1. /\ At("trust", k) /\ Advance(c) /\ c \in BOOLEAN /\ UNCHANGED <<compose, journal, ever>>
      /\ files' = [files EXCEPT ![k].issuer = run.issuer, ![k].trust = run.trust]
  BY DEF WriteTrust
<1> HIDE DEF c
<1>2. Done("guard", "both") /\ Guarded
  BY <1>1, Past DEF IInv, RunInv
<1>3. /\ files' \in [Collectors -> FilesRecord]
      /\ files'[k].issuer = run.issuer
      /\ \A j \in Collectors : files'[j].policy = files[j].policy
      /\ \A j \in Collectors \ {k} : files'[j] = files[j]
  <2>1. run.issuer \in Issuers \union {None} /\ run.trust \in Trusts \union {None}
    BY DEF IInv, RolloutTypeOK, RunRecord
  <2>2. files[k] \in FilesRecord /\ files \in [Collectors -> FilesRecord]
    BY DEF IInv, RolloutTypeOK
  <2> DEFINE f == [files[k] EXCEPT !.issuer = run.issuer, !.trust = run.trust]
  <2>3. f \in FilesRecord /\ f.issuer = run.issuer /\ f.policy = files[k].policy
    BY <2>1, <2>2 DEF FilesRecord
  <2>4. files' = [files EXCEPT ![k] = f]
    BY <1>1, <2>2
  <2> HIDE DEF f
  <2> QED
    BY <2>2, <2>3, <2>4
<1>4. /\ RolloutTypeOK' /\ PolicyFilter(run'.settings) /\ run'.issuer = run.issuer
      /\ \A u, j : Done(u, j)' <=> Done(u, j) \/ <<u, j>> = <<"trust", k>>
  BY <1>1, <1>3, TaskMoves DEF IInv, RolloutTypeOK
<1>5. Marker' = Marker
  BY <1>3 DEF Marker, Collectors
<1>6. MarkerInv'
  <2>1. Marker => \A j \in Collectors : files[j].issuer = run.issuer
    BY <1>2 DEF IInv, MarkerInv, Guarded, Collectors
  <2>2. Marker => \A j \in Collectors : files'[j].issuer = run.issuer
    BY <1>3, <2>1
  <2> QED
    BY <1>1, <1>3, <1>5, <2>2 DEF IInv, MarkerInv, Collectors, Protects
<1>7. RunInv'
  <2>1. Guarded'
    BY <1>1, <1>2, <1>3, <1>4, <1>5 DEF Guarded, Collectors
  <2> QED
    BY <1>1, <1>3, <1>4, <1>5, <2>1 DEF IInv, RunInv
<1> QED
  BY <1>1, <1>4, <1>6, <1>7 DEF IInv, HistoryKept

LEMMA WritePolicyStep ==
  ASSUME IInv, NEW k \in Collectors, WritePolicy(k)
  PROVE  IInv' /\ PolicyFilter(run.settings)
                /\ \A j \in Collectors : files'[j].policy \in {files[j].policy, run.settings}
<1> DEFINE c == files' # files
<1>1. /\ At("policy", k) /\ Advance(c) /\ c \in BOOLEAN /\ UNCHANGED <<compose, journal, ever>>
      /\ files' = [files EXCEPT ![k].policy = run.settings]
  BY DEF WritePolicy
<1> HIDE DEF c
<1>2. /\ \A j \in Collectors : journal[j] # None /\ files[j].issuer = run.issuer
      /\ k = "ap" => Marker
      /\ run # NoRun
  BY <1>1, Past DEF IInv, RunInv
<1>3. /\ files' \in [Collectors -> FilesRecord]
      /\ files'[k].policy = run.settings
      /\ \A j \in Collectors : files'[j].issuer = files[j].issuer
      /\ \A j \in Collectors \ {k} : files'[j] = files[j]
  <2>1. run.settings \in Settings \union {None}
    BY DEF IInv, RolloutTypeOK, RunRecord
  <2>2. files[k] \in FilesRecord /\ files \in [Collectors -> FilesRecord]
    BY DEF IInv, RolloutTypeOK
  <2> DEFINE f == [files[k] EXCEPT !.policy = run.settings]
  <2>3. f \in FilesRecord /\ f.policy = run.settings /\ f.issuer = files[k].issuer
    BY <2>1, <2>2 DEF FilesRecord
  <2>4. files' = [files EXCEPT ![k] = f]
    BY <1>1, <2>2
  <2> HIDE DEF f
  <2> QED
    BY <2>2, <2>3, <2>4
<1>4. /\ RolloutTypeOK' /\ PolicyFilter(run'.settings) /\ run'.issuer = run.issuer
      /\ run'.settings = run.settings
      /\ \A u, j : Done(u, j)' <=> Done(u, j) \/ <<u, j>> = <<"policy", k>>
  BY <1>1, <1>3, TaskMoves DEF IInv, RolloutTypeOK
<1>5. Marker'
  <2>1. run.settings # None
    BY <1>2 DEF IInv, RolloutTypeOK
  <2> QED
    BY <1>2, <1>3, <2>1 DEF Marker, Collectors
<1>6. MarkerInv'
  BY <1>2, <1>3, <1>5 DEF MarkerInv, Collectors
<1>7. RunInv'
  BY <1>1, <1>2, <1>3, <1>4, <1>5 DEF RunInv, Guarded, Collectors
<1>8. \A j \in Collectors : files'[j].policy \in {files[j].policy, run.settings}
  BY <1>3
<1> QED
  BY <1>1, <1>4, <1>6, <1>7, <1>8 DEF IInv, HistoryKept

LEMMA InstallStep ==
  ASSUME IInv, Install
  PROVE  IInv'
<1>1. /\ At("install", "both") /\ Advance(FALSE) /\ UNCHANGED <<files, journal, ever>>
  BY DEF Install
<1>2. Marker
  BY <1>1, Past DEF IInv, RunInv
<1>3. /\ RolloutTypeOK' /\ PolicyFilter(run'.settings) /\ run'.issuer = run.issuer
      /\ \A u, j : Done(u, j)' <=> Done(u, j) \/ <<u, j>> = <<"install", "both">>
  BY <1>1, TaskMoves DEF IInv, RolloutTypeOK
<1>4. RunInv'
  BY <1>1, <1>3 DEF IInv, RunInv, Guarded, Marker
<1>5. MarkerInv'
  BY <1>1, <1>2 DEF IInv, MarkerInv, Marker
<1> QED
  BY <1>1, <1>3, <1>4, <1>5 DEF IInv, HistoryKept

(* A run begins.                                                            *)
LEMMA ReviewStep ==
  ASSUME IInv, NEW image \in Enforcing, NEW previous \in Images, NEW i \in Issuers,
         NEW t \in Trusts, NEW s \in Settings, Review(image, previous, i, t, s)
  PROVE  IInv'
<1>1. /\ PolicyFilter(s) /\ UNCHANGED <<compose, files, journal, ever>>
      /\ run' = [NoRun EXCEPT !.at = 1, !.image = image, !.issuer = i, !.trust = t,
                              !.settings = s]
  BY DEF Review
<1>2. NoRun \in RunRecord /\ image \in Images
  BY RolloutAssumption DEF NoRun, RunRecord
<1>3. run' \in RunRecord /\ run'.at = 1 /\ run'.settings = s
  <2>1. 1 \in 0..9
    OBVIOUS
  <2>2. run' = [at |-> 1, image |-> image, issuer |-> i, trust |-> t, settings |-> s,
                changed |-> FALSE]
    BY <1>1 DEF NoRun
  <2> QED
    BY <1>2, <2>1, <2>2 DEF RunRecord
<1>4. s # None
  BY RolloutAssumption
<1>5. RolloutTypeOK'
  BY <1>1, <1>3, <1>4 DEF IInv, RolloutTypeOK
<1>6. \A u, j : ~ Done(u, j)'
  BY <1>3 DEF Done
<1> QED
  BY <1>1, <1>3, <1>5, <1>6 DEF IInv, RunInv, MarkerInv, Marker, HistoryKept, Protects

(* A run ends, or there is none.                                            *)
LEMMA RestMoves ==
  ASSUME IInv, run' = NoRun, files' = files, ever' = ever,
         journal' \in [Collectors -> (SUBSET Certs) \union {None}],
         \A k \in Collectors : journal'[k] \in {journal[k], None},
         \A k \in Collectors : Protects(compose'[k]) => Protects(compose[k])
  PROVE  IInv'
<1>1. NoRun \in RunRecord
  BY DEF NoRun, RunRecord
<1>2. RolloutTypeOK'
  BY <1>1 DEF IInv, RolloutTypeOK
<1>3. MarkerInv'
  BY DEF IInv, MarkerInv, Marker, Protects
<1>4. RunInv'
  BY DEF RunInv, Done
<1> QED
  BY <1>2, <1>3, <1>4 DEF IInv, HistoryKept

LEMMA EndStep ==
  ASSUME IInv, Apply \/ Fail \/ Provision \/ \E k \in Collectors : Lose(k)
  PROVE  IInv'
<1>1. CASE Apply \/ Fail
  BY <1>1, RestMoves DEF Apply, Fail, IInv, RolloutTypeOK
<1>2. CASE Provision
  <2>1. \A k \in Collectors : ~ Protects(compose'[k])
    BY <1>2 DEF Provision, Stock, Service, NoService, Protects, Collectors
  <2> QED
    BY <1>2, <2>1, RestMoves DEF Provision, IInv, RolloutTypeOK
<1>3. ASSUME NEW k \in Collectors, Lose(k)
      PROVE  IInv'
  <2>1. UNCHANGED <<compose, files, run, ever>> /\ run = NoRun
        /\ journal' = [journal EXCEPT ![k] = None]
    BY <1>3 DEF Lose
  <2>2. /\ journal' \in [Collectors -> (SUBSET Certs) \union {None}]
        /\ \A j \in Collectors : journal'[j] \in {journal[j], None}
    BY <2>1 DEF IInv, RolloutTypeOK
  <2> QED
    BY <2>1, <2>2, RestMoves
<1> QED
  BY <1>1, <1>2, <1>3

(* A revocation is recorded, at any point of a run.                         *)
LEMMA LearnStep ==
  ASSUME IInv, NEW k \in Collectors, NEW c \in Certs, Learn(k, c)
  PROVE  IInv'
<1>1. /\ journal[k] # None /\ files[k].policy # None
      /\ journal' = [journal EXCEPT ![k] = journal[k] \union {c}]
      /\ ever' = [ever EXCEPT ![k] = ever[k] \union {c}]
      /\ UNCHANGED <<compose, files, run>>
  BY DEF Learn, IInv, RolloutTypeOK
<1>2. Marker
  BY <1>1 DEF IInv, MarkerInv, Marker, Collectors
<1>3. /\ journal[k] \union {c} \in SUBSET Certs /\ journal[k] \union {c} # None
      /\ ever[k] \union {c} \in SUBSET Certs
  BY <1>1, RolloutAssumption DEF IInv, RolloutTypeOK
<1>4. /\ journal' \in [Collectors -> (SUBSET Certs) \union {None}]
      /\ ever' \in [Collectors -> SUBSET Certs]
      /\ \A j \in Collectors : journal[j] # None => journal'[j] # None
  BY <1>1, <1>3 DEF IInv, RolloutTypeOK
<1>5. RolloutTypeOK'
  BY <1>1, <1>4 DEF IInv, RolloutTypeOK
<1>6. MarkerInv'
  BY <1>1, <1>2 DEF IInv, MarkerInv, Marker
<1>7. RunInv'
  BY <1>1, <1>4 DEF IInv, RunInv, Guarded, Marker, Done
<1>8. HistoryKept'
  <2> SUFFICES ASSUME NEW j \in Collectors, journal'[j] # None
               PROVE  ever'[j] \subseteq journal'[j]
    BY DEF HistoryKept
  <2>1. CASE j = k
    BY <1>1, <2>1 DEF IInv, RolloutTypeOK, HistoryKept
  <2>2. CASE j # k
    BY <1>1, <2>2 DEF IInv, RolloutTypeOK, HistoryKept
  <2> QED
    BY <2>1, <2>2
<1> QED
  BY <1>5, <1>6, <1>7, <1>8 DEF IInv

LEMMA NextStep == IInv /\ [Next]_vars => IInv'
<1> SUFFICES ASSUME IInv, [Next]_vars
             PROVE  IInv'
  OBVIOUS
<1>1. CASE UNCHANGED vars
  BY <1>1 DEF vars, IInv, RolloutTypeOK, MarkerInv, RunInv, Marker, Guarded, Done, HistoryKept, Protects
<1> QED
  BY <1>1, GuardStep, InitJournalStep, WriteTrustStep, WritePolicyStep, InstallStep,
     ReviewStep, EndStep, LearnStep DEF Next, Task

LEMMA InitHolds == Init => IInv
<1> SUFFICES ASSUME Init
             PROVE  IInv
  OBVIOUS
<1>1. run = NoRun /\ NoRun \in RunRecord /\ ever = [k \in Collectors |-> {}]
  BY DEF Init, NoRun, RunRecord
<1>2. CASE Fresh
  <2>1. files = [k \in Collectors |-> NoFiles] /\ NoFiles \in FilesRecord /\ NoFiles.policy = None
    BY <1>2 DEF Fresh, NoFiles, FilesRecord
  <2>2. journal = [k \in Collectors |-> None]
    BY <1>2 DEF Fresh
  <2>3. \A k \in Collectors : ~ Protects(compose[k])
    <3> DEFINE off == [k \in Collectors |-> Service(StockImage, "custom")]
    <3>1. CASE compose = Stock
      BY <3>1 DEF Stock, Service, NoService, Protects, Collectors
    <3>2. CASE compose = [Stock EXCEPT !["ap"] = Service(StockImage, "custom")]
      BY <3>2 DEF Stock, Service, NoService, Protects, Collectors
    <3>3. CASE compose = [Stock EXCEPT !["unpoller"].form = "custom"]
      BY <3>3 DEF Stock, Service, NoService, Protects, Collectors
    <3> QED
      BY <1>2, <3>1, <3>2, <3>3 DEF Fresh
  <2> QED
    BY <1>1, <2>1, <2>2, <2>3 DEF IInv, RolloutTypeOK, MarkerInv, RunInv, Done, Marker,
       HistoryKept, Collectors
<1>3. CASE Former
  <2>1. PICK i \in Issuers, t \in Trusts :
          files = [k \in Collectors |-> [policy |-> OldSettings, issuer |-> i, trust |-> t]]
    BY <1>3 DEF Former
  <2>2. journal = [k \in Collectors |-> {}] /\ OldSettings \in Settings
    BY <1>3, RolloutAssumption DEF Former
  <2>3. files \in [Collectors -> FilesRecord]
    BY <2>1, <2>2 DEF FilesRecord
  <2>4. Marker /\ files["ap"].issuer = files["unpoller"].issuer
    BY <2>1, <2>2, RolloutAssumption DEF Marker, Collectors
  <2> QED
    BY <1>1, <2>2, <2>3, <2>4 DEF IInv, RolloutTypeOK, MarkerInv, RunInv, Done,
       HistoryKept, Collectors
<1> QED
  BY <1>2, <1>3 DEF Init

-----------------------------------------------------------------------------
(* The inductive invariant holds in every behaviour.                        *)
THEOREM RolloutInvariance == Spec => []IInv
BY InitHolds, NextStep, PTL DEF Spec

(* No run of the playbook replaces a history of revocations by an empty one.*)
THEOREM HistoryAlwaysKept == Spec => []HistoryKept
<1>1. IInv => HistoryKept
  BY DEF IInv
<1> QED
  BY <1>1, RolloutInvariance, PTL

(* No step takes the protection out of an installed collector.              *)
THEOREM ProtectionAlwaysStays == Spec => ProtectionStays
<1>1. ASSUME IInv, [Next]_vars
      PROVE  [\A k \in Collectors : Protects(compose[k]) => Protects(compose'[k])]_vars
  <2>1. CASE Provision
    BY <1>1, <2>1 DEF Provision, MayProvision, IInv, MarkerInv
  <2>2. CASE Install
    BY <2>2 DEF Install, Patched, Service, Protects, Collectors
  <2>3. CASE compose' = compose
    BY <2>3
  <2>4. CASE UNCHANGED vars
    BY <2>4
  <2> QED
    BY <1>1, <2>1, <2>2, <2>3, <2>4 DEF Next, Task, Review, Guard, InitJournal, WriteTrust,
       WritePolicy, Apply, Fail, Learn, Lose
<1> QED
  BY <1>1, RolloutInvariance, PTL DEF Spec, ProtectionStays

(* The issuer stays once revocations have been learned under it.            *)
THEOREM IssuerAlwaysStays == Spec => IssuerStays
<1>1. ASSUME IInv, [Next]_vars
      PROVE  [\A k \in Collectors : ever[k] # {} => files'[k].issuer = files[k].issuer]_vars
  <2>1. ASSUME NEW k \in Collectors, WriteTrust(k), NEW j \in Collectors, ever[j] # {}
        PROVE  files'[j].issuer = files[j].issuer
    <3>1. Done("guard", "both") /\ Guarded /\ Marker
      BY <1>1, <2>1, Past DEF WriteTrust, IInv, RunInv, MarkerInv
    <3>2. files[j].issuer = run.issuer
      BY <1>1, <3>1 DEF IInv, MarkerInv, Guarded, Collectors
    <3>3. files'[j].issuer = run.issuer \/ files'[j] = files[j]
      BY <1>1, <2>1 DEF WriteTrust, IInv, RolloutTypeOK, FilesRecord
    <3> QED
      BY <3>2, <3>3
  <2>2. ASSUME NEW k \in Collectors, WritePolicy(k), NEW j \in Collectors
        PROVE  files'[j].issuer = files[j].issuer
    BY <1>1, <2>2 DEF WritePolicy, IInv, RolloutTypeOK, FilesRecord
  <2>3. CASE files' = files
    BY <2>3
  <2>4. CASE UNCHANGED vars
    BY <2>4
  <2> QED
    BY <1>1, <2>1, <2>2, <2>3, <2>4 DEF Next, Task, Review, Guard, InitJournal, Install,
       Apply, Fail, Provision, Learn, Lose
<1> QED
  BY <1>1, RolloutInvariance, PTL DEF Spec, IssuerStays

(* The verifier accepts every policy file that the role installs, if it did *)
(* accept what a former role may have left.                                 *)
THEOREM RuntimeAlwaysAccepts ==
  ASSUME RuntimePolicy(OldSettings)
  PROVE  Spec => []RuntimeAccepts
<1>1. Init => RuntimeAccepts
  BY DEF Init, Fresh, Former, NoFiles, RuntimeAccepts
<1>2. ASSUME IInv, RuntimeAccepts, [Next]_vars
      PROVE  RuntimeAccepts'
  <2>1. ASSUME NEW k \in Collectors, WritePolicy(k)
        PROVE  RuntimeAccepts'
    BY <1>2, <2>1, WritePolicyStep, FilterImpliesRuntime DEF RuntimeAccepts
  <2>2. ASSUME NEW k \in Collectors, WriteTrust(k)
        PROVE  \A j \in Collectors : files'[j].policy = files[j].policy
    BY <1>2, <2>2 DEF WriteTrust, IInv, RolloutTypeOK, FilesRecord
  <2>3. CASE \A j \in Collectors : files'[j].policy = files[j].policy
    BY <1>2, <2>3 DEF RuntimeAccepts
  <2>4. CASE files' = files
    BY <2>3, <2>4
  <2>5. CASE UNCHANGED vars
    BY <2>4, <2>5 DEF vars
  <2> QED
    BY <1>2, <2>1, <2>2, <2>3, <2>4, <2>5 DEF Next, Task, Review, Guard, InitJournal, Install,
       Apply, Fail, Provision, Learn, Lose
<1> QED
  BY <1>1, <1>2, RolloutInvariance, PTL DEF Spec
=============================================================================
