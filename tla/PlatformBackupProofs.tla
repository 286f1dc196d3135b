------------------------ MODULE PlatformBackupProofs ------------------------
(***************************************************************************)
(* Safety of PlatformBackup for any number of backups and any faults: that *)
(* a service comes back for any number of scripts at once, that backups    *)
(* are whole for one at a time.                                            *)
(***************************************************************************)
EXTENDS PlatformBackup, TLAPS

(* The commands before the trap is set and after it is removed.             *)
Untrapped == {"mkdir", "inspect", "trap", "report", "prune"}

(* The commands between making the service quiet and letting it go.         *)
Holding(s) ==
  CASE s = "glpi" -> {"flag", "database", "files", "meta", "sums", "resume"}
    [] s = "observability" -> {"database", "files", "resume"}
    [] OTHER -> {}

ScriptRecord == [at : Nat, trap : BOOLEAN, flag : BOOLEAN]
StagingRecord == [made : BOOLEAN, parts : SUBSET Parts, quiet : BOOLEAN]

BackupTypeOK ==
  /\ service \in Services /\ active \in BOOLEAN
  /\ script \in [Processes -> ScriptRecord]
  /\ staging \in [Processes -> StagingRecord]

(* What a script has captured at the command it is at.                      *)
CapturedBefore(s, k) == {c \in Parts : \E j \in 1..(k - 1) : Program(s)[j] = c}

(* A script at work has its trap set exactly from the one command to the    *)
(* other, and, until a cleanup has removed it, a staging directory with     *)
(* what it has captured so far.                                             *)
ScriptOK(p) ==
  ~ Idle(p) =>
    /\ script[p].at \in 1..Len(Program(service))
    /\ script[p].trap <=> Current(p) \notin Untrapped
    /\ Current(p) = "mkdir" => staging[p] = NoStaging
    /\ staging[p].made => staging[p].parts = CapturedBefore(service, script[p].at)

ScriptInv == \A p \in Processes : ScriptOK(p)

(* A script that will let the service go.                                   *)
Responsible(p) ==
  /\ ~ Idle(p) /\ Current(p) \in Holding(service)
  /\ service = "observability" \/ script[p].flag \/ Current(p) = "flag"

ResponsibleInv ==
  ~ active /\ abandoned = "no" => \E p \in Processes : Responsible(p)

IInv == BackupTypeOK /\ ScriptInv /\ ResponsibleInv

(* One script at a time, or services that are not made quiet: no script     *)
(* takes the service out of another's quiet.                                *)
Alone == (\A p, q \in Processes : p = q) \/ Services \intersect Quieted = {}

(* As long as it has its staging directory, the service is quiet for it.    *)
QuietOK(p) ==
  ~ Idle(p) /\ staging[p].made =>
    /\ staging[p].quiet
    /\ Current(p) \in Holding(service) => ~ active

QuietInv == \A p \in Processes : QuietOK(p)

PublishedInv ==
  \A b \in published :
    b \in [stamp : {b.stamp}, parts : {Parts}, quiet : {TRUE}, aged : BOOLEAN]

WholeInv == QuietInv /\ PublishedInv

-----------------------------------------------------------------------------
(* Facts about the programs.                                                *)

LEMMA ProgramOrder ==
  ASSUME NEW s \in Services
  PROVE  LET P == Program(s)  n == Len(P) IN
         /\ n \in Nat /\ 1 <= n /\ P[1] = "mkdir"
         /\ \A k \in 1..n :
              /\ k # 1 => P[k] # "mkdir"
              /\ P[k] = "trap" => k # n /\ P[k + 1] \notin Untrapped
              /\ P[k] = "untrap" => k # n /\ P[k + 1] \in Untrapped
              /\ P[k] \notin {"trap", "untrap"} /\ k # n =>
                   (P[k] \in Untrapped <=> P[k + 1] \in Untrapped)
              /\ P[k] \in Holding(s) => P[k] \notin Untrapped
<1> DEFINE P == Program(s)  n == Len(P)
<1>1. CASE s = "glpi"
  BY <1>1 DEF Program, Untrapped, Holding
<1>2. CASE s = "observability"
  BY <1>2 DEF Program, Untrapped, Holding
<1>3. CASE s \notin {"glpi", "observability"}
  BY <1>3 DEF Program, Untrapped, Holding
<1> QED
  BY <1>1, <1>2, <1>3

LEMMA HoldingOrder ==
  ASSUME NEW s \in Services
  PROVE  LET P == Program(s)  n == Len(P) IN
         \A k \in 1..n :
           /\ P[k] = "quiet" => k # n /\ P[k + 1] \in Holding(s)
           /\ P[k] = "quiet" /\ s # "observability" => P[k + 1] = "flag"
           /\ P[k] = "flag" => k # n /\ P[k + 1] \in Holding(s) \ {"flag"}
           /\ P[k] \in Holding(s) /\ P[k] \notin {"resume"} =>
                k # n /\ P[k + 1] \in Holding(s)
           /\ P[k] = "resume" => k # n /\ P[k + 1] \notin Holding(s)
           /\ P[k] \notin Holding(s) \union {"quiet"} /\ k # n => P[k + 1] \notin Holding(s)
           /\ s \in Quieted /\ P[k] \in Data => P[k] \in Holding(s)
<1>1. CASE s = "glpi"
  BY <1>1 DEF Program, Holding, Quieted, Data
<1>2. CASE s = "observability"
  BY <1>2 DEF Program, Holding, Quieted, Data
<1>3. CASE s \notin {"glpi", "observability"}
  BY <1>3 DEF Program, Holding, Quieted, Data
<1> QED
  BY <1>1, <1>2, <1>3

LEMMA PublishOrder ==
  ASSUME NEW s \in Services, NEW k \in 1..Len(Program(s)), Program(s)[k] = "publish"
  PROVE  CapturedBefore(s, k) = Parts
<1>1. CASE s = "glpi"
  <2>1. k = 10
    BY <1>1 DEF Program
  <2> QED
    BY <1>1, <2>1 DEF Program, CapturedBefore, Parts, Data
<1>2. CASE s = "observability"
  <2>1. k = 11
    BY <1>2 DEF Program
  <2> QED
    BY <1>2, <2>1 DEF Program, CapturedBefore, Parts, Data
<1>3. CASE s \notin {"glpi", "observability"}
  <2>1. k = 7
    BY <1>3 DEF Program
  <2> QED
    BY <1>3, <2>1 DEF Program, CapturedBefore, Parts, Data
<1> QED
  BY <1>1, <1>2, <1>3

LEMMA CapturedNext ==
  ASSUME NEW s, NEW k \in Nat, k >= 1
  PROVE  CapturedBefore(s, k + 1) = CapturedBefore(s, k) \union ({Program(s)[k]} \intersect Parts)
<1>1. \A j : j \in 1..(k + 1 - 1) <=> j \in 1..(k - 1) \/ j = k
  OBVIOUS
<1> QED
  BY <1>1 DEF CapturedBefore

-----------------------------------------------------------------------------
(* What a step of p does to the invariants.                                 *)

LEMMA ScriptMoves ==
  ASSUME BackupTypeOK, ScriptInv, NEW p \in Processes,
         NEW r \in ScriptRecord, NEW g \in StagingRecord,
         script' = [script EXCEPT ![p] = r], staging' = [staging EXCEPT ![p] = g],
         service' = service, active' \in BOOLEAN,
         ScriptOK(p)'
  PROVE  BackupTypeOK' /\ ScriptInv'
<1>1. \A q \in Processes \ {p} : script'[q] = script[q] /\ staging'[q] = staging[q]
  BY DEF BackupTypeOK
<1>2. \A q \in Processes \ {p} : ScriptOK(q)'
  BY <1>1 DEF ScriptInv, ScriptOK, Idle, Current
<1> QED
  BY <1>2 DEF BackupTypeOK, ScriptInv

LEMMA ResponsibleMoves ==
  ASSUME BackupTypeOK, ResponsibleInv, NEW p \in Processes, NEW r,
         script' = [script EXCEPT ![p] = r], service' = service,
         \/ active' \/ abandoned' # "no"
         \/ Responsible(p)'
         \/ UNCHANGED <<active, abandoned>> /\ ~ Responsible(p)
  PROVE  ResponsibleInv'
<1>1. \A q \in Processes \ {p} : script'[q] = script[q]
  BY DEF BackupTypeOK
<1>2. \A q \in Processes \ {p} : Responsible(q) => Responsible(q)'
  BY <1>1 DEF Responsible, Idle, Current
<1> QED
  BY <1>2 DEF ResponsibleInv

LEMMA ScriptTypes ==
  ASSUME IInv, NEW p \in Processes
  PROVE  /\ script[p] \in ScriptRecord /\ staging[p] \in StagingRecord
         /\ service \in Services /\ active \in BOOLEAN
         /\ NoScript \in ScriptRecord /\ NoStaging \in StagingRecord
         /\ staging = [staging EXCEPT ![p] = staging[p]]
         /\ ScriptOK(p)
BY DEF IInv, BackupTypeOK, ScriptInv, NoScript, NoStaging, ScriptRecord, StagingRecord

(* A script goes on with its next command, or ends.                         *)
LEMMA ScriptAdvances ==
  ASSUME IInv, NEW p \in Processes, ~ Idle(p), service' = service, active' \in BOOLEAN,
         NEW r \in ScriptRecord, NEW g \in StagingRecord,
         script[p].at = Len(Program(service)) => r = NoScript,
         script[p].at # Len(Program(service)) => r.at = script[p].at + 1,
         script[p].at # Len(Program(service)) =>
           (r.trap <=> Current(p) = "trap" \/ (Current(p) # "untrap" /\ script[p].trap)),
         script' = [script EXCEPT ![p] = r],
         staging' = [staging EXCEPT ![p] = g],
         g.made => /\ staging[p].made \/ Current(p) = "mkdir"
                   /\ g.parts = staging[p].parts \union ({Current(p)} \intersect Parts)
  PROVE  BackupTypeOK' /\ ScriptInv'
<1> DEFINE k == script[p].at  n == Len(Program(service))
<1>1. /\ k \in 1..n /\ n \in Nat /\ Current(p) = Program(service)[k]
      /\ script[p].trap <=> Current(p) \notin Untrapped
  BY ScriptTypes, ProgramOrder DEF ScriptOK, Current
<1>2. script'[p] = r /\ staging'[p] = g
  BY DEF IInv, BackupTypeOK
<1>3. ScriptOK(p)'
  <2>1. CASE k = n
    BY <1>2, <2>1 DEF ScriptOK, Idle
  <2>2. CASE k # n
    <3>1. k + 1 \in 1..n
      BY <1>1, <2>2
    <3>2. r.trap <=> Program(service)[k + 1] \notin Untrapped
      BY <1>1, <2>2, ScriptTypes, ProgramOrder DEF Untrapped
    <3>3. Program(service)[k + 1] # "mkdir"
      BY <1>1, <3>1, ScriptTypes, ProgramOrder
    <3>4. g.made => g.parts = CapturedBefore(service, k + 1)
      <4>1. g.made => staging[p].parts = CapturedBefore(service, k)
        <5>1. CASE Current(p) = "mkdir"
          <6>1. staging[p].parts = {} /\ k = 1
            <7>1. service \in Services /\ ScriptOK(p)
              BY ScriptTypes
            <7>2. k = 1
              BY <1>1, <5>1, <7>1, ProgramOrder
            <7> QED
              BY <5>1, <7>1, <7>2 DEF ScriptOK, NoStaging
          <6> QED
            BY <6>1 DEF CapturedBefore
        <5> QED
          BY <5>1, ScriptTypes DEF ScriptOK
      <4>2. CapturedBefore(service, k + 1) =
              CapturedBefore(service, k) \union ({Current(p)} \intersect Parts)
        <5>1. k \in Nat /\ k >= 1
          BY <1>1
        <5>2. CapturedBefore(service, k + 1) =
                CapturedBefore(service, k) \union ({Program(service)[k]} \intersect Parts)
          BY <5>1, CapturedNext
        <5> QED
          BY <1>1, <5>2
      <4> QED
        BY <4>1, <4>2
    <3> QED
      BY <1>2, <2>2, <3>1, <3>2, <3>3, <3>4 DEF ScriptOK, Current
  <2> QED
    BY <2>1, <2>2
<1> QED
  BY <1>2, <1>3, ScriptMoves DEF IInv

LEMMA RestRecord ==
  ASSUME IInv, NEW p \in Processes, ~ Idle(p)
  PROVE  /\ Rest(p) \in ScriptRecord
         /\ script[p].at = Len(Program(service)) => Rest(p) = NoScript
         /\ script[p].at # Len(Program(service)) =>
              /\ Rest(p).at = script[p].at + 1
              /\ Rest(p).trap = script[p].trap /\ Rest(p).flag = script[p].flag
BY ScriptTypes DEF Rest, ScriptRecord

-----------------------------------------------------------------------------
(* Every action preserves the invariant.                                    *)

LEMMA StartStep ==
  ASSUME IInv, NEW p \in Processes, Start(p)
  PROVE  IInv'
<1> DEFINE r == [script[p] EXCEPT !.at = 1]
<1>1. /\ script' = [script EXCEPT ![p] = r] /\ staging' = [staging EXCEPT ![p] = NoStaging]
      /\ UNCHANGED <<service, active, abandoned>>
  BY DEF Start
<1>2. r \in ScriptRecord /\ r.at = 1 /\ r.trap = FALSE
  BY ScriptTypes DEF Start, Idle, NoScript, ScriptRecord
<1> HIDE DEF r
<1>3. script'[p] = r /\ staging'[p] = NoStaging
  BY <1>1 DEF IInv, BackupTypeOK
<1>4. ScriptOK(p)'
  <2>1. /\ service \in Services /\ Len(Program(service)) \in Nat
        /\ 1 <= Len(Program(service)) /\ Program(service)[1] = "mkdir"
    BY ScriptTypes, ProgramOrder
  <2> QED
    BY <1>1, <1>2, <1>3, <2>1 DEF ScriptOK, Current, Untrapped, NoStaging
<1>5. ~ Responsible(p)
  BY DEF Start, Responsible
<1>6. BackupTypeOK' /\ ScriptInv'
  BY <1>1, <1>2, <1>4, ScriptTypes, ScriptMoves DEF IInv
<1>7. ResponsibleInv'
  BY <1>1, <1>5, ResponsibleMoves DEF IInv
<1> QED
  BY <1>6, <1>7 DEF IInv

(* A command of p that leaves the service as it is.                         *)
LEMMA PlainAdvance ==
  ASSUME IInv, NEW p \in Processes, ~ Idle(p), UNCHANGED <<service, active, abandoned>>,
         NEW r \in ScriptRecord, NEW g \in StagingRecord,
         script[p].at = Len(Program(service)) => r = NoScript,
         script[p].at # Len(Program(service)) => r.at = script[p].at + 1,
         script[p].at # Len(Program(service)) =>
           (r.trap <=> Current(p) = "trap" \/ (Current(p) # "untrap" /\ script[p].trap)),
         script[p].at # Len(Program(service)) =>
           (script[p].flag \/ Current(p) = "flag" => r.flag),
         Current(p) \notin {"quiet", "resume"},
         script' = [script EXCEPT ![p] = r],
         staging' = [staging EXCEPT ![p] = g],
         g.made => /\ staging[p].made \/ Current(p) = "mkdir"
                   /\ g.parts = staging[p].parts \union ({Current(p)} \intersect Parts)
  PROVE  IInv'
<1>1. BackupTypeOK' /\ ScriptInv'
  BY ScriptAdvances, ScriptTypes
<1>2. Responsible(p) => Responsible(p)'
  <2> SUFFICES ASSUME Responsible(p)
               PROVE  Responsible(p)'
    OBVIOUS
  <2> DEFINE k == script[p].at  n == Len(Program(service))
  <2>1. /\ k \in 1..n /\ n \in Nat /\ Current(p) = Program(service)[k] /\ service \in Services
    BY ScriptTypes, ProgramOrder DEF ScriptOK, Current
  <2>2. Current(p) \in Holding(service)
    BY DEF Responsible
  <2>3. k # n /\ Program(service)[k + 1] \in Holding(service)
    BY <2>1, <2>2, HoldingOrder
  <2>4. script'[p] = r
    BY DEF IInv, BackupTypeOK
  <2>5. script'[p].at = k + 1 /\ script'[p] # NoScript
    BY <2>1, <2>3, <2>4 DEF NoScript
  <2>6. service = "observability" \/ r.flag
    BY <2>3 DEF Responsible
  <2> QED
    BY <2>3, <2>4, <2>5, <2>6 DEF Responsible, Idle, Current
<1>3. ResponsibleInv'
  BY <1>2, ResponsibleMoves DEF IInv
<1> QED
  BY <1>1, <1>3 DEF IInv

LEMMA MakeStagingStep ==
  ASSUME IInv, NEW p \in Processes, MakeStaging(p)
  PROVE  IInv'
<1> DEFINE g == [staging[p] EXCEPT !.made = TRUE]
<1>1. ~ Idle(p) /\ Current(p) = "mkdir"
  BY DEF MakeStaging, At
<1>2. g \in StagingRecord /\ g.parts = staging[p].parts
  BY ScriptTypes DEF StagingRecord
<1>3. g.parts = staging[p].parts \union ({Current(p)} \intersect Parts)
  BY <1>1, <1>2 DEF Parts, Data
<1>4. staging' = [staging EXCEPT ![p] = g]
  BY ScriptTypes DEF MakeStaging
<1>5. UNCHANGED <<service, active, abandoned>> /\ script' = [script EXCEPT ![p] = Rest(p)]
  BY DEF MakeStaging, Advance
<1> HIDE DEF g
<1> QED
  BY <1>1, <1>2, <1>3, <1>4, <1>5, RestRecord, PlainAdvance

LEMMA SetTrapStep ==
  ASSUME IInv, NEW p \in Processes, SetTrap(p)
  PROVE  IInv'
<1> DEFINE r == [Rest(p) EXCEPT !.trap = TRUE]
<1>1. ~ Idle(p) /\ Current(p) = "trap"
  BY DEF SetTrap, At
<1>2. script[p].at # Len(Program(service))
  BY <1>1, ScriptTypes, ProgramOrder DEF ScriptOK, Current
<1>3. /\ r \in ScriptRecord /\ r.at = script[p].at + 1 /\ r.trap
      /\ r.flag = script[p].flag
  BY <1>1, <1>2, RestRecord DEF ScriptRecord
<1>4. script' = [script EXCEPT ![p] = r]
  BY DEF SetTrap
<1>5. staging[p].parts = staging[p].parts \union ({Current(p)} \intersect Parts)
  BY <1>1 DEF Parts, Data
<1>6. UNCHANGED <<service, active, abandoned, staging>>
  BY DEF SetTrap
<1> HIDE DEF r
<1> QED
  BY <1>1, <1>2, <1>3, <1>4, <1>5, <1>6, ScriptTypes, PlainAdvance

LEMMA SetFlagStep ==
  ASSUME IInv, NEW p \in Processes, SetFlag(p)
  PROVE  IInv'
<1> DEFINE r == [Rest(p) EXCEPT !.flag = TRUE]
<1>1. ~ Idle(p) /\ Current(p) = "flag"
  BY DEF SetFlag, At
<1>2. script[p].at # Len(Program(service))
  BY <1>1, ScriptTypes, HoldingOrder DEF ScriptOK, Current
<1>3. /\ r \in ScriptRecord /\ r.at = script[p].at + 1 /\ r.flag
      /\ r.trap = script[p].trap
  BY <1>1, <1>2, RestRecord DEF ScriptRecord
<1>4. script' = [script EXCEPT ![p] = r]
  BY DEF SetFlag
<1>5. staging[p].parts = staging[p].parts \union ({Current(p)} \intersect Parts)
  BY <1>1 DEF Parts, Data
<1>6. UNCHANGED <<service, active, abandoned, staging>>
  BY DEF SetFlag
<1> HIDE DEF r
<1> QED
  BY <1>1, <1>2, <1>3, <1>4, <1>5, <1>6, ScriptTypes, PlainAdvance

LEMMA CaptureStep ==
  ASSUME IInv, NEW p \in Processes, NEW part \in Parts, Capture(p, part)
  PROVE  IInv'
<1> DEFINE still == staging[p].quiet /\ (part \in Data /\ service \in Quieted => ~active)
           g == [staging[p] EXCEPT !.parts = staging[p].parts \union {part}, !.quiet = still]
<1>1. ~ Idle(p) /\ Current(p) = part /\ staging[p].made
  BY DEF Capture, At
<1>2. still \in BOOLEAN
  OBVIOUS
<1>3. staging' = [staging EXCEPT ![p] = g]
  BY ScriptTypes DEF Capture
<1> HIDE DEF still
<1>4. g \in StagingRecord /\ g.parts = staging[p].parts \union ({Current(p)} \intersect Parts)
  BY <1>1, <1>2, ScriptTypes DEF StagingRecord
<1>5. Current(p) \notin {"trap", "untrap", "flag", "quiet", "resume", "mkdir"}
  BY <1>1 DEF Parts, Data
<1>6. UNCHANGED <<service, active, abandoned>> /\ script' = [script EXCEPT ![p] = Rest(p)]
  BY DEF Capture, Advance
<1> HIDE DEF g
<1> QED
  BY <1>1, <1>3, <1>4, <1>5, <1>6, RestRecord, PlainAdvance

(* A command of p that only looks, or writes what is nobody's invariant.    *)
LEMMA PassingStep ==
  ASSUME IInv, NEW p \in Processes, ~ Idle(p),
         Current(p) \in {"inspect", "wait", "report", "prune"}, Advance(p),
         UNCHANGED <<service, active, abandoned, staging>>
  PROVE  IInv'
<1> DEFINE r == Rest(p)  last == script[p].at = Len(Program(service))
<1>1. staging[p].parts = staging[p].parts \union ({Current(p)} \intersect Parts)
  BY DEF Parts, Data
<1>2. staging' = [staging EXCEPT ![p] = staging[p]] /\ staging[p] \in StagingRecord
  BY ScriptTypes
<1>3. /\ r \in ScriptRecord
      /\ last => r = NoScript
      /\ ~ last => /\ r.at = script[p].at + 1
                   /\ r.trap = script[p].trap /\ r.flag = script[p].flag
  BY RestRecord
<1>4. script' = [script EXCEPT ![p] = r]
  BY DEF Advance
<1> HIDE DEF r
<1>5. ~ last => (r.trap <=> Current(p) = "trap" \/ (Current(p) # "untrap" /\ script[p].trap))
  BY <1>3
<1>6. ~ last => (script[p].flag \/ Current(p) = "flag" => r.flag)
  BY <1>3
<1>7. Current(p) \notin {"quiet", "resume"}
  OBVIOUS
<1> QED
  BY <1>1, <1>2, <1>3, <1>4, <1>5, <1>6, <1>7, PlainAdvance

LEMMA LookStep ==
  ASSUME IInv, NEW p \in Processes, Look(p)
  PROVE  IInv'
BY PassingStep DEF Look, At

LEMMA ReportStep ==
  ASSUME IInv, NEW p \in Processes, Report(p)
  PROVE  IInv'
BY PassingStep DEF Report, At

LEMMA PruneStep ==
  ASSUME IInv, NEW p \in Processes, Prune(p)
  PROVE  IInv'
BY PassingStep DEF Prune, At

LEMMA PublishStep ==
  ASSUME IInv, NEW p \in Processes, Publish(p)
  PROVE  IInv'
<1>1. ~ Idle(p) /\ Current(p) = "publish"
  BY DEF Publish, At
<1>2. /\ UNCHANGED <<service, active, abandoned>> /\ script' = [script EXCEPT ![p] = Rest(p)]
      /\ staging' = [staging EXCEPT ![p] = NoStaging]
  BY DEF Publish, Advance
<1>3. ~ NoStaging.made
  BY DEF NoStaging
<1> QED
  BY <1>1, <1>2, <1>3, RestRecord, ScriptTypes, PlainAdvance

LEMMA UntrapStep ==
  ASSUME IInv, NEW p \in Processes, Untrap(p)
  PROVE  IInv'
<1> DEFINE r == [Rest(p) EXCEPT !.trap = FALSE]
<1>1. ~ Idle(p) /\ Current(p) = "untrap"
  BY DEF Untrap, At
<1>2. script[p].at # Len(Program(service))
  BY <1>1, ScriptTypes, ProgramOrder DEF ScriptOK, Current
<1>3. /\ r \in ScriptRecord /\ r.at = script[p].at + 1 /\ ~ r.trap
      /\ r.flag = script[p].flag
  BY <1>1, <1>2, RestRecord DEF ScriptRecord
<1>4. script' = [script EXCEPT ![p] = r]
  BY DEF Untrap
<1>5. staging[p].parts = staging[p].parts \union ({Current(p)} \intersect Parts)
  BY <1>1 DEF Parts, Data
<1>6. UNCHANGED <<service, active, abandoned, staging>>
  BY DEF Untrap
<1> HIDE DEF r
<1> QED
  BY <1>1, <1>2, <1>3, <1>4, <1>5, <1>6, ScriptTypes, PlainAdvance

(* From here on somebody has to let the service go: p itself.               *)
LEMMA QuietStep ==
  ASSUME IInv, NEW p \in Processes, Quiet(p)
  PROVE  IInv'
<1> DEFINE k == script[p].at  n == Len(Program(service))  r == Rest(p)
<1>1. ~ Idle(p) /\ Current(p) = "quiet"
  BY DEF Quiet, At
<1>2. /\ k \in 1..n /\ n \in Nat /\ Current(p) = Program(service)[k] /\ service \in Services
  BY <1>1, ScriptTypes, ProgramOrder DEF ScriptOK, Current
<1>3. /\ k # n /\ Program(service)[k + 1] \in Holding(service)
      /\ service # "observability" => Program(service)[k + 1] = "flag"
  BY <1>1, <1>2, HoldingOrder
<1>4. /\ r \in ScriptRecord /\ r.at = k + 1 /\ r.trap = script[p].trap
  BY <1>1, <1>3, RestRecord
<1>5. staging[p].parts = staging[p].parts \union ({Current(p)} \intersect Parts)
  BY <1>1 DEF Parts, Data
<1>6. /\ script' = [script EXCEPT ![p] = r]
      /\ service' = service /\ active' = FALSE /\ staging' = staging
  BY DEF Quiet, Advance, Serve
<1> HIDE DEF r
<1>7. BackupTypeOK' /\ ScriptInv'
  BY <1>1, <1>3, <1>4, <1>5, <1>6, ScriptTypes, ScriptAdvances
<1>8. Responsible(p)'
  <2>1. script'[p] = r /\ r # NoScript
    BY <1>2, <1>4, <1>6 DEF IInv, BackupTypeOK, NoScript
  <2> QED
    BY <1>3, <1>4, <1>6, <2>1 DEF Responsible, Idle, Current
<1>9. ResponsibleInv'
  BY <1>6, <1>8, ResponsibleMoves DEF IInv
<1> QED
  BY <1>7, <1>9 DEF IInv

(* Under its trap, whoever is responsible lets the service go or abandons   *)
(* it, except between maintenance:enable and the assignment of the flag.    *)
LEMMA LeavesWhenResponsible ==
  ASSUME IInv, NEW p \in Processes, LeaveQuiet(p, active, abandoned)
  PROVE  \/ active' \/ abandoned' # "no"
         \/ UNCHANGED <<active, abandoned>> /\ (Responsible(p) => Current(p) = "flag")
<1>1. CASE Leaves(p) /\ Serve(TRUE, "no")
  BY <1>1 DEF Serve
<1>2. CASE Serve(active, "swallowed")
  BY <1>2 DEF Serve
<1>3. CASE ~ Leaves(p) /\ Serve(active, abandoned)
  BY <1>3 DEF Serve, Leaves, Responsible
<1> QED
  BY <1>1, <1>2, <1>3 DEF LeaveQuiet

LEMMA LeaveQuietType ==
  ASSUME IInv, NEW p \in Processes, LeaveQuiet(p, active, abandoned)
  PROVE  active' \in BOOLEAN
BY ScriptTypes DEF LeaveQuiet, Serve

LEMMA ResumeStep ==
  ASSUME IInv, NEW p \in Processes, Resume(p)
  PROVE  IInv'
<1> DEFINE r == [Rest(p) EXCEPT !.flag = FALSE]
<1>1. ~ Idle(p) /\ Current(p) = "resume"
  BY DEF Resume, At
<1>2. script[p].at # Len(Program(service))
  BY <1>1, ScriptTypes, HoldingOrder DEF ScriptOK, Current
<1>3. /\ r \in ScriptRecord /\ r.at = script[p].at + 1 /\ r.trap = script[p].trap
  BY <1>1, <1>2, RestRecord DEF ScriptRecord
<1>4. staging[p].parts = staging[p].parts \union ({Current(p)} \intersect Parts)
  BY <1>1 DEF Parts, Data
<1>5. /\ script' = [script EXCEPT ![p] = r] /\ LeaveQuiet(p, active, abandoned)
      /\ service' = service /\ staging' = staging
  BY DEF Resume
<1> HIDE DEF r
<1>6. BackupTypeOK' /\ ScriptInv'
  BY <1>1, <1>2, <1>3, <1>4, <1>5, ScriptTypes, LeaveQuietType, ScriptAdvances
<1>7. ResponsibleInv'
  BY <1>1, <1>5, LeavesWhenResponsible, ResponsibleMoves DEF IInv
<1> QED
  BY <1>6, <1>7 DEF IInv

(* A cleanup ends p or lets it go on where it is.                           *)
LEMMA CleanupMoves ==
  ASSUME IInv, NEW p \in Processes, NEW r \in ScriptRecord,
         service' = service, active' \in BOOLEAN,
         \/ r = NoScript
         \/ /\ ~ Idle(p) /\ r.at = script[p].at /\ r.trap = script[p].trap,
         script' = [script EXCEPT ![p] = r],
         staging' = [staging EXCEPT ![p] = NoStaging]
  PROVE  BackupTypeOK' /\ ScriptInv'
<1>1. script'[p] = r /\ staging'[p] = NoStaging
  BY DEF IInv, BackupTypeOK
<1>2. ScriptOK(p)'
  <2>1. CASE r = NoScript
    BY <1>1, <2>1 DEF ScriptOK, Idle
  <2>2. CASE ~ Idle(p) /\ r.at = script[p].at /\ r.trap = script[p].trap
    <3>1. ~ NoStaging.made /\ Current(p)' = Current(p)
      BY <1>1, <2>2 DEF NoStaging, Current
    <3> QED
      BY <1>1, <2>2, <3>1, ScriptTypes DEF ScriptOK
  <2> QED
    BY <2>1, <2>2
<1> QED
  BY <1>2, ScriptTypes, ScriptMoves DEF IInv

(* A script that ends keeps what it has in staging.                         *)
LEMMA DieMoves ==
  ASSUME IInv, NEW p \in Processes, Die(p), service' = service
  PROVE  BackupTypeOK' /\ ScriptInv'
<1>1. script'[p] = NoScript
  BY DEF IInv, BackupTypeOK, Die
<1>2. ScriptOK(p)'
  BY <1>1 DEF ScriptOK, Idle
<1>3. /\ script' = [script EXCEPT ![p] = NoScript] /\ active' = active
      /\ staging' = [staging EXCEPT ![p] = staging[p]]
  BY ScriptTypes DEF Die
<1> QED
  BY <1>2, <1>3, ScriptTypes, ScriptMoves DEF IInv

(* Whoever holds the service has its trap set.                              *)
LEMMA ResponsibleIsTrapped ==
  ASSUME IInv, NEW p \in Processes, Responsible(p)
  PROVE  script[p].trap
<1>1. /\ script[p].at \in 1..Len(Program(service)) /\ service \in Services
      /\ script[p].trap <=> Current(p) \notin Untrapped
  BY ScriptTypes DEF Responsible, ScriptOK
<1> QED
  BY <1>1, ProgramOrder DEF Responsible, Current

LEMMA FailStep ==
  ASSUME IInv, NEW p \in Processes, Fail(p)
  PROVE  IInv'
<1>1. service' = service /\ Current(p) # "flag"
  BY DEF Fail, At, MayFail, Parts, Data
<1>2. CASE script[p].trap
  <2>1. /\ LeaveQuiet(p, active, abandoned) /\ script' = [script EXCEPT ![p] = NoScript]
        /\ staging' = [staging EXCEPT ![p] = NoStaging]
    BY <1>2 DEF Fail, Cleanup, Cleaned
  <2>2. BackupTypeOK' /\ ScriptInv'
    BY <1>1, <2>1, LeaveQuietType, ScriptTypes, CleanupMoves
  <2>3. ResponsibleInv'
    BY <1>1, <2>1, LeavesWhenResponsible, ResponsibleMoves DEF IInv
  <2> QED
    BY <2>2, <2>3 DEF IInv
<1>3. CASE ~ script[p].trap
  <2>1. Die(p) /\ abandoned' = abandoned /\ ~ Responsible(p)
    BY <1>3, ResponsibleIsTrapped DEF Fail
  <2>2. ResponsibleInv'
    BY <1>1, <2>1, ResponsibleMoves DEF Die, IInv
  <2> QED
    BY <1>1, <2>1, <2>2, DieMoves DEF IInv
<1> QED
  BY <1>2, <1>3

LEMMA QuietButFailsStep ==
  ASSUME IInv, NEW p \in Processes, QuietButFails(p)
  PROVE  IInv'
<1>1. /\ service' = service /\ active' \in BOOLEAN
      /\ script' = [script EXCEPT ![p] = NoScript]
      /\ staging' = [staging EXCEPT ![p] = NoStaging]
      /\ active' \/ abandoned' # "no"
  BY DEF QuietButFails, Cleanup, Cleaned, LeaveQuiet, Serve
<1>2. BackupTypeOK' /\ ScriptInv'
  BY <1>1, ScriptTypes, CleanupMoves
<1>3. ResponsibleInv'
  BY <1>1, ResponsibleMoves DEF IInv
<1> QED
  BY <1>2, <1>3 DEF IInv

LEMMA SignalStep ==
  ASSUME IInv, NEW p \in Processes, Signal(p)
  PROVE  IInv'
<1>1. service' = service /\ ~ Idle(p)
  BY DEF Signal
<1>2. CASE script[p].trap
  <2> DEFINE r == [script[p] EXCEPT !.flag = FALSE]
  <2>1. /\ LeaveQuiet(p, active, abandoned) /\ script' = [script EXCEPT ![p] = r]
        /\ staging' = [staging EXCEPT ![p] = NoStaging]
    BY <1>2 DEF Signal, Cleanup, Cleaned
  <2>2. /\ r \in ScriptRecord /\ r.at = script[p].at /\ r.trap = script[p].trap
    BY ScriptTypes DEF ScriptRecord
  <2>3. script[p].at # 0
    BY <1>1, ScriptTypes DEF ScriptOK
  <2> HIDE DEF r
  <2>4. BackupTypeOK' /\ ScriptInv'
    BY <1>1, <2>1, <2>2, <2>3, LeaveQuietType, CleanupMoves
  <2>5. Responsible(p) /\ Current(p) = "flag" => Responsible(p)'
    <3>1. script'[p].at = script[p].at /\ script'[p].at # 0
      BY <2>1, <2>2, <2>3 DEF IInv, BackupTypeOK
    <3> QED
      BY <1>1, <3>1 DEF Responsible, Idle, Current, NoScript
  <2>6. ResponsibleInv'
    BY <1>1, <2>1, <2>5, LeavesWhenResponsible, ResponsibleMoves DEF IInv
  <2> QED
    BY <2>4, <2>6 DEF IInv
<1>3. CASE ~ script[p].trap
  <2>1. Die(p) /\ abandoned' = abandoned /\ ~ Responsible(p)
    BY <1>3, ResponsibleIsTrapped DEF Signal
  <2>2. ResponsibleInv'
    BY <1>1, <2>1, ResponsibleMoves DEF Die, IInv
  <2> QED
    BY <1>1, <2>1, <2>2, DieMoves DEF IInv
<1> QED
  BY <1>2, <1>3

LEMMA KillStep ==
  ASSUME IInv, NEW p \in Processes, Kill(p)
  PROVE  IInv'
<1>1. Die(p) /\ service' = service /\ (active' \/ abandoned' = "killed")
  BY DEF Kill, Die
<1>2. ResponsibleInv'
  BY <1>1, ResponsibleMoves DEF Die, IInv
<1> QED
  BY <1>1, <1>2, DieMoves DEF IInv

LEMMA NextStep == IInv /\ [Next]_vars => IInv'
<1> SUFFICES ASSUME IInv, [Next]_vars
             PROVE  IInv'
  OBVIOUS
<1>1. CASE Age \/ UNCHANGED vars
  <2>1. UNCHANGED <<service, active, script, staging, abandoned>>
    BY <1>1 DEF Age, vars
  <2> QED
    BY <2>1 DEF IInv, BackupTypeOK, ScriptInv, ScriptOK, ResponsibleInv, Responsible, Idle, Current
<1>2. ASSUME NEW p \in Processes, Command(p)
      PROVE  IInv'
  BY <1>2, MakeStagingStep, SetTrapStep, QuietStep, SetFlagStep, CaptureStep, ResumeStep,
     LookStep, PublishStep, UntrapStep, ReportStep, PruneStep DEF Command
<1> QED
  BY <1>1, <1>2, StartStep, FailStep, QuietButFailsStep, SignalStep, KillStep DEF Next

LEMMA InitHolds == Init => IInv
BY BackupAssumption DEF Init, IInv, BackupTypeOK, ScriptInv, ScriptOK, ResponsibleInv,
   Idle, NoScript, NoStaging, ScriptRecord, StagingRecord

-----------------------------------------------------------------------------
(* A script at work has its trap from the command that sets it to the one   *)
(* that removes it, and a staging directory holds exactly what the commands *)
(* before have written; any number of scripts at once, any faults.          *)
THEOREM BackupInvariance == Spec => []IInv
<1> QED
  BY InitHolds, NextStep, PTL DEF Spec

(* When no script is at work the service serves, or a script was killed, or *)
(* the command that made it quiet has failed: for any number of scripts at  *)
(* once, although their commands make it quiet and let it go in any order.  *)
THEOREM ServiceAlwaysComesBack == Spec => []ServiceComesBack
<1>1. IInv => ServiceComesBack
  BY DEF IInv, ResponsibleInv, Responsible, ServiceComesBack
<1> QED
  BY <1>1, BackupInvariance, PTL

-----------------------------------------------------------------------------
(* Backups are whole.                                                       *)

LEMMA QuietMoves ==
  ASSUME Alone, IInv, QuietInv, NEW p \in Processes, NEW r, NEW g,
         script' = [script EXCEPT ![p] = r], staging' = [staging EXCEPT ![p] = g],
         service' = service, QuietOK(p)'
  PROVE  QuietInv'
<1> SUFFICES ASSUME NEW q \in Processes, q # p
             PROVE  QuietOK(q)'
  BY DEF QuietInv
<1>1. script'[q] = script[q] /\ staging'[q] = staging[q]
  BY DEF IInv, BackupTypeOK
<1>2. service \notin Quieted /\ service \in Services
  BY ScriptTypes DEF Alone
<1>3. Holding(service) = {}
  BY <1>2 DEF Holding, Quieted
<1> QED
  BY <1>1, <1>3 DEF QuietInv, QuietOK, Idle, Current

LEMMA QuietAdvances ==
  ASSUME Alone, IInv, QuietInv, NEW p \in Processes, ~ Idle(p), service' = service,
         NEW r, NEW g,
         script[p].at = Len(Program(service)) => r = NoScript,
         script[p].at # Len(Program(service)) => r.at = script[p].at + 1,
         script' = [script EXCEPT ![p] = r], staging' = [staging EXCEPT ![p] = g],
         g.made => /\ g.quiet
                   /\ \/ Current(p) = "quiet"
                      \/ Current(p) # "resume" /\ Current(p) \in Holding(service)
                      => ~ active'
  PROVE  QuietInv'
<1> DEFINE k == script[p].at  n == Len(Program(service))
<1>1. /\ k \in 1..n /\ n \in Nat /\ Current(p) = Program(service)[k] /\ service \in Services
  BY ScriptTypes, ProgramOrder DEF ScriptOK, Current
<1>2. script'[p] = r /\ staging'[p] = g
  BY DEF IInv, BackupTypeOK
<1>3. CASE k = n
  BY <1>2, <1>3, QuietMoves DEF QuietOK, Idle
<1>4. CASE k # n
  <2>1. Current(p)' = Program(service)[k + 1]
    BY <1>2, <1>4 DEF Current
  <2>2. Program(service)[k + 1] \in Holding(service) =>
          \/ Current(p) = "quiet"
          \/ Current(p) # "resume" /\ Current(p) \in Holding(service)
    BY <1>1, <1>4, HoldingOrder
  <2>3. QuietOK(p)'
    BY <1>2, <2>1, <2>2 DEF QuietOK
  <2> QED
    BY <2>3, QuietMoves
<1> QED
  BY <1>3, <1>4

(* A command that leaves the service and the staging directory alone.       *)
LEMMA QuietStays ==
  ASSUME Alone, IInv, QuietInv, NEW p \in Processes, ~ Idle(p),
         UNCHANGED <<service, active, staging>>, NEW r,
         script[p].at = Len(Program(service)) => r = NoScript,
         script[p].at # Len(Program(service)) => r.at = script[p].at + 1,
         script' = [script EXCEPT ![p] = r], Current(p) # "quiet"
  PROVE  QuietInv'
<1>1. staging' = [staging EXCEPT ![p] = staging[p]]
  BY ScriptTypes
<1>2. QuietOK(p)
  BY DEF QuietInv
<1> QED
  BY <1>1, <1>2, QuietAdvances DEF QuietOK

LEMMA WritesRest ==
  ASSUME IInv, NEW p \in Processes, ~ Idle(p)
  PROVE  LET last == script[p].at = Len(Program(service)) IN
         /\ Current(p) \in {"trap", "flag", "untrap", "resume"} => ~ last
         /\ ~ last => \A v \in BOOLEAN :
              /\ [Rest(p) EXCEPT !.trap = v].at = script[p].at + 1
              /\ [Rest(p) EXCEPT !.flag = v].at = script[p].at + 1
<1>1. /\ script[p].at \in 1..Len(Program(service)) /\ service \in Services
      /\ Current(p) = Program(service)[script[p].at]
  BY ScriptTypes DEF ScriptOK, Current
<1>2. Current(p) \in {"trap", "flag", "untrap", "resume"} =>
        script[p].at # Len(Program(service))
  BY <1>1, ProgramOrder, HoldingOrder
<1>3. /\ Rest(p) \in ScriptRecord
      /\ script[p].at # Len(Program(service)) => Rest(p).at = script[p].at + 1
  BY RestRecord
<1> HIDE DEF Rest
<1> QED
  BY <1>2, <1>3 DEF ScriptRecord

LEMMA QuietCommand ==
  ASSUME Alone, IInv, QuietInv, NEW p \in Processes, Command(p)
  PROVE  QuietInv'
<1>1. CASE SetTrap(p) \/ SetFlag(p) \/ Untrap(p)
  <2> DEFINE r == script'[p]
  <2>1. /\ ~ Idle(p) /\ Current(p) \in {"trap", "flag", "untrap"}
        /\ UNCHANGED <<service, active, staging>>
    BY <1>1 DEF SetTrap, SetFlag, Untrap, At
  <2>2. /\ script' = [script EXCEPT ![p] = r]
        /\ \/ r = [Rest(p) EXCEPT !.trap = TRUE] \/ r = [Rest(p) EXCEPT !.flag = TRUE]
           \/ r = [Rest(p) EXCEPT !.trap = FALSE]
    BY <1>1 DEF SetTrap, SetFlag, Untrap, IInv, BackupTypeOK
  <2>3. r.at = script[p].at + 1 /\ script[p].at # Len(Program(service))
    BY <2>1, <2>2, WritesRest
  <2> HIDE DEF r
  <2> QED
    BY <2>1, <2>2, <2>3, QuietStays
<1>2. CASE Look(p) \/ Report(p) \/ Prune(p)
  <2>1. /\ ~ Idle(p) /\ Current(p) \in {"inspect", "wait", "report", "prune"}
        /\ UNCHANGED <<service, active, staging>> /\ script' = [script EXCEPT ![p] = Rest(p)]
    BY <1>2 DEF Look, Report, Prune, At, Advance
  <2> QED
    BY <2>1, RestRecord, QuietStays
<1>3. CASE MakeStaging(p)
  <2> DEFINE g == [staging[p] EXCEPT !.made = TRUE]
  <2>1. /\ ~ Idle(p) /\ Current(p) = "mkdir" /\ service' = service
        /\ script' = [script EXCEPT ![p] = Rest(p)]
    BY <1>3 DEF MakeStaging, At, Advance
  <2>2. staging' = [staging EXCEPT ![p] = g]
    BY <1>3, ScriptTypes DEF MakeStaging
  <2>3. g.quiet
    BY <2>1, ScriptTypes DEF ScriptOK, NoStaging
  <2>4. Current(p) \notin Holding(service)
    BY <2>1 DEF Holding
  <2> HIDE DEF g
  <2> QED
    BY <2>1, <2>2, <2>3, <2>4, RestRecord, QuietAdvances
<1>4. ASSUME NEW part \in Parts, Capture(p, part)
      PROVE  QuietInv'
  <2> DEFINE still == staging[p].quiet /\ (part \in Data /\ service \in Quieted => ~active)
             g == [staging[p] EXCEPT !.parts = staging[p].parts \union {part}, !.quiet = still]
  <2>1. /\ ~ Idle(p) /\ Current(p) = part /\ staging[p].made /\ UNCHANGED <<service, active>>
        /\ script' = [script EXCEPT ![p] = Rest(p)]
    BY <1>4 DEF Capture, At, Advance
  <2>2. staging' = [staging EXCEPT ![p] = g]
    BY <1>4, ScriptTypes DEF Capture
  <2>3. QuietOK(p)
    BY DEF QuietInv
  <2>4. part \in Data /\ service \in Quieted => part \in Holding(service)
    BY <2>1, ScriptTypes, HoldingOrder DEF ScriptOK, Current
  <2>5. still
    BY <2>1, <2>3, <2>4 DEF QuietOK
  <2>6. g.quiet = still
    <3> HIDE DEF still
    <3> QED
      BY ScriptTypes DEF StagingRecord
  <2> HIDE DEF g
  <2>7. g.quiet /\ Current(p) # "quiet"
    BY <2>1, <2>5, <2>6 DEF Parts, Data
  <2>8. Current(p) \in Holding(service) => ~ active'
    BY <2>1, <2>3 DEF QuietOK
  <2> QED
    BY <2>1, <2>2, <2>7, <2>8, RestRecord, QuietAdvances
<1>5. CASE Publish(p)
  <2>1. /\ ~ Idle(p) /\ service' = service /\ script' = [script EXCEPT ![p] = Rest(p)]
        /\ staging' = [staging EXCEPT ![p] = NoStaging] /\ ~ NoStaging.made
    BY <1>5 DEF Publish, At, Advance, NoStaging
  <2> QED
    BY <2>1, RestRecord, QuietAdvances
<1>6. CASE Quiet(p)
  <2>1. /\ ~ Idle(p) /\ service' = service /\ script' = [script EXCEPT ![p] = Rest(p)]
        /\ staging' = [staging EXCEPT ![p] = staging[p]] /\ ~ active'
    BY <1>6, ScriptTypes DEF Quiet, At, Advance, Serve
  <2>2. QuietOK(p)
    BY DEF QuietInv
  <2> QED
    BY <2>1, <2>2, RestRecord, QuietAdvances DEF QuietOK
<1>7. CASE Resume(p)
  <2> DEFINE r == [Rest(p) EXCEPT !.flag = FALSE]
  <2>1. /\ ~ Idle(p) /\ Current(p) = "resume" /\ service' = service
        /\ script' = [script EXCEPT ![p] = r]
        /\ staging' = [staging EXCEPT ![p] = staging[p]]
    BY <1>7, ScriptTypes DEF Resume, At
  <2>2. r.at = script[p].at + 1 /\ script[p].at # Len(Program(service))
    BY <2>1, WritesRest
  <2>3. QuietOK(p)
    BY DEF QuietInv
  <2> HIDE DEF r
  <2> QED
    BY <2>1, <2>2, <2>3, QuietAdvances DEF QuietOK
<1> QED
  BY <1>1, <1>2, <1>3, <1>4, <1>5, <1>6, <1>7 DEF Command

(* A script that ends or has cleaned up has nothing in staging to be quiet  *)
(* for.                                                                     *)
LEMMA QuietFailure ==
  ASSUME Alone, IInv, QuietInv, NEW p \in Processes,
         Start(p) \/ Fail(p) \/ QuietButFails(p) \/ Signal(p) \/ Kill(p)
  PROVE  QuietInv'
<1> DEFINE r == script'[p]  g == staging'[p]
<1>1. /\ script' = [script EXCEPT ![p] = r] /\ service' = service
      /\ staging' = [staging EXCEPT ![p] = g]
      /\ r = NoScript \/ g = NoStaging
  BY ScriptTypes DEF Start, Fail, QuietButFails, Signal, Kill, Cleanup, Cleaned, Die, IInv, BackupTypeOK
<1>2. QuietOK(p)'
  BY <1>1 DEF QuietOK, Idle, NoStaging
<1> HIDE DEF r, g
<1> QED
  BY <1>1, <1>2, QuietMoves

LEMMA PublishedStep ==
  ASSUME IInv, QuietInv, PublishedInv, [Next]_vars
  PROVE  PublishedInv'
<1>1. ASSUME NEW p \in Processes, Publish(p)
      PROVE  PublishedInv'
  <2> DEFINE b == [stamp |-> Newest + 1, parts |-> staging[p].parts,
                   quiet |-> staging[p].quiet, aged |-> FALSE]
  <2>1. published' = published \union {b}
    BY <1>1 DEF Publish
  <2>2. ~ Idle(p) /\ staging[p].made /\ Current(p) = "publish"
    BY <1>1 DEF Publish, At
  <2>3. staging[p].parts = Parts
    BY <2>2, ScriptTypes, PublishOrder DEF ScriptOK, Current
  <2>4. staging[p].quiet = TRUE
    BY <2>2, ScriptTypes DEF QuietInv, QuietOK, StagingRecord
  <2>5. b \in [stamp : {b.stamp}, parts : {Parts}, quiet : {TRUE}, aged : BOOLEAN]
    BY <2>3, <2>4
  <2> HIDE DEF b
  <2> QED
    BY <2>1, <2>5 DEF PublishedInv
<1>2. ASSUME Age
      PROVE  PublishedInv'
  <2>1. published' = {[b EXCEPT !.aged = TRUE] : b \in published}
    BY <1>2 DEF Age
  <2>2. ASSUME NEW b \in published
        PROVE  LET c == [b EXCEPT !.aged = TRUE] IN
               c \in [stamp : {c.stamp}, parts : {Parts}, quiet : {TRUE}, aged : BOOLEAN]
    BY DEF PublishedInv
  <2> QED
    BY <2>1, <2>2 DEF PublishedInv
<1>3. CASE published' \subseteq published
  BY <1>3 DEF PublishedInv
<1>4. ASSUME NEW p \in Processes, Command(p)
      PROVE  Publish(p) \/ published' \subseteq published
  BY <1>4 DEF Command, MakeStaging, SetTrap, Quiet, SetFlag, Capture, Resume, Look, Untrap, Report, Prune
<1>5. ASSUME NEW p \in Processes, Start(p) \/ Fail(p) \/ QuietButFails(p) \/ Signal(p) \/ Kill(p)
      PROVE  published' = published
  BY <1>5 DEF Start, Fail, QuietButFails, Signal, Kill
<1>6. UNCHANGED vars => published' = published
  BY DEF vars
<1> QED
  BY <1>1, <1>2, <1>3, <1>4, <1>5, <1>6 DEF Next

LEMMA WholeStep ==
  ASSUME Alone, IInv, WholeInv, [Next]_vars
  PROVE  WholeInv'
<1>1. CASE Age \/ UNCHANGED vars
  <2>1. UNCHANGED <<service, active, script, staging>>
    BY <1>1 DEF Age, vars
  <2> QED
    BY <2>1, PublishedStep DEF WholeInv, QuietInv, QuietOK, Idle, Current
<1> QED
  BY <1>1, PublishedStep, QuietCommand, QuietFailure DEF WholeInv, Next

(* Every backup under a final name has all its parts, captured while the    *)
(* service was quiet, however often it failed or was signalled.  For glpi   *)
(* and observability this takes one script at a time: a second one would    *)
(* let the service go under the first.                                      *)
THEOREM PublishedAlwaysWhole ==
  ASSUME Alone
  PROVE  Spec => []PublishedIsWhole
<1>1. Init => WholeInv
  BY DEF Init, WholeInv, QuietInv, QuietOK, PublishedInv, Idle
<1>2. IInv /\ WholeInv /\ [Next]_vars => WholeInv'
  BY WholeStep
<1>3. WholeInv => PublishedIsWhole
  BY DEF WholeInv, PublishedInv, PublishedIsWhole
<1> QED
  BY <1>1, <1>2, <1>3, BackupInvariance, PTL DEF Spec

-----------------------------------------------------------------------------
(* Success is reported of a service that serves.                            *)

(* The commands after the wait of the observability script, and those after *)
(* maintenance:enable in GLPI's.                                            *)
AfterWait == {"meta", "sums", "publish", "untrap", "report", "prune"}
AfterQuiet == AfterWait \union {"flag", "database", "files", "resume"}

ServesOK(p) ==
  ~ Idle(p) =>
    /\ service = "observability" /\ Current(p) \in AfterWait => active
    /\ service = "glpi" /\ Current(p) \in AfterQuiet => abandoned \in {"no", "swallowed"}

ServesInv ==
  /\ service \notin Quieted => active
  /\ \A p \in Processes : ServesOK(p)

LEMMA ServesOrder ==
  ASSUME NEW s \in Services
  PROVE  LET P == Program(s)  n == Len(P) IN
         \A k \in 1..n :
           /\ s \notin Quieted => P[k] # "quiet"
           /\ s = "observability" /\ k # n /\ P[k + 1] \in AfterWait =>
                P[k] \in AfterWait \union {"wait"}
           /\ s = "glpi" /\ k # n /\ P[k + 1] \in AfterQuiet =>
                P[k] \in AfterQuiet \union {"quiet"}
<1>1. CASE s = "glpi"
  BY <1>1 DEF Program, AfterQuiet, AfterWait, Quieted
<1>2. CASE s = "observability"
  BY <1>2 DEF Program, AfterWait, Quieted
<1>3. CASE s \notin {"glpi", "observability"}
  BY <1>3 DEF Program, Quieted
<1> QED
  BY <1>1, <1>2, <1>3

(* Letting the service go is never what makes it quiet.                     *)
LEMMA LeavingServes ==
  ASSUME NEW p \in Processes, LeaveQuiet(p, active, abandoned)
  PROVE  /\ active => active'
         /\ abandoned \in {"no", "swallowed"} => abandoned' \in {"no", "swallowed"}
BY DEF LeaveQuiet, Serve

(* A command takes the script to the next one, or ends it.                  *)
LEMMA CommandAdvances ==
  ASSUME IInv, NEW p \in Processes, Command(p)
  PROVE  LET r == script'[p] IN
         /\ ~ Idle(p) /\ service' = service /\ script' = [script EXCEPT ![p] = r]
         /\ script[p].at = Len(Program(service)) => r = NoScript
         /\ script[p].at # Len(Program(service)) => r.at = script[p].at + 1
<1> DEFINE r == script'[p]
<1>1. CASE SetTrap(p) \/ SetFlag(p) \/ Untrap(p) \/ Resume(p)
  <2>1. /\ ~ Idle(p) /\ Current(p) \in {"trap", "flag", "untrap", "resume"}
        /\ service' = service
    BY <1>1 DEF SetTrap, SetFlag, Untrap, Resume, At
  <2>2. /\ script' = [script EXCEPT ![p] = r]
        /\ \E v \in BOOLEAN :
             r = [Rest(p) EXCEPT !.trap = v] \/ r = [Rest(p) EXCEPT !.flag = v]
    BY <1>1 DEF SetTrap, SetFlag, Untrap, Resume, IInv, BackupTypeOK
  <2>3. r.at = script[p].at + 1 /\ script[p].at # Len(Program(service))
    BY <2>1, <2>2, WritesRest
  <2> QED
    BY <2>1, <2>2, <2>3
<1>2. CASE ~ (SetTrap(p) \/ SetFlag(p) \/ Untrap(p) \/ Resume(p))
  <2>1. /\ ~ Idle(p) /\ service' = service /\ script' = [script EXCEPT ![p] = Rest(p)]
    BY <1>2 DEF Command, MakeStaging, Quiet, Capture, Look, Publish, Report, Prune, At, Advance
  <2>2. r = Rest(p)
    BY <2>1 DEF IInv, BackupTypeOK
  <2> QED
    BY <2>1, <2>2, RestRecord
<1> QED
  BY <1>1, <1>2

(* What a command does to the service.                                      *)
LEMMA CommandServes ==
  ASSUME NEW p \in Processes, Command(p)
  PROVE  /\ Current(p) \notin {"quiet", "resume"} => UNCHANGED <<active, abandoned>>
         /\ Current(p) = "quiet" => abandoned' = "no"
         /\ Current(p) = "resume" => LeaveQuiet(p, active, abandoned)
         /\ Current(p) = "wait" => active
<1>1. CASE Quiet(p)
  BY <1>1 DEF Quiet, At, Serve
<1>2. CASE Resume(p)
  BY <1>2 DEF Resume, At
<1>3. CASE Look(p)
  BY <1>3 DEF Look, At
<1>4. ASSUME NEW part \in Parts, Capture(p, part)
      PROVE  /\ UNCHANGED <<active, abandoned>>
             /\ Current(p) \notin {"quiet", "resume", "wait"}
  BY <1>4 DEF Capture, At, Parts, Data
<1>5. CASE MakeStaging(p) \/ SetTrap(p) \/ SetFlag(p) \/ Publish(p) \/ Untrap(p) \/ Report(p)
           \/ Prune(p)
  <2>1. /\ UNCHANGED <<active, abandoned>>
        /\ Current(p) \notin {"quiet", "resume", "wait"}
    BY <1>5 DEF MakeStaging, SetTrap, SetFlag, Publish, Untrap, Report, Prune, At
  <2> QED
    BY <2>1
<1> QED
  BY <1>1, <1>2, <1>3, <1>4, <1>5 DEF Command

(* With Alone, only p's own place in its program matters.                   *)
LEMMA ServesMoves ==
  ASSUME Alone, IInv, ServesInv, NEW p \in Processes, service' = service,
         service \notin Quieted => active', ServesOK(p)'
  PROVE  ServesInv'
<1> SUFFICES ASSUME NEW q \in Processes, q # p
             PROVE  ServesOK(q)'
  BY DEF ServesInv
<1>1. service \notin Quieted
  BY ScriptTypes DEF Alone
<1> QED
  BY <1>1 DEF ServesOK, Quieted

LEMMA ServesCommand ==
  ASSUME Alone, IInv, ServesInv, NEW p \in Processes, Command(p)
  PROVE  ServesInv'
<1> DEFINE k == script[p].at  n == Len(Program(service))
<1>1. /\ ~ Idle(p) /\ service' = service
      /\ k = n => script'[p] = NoScript
      /\ k # n => script'[p].at = k + 1
  BY CommandAdvances
<1>2. /\ k \in 1..n /\ Current(p) = Program(service)[k] /\ service \in Services
  BY <1>1, ScriptTypes DEF ScriptOK, Current
<1>3. ServesOK(p)
  BY DEF ServesInv
<1>4. service \notin Quieted => active'
  <2>1. service \notin Quieted => Current(p) # "quiet" /\ active
    BY <1>2, ServesOrder DEF ServesInv
  <2> QED
    BY <2>1, CommandServes, LeavingServes
<1>5. ServesOK(p)'
  <2>1. CASE k = n
    BY <1>1, <2>1 DEF ServesOK, Idle
  <2>2. CASE k # n
    <3>1. Current(p)' = Program(service)[k + 1]
      BY <1>1, <2>2 DEF Current
    <3>2. ASSUME service = "observability", Current(p)' \in AfterWait
          PROVE  active'
      <4>1. Current(p) \in AfterWait \union {"wait"}
        BY <1>2, <2>2, <3>1, <3>2, ServesOrder
      <4>2. active /\ Current(p) \notin {"quiet", "resume"}
        BY <1>1, <1>3, <3>2, <4>1, CommandServes DEF ServesOK, AfterWait
      <4> QED
        BY <4>2, CommandServes
    <3>3. ASSUME service = "glpi", Current(p)' \in AfterQuiet
          PROVE  abandoned' \in {"no", "swallowed"}
      <4>1. Current(p) \in AfterQuiet \union {"quiet"}
        BY <1>2, <2>2, <3>1, <3>3, ServesOrder
      <4>2. CASE Current(p) = "quiet"
        BY <4>2, CommandServes
      <4>3. CASE Current(p) \in AfterQuiet
        <5>1. abandoned \in {"no", "swallowed"}
          BY <1>1, <1>3, <3>3, <4>3 DEF ServesOK
        <5>2. Current(p) # "quiet"
          BY <4>3 DEF AfterQuiet, AfterWait
        <5> QED
          BY <5>1, <5>2, CommandServes, LeavingServes
      <4> QED
        BY <4>1, <4>2, <4>3
    <3> QED
      BY <1>1, <3>2, <3>3 DEF ServesOK
  <2> QED
    BY <2>1, <2>2
<1> QED
  BY <1>1, <1>4, <1>5, ServesMoves

(* A script that ends asks nothing more of the service; one that is         *)
(* signalled stays where it is.                                             *)
LEMMA ServesFailure ==
  ASSUME Alone, IInv, ServesInv, NEW p \in Processes,
         Start(p) \/ Fail(p) \/ QuietButFails(p) \/ Signal(p) \/ Kill(p)
  PROVE  ServesInv'
<1> /\ service \in Services /\ ScriptOK(p)
  BY ScriptTypes
<1>1. service' = service
  BY DEF Start, Fail, QuietButFails, Signal, Kill
<1>2. service \notin Quieted => active'
  <2>1. CASE QuietButFails(p)
    <3>1. ~ Idle(p) /\ Current(p) = "quiet"
      BY <2>1 DEF QuietButFails, At
    <3>2. service \in Quieted
      BY <3>1, ServesOrder DEF ScriptOK, Current
    <3> QED
      BY <3>2
  <2>2. CASE Start(p) \/ Fail(p) \/ Signal(p) \/ Kill(p)
    <3>1. UNCHANGED active \/ LeaveQuiet(p, active, abandoned)
      BY <2>2 DEF Start, Fail, Signal, Kill, Cleanup, Die
    <3> QED
      BY <3>1, LeavingServes DEF ServesInv
  <2> QED
    BY <2>1, <2>2
<1>3. ServesOK(p)'
  <2>1. CASE script'[p] = NoScript
    BY <2>1 DEF ServesOK, Idle
  <2>2. CASE Start(p)
    <3>1. script'[p].at = 1
      BY <2>2, ScriptTypes DEF Start, IInv, BackupTypeOK, ScriptRecord
    <3>2. Current(p)' = "mkdir"
      BY <1>1, <3>1, ProgramOrder DEF Current
    <3> QED
      BY <3>2 DEF ServesOK, AfterWait, AfterQuiet
  <2>3. CASE Signal(p) /\ script[p].trap
    <3>1. /\ ~ Idle(p) /\ LeaveQuiet(p, active, abandoned)
          /\ script' = [script EXCEPT ![p] = [script[p] EXCEPT !.flag = FALSE]]
      BY <2>3 DEF Signal, Cleanup
    <3>2. script'[p].at = script[p].at
      BY <3>1 DEF IInv, BackupTypeOK, ScriptRecord
    <3>3. Current(p)' = Current(p)
      BY <1>1, <3>2 DEF Current
    <3>4. ServesOK(p)
      BY DEF ServesInv
    <3> QED
      BY <1>1, <3>1, <3>3, <3>4, LeavingServes DEF ServesOK
  <2>4. CASE Fail(p) \/ QuietButFails(p) \/ Kill(p) \/ (Signal(p) /\ ~ script[p].trap)
    <3>1. script' = [script EXCEPT ![p] = NoScript]
      BY <2>4 DEF Fail, QuietButFails, Kill, Signal, Cleanup, Die
    <3> QED
      BY <2>1, <3>1 DEF IInv, BackupTypeOK
  <2> QED
    BY <2>2, <2>3, <2>4
<1> QED
  BY <1>1, <1>2, <1>3, ServesMoves

LEMMA ServesStep ==
  ASSUME Alone, IInv, ServesInv, [Next]_vars
  PROVE  ServesInv'
<1>1. CASE Age \/ UNCHANGED vars
  <2>1. UNCHANGED <<service, active, script, abandoned>>
    BY <1>1 DEF Age, vars
  <2> QED
    BY <2>1 DEF ServesInv, ServesOK, Idle, Current
<1> QED
  BY <1>1, ServesCommand, ServesFailure DEF Next

(* A script that reports success leaves a service that serves, whichever    *)
(* commands failed and whenever signals came; in GLPI, unless the failure   *)
(* of maintenance:disable was swallowed.  For glpi and observability with   *)
(* one script at a time: a second one may make the service quiet again.     *)
THEOREM SuccessAlwaysServes ==
  ASSUME Alone
  PROVE  Spec => SuccessServes
<1> DEFINE OK(p) == active \/ (service = "glpi" /\ abandoned = "swallowed")
<1>1. Init => ServesInv
  BY DEF Init, ServesInv, ServesOK, Idle
<1>2. IInv /\ ServesInv /\ [Next]_vars => ServesInv'
  BY ServesStep
<1>3. ASSUME IInv, ServesInv, NEW p \in Processes, Report(p)
      PROVE  OK(p)
  <2>1. ~ Idle(p) /\ Current(p) = "report" /\ ServesOK(p)
    BY <1>3 DEF Report, At, ServesInv
  <2>2. CASE service = "observability"
    BY <2>1, <2>2 DEF ServesOK, AfterWait
  <2>3. CASE service = "glpi"
    <3>1. abandoned \in {"no", "swallowed"}
      BY <2>1, <2>3 DEF ServesOK, AfterQuiet, AfterWait
    <3>2. ~ Responsible(p)
      BY <2>1, <2>3 DEF Responsible, Holding
    <3>3. \A q \in Processes : q = p
      BY <1>3, <2>3, ScriptTypes DEF Alone, Quieted
    <3>4. active \/ abandoned # "no"
      BY <1>3, <3>2, <3>3 DEF IInv, ResponsibleInv
    <3> QED
      BY <2>3, <3>1, <3>4
  <2>4. CASE service \notin Quieted
    BY <1>3, <2>4 DEF ServesInv
  <2> QED
    BY <2>2, <2>3, <2>4 DEF Quieted
<1>4. IInv /\ ServesInv => [\A p \in Processes : Report(p) => OK(p)]_vars
  BY <1>3
<1> QED
  BY <1>1, <1>2, <1>4, BackupInvariance, PTL DEF Spec, SuccessServes
=============================================================================
