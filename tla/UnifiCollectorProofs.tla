------------------------ MODULE UnifiCollectorProofs ------------------------
(***************************************************************************)
(* Safety of the collectors on top of the verifier.  What the verifier     *)
(* does for a collector is what OcspPolicy allows it to do, so that every  *)
(* theorem about OcspPolicy is one about the collectors.                   *)
(***************************************************************************)
EXTENDS UnifiCollector, OcspPolicyProofs

(* A connection under check is a check of the verifier; the connections of  *)
(* a run that were accepted are as many as the requests it has got to; a    *)
(* certificate that is about to be accepted, or was, had not been confirmed *)
(* as revoked when the connection was opened.                               *)
RunOK(p) ==
  LET r == run[p] IN
  /\ r.link = "check" <=> check[p].pc # "idle"
  /\ r.link = "check" => check[p].cert = r.peer /\ before[p] \subseteq confirmed
  /\ r.link # "none" => r.stage > 0 /\ r.outcome = "none"
  /\ r.stage = 0 => r.outcome = "none"
  /\ r.stage > 0 /\ r.outcome = "none" =>
       verified[p] = IF r.link = "open" THEN r.stage ELSE r.stage - 1
  /\ r.outcome = "success" => verified[p] = Requests
  /\ check[p].pc = "record" /\ check[p].verdict \in Accepting => r.peer \notin before[p]
  /\ r.link = "open" => r.peer \notin before[p]

RunRecord == [stage : 0..Requests, link : {"none", "check", "open"},
              peer : Certs \union {NoCert}, outcome : Outcomes]

RunInv ==
  /\ run \in [Checks -> RunRecord]
  /\ verified \in [Checks -> 0..Requests]
  /\ before \in [Checks -> SUBSET Certs]
  /\ collector \in Collectors /\ text \in Outcomes
  /\ \A p \in Checks : RunOK(p)

CollectorInv == IInv /\ RunInv
-----------------------------------------------------------------------------
(* The collectors do to the verifier's state what the verifier may do.      *)

LEMMA VerifyIsStep == ASSUME NEW p \in Checks, Verify(p) PROVE Step(p)
BY DEF Verify, Step

LEMMA CollectorStep == CollectorNext => [Next]_ocspVars
<1> SUFFICES ASSUME CollectorNext
             PROVE  Next \/ UNCHANGED ocspVars
  OBVIOUS
<1>1. ASSUME NEW p \in Checks, Start(p)
      PROVE  UNCHANGED ocspVars
  BY <1>1 DEF Start
<1>2. ASSUME NEW p \in Checks, Collect(p)
      PROVE  Next \/ UNCHANGED ocspVars
  <2>1. CASE \E c \in Certs : Connect(p, c)
    BY <2>1 DEF Connect, Next
  <2>2. CASE Answer(p)
    BY <2>2 DEF Answer, Next, Step
  <2>3. CASE VerifierFails(p)
    BY <2>3 DEF VerifierFails, Next, Fault
  <2>4. CASE Verify(p)
    BY <2>4, VerifyIsStep DEF Next
  <2>5. CASE HandshakeFails(p) \/ Exchange(p) \/ ExchangeFails(p) \/ Publish(p)
             \/ PublishFails(p)
    BY <2>5 DEF HandshakeFails, Exchange, ExchangeFails, Publish, PublishFails
  <2> QED
    BY <1>2, <2>1, <2>2, <2>3, <2>4, <2>5 DEF Collect
<1>3. ASSUME NEW p \in Checks, Killed(p)
      PROVE  Next
  BY <1>3 DEF Killed, Next, Fault
<1>4. CASE Blackout
  BY <1>4 DEF Blackout, Next, Fault
<1>5. CASE Surroundings
  BY <1>5 DEF Surroundings, Next
<1> QED
  BY <1>1, <1>2, <1>3, <1>4, <1>5 DEF CollectorNext

(* The composition implements the verifier's specification: the theorems    *)
(* about OcspPolicy hold of the collectors.                                 *)
THEOREM CollectorImplementsPolicy == CollectorSpec => Spec
<1>1. CollectorInit => Init
  BY DEF CollectorInit
<1>2. [CollectorNext]_vars => [Next]_ocspVars
  BY CollectorStep DEF vars
<1> QED
  BY <1>1, <1>2, PTL DEF CollectorSpec, Spec

-----------------------------------------------------------------------------
(* The run of p, and nobody else's, is touched by a step of p.              *)

LEMMA RunStep ==
  ASSUME CollectorInv, NEW p \in Checks, [Next]_ocspVars,
         NEW r \in RunRecord, NEW n \in 0..Requests, NEW b \in SUBSET Certs,
         run' = [run EXCEPT ![p] = r],
         verified' = [verified EXCEPT ![p] = n],
         before' = [before EXCEPT ![p] = b],
         collector' = collector, text' \in Outcomes,
         \A q \in Checks \ {p} : check'[q] = check[q],
         confirmed \subseteq confirmed',
         RunOK(p)'
  PROVE  CollectorInv'
<1>1. IInv'
  BY Inductive DEF CollectorInv
<1>2. \A q \in Checks \ {p} : run'[q] = run[q] /\ verified'[q] = verified[q]
                              /\ before'[q] = before[q]
  BY DEF CollectorInv, RunInv
<1>3. ASSUME NEW q \in Checks \ {p}
      PROVE  RunOK(q)'
  BY <1>2, <1>3 DEF CollectorInv, RunInv, RunOK
<1>4. /\ run' \in [Checks -> RunRecord] /\ verified' \in [Checks -> 0..Requests]
      /\ before' \in [Checks -> SUBSET Certs]
  BY DEF CollectorInv, RunInv
<1> QED
  BY <1>1, <1>3, <1>4 DEF CollectorInv, RunInv

(* The state of a run, with what is known of it.                            *)
LEMMA RunTypes ==
  ASSUME CollectorInv, NEW p \in Checks
  PROVE  /\ run[p] \in RunRecord /\ run[p].stage \in 0..Requests
         /\ run[p].link \in {"none", "check", "open"} /\ run[p].outcome \in Outcomes
         /\ verified[p] \in 0..Requests /\ before[p] \in SUBSET Certs
         /\ run = [run EXCEPT ![p] = run[p]]
         /\ verified = [verified EXCEPT ![p] = verified[p]]
         /\ before = [before EXCEPT ![p] = before[p]]
         /\ RunOK(p) /\ Requests \in Nat \ {0} /\ text \in Outcomes
         /\ check \in [Checks -> CheckRecord] /\ confirmed \subseteq Certs
BY CollectorAssumption DEF CollectorInv, RunInv, RunRecord, IInv, CheckInv, TypeOK

(* A step that leaves the verifier alone.                                   *)
LEMMA QuietStep ==
  ASSUME CollectorInv, NEW p \in Checks, UNCHANGED <<ocspVars, collector, before>>,
         NEW r \in RunRecord, NEW n \in 0..Requests,
         run' = [run EXCEPT ![p] = r],
         verified' = [verified EXCEPT ![p] = n],
         text' \in Outcomes,
         RunOK(p)'
  PROVE  CollectorInv'
<1>1. before' = [before EXCEPT ![p] = before[p]] /\ before[p] \in SUBSET Certs
  BY RunTypes
<1>2. check' = check /\ confirmed' = confirmed
  BY DEF ocspVars, historyVars
<1> QED
  BY <1>1, <1>2, RunStep

LEMMA StartStep ==
  ASSUME CollectorInv, NEW p \in Checks, Start(p)
  PROVE  CollectorInv'
<1> DEFINE r == [run[p] EXCEPT !.stage = 1]
<1>1. r \in RunRecord /\ 0 \in 0..Requests
  BY RunTypes DEF RunRecord
<1>2. /\ run' = [run EXCEPT ![p] = r] /\ verified' = [verified EXCEPT ![p] = 0]
      /\ UNCHANGED <<ocspVars, collector, text, before>>
  BY RunTypes DEF Start
<1>3. /\ run[p].link = "none" /\ check[p].pc = "idle"
      /\ run'[p].stage = 1 /\ run'[p].link = "none" /\ run'[p].peer = run[p].peer
      /\ run'[p].outcome = "none" /\ verified'[p] = 0
      /\ UNCHANGED <<check, confirmed, before>>
  BY <1>2, RunTypes DEF RunRecord, RunOK, Start, ocspVars, historyVars, CollectorInv, RunInv
<1>4. RunOK(p)'
  BY <1>3, RunTypes DEF RunOK
<1> HIDE DEF r
<1> QED
  BY <1>1, <1>2, <1>4, RunTypes, QuietStep

LEMMA ConnectStep ==
  ASSUME CollectorInv, NEW p \in Checks, NEW c \in Certs, Connect(p, c)
  PROVE  CollectorInv'
<1> DEFINE r == [run[p] EXCEPT !.link = "check", !.peer = c]
           k == [Idle EXCEPT !.pc = "lock", !.cert = c]
<1>1. r \in RunRecord /\ run[p].link = "none" /\ run[p].stage > 0 /\ run[p].outcome = "none"
  BY RunTypes DEF RunRecord, Connect, Ready
<1>2. /\ run' = [run EXCEPT ![p] = r] /\ before' = [before EXCEPT ![p] = confirmed]
      /\ UNCHANGED <<collector, text, verified>>
  BY RunTypes DEF Connect
<1>3. check' = [check EXCEPT ![p] = k] /\ confirmed' = confirmed
  BY DEF Connect, Begin, historyVars
<1>4. k.pc = "lock" /\ k.cert = c
  BY DEF Idle
<1>5. /\ run'[p].link = "check" /\ run'[p].peer = c /\ run'[p].stage = run[p].stage
      /\ run'[p].outcome = "none" /\ before'[p] = confirmed
  BY <1>1, <1>2, RunTypes DEF RunRecord, CollectorInv, RunInv
<1> HIDE DEF r, k
<1>6. /\ check'[p].pc = "lock" /\ check'[p].cert = c
      /\ \A q \in Checks \ {p} : check'[q] = check[q]
  BY <1>3, <1>4, RunTypes
<1>7. RunOK(p)'
  BY <1>1, <1>2, <1>3, <1>5, <1>6, RunTypes DEF RunOK
<1>8. [Next]_ocspVars
  BY DEF Connect, Next
<1> QED
  BY <1>1, <1>2, <1>3, <1>6, <1>7, <1>8, RunTypes, RunStep

LEMMA HandshakeFailsStep ==
  ASSUME CollectorInv, NEW p \in Checks, HandshakeFails(p)
  PROVE  CollectorInv'
<1> DEFINE r == [run[p] EXCEPT !.outcome = "tls"]
<1>1. r \in RunRecord /\ run[p].link = "none" /\ run[p].stage > 0
  BY RunTypes DEF RunRecord, HandshakeFails, Ready, Outcomes
<1>2. /\ run' = [run EXCEPT ![p] = r]
      /\ UNCHANGED <<ocspVars, collector, text, before, verified>>
  BY RunTypes DEF HandshakeFails
<1>3. /\ run'[p].link = "none" /\ run'[p].stage = run[p].stage /\ run'[p].outcome = "tls"
      /\ run'[p].peer = run[p].peer
      /\ UNCHANGED <<check, confirmed>>
  BY <1>1, <1>2, RunTypes DEF RunRecord, ocspVars, historyVars, CollectorInv, RunInv
<1> HIDE DEF r
<1>4. RunOK(p)'
  BY <1>1, <1>2, <1>3, RunTypes DEF RunOK
<1> QED
  BY <1>1, <1>2, <1>4, RunTypes, QuietStep

(* Exchange, ExchangeFails, Publish, PublishFails: only the run moves.      *)
LEMMA ExchangeStep ==
  ASSUME CollectorInv, NEW p \in Checks, Exchange(p) \/ ExchangeFails(p)
  PROVE  CollectorInv'
<1>1. /\ run[p].link = "open" /\ run[p].stage > 0 /\ run[p].outcome = "none"
      /\ check[p].pc = "idle" /\ verified[p] = run[p].stage
  BY RunTypes DEF RunOK, Exchange, ExchangeFails
<1>2. PICK s \in 0..Requests, o \in Outcomes :
        /\ run' = [run EXCEPT ![p] = [run[p] EXCEPT !.link = "none", !.stage = s, !.outcome = o]]
        /\ s > 0
        /\ o = "none" => s = run[p].stage + 1
        /\ o = "success" => run[p].stage = Requests
  <2>1. CASE Exchange(p) /\ run[p].stage = Requests
    <3>1. run' = [run EXCEPT ![p] = [run[p] EXCEPT !.link = "none", !.stage = Requests,
                                                   !.outcome = "success"]]
      BY <2>1 DEF Exchange
    <3>2. Requests \in 0..Requests /\ Requests > 0 /\ "success" \in Outcomes
      BY CollectorAssumption DEF Outcomes
    <3> QED
      BY <2>1, <3>1, <3>2
  <2>2. CASE Exchange(p) /\ run[p].stage # Requests
    <3>1. run' = [run EXCEPT ![p] = [run[p] EXCEPT !.link = "none", !.stage = run[p].stage + 1,
                                                   !.outcome = "none"]]
      BY <2>2 DEF Exchange, Hangup
    <3>2. run[p].stage + 1 \in 0..Requests /\ "none" \in Outcomes /\ run[p].stage + 1 > 0
      BY <1>1, <2>2, RunTypes DEF Outcomes, Verdicts
    <3> QED
      BY <3>1, <3>2
  <2>3. CASE ExchangeFails(p)
    <3>1. run' = [run EXCEPT ![p] = [run[p] EXCEPT !.link = "none", !.stage = run[p].stage,
                                                   !.outcome = "collection"]]
      BY <2>3, RunTypes DEF ExchangeFails, RunRecord
    <3>2. run[p].stage \in 0..Requests /\ run[p].stage > 0 /\ "collection" \in Outcomes
      BY <1>1, RunTypes DEF Outcomes
    <3> QED
      BY <3>1, <3>2
  <2> QED
    BY <2>1, <2>2, <2>3
<1> DEFINE r == [run[p] EXCEPT !.link = "none", !.stage = s, !.outcome = o]
<1>3. /\ r \in RunRecord /\ r.link = "none" /\ r.stage = s /\ r.outcome = o
      /\ r.peer = run[p].peer
  BY RunTypes DEF RunRecord
<1>4. /\ run' = [run EXCEPT ![p] = r]
      /\ UNCHANGED <<ocspVars, collector, text, before, verified>>
  BY <1>2 DEF Exchange, ExchangeFails
<1> HIDE DEF r
<1>5. run'[p] = r /\ UNCHANGED <<check, confirmed>>
  BY <1>4, RunTypes DEF ocspVars, historyVars, CollectorInv, RunInv
<1>6. RunOK(p)'
  BY <1>1, <1>2, <1>3, <1>4, <1>5, RunTypes DEF RunOK
<1> QED
  BY <1>3, <1>4, <1>6, RunTypes, QuietStep

LEMMA PublishStep ==
  ASSUME CollectorInv, NEW p \in Checks, Publish(p) \/ PublishFails(p)
  PROVE  CollectorInv'
<1>1. NoRun \in RunRecord /\ run[p].outcome # "none"
  BY CollectorAssumption DEF NoRun, RunRecord, Outcomes, Verdicts, Publish, PublishFails
<1>2. /\ run' = [run EXCEPT ![p] = NoRun] /\ text' \in Outcomes
      /\ UNCHANGED <<ocspVars, collector, before, verified>>
  BY RunTypes DEF Publish, PublishFails
<1>3. run'[p] = NoRun /\ UNCHANGED <<check, confirmed>>
  BY <1>2 DEF ocspVars, historyVars, CollectorInv, RunInv
<1>4. check[p].pc = "idle"
  BY <1>1, RunTypes DEF RunOK
<1>5. RunOK(p)'
  BY <1>3, <1>4 DEF RunOK, NoRun
<1> QED
  BY <1>1, <1>2, <1>5, RunTypes, QuietStep

LEMMA PublishedReasons ==
  ASSUME NEW v \in Verdicts
  PROVE  Published(v) \in Outcomes \ {"none", "success"}
BY OcspAssumption DEF Published, Outcomes, Verdicts, Accepting

(* The verifier is done with p, whose connection was under check.           *)
LEMMA CheckEnds ==
  ASSUME CollectorInv, NEW p \in Checks, run[p].link = "check", [Next]_ocspVars,
         check' = [check EXCEPT ![p] = Idle], confirmed \subseteq confirmed',
         NEW r \in RunRecord, r.link = "none",
         \/ r.outcome \notin {"none", "success"} /\ r.stage = run[p].stage
         \/ r.outcome = "none" /\ r.stage = 0,
         run' = [run EXCEPT ![p] = r],
         UNCHANGED <<collector, text, before, verified>>
  PROVE  CollectorInv'
<1>1. run'[p] = r
  BY DEF CollectorInv, RunInv
<1>2. check'[p] = Idle /\ \A q \in Checks \ {p} : check'[q] = check[q]
  BY RunTypes
<1>3. RunOK(p)'
  BY <1>1, <1>2, RunTypes DEF RunOK, Idle
<1> QED
  BY <1>2, <1>3, RunTypes, RunStep

LEMMA AnswerStep ==
  ASSUME CollectorInv, NEW p \in Checks, Answer(p)
  PROVE  CollectorInv'
<1> DEFINE v == check[p].verdict
<1>1. /\ run[p].link = "check" /\ run[p].outcome = "none" /\ run[p].stage > 0
      /\ verified[p] = run[p].stage - 1 /\ v \in Verdicts /\ check[p].pc = "record"
  BY RunTypes DEF RunOK, Answer, Record, CheckRecord
<1>2. check' = [check EXCEPT ![p] = Idle] /\ confirmed \subseteq confirmed'
  BY DEF Answer, Record
<1>3. [Next]_ocspVars
  BY DEF Answer, Step, Next
<1>4. CASE v \in Accepting
  <2> DEFINE r == [run[p] EXCEPT !.link = "open", !.outcome = "none"]
  <2>1. /\ r \in RunRecord /\ r.link = "open" /\ r.outcome = "none"
        /\ r.stage = run[p].stage /\ r.peer = run[p].peer
    BY RunTypes DEF RunRecord, Outcomes, Verdicts
  <2>2. /\ run' = [run EXCEPT ![p] = r]
        /\ verified' = [verified EXCEPT ![p] = verified[p] + 1]
        /\ UNCHANGED <<collector, text, before>>
    BY <1>4, RunTypes DEF Answer, Passed
  <2> HIDE DEF r
  <2>3. verified[p] + 1 = run[p].stage /\ verified[p] + 1 \in 0..Requests
    BY <1>1, RunTypes
  <2>4. /\ run'[p] = r /\ verified'[p] = run[p].stage /\ check'[p] = Idle
        /\ \A q \in Checks \ {p} : check'[q] = check[q]
    BY <1>2, <2>2, <2>3, RunTypes DEF CollectorInv, RunInv
  <2>5. RunOK(p)'
    BY <1>1, <1>4, <2>1, <2>2, <2>4, RunTypes DEF RunOK, Idle
  <2> QED
    BY <1>2, <1>3, <2>1, <2>2, <2>3, <2>4, <2>5, RunTypes, RunStep
<1>5. CASE v \notin Accepting
  <2> DEFINE r == [run[p] EXCEPT !.link = "none", !.outcome = Published(v)]
  <2>1. /\ r \in RunRecord /\ r.link = "none" /\ r.stage = run[p].stage
        /\ r.outcome \notin {"none", "success"}
    BY <1>1, PublishedReasons, RunTypes DEF RunRecord
  <2>2. /\ run' = [run EXCEPT ![p] = r]
        /\ UNCHANGED <<collector, text, before, verified>>
    BY <1>5, RunTypes DEF Answer, Passed
  <2> HIDE DEF r
  <2> QED
    BY <1>1, <1>2, <1>3, <2>1, <2>2, CheckEnds
<1> QED
  BY <1>4, <1>5

LEMMA VerifierFailsStep ==
  ASSUME CollectorInv, NEW p \in Checks, VerifierFails(p)
  PROVE  CollectorInv'
<1> DEFINE r == [run[p] EXCEPT !.link = "none", !.outcome = Published("internal")]
<1>1. /\ r \in RunRecord /\ r.link = "none" /\ r.stage = run[p].stage
      /\ r.outcome \notin {"none", "success"}
  BY RunTypes DEF RunRecord, Published, Outcomes
<1>2. /\ run' = [run EXCEPT ![p] = r] /\ run[p].link = "check"
      /\ UNCHANGED <<collector, text, before, verified>>
  BY RunTypes DEF VerifierFails
<1>3. check' = [check EXCEPT ![p] = Idle] /\ confirmed' = confirmed
  BY DEF VerifierFails, SaveFails, RecordFails, historyVars
<1>4. [Next]_ocspVars
  BY DEF VerifierFails, Next, Fault
<1> HIDE DEF r
<1> QED
  BY <1>1, <1>2, <1>3, <1>4, CheckEnds

LEMMA KilledStep ==
  ASSUME CollectorInv, NEW p \in Checks, Killed(p)
  PROVE  CollectorInv'
<1> DEFINE r == [run[p] EXCEPT !.link = "none", !.outcome = "internal"]
<1>1. /\ r \in RunRecord /\ r.link = "none" /\ r.stage = run[p].stage
      /\ r.outcome \notin {"none", "success"}
  BY RunTypes DEF RunRecord, Outcomes, Verdicts
<1>2. /\ NoRun \in RunRecord /\ NoRun.link = "none" /\ NoRun.stage = 0
      /\ NoRun.outcome = "none"
  BY CollectorAssumption DEF NoRun, RunRecord, Outcomes, Verdicts
<1>3. /\ run[p].link = "check" /\ UNCHANGED <<collector, text, before, verified>>
      /\ run' = [run EXCEPT ![p] = r] \/ run' = [run EXCEPT ![p] = NoRun]
  BY RunTypes DEF Killed
<1>4. check' = [check EXCEPT ![p] = Idle] /\ confirmed' = confirmed
  BY DEF Killed, Kill, historyVars
<1>5. [Next]_ocspVars
  BY DEF Killed, Next, Fault
<1> HIDE DEF r
<1> QED
  BY <1>1, <1>2, <1>3, <1>4, <1>5, CheckEnds

(* What a part of a check changes of it: it gets to an accepting verdict to *)
(* be recorded only by way of Accepts.                                      *)
LEMMA PartOfCheck ==
  ASSUME IInv, NEW p \in Checks, Verify(p)
  PROVE  /\ check[p].pc # "idle" /\ check'[p].pc # "idle"
         /\ check'[p].cert = check[p].cert
         /\ \A q \in Checks \ {p} : check'[q] = check[q]
         /\ confirmed' = confirmed
         /\ check'[p].pc = "record" /\ check'[p].verdict \in Accepting => Accepts(p)
<1>1. check \in [Checks -> CheckRecord]
  BY DEF IInv, CheckInv
<1>2. CASE GiveUpLock(p)
  BY <1>1, <1>2 DEF GiveUpLock, historyVars, CheckRecord, Accepting
<1>3. ASSUME NEW v \in Verdicts \ Accepting, Decide(p, v), check[p].pc # "idle",
             confirmed' = confirmed
      PROVE  /\ check[p].pc # "idle" /\ check'[p].pc # "idle"
             /\ check'[p].cert = check[p].cert
             /\ \A q \in Checks \ {p} : check'[q] = check[q]
             /\ confirmed' = confirmed
             /\ check'[p].verdict \notin Accepting
  BY <1>1, <1>3 DEF Decide, CheckRecord
<1>4. ASSUME NEW f, NEW v, SaveThen(p, f, v), check[p].pc # "idle",
             confirmed' = confirmed
      PROVE  /\ check[p].pc # "idle" /\ check'[p].pc = "save"
             /\ check'[p].cert = check[p].cert
             /\ \A q \in Checks \ {p} : check'[q] = check[q]
             /\ confirmed' = confirmed
  BY <1>1, <1>4 DEF SaveThen, CheckRecord
<1>5. CASE Acquire(p)
  <2>1. check[p].pc = "lock" /\ confirmed' = confirmed
    BY <1>5 DEF Acquire, historyVars
  <2>2. ASSUME NEW v \in {"revoked", "state"}, Decide(p, v)
        PROVE  v \in Verdicts \ Accepting
    BY DEF Verdicts, Accepting
  <2> DEFINE c == check[p].cert
             young == c \in DOMAIN visible.cache /\ Now < visible.cache[c].deadline
             valid == young /\ Validate(visible.cache[c].response, c, Now) = "good"
             back == Now < visible.clock
             pc == IF back \/ valid THEN "save" ELSE "fetch"
             k == [check[p] EXCEPT
                     !.pc = pc, !.had = c \in DOMAIN visible.cache,
                     !.verdict = IF back THEN "clock" ELSE IF valid THEN "cache" ELSE "none",
                     !.mem = IF back THEN [visible EXCEPT !.cache = <<>>]
                             ELSE IF valid THEN [visible EXCEPT !.clock = Now]
                             ELSE IF young THEN Drop(visible, c)
                             ELSE visible]
  <2>3. \/ \E v \in {"revoked", "state"} : Decide(p, v)
        \/ check' = [check EXCEPT ![p] = k]
    BY <1>1, <1>5 DEF Acquire
  <2>4. k.pc \in {"save", "fetch"} /\ k.cert = c
    BY <1>1 DEF CheckRecord
  <2> HIDE DEF k
  <2>5. check' = [check EXCEPT ![p] = k] =>
          /\ check'[p].pc \in {"save", "fetch"} /\ check'[p].cert = c
          /\ \A q \in Checks \ {p} : check'[q] = check[q]
    BY <1>1, <2>4
  <2> QED
    BY <1>3, <2>1, <2>2, <2>3, <2>5
<1>6. ASSUME NEW f \in Failures, Unanswered(p, f)
      PROVE  \E v \in Verdicts \ Accepting : Decide(p, v) /\ check[p].pc = "fetch" /\ confirmed' = confirmed
  BY <1>6, Constants DEF Unanswered, Verdicts, Accepting, historyVars
<1>7. ASSUME NEW r \in Responses, Answered(p, r)
      PROVE  /\ check[p].pc = "fetch" /\ confirmed' = confirmed
             /\ \/ \E v \in Verdicts \ Accepting : Decide(p, v)
                \/ \E f, v : SaveThen(p, f, v)
  <2> DEFINE v == Validate(r, check[p].cert, Now)
  <2>1. v \in Verdicts /\ v # "cache"
    BY SignedResponses, Validated, Constants DEF Validate, Response, Accepting
  <2>2. "state" \in Verdicts \ Accepting
    BY DEF Verdicts, Accepting
  <2>3. \/ \E f, w : SaveThen(p, f, w)
        \/ Decide(p, "state")
        \/ v \notin {"good", "revoked"} /\ Decide(p, v)
    BY <1>7 DEF Answered
  <2> HIDE DEF v
  <2> QED
    BY <1>7, <2>1, <2>2, <2>3 DEF Answered, Accepting
<1>8. CASE Replace(p)
  BY <1>1, <1>8 DEF Replace, CheckRecord, historyVars
<1>9. CASE Sync(p)
  BY <1>1, <1>9 DEF Sync, Accepts, CheckRecord, historyVars
<1> QED
  BY <1>2, <1>3, <1>4, <1>5, <1>6, <1>7, <1>8, <1>9 DEF Verify

LEMMA VerifyStep ==
  ASSUME CollectorInv, NEW p \in Checks, Verify(p)
  PROVE  CollectorInv'
<1>1. IInv /\ [Next]_ocspVars
  BY VerifyIsStep DEF CollectorInv, Next
<1>2. UNCHANGED <<collector, run, text, before, verified>>
  BY DEF Verify, runVars
<1>3. check'[p].verdict \in Accepting /\ check'[p].pc = "record" =>
        check[p].cert \notin confirmed
  BY <1>1, PartOfCheck, AcceptedUnconfirmed
<1>4. RunOK(p)'
  BY <1>1, <1>2, <1>3, PartOfCheck, RunTypes DEF RunOK
<1>5. /\ run' = [run EXCEPT ![p] = run[p]] /\ verified' = [verified EXCEPT ![p] = verified[p]]
      /\ before' = [before EXCEPT ![p] = before[p]]
      /\ text' \in Outcomes
  BY <1>2, RunTypes
<1>6. /\ run[p] \in RunRecord /\ verified[p] \in 0..Requests /\ before[p] \in SUBSET Certs
      /\ confirmed \subseteq confirmed' /\ collector' = collector
      /\ \A q \in Checks \ {p} : check'[q] = check[q]
  BY <1>1, <1>2, PartOfCheck, RunTypes
<1> QED
  BY <1>1, <1>4, <1>5, <1>6, RunStep

LEMMA BlackoutStep ==
  ASSUME CollectorInv, Blackout
  PROVE  CollectorInv'
<1>1. IInv'
  BY Inductive DEF CollectorInv, Blackout, Next, Fault
<1>2. /\ run' = [p \in Checks |-> NoRun] /\ check' = [p \in Checks |-> Idle]
      /\ UNCHANGED <<collector, text, before, verified>>
  BY DEF Blackout, PowerLoss
<1>3. NoRun \in RunRecord
  BY CollectorAssumption DEF NoRun, RunRecord, Outcomes, Verdicts
<1>4. RunInv'
  BY <1>2, <1>3 DEF CollectorInv, RunInv, RunOK, NoRun, Idle
<1> QED
  BY <1>1, <1>4 DEF CollectorInv

LEMMA SurroundingsStep ==
  ASSUME CollectorInv, Surroundings
  PROVE  CollectorInv'
<1>1. IInv'
  BY Inductive DEF CollectorInv, Surroundings, Next
<1>2. UNCHANGED <<collector, run, text, before, verified, check, confirmed>>
  BY DEF Surroundings, runVars, World, Tick, SetClock, Revoke, historyVars
<1>3. RunInv'
  BY <1>2 DEF CollectorInv, RunInv, RunOK
<1> QED
  BY <1>1, <1>3 DEF CollectorInv

LEMMA CollectorInitially == CollectorInit => CollectorInv
<1> SUFFICES ASSUME CollectorInit
             PROVE  CollectorInv
  OBVIOUS
<1>1. IInv
  BY Initially DEF CollectorInit
<1>2. NoRun \in RunRecord /\ "none" \in Outcomes
  BY CollectorAssumption DEF NoRun, RunRecord, Outcomes, Verdicts
<1>3. RunInv
  BY <1>2, CollectorAssumption DEF CollectorInit, Init, RunInv, RunOK, NoRun, Idle
<1> QED
  BY <1>1, <1>3 DEF CollectorInv

LEMMA CollectorInductive == CollectorInv /\ [CollectorNext]_vars => CollectorInv'
<1> SUFFICES ASSUME CollectorInv, [CollectorNext]_vars
             PROVE  CollectorInv'
  OBVIOUS
<1>1. ASSUME NEW p \in Checks, Start(p) \/ Collect(p) \/ Killed(p)
      PROVE  CollectorInv'
  BY <1>1, StartStep, ConnectStep, HandshakeFailsStep, AnswerStep, VerifierFailsStep,
     ExchangeStep, PublishStep, VerifyStep, KilledStep DEF Collect
<1>2. CASE Blackout
  BY <1>2, BlackoutStep
<1>3. CASE Surroundings
  BY <1>3, SurroundingsStep
<1>4. CASE UNCHANGED vars
  <2>1. IInv'
    BY <1>4, Stuttering DEF CollectorInv, vars
  <2>2. UNCHANGED <<collector, run, text, before, verified, check, confirmed>>
    BY <1>4 DEF vars, runVars, ocspVars, historyVars
  <2>3. RunInv'
    BY <2>2 DEF CollectorInv, RunInv, RunOK
  <2> QED
    BY <2>1, <2>3 DEF CollectorInv
<1> QED
  BY <1>1, <1>2, <1>3, <1>4 DEF CollectorNext

(* The inductive invariant of the composition.                              *)
THEOREM CollectorInvariance == CollectorSpec => []CollectorInv
BY CollectorInitially, CollectorInductive, PTL DEF CollectorSpec

-----------------------------------------------------------------------------
(* Every variable has its type, and a connection under check is a check of  *)
(* the verifier for the certificate of that connection.                     *)
THEOREM CollectorTypeCorrect == CollectorSpec => []CollectorTypeOK
<1>1. CollectorInv => CollectorTypeOK
  BY DEF CollectorInv, IInv, RunInv, RunOK, RunRecord, CollectorTypeOK
<1> QED
  BY <1>1, CollectorInvariance, PTL

(* A run succeeds only if each of its requests went over a connection that  *)
(* was checked for that request, for any number of requests.                *)
THEOREM SuccessAlwaysVerified == CollectorSpec => []SuccessIsVerified
<1>1. CollectorInv => SuccessIsVerified
  BY DEF CollectorInv, RunInv, RunOK, SuccessIsVerified
<1> QED
  BY <1>1, CollectorInvariance, PTL

(* A request leaves only over a connection whose certificate had not been   *)
(* confirmed as revoked when the connection was opened, for any number of   *)
(* overlapping runs.                                                        *)
THEOREM RevokedGetNoBytes == CollectorSpec => NoBytesToRevoked
<1> DEFINE A == \A p \in Checks :
                  /\ run[p].link = "open"
                  /\ run'[p].stage > run[p].stage \/ run'[p].outcome = "success"
                  => run[p].peer \notin before[p]
<1>1. CollectorInv /\ [CollectorNext]_vars => [A]_vars
  BY DEF CollectorInv, RunInv, RunOK
<1> QED
  BY <1>1, CollectorInvariance, PTL DEF CollectorSpec, NoBytesToRevoked

(* The collectors never accept a certificate after its revocation has been  *)
(* confirmed, and nobody who was revoked max_age_seconds before.            *)
THEOREM CollectorsRefuseConfirmed == CollectorSpec => RefusedForever /\ BoundedStaleness
BY CollectorImplementsPolicy, ConfirmedIsRefused, AcceptanceIsFresh, PTL
=============================================================================
