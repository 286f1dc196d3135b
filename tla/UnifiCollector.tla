--------------------------- MODULE UnifiCollector ---------------------------
(***************************************************************************)
(* The two UniFi collectors on top of the OCSP verifier.  A run is a fixed *)
(* number of HTTP requests (login, sites, devices), each on a connection   *)
(* of its own: the handshake, the check of the certificate presented, and  *)
(* only then the request.  Of UnPoller (the patched Go transport) several  *)
(* runs overlap, with a verifier process each; the AP collector has one,   *)
(* makes the check itself and publishes the outcome of the run.            *)
(*                                                                         *)
(* Each collector has a state file of its own, so a behaviour is about one *)
(* of them.  The controller (which certificate it presents, whether it     *)
(* answers) is external.                                                   *)
(***************************************************************************)
EXTENDS OcspPolicy

CONSTANTS
  Collectors,  \* which of them: a subset of {"unpoller", "ap_counts"}
  Requests     \* requests of a run

ASSUME CollectorAssumption ==
  /\ Collectors \subseteq {"unpoller", "ap_counts"}
  /\ Requests \in Nat \ {0}

VARIABLES
  collector,  \* the one this behaviour is about
  run,        \* what each run is at
  text,       \* what the AP collector has published last
  before,     \* history: revocations confirmed before a connection was opened
  verified    \* history: how many connections of a run were accepted

runVars == <<run, text, before, verified>>
vars == <<ocspVars, collector, runVars>>

(* stage: the request a run is at, 0 when there is no run; link: the        *)
(* connection of that request; outcome: how the run came out.               *)
NoRun == [stage |-> 0, link |-> "none", peer |-> NoCert, outcome |-> "none"]

Outcomes == Verdicts \union {"tls", "success", "collection"}

(* Faulty variant of Published: after an exception the run goes on.         *)
Retried(v) == IF v \in {"internal", "none"} THEN "none" ELSE v

(* The reasons main publishes as they are.                                  *)
Published(v) == IF v \in {"internal", "none"} THEN "collection" ELSE v

CollectorInit ==
  /\ Init
  /\ collector \in Collectors
  /\ run = [p \in Checks |-> NoRun]
  /\ text = "none"
  /\ before = [p \in Checks |-> {}] /\ verified = [p \in Checks |-> 0]

(* A scrape of UnPoller, or the next turn of the AP collector's loop.       *)
Start(p) ==
  /\ run[p].stage = 0
  /\ collector = "ap_counts" => \A q \in Checks : run[q].stage = 0
  /\ run' = [run EXCEPT ![p].stage = 1]
  /\ verified' = [verified EXCEPT ![p] = 0]
  /\ UNCHANGED <<ocspVars, collector, text, before>>

Ready(p) == run[p].stage > 0 /\ run[p].outcome = "none" /\ run[p].link = "none"

(* connect, VerifyConnection: after the handshake the leaf goes to a check. *)
Connect(p, c) ==
  /\ Ready(p)
  /\ Begin(p, c)
  /\ run' = [run EXCEPT ![p].link = "check", ![p].peer = c]
  /\ before' = [before EXCEPT ![p] = confirmed]
  /\ UNCHANGED <<collector, text, verified>>

(* Chain, name or destination do not fit; reported as such, and no more.    *)
HandshakeFails(p) ==
  /\ Ready(p)
  /\ run' = [run EXCEPT ![p].outcome = "tls"]
  /\ UNCHANGED <<ocspVars, collector, text, before, verified>>

(* The verdicts after which the application may use the connection.         *)
Passed(v) == v \in Accepting

(* The answer of the verifier.                                              *)
Answer(p) ==
  LET v == check[p].verdict IN
  /\ run[p].link = "check"
  /\ Record(p)
  /\ run' = [run EXCEPT ![p].link = IF Passed(v) THEN "open" ELSE "none",
                        ![p].outcome = IF Passed(v) THEN "none" ELSE Published(v)]
  /\ verified' = [verified EXCEPT ![p] = IF v \in Accepting THEN @ + 1 ELSE @]
  /\ UNCHANGED <<collector, text, before>>

(* An exception in the verifier.                                            *)
VerifierFails(p) ==
  /\ run[p].link = "check"
  /\ SaveFails(p) \/ RecordFails(p)
  /\ run' = [run EXCEPT ![p].link = "none", ![p].outcome = Published("internal")]
  /\ UNCHANGED <<collector, text, before, verified>>

(* Faulty variant of Hangup: the connection is kept for the next request.   *)
KeepAlive == "open"

(* What becomes of a connection after its request: it is closed.            *)
Hangup == "none"

(* The request, with the credentials if it is the first one, and its answer.*)
Exchange(p) ==
  /\ run[p].link = "open"
  /\ run' = [run EXCEPT ![p].link = IF run[p].stage = Requests THEN "none" ELSE Hangup,
                        ![p].stage = IF @ = Requests THEN @ ELSE @ + 1,
                        ![p].outcome = IF run[p].stage = Requests THEN "success" ELSE "none"]
  /\ UNCHANGED <<ocspVars, collector, text, before, verified>>

(* A redirect, a status, a timeout or a value that does not fit.            *)
ExchangeFails(p) ==
  /\ run[p].link = "open"
  /\ run' = [run EXCEPT ![p].link = "none", ![p].outcome = "collection"]
  /\ UNCHANGED <<ocspVars, collector, text, before, verified>>

(* The end of a run; the AP collector replaces its metrics file, whatever   *)
(* the outcome.                                                             *)
Publish(p) ==
  /\ run[p].outcome # "none"
  /\ text' = IF collector = "ap_counts" THEN run[p].outcome ELSE text
  /\ run' = [run EXCEPT ![p] = NoRun]
  /\ UNCHANGED <<ocspVars, collector, before, verified>>

(* The file cannot be replaced: the loop ends, the container is restarted.  *)
PublishFails(p) ==
  /\ "disk" \in Faults /\ run[p].outcome # "none" /\ collector = "ap_counts"
  /\ run' = [run EXCEPT ![p] = NoRun]
  /\ UNCHANGED <<ocspVars, collector, text, before, verified>>

(* UnPoller kills a verifier after 12 seconds and refuses the connection;   *)
(* the AP collector dies with its check.                                    *)
Killed(p) ==
  /\ run[p].link = "check"
  /\ Kill(p)
  /\ run' = [run EXCEPT ![p] = IF collector = "unpoller"
                               THEN [@ EXCEPT !.link = "none", !.outcome = "internal"]
                               ELSE NoRun]
  /\ UNCHANGED <<collector, text, before, verified>>

(* The host loses its power.                                                *)
Blackout ==
  /\ PowerLoss
  /\ run' = [p \in Checks |-> NoRun]
  /\ UNCHANGED <<collector, text, before, verified>>

(* What the verifier does before its answer.                                *)
Verify(p) ==
  /\ \/ GiveUpLock(p) \/ Acquire(p)
     \/ \E f \in Failures : Unanswered(p, f)
     \/ \E r \in Responses : Answered(p, r)
     \/ Replace(p) \/ Sync(p)
  /\ UNCHANGED <<collector, runVars>>

Surroundings == World /\ UNCHANGED <<collector, runVars>>

Collect(p) ==
  \/ \E c \in Certs : Connect(p, c)
  \/ HandshakeFails(p) \/ Answer(p) \/ VerifierFails(p) \/ Exchange(p)
  \/ ExchangeFails(p) \/ Publish(p) \/ PublishFails(p) \/ Verify(p)

CollectorNext ==
  \/ \E p \in Checks : Start(p) \/ Collect(p) \/ Killed(p)
  \/ Blackout \/ Surroundings

CollectorSpec == CollectorInit /\ [][CollectorNext]_vars

(* A run that has been started gets on: the handshake, the verifier and the *)
(* requests have timeouts.  Nothing is assumed of the next run.             *)
FairCollectorSpec == CollectorSpec /\ \A p \in Checks : WF_vars(Collect(p))

-----------------------------------------------------------------------------
(* Properties                                                               *)

(* Every variable has its type, and a connection under check is a check of  *)
(* the verifier for the certificate of that connection.                     *)
CollectorTypeOK ==
  /\ TypeOK
  /\ collector \in Collectors
  /\ \A p \in Checks :
       /\ run[p].stage \in 0..Requests /\ run[p].link \in {"none", "check", "open"}
       /\ run[p].outcome \in Outcomes
       /\ run[p].link = "check" <=> check[p].pc # "idle"
       /\ run[p].link = "check" => check[p].cert = run[p].peer
       /\ verified[p] \in 0..Requests
  /\ text \in Outcomes

(* From the moment a revocation has been confirmed, no connection opened    *)
(* later carries a request to that certificate, neither the password nor    *)
(* anything else.                                                           *)
NoBytesToRevoked ==
  [][\A p \in Checks :
       /\ run[p].link = "open"
       /\ run'[p].stage > run[p].stage \/ run'[p].outcome = "success"
       => run[p].peer \notin before[p]]_vars

(* A run succeeds only if each of its requests went over a connection that  *)
(* was checked for that request.                                            *)
SuccessIsVerified ==
  \A p \in Checks : run[p].outcome = "success" => verified[p] = Requests

(* Every run ends, and the AP collector goes on to the next, although the   *)
(* verifier waits for a lock, for the responder, fails or is killed.        *)
EveryRunEnds == \A p \in Checks : run[p].stage > 0 ~> run[p].stage = 0
=============================================================================
