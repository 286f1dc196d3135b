---------------------------- MODULE OcspRollout ----------------------------
(***************************************************************************)
(* Putting the OCSP protection in place: runs of playbooks/unifi-ocsp.yml, *)
(* each with an inventory of its own, each of which may end at any task,   *)
(* between runs of the full provisioning, which knows nothing of OCSP.     *)
(* What a run leaves behind (files, Compose, containers) is where the next *)
(* one starts.                                                             *)
(*                                                                         *)
(* The filters that guard a run are operators.  Docker, the loss of a      *)
(* journal and what the collectors learn meanwhile are external.           *)
(***************************************************************************)
EXTENDS Integers, Sequences

CONSTANTS
  Images,      \* digests of images
  Enforcing,   \* those labelled connection-v1
  Optional,    \* those labelled certid-freshness-v1
  StockImage,  \* what a full provisioning runs
  Issuers,     \* issuer certificates an inventory may name
  Trusts,      \* values of what is read once by a container: CA, AP config
  Settings,    \* values of observability_unifi_ocsp_policy
  OldSettings, \* those of an installation of the former role
  Certs,
  Faults,      \* a subset of {"failure", "loss"}
  None

ASSUME RolloutAssumption ==
  /\ Optional \subseteq Enforcing /\ Enforcing \subseteq Images
  /\ StockImage \in Images \ Enforcing
  /\ OldSettings \in Settings
  /\ Faults \subseteq {"failure", "loss"}
  /\ None \notin Issuers \union Trusts \union Settings \union Images
  /\ \A revocations \in SUBSET Certs : revocations # None

Collectors == {"unpoller", "ap"}

VARIABLES
  compose,  \* compose.yaml: the two services
  running,  \* the containers, with what they have been created from
  files,    \* for each collector: policy, issuer, trust
  journal,  \* for each collector: the revocations of its state file, or None
  run,      \* the run under way: its task (0: none), its inventory
  ended,    \* how the last run ended
  ever      \* history: what has ever been in a journal

vars == <<compose, running, files, journal, run, ended, ever>>

-----------------------------------------------------------------------------
(* The filters                                                              *)

(* The limits of the age of a response, in seconds, and of its size.        *)
Hour == 3600
Day == 86400
Response == 65536

(* Faulty variant of Options: the lower limit of the age is included.       *)
OptionsFromHour(s) ==
  /\ s.algorithm \in {"sha256", "sha1"}
  /\ \/ s.profile = "strict" /\ ~s.accepted /\ s.age \in 1..Hour
     \/ s.profile = "bounded-24h" /\ s.accepted /\ s.given /\ s.age \in Hour..Day

(* options: the inventory's idea of the CertID and the profile.             *)
Options(s) ==
  /\ s.algorithm \in {"sha256", "sha1"}
  /\ \/ s.profile = "strict" /\ ~s.accepted /\ s.age \in 1..Hour
     \/ s.profile = "bounded-24h" /\ s.accepted /\ s.given /\ s.age \in (Hour + 1)..Day

(* policy: what an inventory may say, as far as the settings go.            *)
PolicyFilter(s) ==
  /\ Options(s)
  /\ s.timeout \in 1..5 /\ s.limit \in 1..Response
  /\ s.entries \in 1..128 /\ s.skew \in 0..120
  /\ s.ttl \in 1..300 /\ s.ttl <= s.age

(* policy_options: the same in the verifier, written a second time ...      *)
RuntimeOptions(s) ==
  /\ s.algorithm \in {"sha256", "sha1"}
  /\ s.profile \in {"strict", "bounded-24h"}
  /\ s.profile = "strict" => ~s.accepted /\ 1 <= s.age /\ s.age <= Hour
  /\ s.profile = "bounded-24h" => s.accepted /\ s.given /\ Hour < s.age /\ s.age <= Day

(* ... and Policy.__init__: what it accepts of a policy file.               *)
RuntimePolicy(s) ==
  /\ RuntimeOptions(s)
  /\ 0 < s.timeout /\ s.timeout <= 10 /\ 0 < s.limit /\ s.limit <= Response
  /\ 0 < s.entries /\ s.entries <= 128 /\ 0 <= s.skew /\ s.skew <= 120
  /\ 0 < s.ttl /\ s.ttl <= s.age /\ s.ttl <= 300

NonDefault(s) == s.algorithm # "sha256" \/ s.profile # "strict"

(* A service of Compose.  form: as the full provisioning writes it (stock), *)
(* as this role does (patched), as its former version did (legacy), or as   *)
(* somebody else has (custom).                                              *)
Service(image, form) == [image |-> image, form |-> form]

NoService == Service(None, "absent")

Protects(service) == service.form \in {"patched", "legacy"}

(* preserve: no protection of one collector without the other, and none     *)
(* replaced by an image that nobody has reviewed.                           *)
Preserved(c, image, previous) ==
  (\E k \in Collectors : Protects(c[k]))
  => \A k \in Collectors : Protects(c[k]) /\ c[k].image \in {image, previous}

(* compose_patch: when it finds nothing to be reviewed by hand ...          *)
Patchable(c) == c["unpoller"].form # "custom" /\ c["ap"].form # "custom"

(* ... and what it makes of Compose.                                        *)
Patched(image) == [k \in Collectors |-> Service(image, "patched")]

-----------------------------------------------------------------------------
(* The runs                                                                 *)

Step(task, collector) == <<task, collector>>

(* Faulty variant of Playbook: Compose is installed before the policy.      *)
PlaybookComposeFirst ==
  <<Step("guard", "both"), Step("journal", "unpoller"), Step("journal", "ap"),
    Step("trust", "unpoller"), Step("trust", "ap"), Step("install", "both"),
    Step("policy", "unpoller"), Step("policy", "ap"), Step("apply", "both")>>

(* The tasks after the review, in the order of unifi-ocsp.yml.              *)
Playbook ==
  <<Step("guard", "both"), Step("journal", "unpoller"), Step("journal", "ap"),
    Step("trust", "unpoller"), Step("trust", "ap"),
    Step("policy", "unpoller"), Step("policy", "ap"),
    Step("install", "both"), Step("apply", "both")>>

NoRun == [at |-> 0, image |-> None, issuer |-> None, trust |-> None,
          settings |-> None, changed |-> FALSE]

NoFiles == [policy |-> None, issuer |-> None, trust |-> None]
Down == [service |-> NoService, trust |-> None]

Stock == [k \in Collectors |-> IF k = "unpoller" THEN Service(StockImage, "stock")
                                                 ELSE NoService]

(* A host with the stock services, or some that somebody has changed.       *)
Fresh ==
  /\ compose \in {Stock, [Stock EXCEPT !["ap"] = Service(StockImage, "custom")],
                  [Stock EXCEPT !["unpoller"].form = "custom"]}
  /\ files = [k \in Collectors |-> NoFiles]
  /\ journal = [k \in Collectors |-> None]

(* A host where the former role has installed the protection.               *)
Former ==
  \E image \in Enforcing \ Optional, i \in Issuers, t \in Trusts :
    /\ compose = [k \in Collectors |-> Service(image, "legacy")]
    /\ files = [k \in Collectors |-> [policy |-> OldSettings, issuer |-> i, trust |-> t]]
    /\ journal = [k \in Collectors |-> {}]

Init ==
  /\ Fresh \/ Former
  /\ running = [k \in Collectors |-> [service |-> compose[k], trust |-> files[k].trust]]
  /\ run = NoRun /\ ended = "none"
  /\ ever = [k \in Collectors |-> {}]

Marker == files["unpoller"].policy # None

(* The review of the inventory, the image and the installed Compose.        *)
Review(image, previous, issuer, trust, settings) ==
  /\ run = NoRun
  /\ PolicyFilter(settings)
  /\ image \in Enforcing
  /\ NonDefault(settings) => image \in Optional
  /\ compose["unpoller"].form # "absent"
  /\ Preserved(compose, image, previous)
  /\ run' = [NoRun EXCEPT !.at = 1, !.image = image, !.issuer = issuer,
                          !.trust = trust, !.settings = settings]
  /\ ended' = "none"
  /\ UNCHANGED <<compose, running, files, journal, ever>>

At(task, k) == run # NoRun /\ Playbook[run.at] = Step(task, k)

Advance(changed) ==
  /\ run' = [run EXCEPT !.at = @ + 1, !.changed = @ \/ changed]
  /\ UNCHANGED ended

(* Faulty variant of Guarded: a lost journal is no reason to refuse.        *)
GuardedIssuer == Marker => files["unpoller"].issuer = run.issuer

(* Faulty variant of Guarded: the issuer may be another one.                *)
GuardedJournals == Marker => \A k \in Collectors : journal[k] # None

(* What is refused once there is a marker: another issuer, a lost journal.  *)
Guarded == Marker => /\ files["unpoller"].issuer = run.issuer
                     /\ \A k \in Collectors : journal[k] # None

Guard ==
  /\ At("guard", "both") /\ Guarded
  /\ Advance(FALSE)
  /\ UNCHANGED <<compose, running, files, journal, ever>>

(* Initialize state, force: false.                                          *)
InitJournal(k) ==
  /\ At("journal", k)
  /\ journal' = IF journal[k] = None THEN [journal EXCEPT ![k] = {}] ELSE journal
  /\ Advance(FALSE)
  /\ UNCHANGED <<compose, running, files, ever>>

(* Write public trust and issuer, and what else a container reads once.     *)
WriteTrust(k) ==
  /\ At("trust", k)
  /\ files' = [files EXCEPT ![k].issuer = run.issuer, ![k].trust = run.trust]
  /\ Advance(files' # files)
  /\ UNCHANGED <<compose, running, journal, ever>>

(* Write the policy; the one of UnPoller is the marker.                     *)
WritePolicy(k) ==
  /\ At("policy", k)
  /\ files' = [files EXCEPT ![k].policy = run.settings]
  /\ Advance(files' # files)
  /\ UNCHANGED <<compose, running, journal, ever>>

(* Prepare, stage, validate and install the candidate.                      *)
Install ==
  /\ At("install", "both") /\ Patchable(compose)
  /\ compose' = Patched(run.image)
  /\ Advance(FALSE)
  /\ UNCHANGED <<running, files, journal, ever>>

(* A container is created anew when its service differs from what it was    *)
(* created from, and in any case when this run has changed a file.          *)
Recreated(k) ==
  IF run.changed \/ running[k].service # compose[k]
  THEN [service |-> compose[k], trust |-> files[k].trust]
  ELSE running[k]

(* Apply only the coordinated collectors.  When Docker fails, some          *)
(* containers are the new ones, some the old ones and some are gone.        *)
Apply ==
  /\ At("apply", "both")
  /\ run' = NoRun
  /\ \/ /\ running' = [k \in Collectors |-> Recreated(k)]
        /\ ended' = "ok"
     \/ /\ "failure" \in Faults
        /\ \E f \in [Collectors -> {"new", "old", "gone"}] :
             running' = [k \in Collectors |-> CASE f[k] = "new" -> Recreated(k)
                                                [] f[k] = "old" -> running[k]
                                                [] f[k] = "gone" -> Down]
        /\ ended' = "failed"
  /\ UNCHANGED <<compose, files, journal, ever>>

(* The run ends at a task that fails or refuses.                            *)
Fail ==
  /\ "failure" \in Faults
  /\ run # NoRun
  /\ run' = NoRun /\ ended' = "failed"
  /\ UNCHANGED <<compose, running, files, journal, ever>>

(* unifi-ocsp-preserve: the opt-in is off and there is no marker.           *)
MayProvision == ~Marker

(* The full provisioning.                                                   *)
Provision ==
  /\ run = NoRun /\ MayProvision
  /\ compose' = Stock
  /\ running' = [k \in Collectors |-> [service |-> Stock[k], trust |-> None]]
  /\ ended' = "none"
  /\ UNCHANGED <<files, journal, run, ever>>

(* External: a protected collector records a revocation.                    *)
Learn(k, c) ==
  /\ Protects(running[k].service) /\ journal[k] # None /\ files[k].policy # None
  /\ journal' = [journal EXCEPT ![k] = @ \union {c}]
  /\ ever' = [ever EXCEPT ![k] = @ \union {c}]
  /\ UNCHANGED <<compose, running, files, run, ended>>

(* External: the directory of a journal is lost, between two runs.          *)
Lose(k) ==
  /\ "loss" \in Faults
  /\ Marker /\ run = NoRun /\ journal[k] # None
  /\ journal' = [journal EXCEPT ![k] = None]
  /\ UNCHANGED <<compose, running, files, run, ended, ever>>

Task == \/ Guard \/ Install \/ Apply
        \/ \E k \in Collectors : InitJournal(k) \/ WriteTrust(k) \/ WritePolicy(k)

Next ==
  \/ \E image \in Enforcing, previous \in Images, i \in Issuers, t \in Trusts, s \in Settings :
       Review(image, previous, i, t, s)
  \/ Task \/ Fail \/ Provision
  \/ \E k \in Collectors : Lose(k) \/ \E c \in Certs : Learn(k, c)

Spec == Init /\ [][Next]_vars

-----------------------------------------------------------------------------
(* Properties                                                               *)

(* Once Compose protects both collectors it always does, whatever runs      *)
(* begin and fail, and whenever somebody provisions the whole platform: the *)
(* marker that stops this is another file, which must be there first.       *)
ProtectionStays ==
  [][\A k \in Collectors : Protects(compose[k]) => Protects(compose'[k])]_vars

(* A journal that is there has all it ever had: none is started anew after  *)
(* it has been lost, although a first installation, resumed after a failure *)
(* at any task, must start it.                                              *)
HistoryKept ==
  \A k \in Collectors : journal[k] # None => ever[k] \subseteq journal[k]

(* The issuer of a collector, part of the identities in its journal, stays  *)
(* as long as there is a revocation, although only the file of UnPoller is  *)
(* compared.                                                                *)
IssuerStays ==
  [][\A k \in Collectors : ever[k] # {} => files'[k].issuer = files[k].issuer]_vars

(* A policy that the inventory's filter lets through is one that the        *)
(* verifier accepts: otherwise a run would end in a denial of everything.   *)
RuntimeAccepts ==
  \A k \in Collectors : files[k].policy # None => RuntimePolicy(files[k].policy)

(* What the runbook says: policy and trust changes recreate both collectors *)
(* together, so that after a successful run they work with the trust that   *)
(* is installed.  Not so when a run has failed after writing it: for the    *)
(* next run nothing has changed.                                            *)
TrustIsApplied ==
  run = NoRun /\ ended = "ok"
  => \A k \in Collectors : running[k].trust = files[k].trust

(* What the role says: never deploy options into the old verifier.  Not so  *)
(* between the writing of the policy, which the verifier reads for every    *)
(* check, and the replacing of its container, or until the next successful  *)
(* run if this one fails there.                                             *)
OptionsOnlyToCapable ==
  \A k \in Collectors :
    Protects(running[k].service) /\ files[k].policy # None /\ NonDefault(files[k].policy)
    => running[k].service.image \in Optional
=============================================================================
