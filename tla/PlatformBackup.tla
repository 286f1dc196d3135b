--------------------------- MODULE PlatformBackup ---------------------------
(***************************************************************************)
(* The four backup scripts: each captures the data of one service into a   *)
(* staging directory, two of them while the service is made quiet, and     *)
(* publishes the directory by renaming it.  A script is a program of       *)
(* commands under `set -Ee': a command that fails runs the trap and ends   *)
(* the script; a signal runs the trap after the current command, and the   *)
(* script goes on with the next one.                                       *)
(*                                                                         *)
(* A process is a run of the script of the service, by the timer or by     *)
(* hand.  The service, Docker and signals are external.  In the trap, cd is *)
(* taken to find the project directory, and rm to remove what was staged.  *)
(***************************************************************************)
EXTENDS Integers, Sequences

CONSTANTS
  Services,   \* a subset of the four
  Processes,
  MaxBackups, \* bound on the backups published
  Faults      \* a subset of FaultKinds

(* A command fails; it fails after it has had its effect; the failure of    *)
(* one that ends in `|| true' is swallowed; a signal; a kill.               *)
FaultKinds == {"fail", "late", "swallow", "signal", "kill"}

ASSUME BackupAssumption ==
  /\ Services \subseteq {"glpi", "netbox", "zabbix", "observability"}
  /\ MaxBackups \in Nat /\ Faults \subseteq FaultKinds

VARIABLES
  service,    \* the one this behaviour is about
  active,     \* it serves: no maintenance mode, containers up
  script,     \* for each process its command (0: none), trap, flag
  staging,    \* for each process its staging directory
  published,  \* the backups under their final names
  metric,     \* the metrics file
  abandoned   \* history: how it came to be quiet with no script at work

vars == <<service, active, script, staging, published, metric, abandoned>>

Quieted == {"glpi", "observability"}
Data == {"database", "files"}
Parts == Data \union {"meta", "sums"}

-----------------------------------------------------------------------------
(* The programs                                                             *)

(* Faulty variant of Program: the trap is set once there is something to    *)
(* clean up.                                                                *)
ProgramTrapsLate(s) ==
  CASE s = "glpi" ->
         <<"mkdir", "quiet", "flag", "trap", "database", "files", "meta", "sums",
           "resume", "publish", "untrap", "report", "prune">>
    [] s = "observability" ->
         <<"mkdir", "inspect", "quiet", "trap", "database", "files", "resume", "wait",
           "meta", "sums", "publish", "untrap", "report", "prune">>
    [] OTHER ->
         <<"mkdir", "trap", "database", "files", "meta", "sums",
           "publish", "untrap", "report", "prune">>

(* create_backup of each service.                                           *)
Program(s) ==
  CASE s = "glpi" ->
         <<"mkdir", "trap", "quiet", "flag", "database", "files", "meta", "sums",
           "resume", "publish", "untrap", "report", "prune">>
    [] s = "observability" ->
         <<"mkdir", "inspect", "trap", "quiet", "database", "files", "resume", "wait",
           "meta", "sums", "publish", "untrap", "report", "prune">>
    [] OTHER ->
         <<"mkdir", "trap", "database", "files", "meta", "sums",
           "publish", "untrap", "report", "prune">>

NoScript == [at |-> 0, trap |-> FALSE, flag |-> FALSE]
NoStaging == [made |-> FALSE, parts |-> {}, quiet |-> TRUE]

Init ==
  /\ service \in Services
  /\ active = TRUE
  /\ script = [p \in Processes |-> NoScript]
  /\ staging = [p \in Processes |-> NoStaging]
  /\ published = {}
  /\ metric = [ok |-> -1, last |-> 0]
  /\ abandoned = "no"

(* Backups are told apart by the order of their publication.                *)
Newest == IF published = {} THEN 0
          ELSE (CHOOSE b \in published : \A c \in published : c.stamp <= b.stamp).stamp

Idle(p) == script[p] = NoScript
Current(p) == Program(service)[script[p].at]
At(p, command) == ~Idle(p) /\ Current(p) = command

Rest(p) == IF script[p].at = Len(Program(service)) THEN NoScript
           ELSE [script[p] EXCEPT !.at = @ + 1]

Advance(p) == script' = [script EXCEPT ![p] = Rest(p)]

(* The timer, or somebody by hand.                                          *)
Start(p) ==
  /\ Idle(p) /\ Newest < MaxBackups
  /\ script' = [script EXCEPT ![p].at = 1]
  /\ staging' = [staging EXCEPT ![p] = NoStaging]
  /\ UNCHANGED <<service, active, published, metric, abandoned>>

(* The service serves, or is quiet and was abandoned so for this reason.    *)
Serve(on, why) == /\ active' = on
                  /\ abandoned' = IF on THEN "no" ELSE why

MakeStaging(p) ==
  /\ At(p, "mkdir")
  /\ staging' = [staging EXCEPT ![p].made = TRUE]
  /\ Advance(p)
  /\ UNCHANGED <<service, active, published, metric, abandoned>>

SetTrap(p) ==
  /\ At(p, "trap")
  /\ script' = [script EXCEPT ![p] = [Rest(p) EXCEPT !.trap = TRUE]]
  /\ UNCHANGED <<service, active, staging, published, metric, abandoned>>

(* maintenance:enable, or docker compose stop: it is for this script now to *)
(* let the service go, whoever abandoned it before.                         *)
Quiet(p) ==
  /\ At(p, "quiet")
  /\ Serve(FALSE, "no")
  /\ Advance(p)
  /\ UNCHANGED <<service, staging, published, metric>>

SetFlag(p) ==
  /\ At(p, "flag")
  /\ script' = [script EXCEPT ![p] = [Rest(p) EXCEPT !.flag = TRUE]]
  /\ UNCHANGED <<service, active, staging, published, metric, abandoned>>

(* A part is captured, if there is a directory to write to.                 *)
Capture(p, part) ==
  /\ At(p, part) /\ staging[p].made
  /\ staging' = [staging EXCEPT
       ![p].parts = @ \union {part},
       ![p].quiet = @ /\ (part \in Data /\ service \in Quieted => ~active)]
  /\ Advance(p)
  /\ UNCHANGED <<service, active, published, metric, abandoned>>

(* leave_maintenance does something only under the flag, recover_services   *)
(* always.                                                                  *)
Leaves(p) == service = "observability" \/ script[p].flag

(* maintenance:disable, or docker compose up, each with `|| true': without  *)
(* an effect it ends as well as with one, and things stay as they are.      *)
LeaveQuiet(p, serving, why) ==
  \/ Leaves(p) /\ Serve(TRUE, "no")
  \/ Leaves(p) /\ "swallow" \in Faults /\ Serve(serving, "swallowed")
  \/ ~Leaves(p) /\ Serve(serving, why)

Resume(p) ==
  /\ At(p, "resume")
  /\ LeaveQuiet(p, active, abandoned)
  /\ script' = [script EXCEPT ![p] = [Rest(p) EXCEPT !.flag = FALSE]]
  /\ UNCHANGED <<service, staging, published, metric>>

(* Faulty variant of Look: it does not matter whether the service is up.    *)
LookBlind(p) ==
  /\ At(p, "inspect") \/ At(p, "wait")
  /\ Advance(p)
  /\ UNCHANGED <<service, active, staging, published, metric, abandoned>>

(* Reading the containers, which may be stopped; waiting until they serve.  *)
Look(p) ==
  /\ At(p, "inspect") \/ (At(p, "wait") /\ active)
  /\ Advance(p)
  /\ UNCHANGED <<service, active, staging, published, metric, abandoned>>

(* mv staging final.                                                        *)
Publish(p) ==
  /\ At(p, "publish") /\ staging[p].made
  /\ published' = published \union
       {[stamp |-> Newest + 1, parts |-> staging[p].parts,
         quiet |-> staging[p].quiet, aged |-> FALSE]}
  /\ staging' = [staging EXCEPT ![p] = NoStaging]
  /\ Advance(p)
  /\ UNCHANGED <<service, active, metric, abandoned>>

Untrap(p) ==
  /\ At(p, "untrap")
  /\ script' = [script EXCEPT ![p] = [Rest(p) EXCEPT !.trap = FALSE]]
  /\ UNCHANGED <<service, active, staging, published, metric, abandoned>>

(* write_metrics 1.                                                         *)
Report(p) ==
  /\ At(p, "report")
  /\ metric' = [ok |-> 1, last |-> Newest]
  /\ Advance(p)
  /\ UNCHANGED <<service, active, staging, published, abandoned>>

(* find -mtime: what is older than the retention goes.                      *)
Prune(p) ==
  /\ At(p, "prune")
  /\ published' = {b \in published : ~b.aged}
  /\ Advance(p)
  /\ UNCHANGED <<service, active, staging, metric, abandoned>>

-----------------------------------------------------------------------------
(* Failures                                                                 *)

(* Faulty variant of Cleaned: the staging directory stays.                  *)
Uncleaned(p) == staging[p]

(* The staging directory after cleanup_partial.                             *)
Cleaned(p) == NoStaging

(* cleanup_partial, with `next' what becomes of the script, and of the      *)
(* service if it is not let go.                                             *)
Cleanup(p, next, serving, why) ==
  /\ LeaveQuiet(p, serving, why)
  /\ staging' = [staging EXCEPT ![p] = Cleaned(p)]
  /\ metric' = [metric EXCEPT !.ok = 0]
  /\ script' = [script EXCEPT ![p] = next]

(* The script ends without having cleaned up.                               *)
Die(p) ==
  /\ script' = [script EXCEPT ![p] = NoScript]
  /\ UNCHANGED <<active, staging, metric>>

(* Commands that touch what may be out of order; the others are builtins.   *)
MayFail == {"mkdir", "inspect", "quiet", "wait", "publish", "report", "prune"} \union Parts

(* A command fails: `set -e' ends the script, by way of the trap if set.    *)
Fail(p) ==
  /\ \E c \in MayFail : At(p, c)
  /\ \/ "fail" \in Faults
     \/ Current(p) \in Parts \union {"publish"} /\ ~staging[p].made
     \/ Current(p) = "wait" /\ ~active
  /\ IF script[p].trap
     THEN Cleanup(p, NoScript, active, abandoned)
     ELSE Die(p) /\ UNCHANGED abandoned
  /\ UNCHANGED <<service, published>>

(* The service is quiet although the command that made it so has failed:    *)
(* maintenance_enabled is not yet set.                                      *)
QuietButFails(p) ==
  /\ "late" \in Faults /\ At(p, "quiet")
  /\ Cleanup(p, NoScript, FALSE, "unflagged")
  /\ UNCHANGED <<service, published>>

(* INT or TERM to the script: under the trap it goes on after it.           *)
Signal(p) ==
  /\ "signal" \in Faults /\ ~Idle(p)
  /\ IF script[p].trap
     THEN Cleanup(p, [script[p] EXCEPT !.flag = FALSE], active, abandoned)
     ELSE Die(p) /\ UNCHANGED abandoned
  /\ UNCHANGED <<service, published>>

(* KILL, or a power loss.                                                   *)
Kill(p) ==
  /\ "kill" \in Faults /\ ~Idle(p)
  /\ Die(p)
  /\ abandoned' = IF active THEN "no" ELSE "killed"
  /\ UNCHANGED <<service, published>>

(* External: time passes.                                                   *)
Age ==
  /\ \E b \in published : ~b.aged
  /\ published' = {[b EXCEPT !.aged = TRUE] : b \in published}
  /\ UNCHANGED <<service, active, script, staging, metric, abandoned>>

Command(p) ==
  \/ MakeStaging(p) \/ SetTrap(p) \/ Quiet(p) \/ SetFlag(p)
  \/ \E part \in Parts : Capture(p, part)
  \/ Resume(p) \/ Look(p) \/ Publish(p) \/ Untrap(p) \/ Report(p) \/ Prune(p)

Next ==
  \/ \E p \in Processes :
       Start(p) \/ Command(p) \/ Fail(p) \/ QuietButFails(p) \/ Signal(p) \/ Kill(p)
  \/ Age

Spec == Init /\ [][Next]_vars

-----------------------------------------------------------------------------
(* Properties                                                               *)

(* What has a final name is complete and was captured while the service was *)
(* quiet, although a script that has been signalled goes on with its next   *)
(* command after it has let the service go.                                 *)
PublishedIsWhole ==
  \A b \in published : b.parts = Parts /\ b.quiet

(* When no script is at work the service serves, whichever command failed   *)
(* and whenever a signal came.  There are three ways around it: a kill; the *)
(* very command that made the service quiet fails once it has done so; and  *)
(* the one that lets it go fails, which `|| true' hides from the script.    *)
ServiceComesBack ==
  (\A p \in Processes : Idle(p)) /\ ~active => abandoned # "no"

(* A script that reports success leaves a service that serves, although the *)
(* failure of docker compose up is swallowed: the wait after it notices.    *)
(* GLPI's script has no such look at what maintenance:disable has done.     *)
SuccessServes ==
  [][\A p \in Processes :
       Report(p) => active \/ (service = "glpi" /\ abandoned = "swallowed")]_vars

(* What the runbook backup-restore.md says: GLPI enters maintenance only    *)
(* during the consistent capture.  Not so when maintenance:disable fails.   *)
QuietOnlyWhileCapturing ==
  ~active => \E p \in Processes : \E c \in Parts \union {"flag", "resume"} : At(p, c)

(* What the README of glpi_backup says: the error handler always attempts   *)
(* to disable maintenance mode before reporting failure.  Not so when       *)
(* maintenance:enable fails after it has taken effect.                      *)
HandlerAlwaysAttempts == abandoned # "unflagged"
=============================================================================
