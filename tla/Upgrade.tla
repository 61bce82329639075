------------------------------ MODULE Upgrade ------------------------------
(***************************************************************************)
(* One application upgrade from end to end: the UpgradeCoordinator of the  *)
(* daemon (upgrade.rs), its requests (daemon.rs), the detached helper that *)
(* replaces the package and the database, and the watchdog that takes over *)
(* from an interrupted helper (native_upgrade.rs).  The daemon of the next *)
(* version knows what happened only from the files the last one left.      *)
(* There is one newer release, and one helper with its watchdog at a time. *)
(***************************************************************************)
EXTENDS MutationGate, FiniteSets

CONSTANTS
    Faults,      \* the faults that may happen, each at most once
    MaxFaults    \* bound on the faults of a behaviour

ASSUME FaultsAssumption == MaxFaults \in Nat /\ IsFiniteSet(Faults)

(* The requests that mutate.                                               *)
ASSUME MutatorsAssumption == {"check", "download", "install"} \subseteq Mutators

VARIABLES
    daemon,      \* "down", "booting", "up" or "stopping"
    version,     \* of the daemon that runs, or ran last
    status,      \* UpgradeStatus
    offer,       \* what UpgradeState holds: nothing, a release, a staged one
    stage,       \* where each request that mutates is
    files,       \* of release.json and payload.staged, those that exist
    token,       \* whether the daemon's authentication token exists
    package,     \* the installed package: "old", "new" or "broken"
    db,          \* schema of the database, or "none", or one created "empty"
    backup,      \* whether rollback/ holds a complete backup
    attempt,     \* the attempt journal
    pc,          \* where the helper and the watchdog are
    request,     \* who waits for each FinalizeUpdate, and what it carries
    hit          \* the faults that have happened

service == <<daemon, version, status, offer, stage, files, token>>
disk == <<package, db, backup, attempt>>
uvars == <<gate, service, disk, pc, request, hit>>

Processes == {"helper", "watchdog"}
StagedFiles == {"metadata", "payload"}
NoRequest == [by |-> "nobody", outcome |-> "none", recorded |-> FALSE]

Init ==
    /\ inProgress = FALSE /\ pending = FALSE /\ finalizing = FALSE
    /\ file = FALSE
    /\ task = [t \in Tasks |-> "idle"]
    /\ daemon = "up" /\ version = "old" /\ status = "Idle" /\ offer = "none"
    /\ stage = [t \in Mutators |-> "none"] /\ files = {} /\ token = TRUE
    /\ package = "old" /\ db = "old" /\ backup = FALSE
    /\ attempt = [phase |-> "none", rollbacks |-> 0]
    /\ pc = [p \in Processes |-> "ended"]
    /\ request = [t \in Finalizers |-> NoRequest]
    /\ hit = {}

Fault(k) ==
    /\ k \in Faults \ hit
    /\ Cardinality(hit) < MaxFaults
    /\ hit' = hit \cup {k}

Fine == UNCHANGED hit

----------------------------------------------------------------------------
(* The daemon's life.                                                      *)

(* Mutant: a database of a newer schema is opened.                         *)
CanBootAnySchema == package # "broken"

(* A newer schema than the daemon knows is refused.                        *)
CanBoot == package # "broken" /\ ~(package = "old" /\ db = "new")

(* ReleaseMetadata::validate: the release is newer than the daemon of v.   *)
NewerThan(v) == v = "old"

(* recover_staged: a complete release that is newer than the daemon.       *)
Recoverable == NewerThan(package) /\ files = StagedFiles

(* Startup up to the open database: the endpoint is bound, recover_staged  *)
(* removes what it does not recover, the handoff file is looked for, the   *)
(* database is created or migrated.                                        *)
Boot ==
    /\ daemon = "down"
    /\ CanBoot
    /\ daemon' = "booting"
    /\ version' = package
    /\ files' = IF Recoverable THEN files ELSE {}
    /\ offer' = IF Recoverable THEN "staged" ELSE "none"
    /\ status' = IF Recoverable THEN "Staged" ELSE "Idle"
    /\ stage' = [t \in Mutators |-> "none"]
    /\ db' = IF db = "none" THEN "empty" ELSE IF db = "old" THEN package ELSE db
    /\ NewGate
    /\ UNCHANGED <<token, package, backup, attempt, request>>

(* The token is written last, when requests can be served.                 *)
Ready ==
    /\ daemon = "booting"
    /\ daemon' = "up"
    /\ token' = TRUE
    /\ Fine
    /\ UNCHANGED <<gate, version, status, offer, stage, files, disk, pc, request>>

(* A connection ends after the request it is handling, the token goes last.*)
Stopped ==
    /\ daemon = "stopping"
    /\ \A t \in Tasks : task[t] = "idle"
    /\ daemon' = "down"
    /\ token' = FALSE
    /\ Fine
    /\ UNCHANGED <<gate, version, status, offer, stage, files, disk, pc, request>>

DaemonCrashes ==
    /\ daemon # "down"
    /\ Fault("daemon")
    /\ daemon' = "down"
    /\ task' = [t \in Tasks |-> "idle"]
    /\ request' = [t \in Finalizers |-> NoRequest]
    /\ UNCHANGED <<inProgress, pending, finalizing, file, version, status, offer,
                   stage, files, token, disk, pc>>

(* A client that finds no daemon starts one from the installed package.    *)
UserStartsDaemon ==
    /\ Boot
    /\ Fault("user")
    /\ UNCHANGED pc

DaemonLife == Ready \/ Stopped \/ DaemonCrashes \/ UserStartsDaemon

----------------------------------------------------------------------------
(* The requests of the UpgradeCoordinator.                                 *)

Serving == daemon \in {"up", "stopping"}

(* An install quiesces the lifecycle: it waits for the activities at work, *)
(* and until it ends none begins.  A check, a download, and a finalization *)
(* from record_outcome on are such activities.                             *)
Quiesced == stage["install"] \in {"prepared", "failed", "spawned"}

BeginRequest(t) ==
    /\ daemon = "up"
    /\ Begin(t, "idle")
    /\ stage' = [stage EXCEPT ![t] = "begun"]
    /\ Fine
    /\ UNCHANGED <<daemon, version, status, offer, files, token, disk, pc, request>>

(* The end of a request, with what it leaves in UpgradeState.              *)
EndRequest(t, newStatus, newOffer, newFiles) ==
    /\ Serving
    /\ EndMutation(t)
    /\ status' = newStatus
    /\ offer' = newOffer
    /\ files' = newFiles
    /\ stage' = [stage EXCEPT ![t] = "none"]
    /\ UNCHANGED <<daemon, version, token, disk, pc, request>>

(* check(): the published release is newer, or the one that runs, or it    *)
(* cannot be fetched.  A staged payload is forgotten but not removed.      *)
CheckForUpdate ==
    /\ stage["check"] = "begun"
    /\ Fine
    /\ \/ /\ ~Quiesced /\ NewerThan(version)
          /\ EndRequest("check", "Available", "available", files)
       \/ /\ ~Quiesced /\ ~NewerThan(version)
          /\ EndRequest("check", "UpToDate", "none", files)
       \/ EndRequest("check", status, offer, files)

Proceed(t, from, to) ==
    /\ Serving
    /\ task[t] = "mutating"
    /\ stage[t] = from
    /\ stage' = [stage EXCEPT ![t] = to]
    /\ Fine
    /\ UNCHANGED <<gate, daemon, version, token, disk, pc, request>>

(* download(): without a release there is nothing to do; a transfer that   *)
(* fails or is cancelled removes whatever was staged before.               *)
NothingToDownload ==
    /\ stage["download"] = "begun"
    /\ offer = "none" \/ Quiesced
    /\ Fine
    /\ EndRequest("download", status, offer, files)

StartDownload ==
    /\ offer # "none"
    /\ ~Quiesced
    /\ Proceed("download", "begun", "fetching")
    /\ status' = "Downloading"
    /\ UNCHANGED <<offer, files>>

DownloadFails ==
    /\ stage["download"] \in {"fetching", "stored"}
    /\ Fine
    /\ EndRequest("download", "Available", "available", {})

(* The old files go before the new ones come, the payload first.           *)
ClearOldPayload ==
    /\ Proceed("download", "fetching", "cleared")
    /\ files' = {}
    /\ UNCHANGED <<status, offer>>

StorePayload ==
    /\ Proceed("download", "cleared", "payload")
    /\ files' = files \cup {"payload"}
    /\ UNCHANGED <<status, offer>>

StoreMetadata ==
    /\ Proceed("download", "payload", "stored")
    /\ files' = files \cup {"metadata"}
    /\ UNCHANGED <<status, offer>>

Downloaded ==
    /\ stage["download"] = "stored"
    /\ Fine
    /\ EndRequest("download", "Staged", "staged", files)

Download ==
    \/ NothingToDownload \/ StartDownload \/ DownloadFails \/ ClearOldPayload
    \/ StorePayload \/ StoreMetadata \/ Downloaded

(* InstallUpdate: refused without a verified payload or while Sessions run *)
(* that were not confirmed.                                                *)
InstallRefused ==
    /\ stage["install"] = "begun"
    /\ Fine
    /\ EndRequest("install", status, offer, files)

(* verify_payload: length and digest are those of the release.             *)
PayloadVerified == "payload" \in files

PrepareInstall ==
    /\ offer = "staged"
    /\ PayloadVerified
    /\ \A t \in Finalizers : ~request[t].recorded
    /\ stage["download"] \in {"none", "begun"}
    /\ pc = [p \in Processes |-> "ended"]
    /\ Proceed("install", "begun", "prepared")
    /\ status' = "Installing"
    /\ UNCHANGED <<offer, files>>

(* Sessions or clients do not stop in time, or no helper starts:           *)
(* cancel_prepared_install.                                                *)
InstallCancelled ==
    /\ stage["install"] \in {"prepared", "failed"}
    /\ task["install"] = "mutating"
    /\ Fine
    /\ EndRequest("install",
         IF status = "Installing" /\ offer = "staged" THEN "Staged" ELSE status,
         offer, files)

(* spawn_native_upgrade_helper: the handoff, then the process.             *)
HandOver ==
    /\ stage["install"] = "prepared"
    /\ WriteHandoff("install")
    /\ Fine
    /\ UNCHANGED <<service, disk, pc, request>>

HelperNotSpawned ==
    /\ WithdrawHandoff("install")
    /\ Fault("spawn")
    /\ stage' = [stage EXCEPT !["install"] = "failed"]
    /\ UNCHANGED <<daemon, version, status, offer, files, token, disk, pc, request>>

SpawnHelper ==
    /\ stage["install"] = "prepared"
    /\ task["install"] = "written"
    /\ stage' = [stage EXCEPT !["install"] = "spawned"]
    /\ pc' = [pc EXCEPT !["helper"] = "begin"]
    /\ Fine
    /\ UNCHANGED <<gate, daemon, version, status, offer, files, token, disk, request>>

(* The answer reaches the client and the daemon stops; or it does not, and *)
(* the daemon stays.                                                       *)
InstallAnswered ==
    /\ stage["install"] = "spawned"
    /\ Serving
    /\ EndMutation("install")
    /\ stage' = [stage EXCEPT !["install"] = "none"]
    /\ \/ daemon' = "stopping" /\ Fine
       \/ Fault("response") /\ UNCHANGED daemon
    /\ UNCHANGED <<version, status, offer, files, token, disk, pc, request>>

Install ==
    \/ InstallRefused \/ PrepareInstall \/ InstallCancelled \/ HandOver
    \/ HelperNotSpawned \/ SpawnHelper \/ InstallAnswered

Requests ==
    \/ \E t \in Mutators : BeginRequest(t)
    \/ CheckForUpdate
    \/ Download
    \/ Install

----------------------------------------------------------------------------
(* FinalizeUpdate, as the daemon carries it out.                           *)

(* The request of t answers p, which waits for it no longer.               *)
Answered(t) == request' = [request EXCEPT ![t] = NoRequest]

(* record_outcome accepts the outcome it already has, an installation of   *)
(* its own version, and a rollback of what it has staged.                  *)
Acceptable(outcome) ==
    \/ status = outcome
    \/ outcome = "Installed" /\ version = "new"
    \/ outcome = "RolledBack" /\ offer = "staged"

RecordOutcome(t) ==
    LET o == request[t].outcome
    IN  /\ task[t] \in {"finalizing", "mutating"}
        /\ ~request[t].recorded
        /\ ~Quiesced
        /\ Acceptable(o)
        /\ status' = o
        /\ offer' = IF status = o THEN offer ELSE "none"
        /\ files' = IF status = o THEN files ELSE {}
        /\ request' = [request EXCEPT ![t].recorded = TRUE]
        /\ UNCHANGED <<gate, daemon, version, stage, token, disk, pc, hit>>

(* The steps that change nothing but the gate.                             *)
GateStep(t) ==
    /\ \/ CheckPending(t) /\ task'[t] # "idle"
       \/ Begin(t, "ordinary")
       \/ ClaimFinalization(t) /\ task'[t] # "idle"
       \/ request[t].recorded /\ RemoveHandoff(t)
       \/ ClearPending(t)
       \/ ClearInProgress(t)
    /\ UNCHANGED <<service, disk, pc, request, hit>>

(* A lease that is not granted, an outcome that is not accepted, or a file *)
(* that is not there: the request fails.                                   *)
FinalizeFails(t) ==
    /\ \/ RefuseOrdinary(t)
       \/ CheckPending(t) /\ task'[t] = "idle"
       \/ ClaimFinalization(t) /\ task'[t] = "idle"
       \/ /\ ~request[t].recorded
          /\ Quiesced \/ ~Acceptable(request[t].outcome)
          /\ AbandonFinalization(t) \/ EndMutation(t)
       \/ request[t].recorded /\ ~file /\ AbandonFinalization(t)
    /\ Answered(t)
    /\ UNCHANGED <<service, disk, pc, hit>>

(* Where the process that waits for the answer goes on.                    *)
AfterReport == [report |-> "complete", reportBack |-> "record", reportCancel |-> "cancelled"]

Acknowledge(t) ==
    /\ \/ ClearFinalizing(t)
       \/ request[t].recorded /\ EndMutation(t)
    /\ Answered(t)
    /\ pc' = [p \in Processes |->
                IF request[t].by = p THEN AfterReport[pc[p]] ELSE pc[p]]
    /\ UNCHANGED <<service, disk, hit>>

FinalizeUpdate(t) ==
    /\ Serving
    /\ RecordOutcome(t) \/ GateStep(t) \/ FinalizeFails(t) \/ Acknowledge(t)

(* report_outcome: one request after another until one is acknowledged; an *)
(* attempt that takes too long is left to the daemon.                      *)
Reporting(p) == pc[p] \in DOMAIN AfterReport

Outcome(p) == IF pc[p] = "report" THEN "Installed" ELSE "RolledBack"

SendReport(p, t) ==
    /\ Reporting(p)
    /\ \A u \in Finalizers : request[u].by # p
    /\ daemon = "up"
    /\ ReadPending(t)
    /\ request' = [request EXCEPT ![t] =
           [by |-> p,
            outcome |-> Outcome(p),
            recorded |-> FALSE]]
    /\ UNCHANGED <<service, disk, pc, hit>>

ReportAttemptTimesOut(p, t) ==
    /\ request[t].by = p
    /\ request' = [request EXCEPT ![t].by = "nobody"]
    /\ Fault("overlap")
    /\ UNCHANGED <<gate, service, disk, pc>>

----------------------------------------------------------------------------
(* Steps of the helper and the watchdog.                                   *)

Go(p, from, to) ==
    /\ pc[p] = from
    /\ pc' = [pc EXCEPT ![p] = to]
    /\ UNCHANGED <<gate, request>>

(* A step that succeeds, or by the fault k goes elsewhere.                 *)
Try(p, from, to, k, otherwise) ==
    \/ Go(p, from, to) /\ Fine
    \/ Go(p, from, otherwise) /\ Fault(k)

(* write_attempt replaces the journal in one step.                         *)
Write(p, from, to, phase) ==
    /\ Go(p, from, to)
    /\ attempt' = [attempt EXCEPT !.phase = phase]
    /\ Fine
    /\ UNCHANGED <<service, package, db, backup>>

(* wait_for_daemon_stop sees no more than the token; a token that nobody   *)
(* is about to remove runs into the deadline.                              *)
WaitForDaemonStop(p, from, to) ==
    /\ \/ ~token /\ Go(p, from, to) /\ Fine
       \/ token /\ daemon \in {"down", "up"} /\ Go(p, from, "ended") /\ Fine
       \/ token /\ Go(p, from, "ended") /\ Fault("timeout")
    /\ UNCHANGED <<service, disk>>

(* start_installed_daemon: `daemon start` finds a daemon or runs one, and  *)
(* waits until it serves.                                                  *)
StartDaemon(p, from, waiting, to, failed) ==
    \/ /\ pc[p] = from
       /\ Boot
       /\ pc' = [pc EXCEPT ![p] = waiting]
       /\ Fine
    \/ /\ daemon = "up"
       /\ Go(p, from, to) \/ Go(p, waiting, to)
       /\ Fine
       /\ UNCHANGED <<service, disk>>
    \/ /\ daemon = "down"
       /\ Go(p, waiting, failed) /\ Fine
       /\ UNCHANGED <<service, disk>>
    \/ /\ Go(p, from, failed) \/ Go(p, waiting, failed)
       /\ Fault("launch")
       /\ UNCHANGED <<service, disk>>

(* verify_health: the daemon that answers is the new one and runs from the *)
(* new package; no answer before the deadline is a failure.                *)
Healthy == daemon = "up" /\ version = "new" /\ package = "new"

VerifyHealth(p, from, to) ==
    /\ \/ /\ Healthy
          /\ Try(p, from, to, "health", "rollback")
       \/ /\ ~Healthy /\ daemon # "booting"
          /\ Go(p, from, "rollback") /\ Fine
    /\ UNCHANGED <<service, disk>>

(* report_outcome ends without an acknowledgement: the daemon is not       *)
(* there, does not accept the outcome, or is at another mutation, until    *)
(* the deadline.                                                           *)
ReportFails(p) ==
    /\ \A t \in Finalizers : request[t].by # p
    /\ Reporting(p)
    /\ \/ daemon = "down" /\ Fine
       \/ daemon = "up" /\ ~Acceptable(Outcome(p)) /\ Fine
       \/ daemon = "up" /\ ~pending /\ inProgress /\ Fine
       \/ Fault("timeout")
    /\ Go(p, pc[p], "ended")
    /\ UNCHANGED <<service, disk>>

----------------------------------------------------------------------------
(* run(): the helper.                                                      *)

RefuseRepeatedAttempt(p) ==
    /\ Go(p, "begin", IF attempt.phase = "none" THEN "waitStop" ELSE "ended")
    /\ Fine
    /\ UNCHANGED <<service, disk>>

(* A client does not exit: the upgrade is called off with no journal.      *)
WaitForClients(p) ==
    /\ Try(p, "waitClients", "journal", "clients", "cancelStart")
    /\ UNCHANGED <<service, disk>>

(* The staged release is verified again, by its signed metadata.           *)
ValidStagedRelease == files = StagedFiles

(* create_backup: all that will be replaced, the database too, in place of *)
(* an older backup.                                                        *)
CreateBackup ==
    /\ backup' = TRUE
    /\ UNCHANGED <<package, db, attempt>>

PrepareReplacement(p) ==
    \/ /\ ValidStagedRelease
       /\ Go(p, "prepare", "backed") /\ Fine
       /\ CreateBackup
       /\ UNCHANGED service
    \/ /\ (~ValidStagedRelease /\ Fine) \/ Fault("prepare")
       /\ Go(p, "prepare", "cancelStart")
       /\ UNCHANGED <<service, disk>>

SpawnWatchdog(p) ==
    /\ \/ /\ pc[p] = "spawn"
          /\ pc' = [pc EXCEPT ![p] = "apply", !["watchdog"] = "watching"]
          /\ Fine
          /\ UNCHANGED <<gate, request>>
       \/ Go(p, "spawn", "cancelStart") /\ Fault("spawn")
    /\ UNCHANGED <<service, disk>>

(* apply_package: between the old and the new package there is neither.    *)
ApplyPackage(p) ==
    /\ \/ Go(p, "install", "installing") /\ Fine /\ package' = "broken"
       \/ Go(p, "installing", "launch") /\ Fine /\ package' = "new"
       \/ Go(p, "installing", "rollback") /\ Fault("installer")
          /\ package' \in {"broken", "old"}
    /\ UNCHANGED <<service, db, backup, attempt>>

RelaunchDesktop(p) ==
    /\ Try(p, "desktop", "report", "desktop", "rollback")
    /\ UNCHANGED <<service, disk>>

RemoveBackup(p) ==
    /\ Go(p, "clean", "ended")
    /\ Fine
    /\ backup' = FALSE
    /\ UNCHANGED <<service, package, db, attempt>>

(* cancel_before_replacement, after the outcome is reported.               *)
CancelReported(p) ==
    /\ IF attempt.phase = "none"
       THEN Go(p, "cancelled", "ended") /\ Fine
       ELSE Try(p, "cancelled", "record", "desktop", "ended")
    /\ UNCHANGED <<service, disk>>

Helper(p) ==
    \/ RefuseRepeatedAttempt(p)
    \/ WaitForDaemonStop(p, "waitStop", "waitClients")
    \/ WaitForClients(p)
    \/ Write(p, "journal", "prepare", "Preparing")
    \/ PrepareReplacement(p)
    \/ Write(p, "backed", "spawn", "BackupReady")
    \/ SpawnWatchdog(p)
    \/ Write(p, "apply", "install", "Applying")
    \/ ApplyPackage(p)
    \/ StartDaemon(p, "launch", "launched", "health", "rollback")
    \/ VerifyHealth(p, "health", "healthy")
    \/ Write(p, "healthy", "desktop", "Healthy")
    \/ StartDaemon(p, "cancelStart", "cancelStarted", "reportCancel", "ended")
    \/ CancelReported(p)

----------------------------------------------------------------------------
(* perform_rollback and complete_rollback, by either process.              *)

(* The backup is complete and has the digest that was journalled.          *)
BackupIsIntact == backup

(* Mutant: the outcome is journalled before the backup is restored.        *)
ClaimRollbackAsDone(p) ==
    /\ Go(p, "rollback", "stopDaemon")
    /\ attempt' = [phase |-> "RolledBack", rollbacks |-> 1]
    /\ Fine
    /\ UNCHANGED <<service, package, db, backup>>

ClaimRollback(p) ==
    /\ IF /\ attempt.rollbacks = 0
          /\ attempt.phase \notin {"RollbackStarted", "RolledBack"}
          /\ BackupIsIntact
       THEN /\ Go(p, "rollback", "stopDaemon")
            /\ attempt' = [phase |-> "RollbackStarted", rollbacks |-> 1]
       ELSE /\ Go(p, "rollback", "ended")
            /\ UNCHANGED attempt
    /\ Fine
    /\ UNCHANGED <<service, package, db, backup>>

(* A ShutdownDaemon request that fails is ignored.                         *)
StopDaemon(p) ==
    /\ Go(p, "stopDaemon", "waitRestore")
    /\ \/ /\ daemon' = IF daemon = "up" THEN "stopping" ELSE daemon
          /\ Fine
       \/ Fault("timeout") /\ UNCHANGED daemon
    /\ UNCHANGED <<version, status, offer, stage, files, token, disk>>

(* restore_backup: the package and then the database, each gone before it  *)
(* is back.                                                                *)
RestorePackage(p) ==
    /\ \/ Go(p, "restore", "restorePackage") /\ package' = "broken"
       \/ Go(p, "restorePackage", "restoreDatabase") /\ package' = "old"
    /\ Fine
    /\ UNCHANGED <<service, db, backup, attempt>>

RestoreDatabase(p) ==
    /\ \/ Go(p, "restoreDatabase", "copyDatabase") /\ db' = "none"
       \/ Go(p, "copyDatabase", "restart") /\ db' = "old"
    /\ Fine
    /\ UNCHANGED <<service, package, backup, attempt>>

(* What cannot be restored is tried again, until the deadline.             *)
RestoreFails(p) ==
    /\ pc[p] \in {"restore", "restorePackage", "restoreDatabase", "copyDatabase"}
    /\ Go(p, pc[p], "ended")
    /\ Fault("restore")
    /\ UNCHANGED <<service, disk>>

ReopenDesktop(p) ==
    /\ Try(p, "reopen", "reportBack", "reopen", "ended")
    /\ UNCHANGED <<service, disk>>

(* The rest of an attempt, once the package is replaced or to be restored. *)
Conclude(p) ==
    \/ RelaunchDesktop(p)
    \/ Write(p, "complete", "clean", "Completed")
    \/ RemoveBackup(p)
    \/ ClaimRollback(p)
    \/ StopDaemon(p)
    \/ WaitForDaemonStop(p, "waitRestore", "restore")
    \/ RestorePackage(p)
    \/ RestoreDatabase(p)
    \/ RestoreFails(p)
    \/ StartDaemon(p, "restart", "restarted", "reopen", "ended")
    \/ ReopenDesktop(p)
    \/ ReportFails(p)
    \/ Write(p, "record", "ended", "RolledBack")

(* Mutant: a rollback that was started is taken for a finished one.        *)
TakeOverNoRollback(p) ==
    LET phase == attempt.phase
    IN  /\ pc["helper"] = "ended"
        /\ Go(p, "watching",
             CASE file /\ phase = "Healthy" -> "recheck"
               [] file /\ phase \in {"BackupReady", "Applying"} -> "rollback"
               [] OTHER -> "ended")
        /\ Fine
        /\ UNCHANGED <<service, disk>>

(* watch(): nothing to do while the helper lives or once the handoff is    *)
(* gone; else the journal says how far the helper came.                    *)
TakeOver(p) ==
    LET phase == attempt.phase
    IN  /\ pc["helper"] = "ended"
        /\ Go(p, "watching",
             CASE file /\ phase = "Healthy" -> "recheck"
               [] file /\ phase \in {"BackupReady", "Applying"} -> "rollback"
               [] file /\ phase = "RollbackStarted" -> "stopDaemon"
               [] OTHER -> "ended")
        /\ Fine
        /\ UNCHANGED <<service, disk>>

Watchdog(p) == TakeOver(p) \/ VerifyHealth(p, "recheck", "desktop")

(* A process is killed; the daemon goes on with the request it sent.       *)
Killed(p) ==
    /\ pc[p] # "ended"
    /\ Fault(p)
    /\ pc' = [pc EXCEPT ![p] = "ended"]
    /\ request' = [t \in Finalizers |->
          IF request[t].by = p THEN [request[t] EXCEPT !.by = "nobody"] ELSE request[t]]
    /\ UNCHANGED <<gate, service, disk>>

Next ==
    \/ DaemonLife
    \/ Requests
    \/ \E t \in Finalizers : FinalizeUpdate(t)
    \/ \E p \in Processes, t \in Finalizers :
          SendReport(p, t) \/ ReportAttemptTimesOut(p, t)
    \/ Helper("helper")
    \/ Watchdog("watchdog")
    \/ \E p \in Processes : Conclude(p) \/ Killed(p)

Spec == Init /\ [][Next]_uvars

(* Processes run, requests are handled and a deadline comes; clients need  *)
(* not ask for anything and nothing has to go wrong.                       *)
Fairness ==
    /\ WF_uvars(Ready) /\ WF_uvars(Stopped)
    /\ WF_uvars(CheckForUpdate) /\ WF_uvars(Download) /\ WF_uvars(Install /\ Fine)
    /\ \A t \in Finalizers : WF_uvars(FinalizeUpdate(t))
    /\ \A p \in Processes :
         /\ WF_uvars(\E t \in Finalizers : SendReport(p, t))
         /\ SF_uvars(ReportFails(p) /\ Fine)
    /\ WF_uvars(Helper("helper") /\ Fine)
    /\ WF_uvars(Watchdog("watchdog") /\ Fine)
    /\ \A p \in Processes : WF_uvars(Conclude(p) /\ Fine)

FairSpec == Spec /\ Fairness

----------------------------------------------------------------------------
(* Every variable has its type.                                            *)
TypeOK ==
    /\ daemon \in {"down", "booting", "up", "stopping"}
    /\ version \in {"old", "new"}
    /\ status \in {"Idle", "UpToDate", "Available", "Downloading", "Staged",
                   "Installing", "Installed", "RolledBack"}
    /\ offer \in {"none", "available", "staged"}
    /\ files \subseteq StagedFiles
    /\ package \in {"old", "new", "broken"}
    /\ db \in {"old", "new", "none", "empty"}
    /\ attempt.phase \in {"none", "Preparing", "BackupReady", "Applying", "Healthy",
                         "RollbackStarted", "RolledBack", "Completed"}
    /\ attempt.rollbacks \in 0..1

(* What the journal says is what is installed: a completed upgrade left    *)
(* the new package and its database, a rolled back one the old package and *)
(* the database as it was.                                                 *)
OutcomeIsTrue ==
    /\ attempt.phase = "Completed" => package = "new" /\ db = "new"
    /\ attempt.phase = "RolledBack" => package = "old" /\ db = "old"

(* A daemon that serves never runs on the database of another version.     *)
DatabaseFitsDaemon ==
    daemon = "up" /\ version = "old" => db # "new"

(* Once there is a watchdog, an upgrade ends with a daemon that serves,    *)
(* whatever becomes of the helper, the package, the replacement and its    *)
(* desktop.  A fault that strikes the recovery itself, a daemon killed     *)
(* with its token left behind, or one that somebody starts in between, can *)
(* prevent it.                                                             *)
DaemonReturns ==
    pc["watchdog"] = "watching" ~>
        \/ pc = [p \in Processes |-> "ended"] /\ daemon = "up"
        \/ hit \cap {"watchdog", "daemon", "user", "timeout", "restore", "launch"} # {}

(* A replacement daemon refuses competing mutations only until the helper  *)
(* or its watchdog has reported installation or rollback: when both are    *)
(* done and nothing went wrong but the health of the new version, the      *)
(* reservation is removed.                                                 *)
RollbackIsReported ==
    pc = [p \in Processes |-> "ended"] /\ daemon = "up" /\ hit \subseteq {"health"}
        /\ attempt.phase # "none"
    => ~file
============================================================================
