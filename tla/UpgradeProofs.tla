--------------------------- MODULE UpgradeProofs ---------------------------
(***************************************************************************)
(* Theorems about Upgrade, for any number of FinalizeUpdate requests, any  *)
(* faults and any number of them: a pending handoff keeps mutations out,   *)
(* one request finalizes it, the journal tells the truth about what is     *)
(* installed and no daemon serves a database of a newer version.  And one  *)
(* about DesktopNotifier, for any Sessions, Workspaces and channels: only  *)
(* what was clicked is opened; and one about Desktop, for any Sessions and *)
(* any number of requests and events: the keyboard reaches no terminal but *)
(* the one it was given to.                                                *)
(***************************************************************************)
EXTENDS Upgrade, DesktopNotifier, Desktop, SequenceTheorems, TLAPS

Places == {"idle", "mutating", "written", "ordinary", "offered", "checked",
           "finalizing", "removed", "cleared", "released"}

(* Where a request has the lease of the finalization.                      *)
Lease == {"finalizing", "removed", "cleared", "released"}

(* A daemon that does not serve has no request under way.                  *)
IdleUnlessServing ==
    daemon \in {"down", "booting"} => \A t \in Tasks : task[t] = "idle"

(* Whoever mutates began while nothing was pending, and only a daemon that *)
(* starts finds a handoff pending; whoever is about to release the flag    *)
(* has cleared it.                                                         *)
NothingPending ==
    \A t \in Tasks : task[t] \in {"mutating", "written", "cleared"} => ~pending

(* The lease goes with the flag and has one holder.                        *)
LeaseIsHeld ==
    /\ \A t \in Tasks : task[t] \in Lease => finalizing
    /\ \A s, t \in Tasks : task[s] \in Lease /\ task[t] \in Lease => s = t

GateInv ==
    /\ task \in [Tasks -> Places]
    /\ IdleUnlessServing
    /\ PendingBlocksMutations
    /\ NothingPending
    /\ LeaseIsHeld

----------------------------------------------------------------------------
(* The helper, the watchdog and what they replace.                         *)

Phases == {"none", "Preparing", "BackupReady", "Applying", "Healthy",
           "RollbackStarted", "RolledBack", "Completed"}
Early == {"none", "Preparing", "BackupReady"}
Cancelling == {"cancelStart", "cancelStarted", "reportCancel", "cancelled"}
Restored == {"restart", "restarted", "reopen", "reportBack"}
Restoring == {"stopDaemon", "waitRestore", "restore", "restorePackage",
              "restoreDatabase", "copyDatabase"} \cup Restored
Stations == {"ended", "watching", "begin", "waitStop", "waitClients", "journal",
            "prepare", "backed", "spawn", "apply", "install", "installing",
            "launch", "launched", "health", "healthy", "desktop", "report",
            "complete", "clean", "rollback", "record", "recheck"}
           \cup Cancelling \cup Restoring
Waiting == [by : Processes \cup {"nobody"},
            outcome : {"none", "Installed", "RolledBack"}, recorded : BOOLEAN]

Stages == {"none", "begun", "fetching", "cleared", "payload", "stored",
           "prepared", "failed", "spawned"}

DiskType ==
    /\ daemon \in {"down", "booting", "up", "stopping"}
    /\ version \in {"old", "new"}
    /\ package \in {"old", "new", "broken"}
    /\ db \in {"old", "new", "none", "empty"}
    /\ attempt \in [phase : Phases, rollbacks : 0 .. 1]
    /\ pc \in [Processes -> Stations]
    /\ request \in [Finalizers -> Waiting]
    /\ stage \in [Mutators -> Stages]

(* The watchdog does nothing beside a helper, and no helper is started     *)
(* beside either.                                                          *)
OneAtWork ==
    /\ pc["watchdog"] \notin {"ended", "watching"} => pc["helper"] = "ended"
    /\ stage["install"] = "prepared" => \A p \in Processes : pc[p] = "ended"

(* A request that somebody waits for was sent by a process that reports,   *)
(* and each has one.                                                       *)
ReportersWait ==
    \A t \in Finalizers : request[t].by \in Processes =>
        /\ Reporting(request[t].by)
        /\ \A u \in Finalizers : request[u].by = request[t].by => u = t

Old == package = "old" /\ db = "old"
New == package = "new" /\ db = "new"

(* Where a process is, what the journal says and what is installed.        *)
Fits(p) ==
    /\ pc[p] \in {"waitStop", "waitClients", "journal"} => attempt.phase = "none"
    /\ pc[p] \in {"prepare", "backed"} => attempt.phase = "Preparing"
    /\ pc[p] \in {"spawn", "apply"} => attempt.phase = "BackupReady"
    /\ pc[p] \in Cancelling => attempt.phase \in Early
    /\ pc[p] \in {"install", "installing", "launch", "launched", "health", "healthy"}
         => attempt.phase = "Applying"
    /\ pc[p] \in {"recheck", "desktop", "report", "complete"}
         => attempt.phase = "Healthy"
    /\ pc[p] \in Restoring => attempt.phase = "RollbackStarted"
    /\ pc[p] = "healthy" => New
    /\ pc[p] \in {"restoreDatabase", "copyDatabase"} => package = "old"
    /\ pc[p] \in Restored \cup {"record"} => Old

(* What each phase of the journal says of the package and the database.    *)
(* Until something is restored a daemon runs on a database of its version. *)
JournalIsTrue ==
    /\ attempt.phase \in Early \cup {"RolledBack"} => Old
    /\ attempt.phase \in {"Healthy", "Completed"} => New
    /\ attempt.phase # "RollbackStarted" => db \in {"old", "new"}
    /\ attempt.phase \notin {"RollbackStarted", "RolledBack"} /\ daemon # "down"
         => db = version

(* An old daemon never finds a new database.                               *)
NoNewerDatabase == daemon # "down" /\ version = "old" => db # "new"

DiskInv ==
    /\ DiskType
    /\ OneAtWork
    /\ ReportersWait
    /\ \A p \in Processes : Fits(p)
    /\ JournalIsTrue
    /\ NoNewerDatabase

----------------------------------------------------------------------------
(* The gate.                                                               *)

(* What one request can do to the gate.                                    *)
Operation(t) ==
    \/ \E from \in {"idle", "ordinary"} : Begin(t, from)
    \/ WriteHandoff(t) \/ WithdrawHandoff(t) \/ EndMutation(t)
    \/ ReadPending(t) \/ RefuseOrdinary(t) \/ CheckPending(t)
    \/ ClaimFinalization(t) \/ AbandonFinalization(t) \/ RemoveHandoff(t)
    \/ ClearPending(t) \/ ClearInProgress(t) \/ ClearFinalizing(t)

(* An operation of a daemon that goes on serving keeps the gate in order.  *)
LEMMA OperationKeepsGate ==
    ASSUME GateInv, NEW t \in Tasks, Operation(t),
           daemon' \notin {"down", "booting"}
    PROVE  GateInv'
<1> USE DEF GateInv, PendingBlocksMutations, NothingPending, LeaseIsHeld,
            IdleUnlessServing, Places, Lease, Move
<1>1. ASSUME NEW from \in {"idle", "ordinary"}, Begin(t, from) PROVE GateInv'
  BY <1>1 DEF Begin
<1>2. CASE WriteHandoff(t)
  BY <1>2 DEF WriteHandoff
<1>3. CASE WithdrawHandoff(t)
  BY <1>3 DEF WithdrawHandoff
<1>4. CASE EndMutation(t)
  BY <1>4 DEF EndMutation
<1>5. CASE ReadPending(t)
  BY <1>5 DEF ReadPending
<1>6. CASE RefuseOrdinary(t)
  BY <1>6 DEF RefuseOrdinary
<1>7. CASE CheckPending(t)
  BY <1>7 DEF CheckPending
<1>8. CASE ClaimFinalization(t)
  BY <1>8 DEF ClaimFinalization
<1>9. CASE AbandonFinalization(t)
  BY <1>9 DEF AbandonFinalization
<1>10. CASE RemoveHandoff(t)
  BY <1>10 DEF RemoveHandoff
<1>11. CASE ClearPending(t)
  BY <1>11 DEF ClearPending
<1>12. CASE ClearInProgress(t)
  BY <1>12 DEF ClearInProgress
<1>13. CASE ClearFinalizing(t)
  BY <1>13 DEF ClearFinalizing
<1> QED
  BY <1>1, <1>2, <1>3, <1>4, <1>5, <1>6, <1>7, <1>8, <1>9, <1>10, <1>11, <1>12,
     <1>13 DEF Operation

(* A daemon starts with no request under way and with the flags that the   *)
(* file demands.                                                           *)
LEMMA BootKeepsGate == ASSUME GateInv, Boot PROVE GateInv'
BY DEF GateInv, PendingBlocksMutations, NothingPending, LeaseIsHeld,
       IdleUnlessServing, Places, Lease, Boot, NewGate

(* A step that leaves the gate alone and stops no busy daemon.             *)
Quiet ==
    /\ UNCHANGED gate
    /\ daemon' \in {"down", "booting"} =>
         daemon \in {"down", "booting"} \/ \A t \in Tasks : task[t] = "idle"

(* Such a step keeps the gate in order.                                    *)
LEMMA QuietKeepsGate == ASSUME GateInv, Quiet PROVE GateInv'
BY DEF GateInv, PendingBlocksMutations, NothingPending, LeaseIsHeld,
       IdleUnlessServing, Quiet, gate

(* The helper and the watchdog touch the gate only when they start a       *)
(* daemon.                                                                 *)
LEMMA ProcessesAtTheGate ==
    ASSUME NEW p \in Processes,
           Helper(p) \/ Watchdog(p) \/ Conclude(p) \/ Killed(p)
    PROVE  Boot \/ Quiet
<1> USE DEF Quiet, Go, Try, Write, gate, service
<1>1. CASE Helper(p)
  BY <1>1 DEF Helper, RefuseRepeatedAttempt, WaitForDaemonStop, WaitForClients,
       PrepareReplacement, SpawnWatchdog, ApplyPackage, StartDaemon,
       VerifyHealth, CancelReported
<1>2. CASE Watchdog(p)
  BY <1>2 DEF Watchdog, TakeOver, VerifyHealth
<1>3. CASE Conclude(p)
  BY <1>3 DEF Conclude, RelaunchDesktop, RemoveBackup, ClaimRollback, StopDaemon,
       WaitForDaemonStop, RestorePackage, RestoreDatabase, RestoreFails,
       StartDaemon, ReopenDesktop, ReportFails
<1>4. CASE Killed(p)
  BY <1>4 DEF Killed
<1> QED BY <1>1, <1>2, <1>3, <1>4

(* Every step is a start of the daemon, an operation of one request or     *)
(* none of the gate's, or the end of them all.                             *)
LEMMA GateSteps ==
    ASSUME GateInv, Next
    PROVE  \/ Boot \/ Quiet
           \/ DaemonCrashes
           \/ \E t \in Tasks :
                Operation(t) /\ daemon' \notin {"down", "booting"}
<1>1. "check" \in Tasks /\ "download" \in Tasks /\ "install" \in Tasks
  BY MutatorsAssumption DEF Tasks
<1>2. \A t \in Tasks : task[t] # "idle" => daemon \notin {"down", "booting"}
  BY DEF GateInv, IdleUnlessServing
<1>3. CASE DaemonLife
  BY <1>3 DEF DaemonLife, Ready, Stopped, UserStartsDaemon, Quiet
<1>4. ASSUME NEW t \in Mutators, BeginRequest(t)
      PROVE  Operation(t) /\ daemon' \notin {"down", "booting"}
  BY <1>4 DEF BeginRequest, Operation
<1>5. CASE CheckForUpdate
  BY <1>1, <1>5 DEF CheckForUpdate, EndRequest, Serving, Operation
<1>6. CASE Download
  <2>1. CASE NothingToDownload \/ DownloadFails \/ Downloaded
    BY <1>1, <2>1 DEF NothingToDownload, DownloadFails, Downloaded, EndRequest,
         Serving, Operation
  <2>2. CASE StartDownload \/ ClearOldPayload \/ StorePayload \/ StoreMetadata
    BY <2>2 DEF StartDownload, ClearOldPayload, StorePayload, StoreMetadata,
         Proceed, Quiet
  <2> QED BY <1>6, <2>1, <2>2 DEF Download
<1>7. CASE Install
  <2>1. CASE InstallRefused \/ InstallCancelled
    BY <1>1, <2>1 DEF InstallRefused, InstallCancelled, EndRequest, Serving,
         Operation
  <2>2. CASE PrepareInstall \/ SpawnHelper
    BY <2>2 DEF PrepareInstall, Proceed, SpawnHelper, Quiet
  <2>3. CASE HandOver
    BY <1>1, <1>2, <2>3 DEF HandOver, WriteHandoff, Move, service, Operation
  <2>4. CASE HelperNotSpawned
    BY <1>1, <1>2, <2>4 DEF HelperNotSpawned, WithdrawHandoff, Move, Operation
  <2>5. CASE InstallAnswered
    BY <1>1, <2>5 DEF InstallAnswered, Serving, Operation
  <2> QED BY <1>7, <2>1, <2>2, <2>3, <2>4, <2>5 DEF Install
<1>8. ASSUME NEW t \in Finalizers, FinalizeUpdate(t)
      PROVE  Quiet \/ (Operation(t) /\ daemon' \notin {"down", "booting"})
  BY <1>8 DEF FinalizeUpdate, Serving, RecordOutcome, GateStep, FinalizeFails,
       Acknowledge, service, Quiet, Operation
<1>9. ASSUME NEW p \in Processes, NEW t \in Finalizers,
             SendReport(p, t) \/ ReportAttemptTimesOut(p, t)
      PROVE  Quiet \/ (Operation(t) /\ daemon' \notin {"down", "booting"})
  BY <1>9 DEF SendReport, ReportAttemptTimesOut, service, Quiet, Operation
<1>10. "helper" \in Processes /\ "watchdog" \in Processes
  BY DEF Processes
<1> QED
  BY <1>3, <1>4, <1>5, <1>6, <1>7, <1>8, <1>9, <1>10, ProcessesAtTheGate
  DEF Next, Requests, Tasks

(* The gate stays in order.                                                *)
THEOREM GateInvariance == Spec => []GateInv
<1>1. Init => GateInv
  BY DEF Init, GateInv, PendingBlocksMutations, NothingPending, LeaseIsHeld,
         IdleUnlessServing, Places, Lease
<1>2. ASSUME GateInv, [Next]_uvars PROVE GateInv'
  <2>1. CASE DaemonCrashes
    BY <1>2, <2>1 DEF DaemonCrashes, GateInv, PendingBlocksMutations,
         NothingPending, LeaseIsHeld, IdleUnlessServing, Places, Lease
  <2>2. CASE UNCHANGED uvars
    BY <1>2, <2>2, QuietKeepsGate DEF uvars, service, Quiet
  <2> QED
    BY <1>2, <2>1, <2>2, GateSteps, BootKeepsGate, QuietKeepsGate,
       OperationKeepsGate
<1> QED BY <1>1, <1>2, PTL DEF Spec

(* While a handoff is pending the mutation flag stays taken, whatever      *)
(* finalizers, restarts and crashes do: no download or install begins      *)
(* beside an installer that has not reported.                              *)
THEOREM HandoffBlocks == Spec => []PendingBlocksMutations
<1>1. GateInv => PendingBlocksMutations
  BY DEF GateInv
<1> QED BY <1>1, GateInvariance, PTL

(* At most one of the FinalizeUpdate requests has the lease.               *)
THEOREM OneFinalizes == Spec => []OneFinalization
<1>1. GateInv => OneFinalization
  BY DEF GateInv, LeaseIsHeld, OneFinalization, Lease, Tasks
<1> QED BY <1>1, GateInvariance, PTL

----------------------------------------------------------------------------
(* The package, the database and the journal.                              *)

(* The processes that report are the ones with an answer to wait for.      *)
LEMMA ReportingPlaces ==
    \A p : Reporting(p) <=> pc[p] \in {"report", "reportBack", "reportCancel"}
BY DEF Reporting, AfterReport

(* A step of one process that changes nothing the other one counts on: it  *)
(* is the only one at work.                                                *)
LEMMA ProcessStep ==
    ASSUME DiskInv, NEW p \in Processes, NEW to \in Stations,
           pc[p] # "ended", to # "watching",
           pc[p] = "watching" => pc["helper"] = "ended",
           Reporting(p) => \A t \in Finalizers : request[t].by # p,
           pc' = [pc EXCEPT ![p] = to], request' = request,
           stage' = stage \/ stage' = [t \in Mutators |-> "none"],
           daemon' \in {"down", "booting", "up", "stopping"},
           version' \in {"old", "new"},
           package' \in {"old", "new", "broken"},
           db' \in {"old", "new", "none", "empty"},
           attempt' \in [phase : Phases, rollbacks : 0 .. 1],
           Fits(p)', JournalIsTrue', NoNewerDatabase'
    PROVE  DiskInv'
<1> USE DEF Processes
<1>1. /\ pc \in [Processes -> Stations]
      /\ stage \in [Mutators -> Stages]
      /\ request \in [Finalizers -> Waiting]
  BY DEF DiskInv, DiskType
<1>2. /\ pc["watchdog"] \notin {"ended", "watching"} => pc["helper"] = "ended"
      /\ stage["install"] # "prepared"
  BY DEF DiskInv, OneAtWork
<1>3. \A q \in Processes : q # p =>
        pc'[q] = pc[q] /\ pc[q] \in {"ended", "watching"}
  BY <1>1, <1>2
<1>4. pc'[p] = to
  BY <1>1
<1>5. DiskType'
  <2>1. pc' \in [Processes -> Stations]
    BY <1>1
  <2>2. stage' \in [Mutators -> Stages]
    BY <1>1 DEF Stages
  <2> QED BY <1>1, <2>1, <2>2 DEF DiskType
<1>6. OneAtWork'
  <2>1. stage'["install"] # "prepared"
    BY <1>2, MutatorsAssumption
  <2> QED BY <1>2, <1>3, <1>4, <2>1 DEF OneAtWork
<1>7. ReportersWait'
  <2>1. \A t \in Finalizers : request[t].by \in Processes =>
          /\ pc[request[t].by] \in {"report", "reportBack", "reportCancel"}
          /\ \A u \in Finalizers : request[u].by = request[t].by => u = t
    BY ReportingPlaces DEF DiskInv, ReportersWait
  <2>2. \A t \in Finalizers : request[t].by # p
    BY <2>1, ReportingPlaces
  <2>3. \A t \in Finalizers : request[t].by \notin Processes
    BY <1>3, <2>1, <2>2
  <2> QED BY <2>3 DEF ReportersWait
<1>8. \A q \in Processes : Fits(q)'
  <2>1. ASSUME NEW q \in Processes, q # p PROVE Fits(q)'
    <3>1. pc'[q] \in {"ended", "watching"}
      BY <1>3, <2>1
    <3> QED BY <3>1 DEF Fits, Cancelling, Restoring, Restored
  <2> QED BY <2>1
<1> QED BY <1>5, <1>6, <1>7, <1>8 DEF DiskInv

(* A daemon that starts migrates only an older database, and refuses to    *)
(* start on a newer one.                                                   *)
LEMMA BootFacts ==
    ASSUME DiskInv, Boot
    PROVE  /\ daemon' = "booting" /\ version' \in {"old", "new"}
           /\ db' \in {"old", "new", "none", "empty"}
           /\ package' = package /\ attempt' = attempt /\ request' = request
           /\ stage' = [t \in Mutators |-> "none"]
           /\ JournalIsTrue' /\ NoNewerDatabase'
           /\ Old => Old'
           /\ New => New'
<1>1. /\ package \in {"old", "new", "broken"}
      /\ db \in {"old", "new", "none", "empty"}
      /\ attempt.phase \in Phases
      /\ JournalIsTrue
  BY DEF DiskInv, DiskType
<1>2. /\ package # "broken" /\ ~(package = "old" /\ db = "new")
      /\ daemon' = "booting" /\ version' = package
      /\ db' = IF db = "none" THEN "empty" ELSE IF db = "old" THEN package ELSE db
      /\ package' = package /\ attempt' = attempt /\ request' = request
      /\ stage' = [t \in Mutators |-> "none"]
  BY DEF Boot, CanBoot
<1>3. JournalIsTrue'
  BY <1>1, <1>2 DEF JournalIsTrue, Old, New, Early
<1>4. NoNewerDatabase'
  BY <1>1, <1>2 DEF NoNewerDatabase
<1> QED BY <1>1, <1>2, <1>3, <1>4 DEF Old, New

(* A step of the daemon's requests, or of its life, replaces nothing.      *)
LEMMA ServiceStep ==
    ASSUME DiskInv, UNCHANGED <<disk, version, pc>>,
           daemon' \in {"down", "booting", "up", "stopping"},
           daemon' # "down" => daemon # "down",
           stage' \in [Mutators -> Stages],
           stage'["install"] = "prepared" =>
               stage["install"] = "prepared" \/ pc = [p \in Processes |-> "ended"],
           request' \in [Finalizers -> Waiting],
           \A t \in Finalizers :
               request'[t].by = request[t].by \/ request'[t].by = "nobody"
    PROVE  DiskInv'
<1>1. DiskType /\ OneAtWork /\ ReportersWait /\ (\A p \in Processes : Fits(p))
      /\ JournalIsTrue /\ NoNewerDatabase
  BY DEF DiskInv
<1>2. UNCHANGED <<package, db, attempt, version, pc>>
  BY DEF disk
<1>3. DiskType'
  BY <1>1, <1>2 DEF DiskType
<1>4. OneAtWork'
  BY <1>1, <1>2 DEF OneAtWork
<1>5. ReportersWait'
  BY <1>1, <1>2 DEF ReportersWait, Reporting, Processes
<1>6. \A p \in Processes : Fits(p)'
  BY <1>1, <1>2 DEF Fits, Old, New
<1>7. JournalIsTrue' /\ NoNewerDatabase'
  BY <1>1, <1>2 DEF JournalIsTrue, NoNewerDatabase, Old, New
<1> QED BY <1>3, <1>4, <1>5, <1>6, <1>7 DEF DiskInv

----------------------------------------------------------------------------
(* The steps of the daemon.                                                *)

(* The life of the daemon.                                                 *)
LEMMA LifeKeeps == ASSUME DiskInv, DaemonLife PROVE DiskInv'
<1>1. DiskType
  BY DEF DiskInv
<1>2. CASE Ready
  BY <1>1, <1>2, ServiceStep DEF Ready, DiskType
<1>3. CASE Stopped
  BY <1>1, <1>3, ServiceStep DEF Stopped, DiskType
<1>4. CASE DaemonCrashes
  <2>1. /\ request' = [t \in Finalizers |-> NoRequest]
        /\ \A t \in Finalizers : request'[t].by = "nobody"
        /\ request' \in [Finalizers -> Waiting]
    BY <1>4 DEF DaemonCrashes, NoRequest, Waiting
  <2> QED BY <1>1, <1>4, <2>1, ServiceStep DEF DaemonCrashes, DiskType
<1>5. CASE UserStartsDaemon
  <2>1. Boot /\ pc' = pc
    BY <1>5 DEF UserStartsDaemon
  <2>2. /\ daemon' = "booting" /\ version' \in {"old", "new"}
        /\ db' \in {"old", "new", "none", "empty"}
        /\ package' = package /\ attempt' = attempt /\ request' = request
        /\ stage' = [t \in Mutators |-> "none"]
        /\ JournalIsTrue' /\ NoNewerDatabase'
        /\ Old => Old'
        /\ New => New'
    BY <2>1, BootFacts
  <2>3. DiskType'
    BY <1>1, <2>1, <2>2 DEF DiskType, Stages
  <2>4. OneAtWork' /\ ReportersWait'
    BY <2>1, <2>2, MutatorsAssumption
    DEF DiskInv, OneAtWork, ReportersWait, Reporting
  <2>5. \A p \in Processes : Fits(p)'
    BY <2>1, <2>2 DEF DiskInv, Fits, Old
  <2> QED BY <2>2, <2>3, <2>4, <2>5 DEF DiskInv
<1> QED BY <1>2, <1>3, <1>4, <1>5 DEF DaemonLife

(* One request goes on to another stage, and replaces nothing.             *)
Advances(t, to) ==
    /\ stage' = [stage EXCEPT ![t] = to]
    /\ to = "prepared" => pc = [p \in Processes |-> "ended"]
    /\ UNCHANGED <<disk, version, pc, request>>
    /\ \/ daemon' = daemon
       \/ daemon # "down" /\ daemon' = "stopping"

(* Such a step keeps the invariant.                                        *)
LEMMA AdvanceKeeps ==
    ASSUME DiskInv, NEW t \in Mutators, NEW to \in Stages, Advances(t, to)
    PROVE  DiskInv'
<1>1. /\ stage \in [Mutators -> Stages]
      /\ daemon \in {"down", "booting", "up", "stopping"}
      /\ request \in [Finalizers -> Waiting]
  BY DEF DiskInv, DiskType, Stages
<1>2. stage' \in [Mutators -> Stages]
  BY <1>1 DEF Advances
<1>3. stage'["install"] = "prepared" =>
        stage["install"] = "prepared" \/ pc = [p \in Processes |-> "ended"]
  BY <1>1, MutatorsAssumption DEF Advances
<1>4. /\ daemon' \in {"down", "booting", "up", "stopping"}
      /\ daemon' # "down" => daemon # "down"
  BY <1>1 DEF Advances
<1>5. /\ request' \in [Finalizers -> Waiting]
      /\ \A u \in Finalizers : request'[u].by = request[u].by
  BY <1>1 DEF Advances
<1>6. UNCHANGED <<disk, version, pc>>
  BY DEF Advances
<1> QED BY <1>2, <1>3, <1>4, <1>5, <1>6, ServiceStep DEF Stages

(* The requests that check, download and install.                          *)
LEMMA RequestsKeep == ASSUME DiskInv, Requests PROVE DiskInv'
<1>1. /\ stage \in [Mutators -> Stages]
      /\ daemon \in {"down", "booting", "up", "stopping"}
      /\ request \in [Finalizers -> Waiting]
  BY DEF DiskInv, DiskType, Stages
<1>2. "check" \in Mutators /\ "download" \in Mutators /\ "install" \in Mutators
  BY MutatorsAssumption
<1>3. /\ "none" \in Stages /\ "begun" \in Stages /\ "fetching" \in Stages
      /\ "cleared" \in Stages /\ "payload" \in Stages /\ "stored" \in Stages
      /\ "prepared" \in Stages /\ "failed" \in Stages
  BY DEF Stages
<1>4. ASSUME NEW t \in Mutators, BeginRequest(t) PROVE DiskInv'
  <2>1. Advances(t, "begun")
    BY <1>4 DEF BeginRequest, Advances
  <2> QED BY <1>3, <2>1, AdvanceKeeps
<1>5. ASSUME NEW t \in Mutators, NEW s, NEW o, NEW f, EndRequest(t, s, o, f)
      PROVE  DiskInv'
  <2>1. Advances(t, "none")
    BY <1>5 DEF EndRequest, Advances
  <2> QED BY <1>3, <2>1, AdvanceKeeps
<1>6. CASE CheckForUpdate
  BY <1>2, <1>5, <1>6 DEF CheckForUpdate
<1>7. CASE Download
  <2>1. CASE NothingToDownload \/ DownloadFails \/ Downloaded
    BY <1>2, <1>5, <2>1 DEF NothingToDownload, DownloadFails, Downloaded
  <2>2. ASSUME StartDownload PROVE Advances("download", "fetching")
    BY <2>2 DEF StartDownload, Proceed, Advances
  <2>3. ASSUME ClearOldPayload PROVE Advances("download", "cleared")
    BY <2>3 DEF ClearOldPayload, Proceed, Advances
  <2>4. ASSUME StorePayload PROVE Advances("download", "payload")
    BY <2>4 DEF StorePayload, Proceed, Advances
  <2>5. ASSUME StoreMetadata PROVE Advances("download", "stored")
    BY <2>5 DEF StoreMetadata, Proceed, Advances
  <2> QED
    BY <1>2, <1>3, <1>7, <2>1, <2>2, <2>3, <2>4, <2>5, AdvanceKeeps DEF Download
<1>8. CASE Install
  <2>1. CASE InstallRefused \/ InstallCancelled
    BY <1>2, <1>5, <2>1 DEF InstallRefused, InstallCancelled
  <2>2. ASSUME PrepareInstall PROVE Advances("install", "prepared")
    BY <2>2 DEF PrepareInstall, Proceed, Advances
  <2>3. CASE HandOver
    BY <1>1, <2>3, ServiceStep DEF HandOver, service, Stages
  <2>4. ASSUME HelperNotSpawned PROVE Advances("install", "failed")
    BY <2>4 DEF HelperNotSpawned, Advances
  <2>5. ASSUME InstallAnswered PROVE Advances("install", "none")
    BY <2>5 DEF InstallAnswered, Serving, Advances
  <2>6. CASE SpawnHelper
    <3>1. /\ pc' = [pc EXCEPT !["helper"] = "begin"]
          /\ stage["install"] = "prepared"
          /\ stage' = [stage EXCEPT !["install"] = "spawned"]
          /\ UNCHANGED <<package, db, attempt, version, daemon, request>>
      BY <2>6 DEF SpawnHelper, disk
    <3>2. pc \in [Processes -> Stations] /\ \A p \in Processes : pc[p] = "ended"
      BY <3>1 DEF DiskInv, DiskType, OneAtWork
    <3>3. /\ pc' \in [Processes -> Stations]
          /\ pc'["helper"] = "begin" /\ pc'["watchdog"] = "ended"
      BY <3>1, <3>2 DEF Processes, Stations
    <3>4. stage' \in [Mutators -> Stages] /\ stage'["install"] = "spawned"
      BY <1>1, <1>2, <3>1 DEF Stages
    <3>5. DiskType'
      BY <1>1, <3>1, <3>3, <3>4 DEF DiskInv, DiskType, Stages
    <3>6. OneAtWork'
      BY <3>3, <3>4 DEF OneAtWork
    <3>7. ReportersWait'
      BY <3>1, <3>2, ReportingPlaces DEF DiskInv, ReportersWait
    <3>8. \A p \in Processes : Fits(p)'
      BY <3>3 DEF Fits, Processes, Cancelling, Restoring, Restored
    <3>9. JournalIsTrue' /\ NoNewerDatabase'
      BY <3>1 DEF DiskInv, JournalIsTrue, NoNewerDatabase, Old, New
    <3> QED BY <3>5, <3>6, <3>7, <3>8, <3>9 DEF DiskInv
  <2> QED
    BY <1>2, <1>3, <1>8, <2>1, <2>2, <2>3, <2>4, <2>5, <2>6, AdvanceKeeps
    DEF Install
<1> QED BY <1>4, <1>6, <1>7, <1>8 DEF Requests

(* FinalizeUpdate.  Whoever waits for the acknowledgement reported, and    *)
(* goes on where its report leads.                                         *)
LEMMA FinalizeKeeps ==
    ASSUME DiskInv, NEW t \in Finalizers, FinalizeUpdate(t)
    PROVE  DiskInv'
<1>1. DiskType /\ stage \in [Mutators -> Stages]
      /\ daemon \in {"down", "booting", "up", "stopping"}
      /\ request \in [Finalizers -> Waiting]
  BY DEF DiskInv, DiskType, Stages
<1>2. CASE RecordOutcome(t)
  <2>1. request' = [request EXCEPT ![t].recorded = TRUE]
        /\ UNCHANGED <<disk, version, pc, daemon, stage>>
    BY <1>2 DEF RecordOutcome
  <2>2. /\ request' \in [Finalizers -> Waiting]
        /\ \A u \in Finalizers : request'[u].by = request[u].by
    BY <1>1, <2>1 DEF Waiting
  <2> QED BY <1>1, <2>1, <2>2, ServiceStep DEF Stages
<1>3. CASE GateStep(t)
  BY <1>1, <1>3, ServiceStep DEF GateStep, service, Stages
<1>4. ASSUME Answered(t)
      PROVE  /\ request' \in [Finalizers -> Waiting]
             /\ request'[t].by = "nobody"
             /\ \A u \in Finalizers : u # t => request'[u] = request[u]
  BY <1>1, <1>4 DEF Answered, NoRequest, Waiting
<1>5. CASE FinalizeFails(t)
  <2>1. Answered(t) /\ UNCHANGED <<disk, version, pc, daemon, stage>>
    BY <1>5 DEF FinalizeFails, service
  <2>2. \A u \in Finalizers :
          request'[u].by = request[u].by \/ request'[u].by = "nobody"
    BY <1>4, <2>1
  <2> QED BY <1>1, <1>4, <2>1, <2>2, ServiceStep DEF Stages
<1>6. CASE Acknowledge(t)
  <2>1. /\ Answered(t)
        /\ UNCHANGED <<package, db, attempt, version, daemon, stage>>
        /\ pc' = [p \in Processes |->
                    IF request[t].by = p THEN AfterReport[pc[p]] ELSE pc[p]]
    BY <1>6 DEF Acknowledge, service, disk
  <2>2. /\ pc \in [Processes -> Stations]
        /\ \A u \in Finalizers : request[u].by \in Processes =>
             /\ pc[request[u].by] \in {"report", "reportBack", "reportCancel"}
             /\ \A v \in Finalizers : request[v].by = request[u].by => v = u
    BY <1>1, ReportingPlaces DEF DiskInv, DiskType, ReportersWait
  <2>3. ASSUME NEW p \in Processes, request[t].by = p
        PROVE  \/ pc[p] = "report" /\ pc'[p] = "complete"
               \/ pc[p] = "reportBack" /\ pc'[p] = "record"
               \/ pc[p] = "reportCancel" /\ pc'[p] = "cancelled"
    BY <2>1, <2>2, <2>3 DEF AfterReport
  <2>4. ASSUME NEW p \in Processes, request[t].by # p
        PROVE  pc'[p] = pc[p]
    BY <2>1, <2>4
  <2>5. pc' \in [Processes -> Stations]
    <3>1. \A p \in Processes : pc'[p] \in Stations
      BY <2>2, <2>3, <2>4 DEF Stations, Cancelling
    <3> QED BY <2>1, <3>1
  <2>6. DiskType'
    BY <1>1, <1>4, <2>1, <2>5 DEF DiskType
  <2>7. OneAtWork'
    BY <2>1, <2>3, <2>4 DEF DiskInv, OneAtWork, Processes
  <2>8. ReportersWait'
    <3>1. SUFFICES ASSUME NEW u \in Finalizers, request'[u].by \in Processes
                   PROVE  /\ Reporting(request[u].by)' /\ request'[u] = request[u]
                          /\ \A v \in Finalizers :
                               request'[v].by = request[u].by => v = u
      BY ReportingPlaces DEF ReportersWait, Reporting
    <3>2. u # t
      BY <1>4, <2>1, <3>1 DEF Processes
    <3>3. request'[u] = request[u] /\ request[t].by # request[u].by
      BY <1>4, <2>1, <2>2, <3>1, <3>2
    <3>4. pc'[request[u].by] = pc[request[u].by]
      BY <2>4, <3>1, <3>3
    <3>5. \A v \in Finalizers : request'[v].by = request[u].by => v = u
      BY <1>4, <2>1, <2>2, <3>1, <3>3 DEF Processes
    <3>6. request' = [request EXCEPT ![t] = NoRequest]
      BY <2>1 DEF Answered
    <3>7. Reporting(request[u].by)'
      BY <2>2, <3>1, <3>3, <3>4 DEF Reporting, AfterReport
    <3> QED BY <3>3, <3>5, <3>7
  <2>9. \A p \in Processes : Fits(p)'
    <3>1. ASSUME NEW p \in Processes PROVE Fits(p)'
      <4>1. Fits(p)
        BY DEF DiskInv
      <4>2. CASE request[t].by = p
        BY <2>1, <2>3, <4>1, <4>2 DEF Fits, Old, New, Cancelling, Restoring,
           Restored
      <4>3. CASE request[t].by # p
        BY <2>1, <2>4, <4>1, <4>3 DEF Fits, Old, New
      <4> QED BY <4>2, <4>3
    <3> QED BY <3>1
  <2>10. JournalIsTrue' /\ NoNewerDatabase'
    BY <2>1 DEF DiskInv, JournalIsTrue, NoNewerDatabase, Old, New
  <2> QED BY <2>6, <2>7, <2>8, <2>9, <2>10 DEF DiskInv
<1> QED BY <1>2, <1>3, <1>5, <1>6 DEF FinalizeUpdate

(* A process sends its report, or no longer waits for the answer.          *)
LEMMA ReportsKeep ==
    ASSUME DiskInv, NEW p \in Processes, NEW t \in Finalizers,
           SendReport(p, t) \/ ReportAttemptTimesOut(p, t)
    PROVE  DiskInv'
<1>1. DiskType /\ stage \in [Mutators -> Stages]
      /\ daemon \in {"down", "booting", "up", "stopping"}
      /\ request \in [Finalizers -> Waiting]
  BY DEF DiskInv, DiskType, Stages
<1>2. CASE SendReport(p, t)
  <2>1. /\ Reporting(p)
        /\ \A u \in Finalizers : request[u].by # p
        /\ request' = [request EXCEPT ![t] =
               [by |-> p, outcome |-> Outcome(p), recorded |-> FALSE]]
        /\ UNCHANGED <<package, db, attempt, version, daemon, stage, pc>>
    BY <1>2 DEF SendReport, service, disk
  <2>2. request' \in [Finalizers -> Waiting]
    BY <1>1, <2>1 DEF Waiting, Outcome
  <2>3. DiskType' /\ OneAtWork'
    BY <1>1, <2>1, <2>2 DEF DiskType, DiskInv, OneAtWork
  <2>4. /\ request'[t].by = p
        /\ \A u \in Finalizers : u # t => request'[u] = request[u]
    BY <1>1, <2>1
  <2>5. ReportersWait'
    BY <2>1, <2>4 DEF DiskInv, ReportersWait, Reporting
  <2>6. (\A q \in Processes : Fits(q)') /\ JournalIsTrue' /\ NoNewerDatabase'
    BY <2>1 DEF DiskInv, Fits, JournalIsTrue, NoNewerDatabase, Old, New
  <2> QED BY <2>3, <2>5, <2>6 DEF DiskInv
<1>3. CASE ReportAttemptTimesOut(p, t)
  <2>1. /\ request' = [request EXCEPT ![t].by = "nobody"]
        /\ UNCHANGED <<disk, version, daemon, stage, pc>>
    BY <1>3 DEF ReportAttemptTimesOut, service
  <2>2. /\ request' \in [Finalizers -> Waiting]
        /\ \A u \in Finalizers :
             request'[u].by = request[u].by \/ request'[u].by = "nobody"
    BY <1>1, <2>1 DEF Waiting
  <2> QED BY <1>1, <2>1, <2>2, ServiceStep DEF Stages
<1> QED BY <1>2, <1>3

----------------------------------------------------------------------------
(* The steps of the helper and the watchdog.                               *)

(* What a process knows when it moves.                                     *)
Known ==
    /\ pc \in [Processes -> Stations]
    /\ daemon \in {"down", "booting", "up", "stopping"}
    /\ version \in {"old", "new"}
    /\ package \in {"old", "new", "broken"}
    /\ db \in {"old", "new", "none", "empty"}
    /\ attempt \in [phase : Phases, rollbacks : 0 .. 1]
    /\ JournalIsTrue /\ NoNewerDatabase

(* The invariant says so much.                                             *)
LEMMA Facts == ASSUME DiskInv PROVE Known /\ \A p \in Processes : Fits(p)
BY DEF DiskInv, DiskType, Known

(* A step that moves and replaces nothing.                                 *)
Moves(p, to) ==
    /\ pc[p] \notin {"ended", "watching"}
    /\ ~Reporting(p)
    /\ pc' = [pc EXCEPT ![p] = to]
    /\ UNCHANGED <<request, service, package, db, attempt>>

(* It keeps the invariant when its process fits where it went.             *)
LEMMA MoveKeeps ==
    ASSUME DiskInv, NEW p \in Processes, NEW to \in Stations \ {"watching"},
           Moves(p, to), Fits(p)'
    PROVE  DiskInv'
<1>1. Known
  BY Facts
<1>2. UNCHANGED <<daemon, version, stage, package, db, attempt, request>>
  BY DEF Moves, service
<1>3. JournalIsTrue' /\ NoNewerDatabase'
  BY <1>1, <1>2 DEF Known, JournalIsTrue, NoNewerDatabase, Old, New
<1> QED BY <1>1, <1>2, <1>3, ProcessStep DEF Known, Moves

(* A step that moves and writes the journal.                               *)
LEMMA WriteKeeps ==
    ASSUME DiskInv, NEW p \in Processes, NEW from \in Stations,
           NEW to \in Stations, NEW phase \in Phases,
           Write(p, from, to, phase),
           from \notin {"ended", "watching", "report", "reportBack", "reportCancel"},
           to # "watching", Fits(p)', JournalIsTrue'
    PROVE  DiskInv'
<1>1. Known
  BY Facts
<1>2. /\ pc[p] = from /\ pc' = [pc EXCEPT ![p] = to]
      /\ attempt' = [attempt EXCEPT !.phase = phase]
      /\ UNCHANGED <<daemon, version, stage, package, db, request>>
  BY DEF Write, Go, service
<1>3. attempt' \in [phase : Phases, rollbacks : 0 .. 1]
  BY <1>1, <1>2 DEF Known
<1>4. NoNewerDatabase'
  BY <1>1, <1>2 DEF Known, NoNewerDatabase
<1>5. ~Reporting(p)
  BY <1>2, ReportingPlaces
<1> QED BY <1>1, <1>2, <1>3, <1>4, <1>5, ProcessStep DEF Known

(* A step that moves and replaces the package, or the database.            *)
LEMMA ReplaceKeeps ==
    ASSUME DiskInv, NEW p \in Processes, NEW from \in Stations,
           NEW to \in Stations, Go(p, from, to),
           from \notin {"ended", "watching", "report", "reportBack", "reportCancel"},
           to # "watching",
           package' \in {"old", "new", "broken"},
           db' \in {"old", "new", "none", "empty"},
           UNCHANGED <<service, attempt>>,
           attempt.phase = "Applying" => db' = db,
           attempt.phase \in {"Applying", "RollbackStarted"},
           db' # "new" \/ db' = db, Fits(p)'
    PROVE  DiskInv'
<1>1. Known
  BY Facts
<1>2. /\ pc[p] = from /\ pc' = [pc EXCEPT ![p] = to]
      /\ UNCHANGED <<daemon, version, stage, attempt, request>>
  BY DEF Go, service
<1>3. JournalIsTrue' /\ NoNewerDatabase'
  BY <1>1, <1>2 DEF Known, JournalIsTrue, NoNewerDatabase, Early
<1>4. ~Reporting(p)
  BY <1>2, ReportingPlaces
<1> QED BY <1>1, <1>2, <1>3, <1>4, ProcessStep DEF Known

(* What a start of the daemon leaves as it was.                            *)
Preserved ==
    /\ attempt' = attempt /\ package' = package
    /\ Old => Old'
    /\ New => New'

(* A process that starts a daemon, or finds one, goes on as it would have  *)
(* without it: the daemon leaves the package and the journal alone.        *)
LEMMA StartKeeps ==
    ASSUME DiskInv, NEW p \in Processes,
           NEW from \in Stations \ {"watching"}, NEW waiting \in Stations \ {"watching"},
           NEW to \in Stations \ {"watching"}, NEW failed \in Stations \ {"watching"},
           StartDaemon(p, from, waiting, to, failed),
           from \notin {"ended", "report", "reportBack", "reportCancel"},
           waiting \notin {"ended", "report", "reportBack", "reportCancel"},
           /\ pc[p] \in {from, waiting} /\ pc'[p] \in {waiting, to, failed}
           /\ Preserved
           => Fits(p)'
    PROVE  DiskInv'
<1>1. Known
  BY Facts
<1>2. pc[p] \in {from, waiting} => ~Reporting(p)
  BY ReportingPlaces
<1>3. CASE /\ pc[p] = from /\ Boot
           /\ pc' = [pc EXCEPT ![p] = waiting]
  <2>1. /\ daemon' = "booting" /\ version' \in {"old", "new"}
        /\ db' \in {"old", "new", "none", "empty"}
        /\ package' = package /\ attempt' = attempt /\ request' = request
        /\ stage' = [t \in Mutators |-> "none"]
        /\ JournalIsTrue' /\ NoNewerDatabase'
        /\ Preserved
    BY <1>3, BootFacts DEF Preserved
  <2>2. pc'[p] = waiting
    BY <1>1, <1>3 DEF Known
  <2>3. Fits(p)'
    BY <1>3, <2>1, <2>2
  <2>4. /\ package' \in {"old", "new", "broken"}
        /\ attempt' \in [phase : Phases, rollbacks : 0 .. 1]
        /\ daemon' \in {"down", "booting", "up", "stopping"}
    BY <1>1, <2>1 DEF Known
  <2> QED BY <1>2, <1>3, <2>1, <2>3, <2>4, ProcessStep
<1>4. ASSUME NEW x \in {from, waiting}, NEW y \in {to, failed}, Go(p, x, y),
             UNCHANGED <<service, disk>>
      PROVE  DiskInv'
  <2>1. Moves(p, y)
    BY <1>2, <1>4 DEF Go, Moves, disk
  <2>2. pc[p] \in {from, waiting} /\ pc'[p] = y /\ Preserved
    BY <1>1, <1>4 DEF Known, Go, disk, Preserved, Old, New
  <2>3. Fits(p)'
    BY <2>2
  <2> QED BY <2>1, <2>3, MoveKeeps
<1> QED BY <1>3, <1>4 DEF StartDaemon

(* A step of a process that goes from one place to another.                *)
LEMMA GoMoves ==
    ASSUME Known, NEW p \in Processes, NEW from, NEW to, Go(p, from, to),
           from \notin {"ended", "watching", "report", "reportBack", "reportCancel"},
           UNCHANGED <<service, disk>>
    PROVE  Moves(p, to) /\ pc[p] = from /\ pc'[p] = to /\ Preserved
BY ReportingPlaces DEF Known, Go, Moves, disk, Preserved, Old, New

(* The helper, up to the point from which on a rollback is possible.       *)
LEMMA HelperKeeps ==
    ASSUME DiskInv, Helper("helper")
    PROVE  DiskInv'
<1> DEFINE p == "helper"
<1>1. Known /\ Fits(p) /\ p \in Processes
  BY Facts DEF Processes
<1> HIDE DEF p
<1> USE DEF Stations, Cancelling, Restoring, Restored
<1>2. ASSUME NEW from \in Stations, NEW to \in Stations, Go(p, from, to),
             UNCHANGED <<service, disk>>,
             from \notin {"ended", "watching", "report", "reportBack", "reportCancel"},
             to # "watching",
             pc[p] = from /\ pc'[p] = to /\ Preserved => Fits(p)'
      PROVE  DiskInv'
  <2>1. Moves(p, to) /\ pc[p] = from /\ pc'[p] = to /\ Preserved
    BY <1>1, <1>2, GoMoves
  <2>2. Fits(p)'
    BY <1>2, <2>1
  <2> QED BY <1>1, <1>2, <2>1, <2>2, MoveKeeps
<1>3. CASE RefuseRepeatedAttempt(p)
  BY <1>1, <1>2, <1>3 DEF RefuseRepeatedAttempt, Fits, Preserved
<1>4. CASE WaitForDaemonStop(p, "waitStop", "waitClients")
  BY <1>1, <1>2, <1>4 DEF WaitForDaemonStop, Fits, Preserved
<1>5. CASE WaitForClients(p)
  BY <1>1, <1>2, <1>5 DEF WaitForClients, Try, Fits, Preserved, Early
<1>6. CASE Write(p, "journal", "prepare", "Preparing")
  <2>1. /\ pc[p] = "journal" /\ pc'[p] = "prepare"
        /\ attempt'.phase = "Preparing"
        /\ UNCHANGED <<package, db, daemon, version>>
    BY <1>1, <1>6 DEF Write, Go, service, Known
  <2>2. Fits(p)'
    BY <2>1 DEF Fits
  <2>3. JournalIsTrue'
    BY <1>1, <2>1 DEF Known, Fits, JournalIsTrue, Old, New, Early
  <2> QED BY <1>1, <1>6, <2>2, <2>3, WriteKeeps DEF Phases
<1>7. CASE PrepareReplacement(p)
  <2>1. CASE Go(p, "prepare", "backed") /\ CreateBackup /\ UNCHANGED service
    <3>1. /\ pc[p] = "prepare" /\ pc'[p] = "backed" /\ Moves(p, "backed")
          /\ attempt' = attempt
      BY <1>1, <2>1, ReportingPlaces DEF Go, CreateBackup, Moves, Known
    <3>2. Fits(p)'
      BY <1>1, <3>1 DEF Fits
    <3> QED BY <1>1, <3>1, <3>2, MoveKeeps
  <2>2. CASE Go(p, "prepare", "cancelStart") /\ UNCHANGED <<service, disk>>
    BY <1>1, <1>2, <2>2 DEF Fits, Preserved, Early
  <2> QED BY <1>7, <2>1, <2>2 DEF PrepareReplacement
<1>8. CASE Write(p, "backed", "spawn", "BackupReady")
  <2>1. /\ pc[p] = "backed" /\ pc'[p] = "spawn"
        /\ attempt'.phase = "BackupReady"
        /\ UNCHANGED <<package, db, daemon, version>>
    BY <1>1, <1>8 DEF Write, Go, service, Known
  <2>2. Fits(p)'
    BY <2>1 DEF Fits
  <2>3. JournalIsTrue'
    BY <1>1, <2>1 DEF Known, Fits, JournalIsTrue, Old, New, Early
  <2> QED BY <1>1, <1>8, <2>2, <2>3, WriteKeeps DEF Phases
<1>9. CASE SpawnWatchdog(p)
  <2>1. CASE /\ pc[p] = "spawn"
             /\ pc' = [pc EXCEPT ![p] = "apply", !["watchdog"] = "watching"]
             /\ UNCHANGED <<gate, request, service, disk>>
    <3>1. /\ pc'["helper"] = "apply" /\ pc'["watchdog"] = "watching"
          /\ pc' \in [Processes -> Stations]
          /\ pc["helper"] = "spawn" /\ pc["watchdog"] \in {"ended", "watching"}
          /\ UNCHANGED <<request, daemon, version, stage, package, db, attempt>>
      BY <1>1, <2>1 DEF p, Known, Processes, service, disk, DiskInv, OneAtWork
    <3>2. stage["install"] # "prepared"
      BY <3>1 DEF DiskInv, OneAtWork, Processes
    <3>3. DiskType' /\ OneAtWork'
      BY <3>1, <3>2 DEF DiskInv, DiskType, OneAtWork
    <3>4. ReportersWait'
      BY <3>1, ReportingPlaces DEF DiskInv, ReportersWait, Processes
    <3>5. \A q \in Processes : Fits(q)'
      BY <1>1, <3>1 DEF Fits, Processes, p
    <3>6. JournalIsTrue' /\ NoNewerDatabase'
      BY <1>1, <3>1 DEF Known, JournalIsTrue, NoNewerDatabase, Old, New
    <3> QED BY <3>3, <3>4, <3>5, <3>6 DEF DiskInv
  <2>2. CASE Go(p, "spawn", "cancelStart") /\ UNCHANGED <<service, disk>>
    BY <1>1, <1>2, <2>2 DEF Fits, Preserved, Early
  <2> QED BY <1>9, <2>1, <2>2 DEF SpawnWatchdog
<1>10. CASE Write(p, "apply", "install", "Applying")
  <2>1. /\ pc[p] = "apply" /\ pc'[p] = "install"
        /\ attempt'.phase = "Applying"
        /\ UNCHANGED <<package, db, daemon, version>>
    BY <1>1, <1>10 DEF Write, Go, service, Known
  <2>2. Fits(p)'
    BY <2>1 DEF Fits
  <2>3. JournalIsTrue'
    BY <1>1, <2>1 DEF Known, Fits, JournalIsTrue, Old, New, Early
  <2> QED BY <1>1, <1>10, <2>2, <2>3, WriteKeeps DEF Phases
<1>11. CASE ApplyPackage(p)
  <2>1. ASSUME NEW from \in {"install", "installing"},
               NEW to \in {"installing", "launch", "rollback"}, Go(p, from, to),
               package' \in {"old", "new", "broken"},
               UNCHANGED <<service, db, backup, attempt>>
        PROVE  DiskInv'
    <3>1. pc[p] = from /\ pc'[p] = to /\ attempt' = attempt
      BY <1>1, <2>1 DEF Go, Known
    <3>2. attempt.phase = "Applying"
      BY <1>1, <3>1 DEF Fits
    <3>3. Fits(p)'
      BY <3>1, <3>2 DEF Fits
    <3> QED BY <1>1, <2>1, <3>2, <3>3, ReplaceKeeps DEF Known
  <2> QED BY <1>11, <2>1 DEF ApplyPackage
<1>12. CASE StartDaemon(p, "launch", "launched", "health", "rollback")
  BY <1>1, <1>12, StartKeeps DEF Fits, Preserved
<1>13. CASE VerifyHealth(p, "health", "healthy")
  <2>1. CASE Go(p, "health", "rollback") /\ UNCHANGED <<service, disk>>
    BY <1>1, <1>2, <2>1 DEF Fits, Preserved
  <2>2. CASE Healthy /\ Go(p, "health", "healthy") /\ UNCHANGED <<service, disk>>
    <3>1. pc[p] = "health" => New
      BY <1>1, <2>2 DEF Healthy, Known, JournalIsTrue, Fits, New
    <3> QED BY <1>1, <1>2, <2>2, <3>1 DEF Fits, Preserved
  <2> QED BY <1>13, <2>1, <2>2 DEF VerifyHealth, Try
<1>14. CASE Write(p, "healthy", "desktop", "Healthy")
  <2>1. /\ pc[p] = "healthy" /\ pc'[p] = "desktop"
        /\ attempt'.phase = "Healthy"
        /\ UNCHANGED <<package, db, daemon, version>>
    BY <1>1, <1>14 DEF Write, Go, service, Known
  <2>2. Fits(p)'
    BY <2>1 DEF Fits
  <2>3. JournalIsTrue'
    BY <1>1, <2>1 DEF Known, Fits, JournalIsTrue, Old, New, Early
  <2> QED BY <1>1, <1>14, <2>2, <2>3, WriteKeeps DEF Phases
<1>15. CASE StartDaemon(p, "cancelStart", "cancelStarted", "reportCancel", "ended")
  BY <1>1, <1>15, StartKeeps DEF Fits, Preserved
<1>16. CASE CancelReported(p)
  BY <1>1, <1>2, <1>16
  DEF CancelReported, Try, Fits, Preserved, Known, JournalIsTrue
<1> QED
  BY <1>3, <1>4, <1>5, <1>6, <1>7, <1>8, <1>9, <1>10, <1>11, <1>12, <1>13, <1>14,
     <1>15, <1>16 DEF Helper, p

(* The rest of an attempt, by whichever process is at work.                *)
LEMMA ConcludeKeeps ==
    ASSUME DiskInv, NEW p \in Processes, Conclude(p)
    PROVE  DiskInv'
<1>1. Known /\ Fits(p)
  BY Facts
<1> USE DEF Stations, Cancelling, Restoring, Restored
<1>2. ASSUME NEW from \in Stations, NEW to \in Stations, Go(p, from, to),
             UNCHANGED <<service, disk>>,
             from \notin {"ended", "watching", "report", "reportBack", "reportCancel"},
             to # "watching",
             pc[p] = from /\ pc'[p] = to /\ Preserved => Fits(p)'
      PROVE  DiskInv'
  <2>1. Moves(p, to) /\ pc[p] = from /\ pc'[p] = to /\ Preserved
    BY <1>1, <1>2, GoMoves
  <2>2. Fits(p)'
    BY <1>2, <2>1
  <2> QED BY <1>2, <2>1, <2>2, MoveKeeps
<1>3. CASE RelaunchDesktop(p)
  BY <1>1, <1>2, <1>3 DEF RelaunchDesktop, Try, Fits, Preserved
<1>4. CASE Write(p, "complete", "clean", "Completed")
  <2>1. /\ pc[p] = "complete" /\ pc'[p] = "clean"
        /\ attempt'.phase = "Completed"
        /\ UNCHANGED <<package, db, daemon, version>>
    BY <1>1, <1>4 DEF Write, Go, service, Known
  <2>2. Fits(p)'
    BY <2>1 DEF Fits
  <2>3. JournalIsTrue'
    BY <1>1, <2>1 DEF Known, Fits, JournalIsTrue, Old, New, Early
  <2> QED BY <1>4, <2>2, <2>3, WriteKeeps DEF Phases
<1>5. CASE RemoveBackup(p)
  <2>1. /\ pc[p] = "clean" /\ pc'[p] = "ended" /\ Moves(p, "ended")
        /\ attempt' = attempt
    BY <1>1, <1>5, ReportingPlaces DEF RemoveBackup, Go, Moves, Known
  <2>2. Fits(p)'
    BY <2>1 DEF Fits
  <2> QED BY <2>1, <2>2, MoveKeeps
<1>6. CASE ClaimRollback(p)
  <2>1. CASE /\ Go(p, "rollback", "stopDaemon")
             /\ attempt' = [phase |-> "RollbackStarted", rollbacks |-> 1]
             /\ UNCHANGED <<service, package, db>>
    <3>1. /\ pc[p] = "rollback" /\ pc'[p] = "stopDaemon"
          /\ pc' = [pc EXCEPT ![p] = "stopDaemon"]
          /\ attempt'.phase = "RollbackStarted"
          /\ UNCHANGED <<package, db, daemon, version, stage, request>>
      BY <1>1, <2>1 DEF Go, service, Known
    <3>2. attempt' \in [phase : Phases, rollbacks : 0 .. 1]
      BY <2>1 DEF Phases
    <3>3. Fits(p)'
      BY <3>1 DEF Fits
    <3>4. JournalIsTrue' /\ NoNewerDatabase'
      BY <1>1, <3>1 DEF Known, JournalIsTrue, NoNewerDatabase, Early
    <3>5. ~Reporting(p)
      BY <3>1, ReportingPlaces
    <3> QED BY <1>1, <3>1, <3>2, <3>3, <3>4, <3>5, ProcessStep DEF Known
  <2>2. CASE /\ Go(p, "rollback", "ended")
             /\ UNCHANGED <<attempt, service, package, db>>
    <3>1. pc'[p] = "ended" /\ Moves(p, "ended")
      BY <1>1, <2>2, ReportingPlaces DEF Go, Moves, Known
    <3>2. Fits(p)'
      BY <3>1 DEF Fits
    <3> QED BY <3>1, <3>2, MoveKeeps
  <2> QED BY <1>6, <2>1, <2>2 DEF ClaimRollback
<1>7. CASE StopDaemon(p)
  <2>1. /\ pc[p] = "stopDaemon" /\ pc'[p] = "waitRestore"
        /\ pc' = [pc EXCEPT ![p] = "waitRestore"]
        /\ UNCHANGED <<package, db, attempt, version, stage, request>>
        /\ daemon' = daemon \/ (daemon = "up" /\ daemon' = "stopping")
    BY <1>1, <1>7 DEF StopDaemon, Go, disk, Known
  <2>2. Fits(p)'
    BY <1>1, <2>1 DEF Fits
  <2>3. JournalIsTrue' /\ NoNewerDatabase'
    BY <1>1, <2>1 DEF Known, JournalIsTrue, NoNewerDatabase, Old, New
  <2>4. ~Reporting(p)
    BY <2>1, ReportingPlaces
  <2>5. daemon' \in {"down", "booting", "up", "stopping"}
    BY <1>1, <2>1 DEF Known
  <2> QED BY <1>1, <2>1, <2>2, <2>3, <2>4, <2>5, ProcessStep DEF Known
<1>8. CASE WaitForDaemonStop(p, "waitRestore", "restore")
  BY <1>1, <1>2, <1>8 DEF WaitForDaemonStop, Fits, Preserved
<1>9. CASE RestorePackage(p)
  <2>1. ASSUME NEW from, NEW to, NEW content \in {"broken", "old"},
               \/ from = "restore" /\ to = "restorePackage"
               \/ from = "restorePackage" /\ to = "restoreDatabase" /\ content = "old",
               Go(p, from, to), package' = content,
               UNCHANGED <<service, db, attempt>>
        PROVE  DiskInv'
    <3>1. pc[p] = from /\ pc'[p] = to /\ attempt' = attempt
      BY <1>1, <2>1 DEF Go, Known
    <3>2. attempt.phase = "RollbackStarted"
      BY <1>1, <2>1, <3>1 DEF Fits
    <3>3. Fits(p)'
      BY <2>1, <3>1, <3>2 DEF Fits
    <3> QED BY <1>1, <2>1, <3>2, <3>3, ReplaceKeeps DEF Known
  <2> QED BY <1>9, <2>1 DEF RestorePackage
<1>10. CASE RestoreDatabase(p)
  <2>1. ASSUME NEW from, NEW to, NEW content \in {"none", "old"},
               \/ from = "restoreDatabase" /\ to = "copyDatabase"
               \/ from = "copyDatabase" /\ to = "restart" /\ content = "old",
               Go(p, from, to), db' = content,
               UNCHANGED <<service, package, attempt>>
        PROVE  DiskInv'
    <3>1. pc[p] = from /\ pc'[p] = to /\ attempt' = attempt
      BY <1>1, <2>1 DEF Go, Known
    <3>2. attempt.phase = "RollbackStarted" /\ package = "old"
      BY <1>1, <2>1, <3>1 DEF Fits
    <3>3. Fits(p)'
      BY <2>1, <3>1, <3>2 DEF Fits, Old
    <3> QED BY <1>1, <2>1, <3>2, <3>3, ReplaceKeeps DEF Known
  <2> QED BY <1>10, <2>1 DEF RestoreDatabase
<1>11. CASE RestoreFails(p)
  BY <1>1, <1>2, <1>11 DEF RestoreFails, Fits, Preserved
<1>12. CASE StartDaemon(p, "restart", "restarted", "reopen", "ended")
  BY <1>1, <1>12, StartKeeps DEF Fits, Preserved
<1>13. CASE ReopenDesktop(p)
  BY <1>1, <1>2, <1>13 DEF ReopenDesktop, Try, Fits, Preserved
<1>14. CASE ReportFails(p)
  <2>1. /\ \A t \in Finalizers : request[t].by # p
        /\ pc[p] \in {"report", "reportBack", "reportCancel"}
        /\ pc' = [pc EXCEPT ![p] = "ended"] /\ pc'[p] = "ended"
        /\ UNCHANGED <<package, db, attempt, version, daemon, stage, request>>
    BY <1>1, <1>14, ReportingPlaces DEF ReportFails, Go, disk, service, Known
  <2>2. Fits(p)'
    BY <2>1 DEF Fits
  <2>3. JournalIsTrue' /\ NoNewerDatabase'
    BY <1>1, <2>1 DEF Known, JournalIsTrue, NoNewerDatabase, Old, New
  <2> QED BY <1>1, <2>1, <2>2, <2>3, ProcessStep, ZenonT(60) DEF Known
<1>15. CASE Write(p, "record", "ended", "RolledBack")
  <2>1. /\ pc[p] = "record" /\ pc'[p] = "ended"
        /\ attempt'.phase = "RolledBack"
        /\ UNCHANGED <<package, db, daemon, version>>
    BY <1>1, <1>15 DEF Write, Go, service, Known
  <2>2. Fits(p)'
    BY <2>1 DEF Fits
  <2>3. JournalIsTrue'
    BY <1>1, <2>1 DEF Known, Fits, JournalIsTrue, Old, New, Early
  <2> QED BY <1>15, <2>2, <2>3, WriteKeeps DEF Phases
<1> QED
  BY <1>3, <1>4, <1>5, <1>6, <1>7, <1>8, <1>9, <1>10, <1>11, <1>12, <1>13, <1>14,
     <1>15 DEF Conclude

(* The watchdog takes over where the journal says the helper was.          *)
LEMMA WatchdogKeeps ==
    ASSUME DiskInv, Watchdog("watchdog")
    PROVE  DiskInv'
<1> DEFINE p == "watchdog"
<1>1. Known /\ Fits(p) /\ p \in Processes
  BY Facts DEF Processes
<1> HIDE DEF p
<1> USE DEF Stations, Cancelling, Restoring, Restored
<1>2. CASE TakeOver(p)
  <2> DEFINE to == CASE file /\ attempt.phase = "Healthy" -> "recheck"
                     [] file /\ attempt.phase \in {"BackupReady", "Applying"} -> "rollback"
                     [] file /\ attempt.phase = "RollbackStarted" -> "stopDaemon"
                     [] OTHER -> "ended"
  <2>1. /\ pc["helper"] = "ended" /\ pc[p] = "watching"
        /\ pc' = [pc EXCEPT ![p] = to] /\ pc'[p] = to
        /\ UNCHANGED <<package, db, attempt, version, daemon, stage, request>>
    BY <1>1, <1>2 DEF TakeOver, Go, disk, service, Known
  <2>2. \/ to = "recheck" /\ attempt.phase = "Healthy"
        \/ to = "rollback"
        \/ to = "stopDaemon" /\ attempt.phase = "RollbackStarted"
        \/ to = "ended"
    OBVIOUS
  <2> HIDE DEF to
  <2>3. Fits(p)' /\ to \in Stations \ {"watching"}
    BY <2>1, <2>2 DEF Fits
  <2>4. JournalIsTrue' /\ NoNewerDatabase'
    BY <1>1, <2>1 DEF Known, JournalIsTrue, NoNewerDatabase, Old, New
  <2>5. ~Reporting(p)
    BY <2>1, ReportingPlaces
  <2> QED BY <1>1, <2>1, <2>3, <2>4, <2>5, ProcessStep DEF Known
<1>3. CASE VerifyHealth(p, "recheck", "desktop")
  <2>1. ASSUME NEW to \in {"rollback", "desktop"}, Go(p, "recheck", to),
               UNCHANGED <<service, disk>>
        PROVE  DiskInv'
    <3>1. Moves(p, to) /\ pc[p] = "recheck" /\ pc'[p] = to /\ Preserved
      BY <1>1, <2>1, GoMoves
    <3>2. Fits(p)'
      BY <1>1, <3>1 DEF Fits, Preserved
    <3> QED BY <1>1, <3>1, <3>2, MoveKeeps
  <2> QED BY <1>3, <2>1 DEF VerifyHealth, Try
<1> QED BY <1>2, <1>3 DEF Watchdog, p

(* A process that is killed waits for no answer.                           *)
LEMMA KilledKeeps ==
    ASSUME DiskInv, NEW p \in Processes, Killed(p)
    PROVE  DiskInv'
<1>1. Known /\ request \in [Finalizers -> Waiting] /\ stage \in [Mutators -> Stages]
  BY Facts DEF DiskInv, DiskType, Stages
<1>2. /\ pc[p] # "ended" /\ pc' = [pc EXCEPT ![p] = "ended"]
      /\ request' = [t \in Finalizers |-> IF request[t].by = p
             THEN [request[t] EXCEPT !.by = "nobody"] ELSE request[t]]
      /\ UNCHANGED <<package, db, attempt, version, daemon, stage>>
  BY DEF Killed, disk, service
<1>3. /\ pc' \in [Processes -> Stations] /\ pc'[p] = "ended"
      /\ \A q \in Processes : q # p => pc'[q] = pc[q]
  BY <1>1, <1>2 DEF Known, Stations
<1>4. \A t \in Finalizers :
        /\ request'[t] \in Waiting
        /\ request[t].by = p => request'[t].by = "nobody"
        /\ request[t].by # p => request'[t] = request[t]
  BY <1>1, <1>2 DEF Waiting
<1>5. DiskType'
  BY <1>1, <1>2, <1>3, <1>4 DEF DiskInv, DiskType
<1>6. OneAtWork'
  BY <1>2, <1>3 DEF DiskInv, OneAtWork, Processes
<1>7. ReportersWait'
  BY <1>3, <1>4 DEF DiskInv, ReportersWait, Reporting, Processes
<1>8. \A q \in Processes : Fits(q)'
  BY <1>2, <1>3 DEF DiskInv, Fits, Old, New, Cancelling, Restoring, Restored
<1>9. JournalIsTrue' /\ NoNewerDatabase'
  BY <1>1, <1>2 DEF Known, JournalIsTrue, NoNewerDatabase, Old, New
<1> QED BY <1>5, <1>6, <1>7, <1>8, <1>9 DEF DiskInv

----------------------------------------------------------------------------
(* The inductive invariant of the upgrade: where helper and watchdog are,  *)
(* what the journal says and what is installed fit together.               *)
THEOREM DiskInvariance == Spec => []DiskInv
<1>1. Init => DiskInv
  <2> SUFFICES ASSUME Init PROVE DiskInv
    OBVIOUS
  <2>1. DiskType
    BY DEF Init, DiskType, Processes, Stations, Waiting, NoRequest, Phases,
       Stages
  <2>2. OneAtWork /\ ReportersWait
    BY MutatorsAssumption DEF Init, OneAtWork, ReportersWait, NoRequest, Processes
  <2>3. \A p \in Processes : Fits(p)
    BY DEF Init, Fits, Cancelling, Restoring, Restored
  <2>4. JournalIsTrue /\ NoNewerDatabase
    BY DEF Init, JournalIsTrue, NoNewerDatabase, Old, New, Early
  <2> QED BY <2>1, <2>2, <2>3, <2>4 DEF DiskInv
<1>2. ASSUME DiskInv, [Next]_uvars PROVE DiskInv'
  <2>1. CASE UNCHANGED uvars
    BY <1>2, <2>1, ServiceStep DEF uvars, service, DiskInv, DiskType
  <2>2. CASE Next
    BY <1>2, <2>2, LifeKeeps, RequestsKeep, FinalizeKeeps, ReportsKeep,
       HelperKeeps, WatchdogKeeps, ConcludeKeeps, KilledKeeps DEF Next
  <2> QED BY <1>2, <2>1, <2>2
<1> QED BY <1>1, <1>2, PTL DEF Spec

(* The journal never lies: a completed upgrade left the new package and    *)
(* its database, a rolled back one what was there before, whatever crashed *)
(* and whoever started a daemon in between.                                *)
THEOREM JournalIsHonest == Spec => []OutcomeIsTrue
<1>1. DiskInv => OutcomeIsTrue
  BY DEF DiskInv, JournalIsTrue, OutcomeIsTrue, Old, New
<1> QED BY <1>1, DiskInvariance, PTL

(* No daemon of the old version serves a database of the new one.          *)
THEOREM DatabaseAlwaysFits == Spec => []DatabaseFitsDaemon
<1>1. DiskInv => DatabaseFitsDaemon
  BY DEF DiskInv, NoNewerDatabase, DatabaseFitsDaemon
<1> QED BY <1>1, DiskInvariance, PTL

----------------------------------------------------------------------------
(* The desktop's notifier.                                                 *)

Callback == [icon : Nat, clicked : BOOLEAN]

(* What the thread has, and what the update loop knows: an activation is   *)
(* of a Session whose balloon was clicked.                                 *)
Threads(clicked) ==
    [pc : {"receive", "pump", "present", "run", "closing", "gone"},
     queue : Seq(Told), failures : Seq(Told), activations : Seq(clicked),
     next : Told \cup {Nobody}, balloon : Told \cup {Nobody}, late : BOOLEAN,
     icons : Seq(Told)]
ThreadType == thread \in Threads(shell.clicked)

Shells(clicked) ==
    [up : BOOLEAN, snap : [sessions : SUBSET Told, open : Spaces],
     asked : SUBSET (Spaces \cup {"snapshot"}), pending : clicked \cup {Nobody},
     active : clicked \cup {Nobody}, clicked : {clicked}]
ShellType == shell.clicked \in SUBSET Told /\ shell \in Shells(shell.clicked)

(* The balloon is the one of the last icon, and the user clicked the       *)
(* balloons of the icons that the system calls back about.                 *)
BalloonIsLast ==
    thread.balloon # Nobody =>
        /\ Len(thread.icons) > 0
        /\ thread.balloon = thread.icons[Len(thread.icons)]

Truthful(callback) ==
    /\ callback.icon \in DOMAIN thread.icons
    /\ callback.clicked => thread.icons[callback.icon] \in shell.clicked

NotifierInv ==
    /\ served \in [sessions : SUBSET Told, open : Spaces]
    /\ callbacks \in Seq(Callback)
    /\ ThreadType /\ ShellType
    /\ thread.pc = "run" => thread.next # Nobody
    /\ BalloonIsLast
    /\ \A i \in DOMAIN callbacks : Truthful(callbacks[i])

(* What a channel takes is what it was offered.                            *)
LEMMA OfferTypes ==
    ASSUME NEW S, NEW channel \in Seq(S), NEW items \in Seq(S), NEW capacity \in Nat
    PROVE  Offer(channel, items, capacity) \in Seq(S)
<1> DEFINE all == channel \o items
           n == IF Len(all) > capacity THEN capacity ELSE Len(all)
<1>1. all \in Seq(S) /\ Len(all) \in Nat
  BY ConcatProperties, LenProperties
<1>2. n \in Int /\ n <= Len(all)
  BY <1>1
<1>3. \A i \in 1 .. n : all[i] \in S
  <2> HIDE DEF all, n
  <2> QED BY <1>1, <1>2
<1> HIDE DEF all, n
<1>4. SubSeq(all, 1, n) \in Seq(S)
  BY <1>2, <1>3, SubSeqProperties
<1> QED BY <1>4 DEF Offer, all, n

LEMMA OneIsASeq ==
    ASSUME NEW S, NEW e \in S
    PROVE  <<e>> \in Seq(S)
  OBVIOUS

(* More clicks leave an activation that of a clicked one.                  *)
LEMMA SeqGrows ==
    ASSUME NEW S, NEW T, S \subseteq T, NEW seq \in Seq(S)
    PROVE  seq \in Seq(T)
  OBVIOUS

LEMMA NotifierInitInv == NotifierInit => NotifierInv
<1> SUFFICES ASSUME NotifierInit PROVE NotifierInv
  OBVIOUS
<1>1. served \in [sessions : SUBSET Told, open : Spaces]
  BY DEF NotifierInit
<1>2. shell = [up |-> TRUE, snap |-> served, asked |-> {}, pending |-> Nobody,
               active |-> Nobody, clicked |-> {}]
  BY DEF NotifierInit
<1>3. PICK place \in {"receive", "gone"} :
        thread = [pc |-> place, queue |-> <<>>, failures |-> <<>>, activations |-> <<>>,
                  next |-> Nobody, balloon |-> Nobody, late |-> FALSE, icons |-> <<>>]
  BY DEF NotifierInit
<1>4. ThreadType
  BY <1>2, <1>3 DEF ThreadType, Threads
<1>5. ShellType
  BY <1>1, <1>2 DEF ShellType, Shells
<1>6. callbacks = <<>>
  BY DEF NotifierInit
<1> QED BY <1>1, <1>3, <1>4, <1>5, <1>6 DEF NotifierInv, BalloonIsLast, Callback

(* Opening a Session that was clicked leaves the shell with clicked ones.  *)
LEMMA OpenSessionTypes ==
    ASSUME NEW clicked \in SUBSET Told, NEW a \in Shells(clicked), NEW s \in clicked
    PROVE  /\ OpenSession(a, s) \in Shells(clicked)
           /\ Activate(a, s) \in Shells(clicked)
<1>1. SpaceOf[s] \in Spaces
  BY NotifierAssumption
<1>2. OpenSession(a, s) \in Shells(clicked)
  BY <1>1 DEF OpenSession, Shells
<1>3. [a EXCEPT !.pending = s, !.asked = @ \cup {"snapshot"}] \in Shells(clicked)
  BY DEF Shells
<1> QED BY <1>2, <1>3 DEF Activate

(* And so does an answer that resolves a pending one.                      *)
LEMMA ResolveTypes ==
    ASSUME NEW clicked \in SUBSET Told, NEW a \in Shells(clicked)
    PROVE  Resolve(a) \in Shells(clicked)
<1> DEFINE b == [a EXCEPT !.pending = Nobody]
<1>1. b \in Shells(clicked)
  BY DEF Shells
<1>2. a.pending \in clicked \cup {Nobody} /\ a.snap.sessions \subseteq Told
  BY DEF Shells
<1>3. a.pending \in a.snap.sessions => a.pending \in clicked
  BY <1>2, NotifierAssumption
<1> HIDE DEF b
<1>4. a.pending \in a.snap.sessions => OpenSession(b, a.pending) \in Shells(clicked)
  BY <1>1, <1>3, OpenSessionTypes
<1> QED BY <1>1, <1>4 DEF Resolve, b

(* The rest of the invariant sees of the shell only what was clicked.      *)
LEMMA ShellMoves ==
    ASSUME NotifierInv, NEW clicked \in SUBSET Told, shell.clicked \subseteq clicked,
           shell' \in Shells(clicked), UNCHANGED <<thread, callbacks>>,
           served' \in [sessions : SUBSET Told, open : Spaces]
    PROVE  NotifierInv'
<1>1. shell'.clicked = clicked
  BY DEF Shells
<1>2. thread.activations \in Seq(shell.clicked)
  BY DEF NotifierInv, ThreadType, Threads
<1>3. thread.activations \in Seq(clicked)
  BY <1>2, SeqGrows
<1>4. ThreadType'
  BY <1>1, <1>3 DEF NotifierInv, ThreadType, Threads
<1>5. ShellType'
  BY <1>1 DEF ShellType
<1>6. \A i \in DOMAIN callbacks : Truthful(callbacks[i])'
  BY <1>1 DEF NotifierInv, Truthful
<1> QED BY <1>4, <1>5, <1>6 DEF NotifierInv, BalloonIsLast

(* The update loop, the daemon and the application that is closed.         *)
LEMMA AnswersKeep ==
    ASSUME NotifierInv, Answers \/ DaemonMoves \/ Close \/ \E w \in Spaces : Refused(w)
    PROVE  NotifierInv'
<1>0. /\ shell.clicked \in SUBSET Told /\ shell \in Shells(shell.clicked)
      /\ served \in [sessions : SUBSET Told, open : Spaces]
  BY DEF NotifierInv, ShellType
<1>1. CASE SnapshotComes
  <2> DEFINE a == [shell EXCEPT !.snap = served, !.asked = @ \ {"snapshot"}]
  <2>1. a \in Shells(shell.clicked)
    BY <1>0 DEF Shells
  <2>2. shell' = Resolve(a) /\ UNCHANGED <<thread, callbacks, served>>
    BY <1>1 DEF SnapshotComes
  <2> HIDE DEF a
  <2>3. shell' \in Shells(shell.clicked)
    BY <1>0, <2>1, <2>2, ResolveTypes
  <2> QED BY <1>0, <2>2, <2>3, ShellMoves
<1>2. ASSUME NEW w \in Spaces, WorkspaceOpened(w)
      PROVE  NotifierInv'
  <2> DEFINE a == [shell EXCEPT !.snap.open = w, !.asked = @ \ {w}]
  <2>1. a \in Shells(shell.clicked)
    BY <1>0 DEF Shells
  <2>2. /\ shell' = [Resolve(a) EXCEPT !.asked = @ \cup {"snapshot"}]
        /\ served' = [served EXCEPT !.open = w]
        /\ UNCHANGED <<thread, callbacks>>
    BY <1>2 DEF WorkspaceOpened
  <2> HIDE DEF a
  <2>3. Resolve(a) \in Shells(shell.clicked)
    BY <1>0, <2>1, ResolveTypes
  <2>4. shell' \in Shells(shell.clicked)
    BY <2>2, <2>3 DEF Shells
  <2>5. served' \in [sessions : SUBSET Told, open : Spaces]
    BY <1>0, <2>2
  <2> QED BY <1>0, <2>2, <2>4, <2>5, ShellMoves
<1>3. CASE DaemonMoves
  <2>1. /\ shell' = [shell EXCEPT !.asked = @ \cup {"snapshot"}]
        /\ UNCHANGED <<thread, callbacks>>
    BY <1>3 DEF DaemonMoves
  <2>2. shell' \in Shells(shell.clicked)
    BY <1>0, <2>1 DEF Shells
  <2>3. served' \in [sessions : SUBSET Told, open : Spaces]
    BY <1>0, <1>3 DEF DaemonMoves
  <2> QED BY <1>0, <2>1, <2>2, <2>3, ShellMoves
<1>4. CASE Close
  <2>1. shell' \in Shells(shell.clicked) /\ UNCHANGED <<thread, callbacks, served>>
    BY <1>0, <1>4 DEF Close, Shells
  <2> QED BY <1>0, <2>1, ShellMoves
<1>5. ASSUME NEW w \in Spaces, Refused(w)
      PROVE  NotifierInv'
  <2>1. shell' \in Shells(shell.clicked) /\ UNCHANGED <<thread, callbacks, served>>
    BY <1>0, <1>5 DEF Refused, Shells
  <2> QED BY <1>0, <2>1, ShellMoves
<1> QED BY <1>1, <1>2, <1>3, <1>4, <1>5 DEF Answers

(* What the thread does with its channels leaves the icons that there were *)
(* and the callbacks about them.                                           *)
LEMMA ThreadMoves ==
    ASSUME NotifierInv, UNCHANGED <<served, shell>>,
           thread' \in Threads(shell.clicked),
           thread'.pc = "run" => thread'.next # Nobody,
           callbacks' = callbacks \/ (callbacks # <<>> /\ callbacks' = Tail(callbacks)),
           \/ /\ thread'.icons = thread.icons
              /\ thread'.balloon \in {thread.balloon, Nobody}
           \/ /\ thread'.icons = Append(thread.icons, thread'.balloon)
    PROVE  NotifierInv'
<1>1. /\ thread \in Threads(shell.clicked) /\ BalloonIsLast
      /\ callbacks \in Seq(Callback)
      /\ \A i \in DOMAIN callbacks : Truthful(callbacks[i])
  BY DEF NotifierInv, ThreadType
<1>2. thread.icons \in Seq(Told) /\ thread'.icons \in Seq(Told)
  BY <1>1 DEF Threads
<1>3. BalloonIsLast'
  BY <1>1, <1>2 DEF BalloonIsLast
<1>4. \A i \in DOMAIN thread.icons :
         i \in DOMAIN thread'.icons /\ thread'.icons[i] = thread.icons[i]
  BY <1>2, SMTT(30)
<1>5. \A i \in DOMAIN callbacks :
         /\ callbacks[i].icon \in DOMAIN thread'.icons
         /\ callbacks[i].clicked => thread'.icons[callbacks[i].icon] \in shell.clicked
  BY <1>1, <1>4 DEF Truthful
<1>6. callbacks' \in Seq(Callback)
  BY <1>1, HeadTailProperties
<1>7. \A i \in DOMAIN callbacks' : \E j \in DOMAIN callbacks : callbacks'[i] = callbacks[j]
  <2>1. CASE callbacks' = callbacks
    BY <2>1
  <2>2. CASE callbacks # <<>> /\ callbacks' = Tail(callbacks)
    <3>1. \A i \in 1 .. Len(Tail(callbacks)) : Tail(callbacks)[i] = callbacks[i + 1]
      BY <1>1, <2>2, HeadTailProperties
    <3>2. Len(Tail(callbacks)) = Len(callbacks) - 1 /\ Len(callbacks) \in Nat
      BY <1>1, <2>2, HeadTailProperties
    <3>3. DOMAIN callbacks' = 1 .. Len(callbacks') /\ DOMAIN callbacks = 1 .. Len(callbacks)
      BY <1>1, <1>6, LenProperties
    <3>4. DOMAIN callbacks' = 1 .. Len(callbacks) - 1
      BY <2>2, <3>2, <3>3
    <3>5. ASSUME NEW i \in DOMAIN callbacks'
          PROVE  \E j \in DOMAIN callbacks : callbacks'[i] = callbacks[j]
      <4>1. i \in 1 .. Len(callbacks) - 1 /\ Len(callbacks) \in Nat
        BY <3>2, <3>4, <3>5
      <4>4. i + 1 \in 1 .. Len(callbacks)
        BY <4>1
      <4>3. i + 1 \in DOMAIN callbacks
        BY <3>3, <4>4
      <4>2. callbacks'[i] = callbacks[i + 1]
        BY <2>2, <3>1, <3>2, <3>4
      <4> QED BY <4>2, <4>3
    <3> QED BY <3>5
  <2> QED BY <2>1, <2>2
<1>8. \A i \in DOMAIN callbacks' : Truthful(callbacks[i])'
  BY <1>5, <1>7 DEF Truthful
<1>9. ThreadType' /\ ShellType'
  BY DEF ThreadType, ShellType, NotifierInv
<1> QED BY <1>3, <1>6, <1>8, <1>9 DEF NotifierInv

(* The thread and the system that calls it.                                *)
LEMMA TakesNextTypes ==
    ASSUME NEW clicked, NEW t \in Threads(clicked),
           NEW place \in {"receive", "pump", "run"}
    PROVE  /\ TakesNext(t, place) \in Threads(clicked)
           /\ TakesNext(t, place).pc = place
           /\ TakesNext(t, place).icons = t.icons
           /\ TakesNext(t, place).balloon = t.balloon
           /\ t.queue # <<>> => TakesNext(t, place).next \in Told
<1>1. t.queue \in Seq(Told)
  BY DEF Threads
<1>2. t.queue # <<>> => Head(t.queue) \in Told /\ Tail(t.queue) \in Seq(Told)
  BY <1>1, HeadTailProperties
<1> QED BY <1>2 DEF TakesNext, Threads

LEMMA ThreadStepsKeep ==
    ASSUME NotifierInv,
           Receive \/ Pumped \/ Present \/ RunCommand \/ CommandEnds \/ ThreadEnds
    PROVE  NotifierInv'
<1>0. thread \in Threads(shell.clicked)
  BY DEF NotifierInv, ThreadType
<1>1. CASE Receive
  <2> DEFINE t == IF thread.late THEN [thread EXCEPT !.balloon = Nobody] ELSE thread
  <2>1. t \in Threads(shell.clicked) /\ t.icons = thread.icons
        /\ t.balloon \in {thread.balloon, Nobody}
    BY <1>0 DEF Threads
  <2>2. /\ UNCHANGED <<served, shell, callbacks>>
        /\ \/ thread' = [thread EXCEPT !.pc = "closing"]
           \/ thread' = TakesNext(t, "pump")
           \/ thread' = [t EXCEPT !.pc = "pump"]
    BY <1>1 DEF Receive, Thread
  <2> HIDE DEF t
  <2>3. thread' = [thread EXCEPT !.pc = "closing"] => NotifierInv'
    BY <1>0, <2>2, ThreadMoves DEF Threads
  <2>4. thread' = TakesNext(t, "pump") => NotifierInv'
    BY <2>1, <2>2, TakesNextTypes, ThreadMoves
  <2>5. thread' = [t EXCEPT !.pc = "pump"] => NotifierInv'
    BY <2>1, <2>2, ThreadMoves DEF Threads
  <2> QED BY <2>2, <2>3, <2>4, <2>5
<1>2. CASE Pumped
  <2>1. thread' = [thread EXCEPT !.pc = "present"] /\ UNCHANGED <<served, shell, callbacks>>
    BY <1>2 DEF Pumped, Thread
  <2> QED BY <1>0, <2>1, ThreadMoves DEF Threads
<1>3. CASE Present
  <2>1. UNCHANGED <<served, shell, callbacks>>
    BY <1>3 DEF Present, Thread
  <2>2. CASE thread.next = Nobody
    <3>1. thread' = [thread EXCEPT !.pc = "receive"]
      BY <1>3, <2>2 DEF Present
    <3> QED BY <1>0, <2>1, <3>1, ThreadMoves DEF Threads
  <2>3. CASE thread.next # Nobody
    <3>1. thread' = [thread EXCEPT !.pc = "receive", !.next = Nobody,
                       !.balloon = thread.next, !.late = FALSE,
                       !.icons = Append(@, thread.next)]
      BY <1>3, <2>3 DEF Present
    <3>2. /\ thread.next \in Told /\ thread.icons \in Seq(Told)
          /\ Append(thread.icons, thread.next) \in Seq(Told)
      BY <1>0, <2>3 DEF Threads
    <3>3. thread' \in Threads(shell.clicked)
      BY <1>0, <3>1, <3>2 DEF Threads
    <3>4. /\ thread'.icons = Append(thread.icons, thread'.balloon)
          /\ thread'.pc = "receive"
      BY <1>0, <3>1 DEF Threads
    <3> QED BY <2>1, <3>3, <3>4, ThreadMoves
  <2> QED BY <2>2, <2>3
<1>4. CASE RunCommand
  <2>1. UNCHANGED <<served, shell, callbacks>>
    BY <1>4 DEF RunCommand, Thread
  <2>2. CASE ~shell.up
    <3>1. thread' = [thread EXCEPT !.pc = "closing"]
      BY <1>4, <2>2 DEF RunCommand
    <3> QED BY <1>0, <2>1, <3>1, ThreadMoves DEF Threads
  <2>3. CASE shell.up /\ thread.queue = <<>>
    <3>1. thread' = TakesNext(thread, "receive")
      BY <1>4, <2>3 DEF RunCommand
    <3> QED BY <1>0, <2>1, <3>1, TakesNextTypes, ThreadMoves
  <2>4. CASE shell.up /\ thread.queue # <<>>
    <3>1. thread' = TakesNext(thread, "run")
      BY <1>4, <2>4 DEF RunCommand
    <3>2. thread'.next # Nobody
      BY <1>0, <2>4, <3>1, TakesNextTypes, NotifierAssumption
    <3> QED BY <1>0, <2>1, <3>1, <3>2, TakesNextTypes, ThreadMoves
  <2> QED BY <2>2, <2>3, <2>4
<1>5. CASE CommandEnds
  <2> DEFINE t == [thread EXCEPT !.pc = "receive", !.next = Nobody]
             f == Offer(thread.failures, <<thread.next>>, FailureCapacity)
  <2>1. t \in Threads(shell.clicked) /\ t.pc = "receive" /\ t.icons = thread.icons
        /\ t.balloon = thread.balloon /\ t.failures = thread.failures
    BY <1>0 DEF Threads
  <2>2. UNCHANGED <<served, shell, callbacks>> /\ thread' \in {t, [t EXCEPT !.failures = f]}
    BY <1>5, <2>1 DEF CommandEnds, Thread
  <2>3. thread.next \in Told /\ thread.failures \in Seq(Told)
    BY <1>0, <1>5 DEF CommandEnds, Thread, NotifierInv, Threads
  <2>4. <<thread.next>> \in Seq(Told)
    BY <2>3
  <2>5. FailureCapacity \in Nat
    BY NotifierAssumption DEF FailureCapacity
  <2>7. f \in Seq(Told)
    BY <2>3, <2>4, <2>5, OfferTypes
  <2> HIDE DEF t, f
  <2>6. [t EXCEPT !.failures = f] \in Threads(shell.clicked)
        /\ [t EXCEPT !.failures = f].pc = "receive"
        /\ [t EXCEPT !.failures = f].icons = t.icons
        /\ [t EXCEPT !.failures = f].balloon = t.balloon
    BY <2>1, <2>7 DEF Threads
  <2> QED BY <2>1, <2>2, <2>6, ThreadMoves
<1>6. CASE ThreadEnds
  <2>1. /\ thread' = [thread EXCEPT !.pc = "gone", !.queue = <<>>, !.balloon = Nobody]
        /\ UNCHANGED <<served, shell, callbacks>>
    BY <1>6 DEF ThreadEnds, Thread
  <2>2. <<>> \in Seq(Told)
    OBVIOUS
  <2>3. thread' \in Threads(shell.clicked)
    BY <1>0, <2>1, <2>2 DEF Threads
  <2>4. /\ thread'.pc = "gone" /\ thread'.icons = thread.icons
        /\ thread'.balloon = Nobody
    BY <1>0, <2>1 DEF Threads
  <2> QED BY <2>1, <2>3, <2>4, ThreadMoves
<1> QED BY <1>1, <1>2, <1>3, <1>4, <1>5, <1>6

(* The balloon that a callback of the last icon is about is the clicked    *)
(* one.                                                                    *)
LEMMA PumpKeeps ==
    ASSUME NotifierInv, Pump
    PROVE  NotifierInv'
<1> DEFINE call == Head(callbacks)
           current == call.icon = Len(thread.icons)
           told == IF current /\ call.clicked /\ thread.balloon # Nobody
                   THEN Offer(thread.activations, <<thread.balloon>>, QueueCapacity)
                   ELSE thread.activations
<1>1. /\ thread \in Threads(shell.clicked) /\ BalloonIsLast
      /\ callbacks \in Seq(Callback)
      /\ \A i \in DOMAIN callbacks : Truthful(callbacks[i])
  BY DEF NotifierInv, ThreadType
<1>2. /\ callbacks # <<>> /\ callbacks' = Tail(callbacks) /\ UNCHANGED <<served, shell>>
      /\ thread' = [thread EXCEPT !.balloon = IF current THEN Nobody ELSE @,
                                  !.activations = told]
  BY <1>1 DEF Pump, Thread, Threads
<1>3. Truthful(call)
  BY <1>1, <1>2
<1>4. thread.activations \in Seq(shell.clicked) /\ thread.icons \in Seq(Told)
  BY <1>1 DEF Threads
<1>5. told \in Seq(shell.clicked)
  <2>1. CASE current /\ call.clicked /\ thread.balloon # Nobody
    <3>1. thread.balloon \in shell.clicked
      BY <1>1, <1>3, <2>1 DEF BalloonIsLast, Truthful
    <3>2. <<thread.balloon>> \in Seq(shell.clicked)
      BY <3>1, OneIsASeq
    <3>3. QueueCapacity \in Nat
      BY NotifierAssumption
    <3> QED BY <1>4, <2>1, <3>2, <3>3, OfferTypes
  <2>2. CASE ~(current /\ call.clicked /\ thread.balloon # Nobody)
    BY <1>4, <2>2
  <2> QED BY <2>1, <2>2
<1> HIDE DEF told, current
<1>6. /\ thread' \in Threads(shell.clicked) /\ thread'.pc = thread.pc
      /\ thread'.next = thread.next
      /\ thread'.icons = thread.icons /\ thread'.balloon \in {thread.balloon, Nobody}
  BY <1>1, <1>2, <1>5 DEF Threads
<1>7. thread.pc = "run" => thread.next # Nobody
  BY DEF NotifierInv
<1> QED BY <1>2, <1>6, <1>7, ThreadMoves

(* What waits has failed too.                                              *)
LEMMA PresentFailsKeeps ==
    ASSUME NotifierInv, PresentFails
    PROVE  NotifierInv'
<1> DEFINE f == Offer(thread.failures, <<thread.next>> \o thread.queue, FailureCapacity)
<1>1. /\ thread \in Threads(shell.clicked) /\ thread.next # Nobody
      /\ UNCHANGED <<served, shell, callbacks>>
      /\ thread' = [thread EXCEPT !.pc = "closing", !.next = Nobody, !.queue = <<>>,
                                  !.failures = f]
  BY DEF NotifierInv, ThreadType, PresentFails, Thread
<1>2. thread.next \in Told /\ thread.queue \in Seq(Told) /\ thread.failures \in Seq(Told)
  BY <1>1 DEF Threads
<1>3. <<thread.next>> \in Seq(Told)
  BY <1>2
<1>4. <<thread.next>> \o thread.queue \in Seq(Told)
  BY <1>2, <1>3, ConcatProperties
<1>5. FailureCapacity \in Nat
  BY NotifierAssumption DEF FailureCapacity
<1>6. f \in Seq(Told)
  BY <1>2, <1>4, <1>5, OfferTypes
<1> HIDE DEF f
<1>7. <<>> \in Seq(Told)
  OBVIOUS
<1>8. thread' \in Threads(shell.clicked)
  BY <1>1, <1>6, <1>7 DEF Threads
<1>9. /\ thread'.pc = "closing" /\ thread'.icons = thread.icons
      /\ thread'.balloon = thread.balloon
  BY <1>1 DEF Threads
<1> QED BY <1>1, <1>8, <1>9, ThreadMoves

(* The loop hears of the next activation, or hands the thread a claim.     *)
LEMMA LoopKeeps ==
    ASSUME NotifierInv, Tick \/ BalloonIsLate \/ \E s \in Told : Deliver(s)
    PROVE  NotifierInv'
<1>0. /\ thread \in Threads(shell.clicked) /\ shell.clicked \in SUBSET Told
      /\ shell \in Shells(shell.clicked)
  BY DEF NotifierInv, ThreadType, ShellType
<1>1. /\ thread.queue \in Seq(Told) /\ thread.failures \in Seq(Told)
      /\ thread.activations \in Seq(shell.clicked)
  BY <1>0 DEF Threads
<1>2. thread.pc = "run" => thread.next # Nobody
  BY DEF NotifierInv
<1>3. CASE BalloonIsLate
  <2>1. /\ thread' = [thread EXCEPT !.late = TRUE]
        /\ UNCHANGED <<callbacks, served, shell>>
    BY <1>3 DEF BalloonIsLate
  <2> QED BY <1>0, <1>2, <2>1, ThreadMoves DEF Threads
<1>4. ASSUME NEW s \in Told, Deliver(s)
      PROVE  NotifierInv'
  <2>1. /\ thread' \in {thread, [thread EXCEPT !.queue = Append(@, s)]}
        /\ UNCHANGED <<callbacks, served, shell>>
    BY <1>4 DEF Deliver
  <2>2. Append(thread.queue, s) \in Seq(Told)
    BY <1>1
  <2>3. thread' \in Threads(shell.clicked)
    BY <1>0, <2>1, <2>2 DEF Threads
  <2>4. /\ thread'.pc = thread.pc /\ thread'.next = thread.next
        /\ thread'.icons = thread.icons /\ thread'.balloon = thread.balloon
    BY <1>0, <2>1 DEF Threads
  <2> QED BY <1>2, <2>1, <2>3, <2>4, ThreadMoves
<1>5. CASE Tick
  <2> DEFINE rest(channel) == IF channel = <<>> THEN <<>> ELSE Tail(channel)
             failures == rest(thread.failures)
             activations == rest(thread.activations)
  <2>1. /\ thread' = [thread EXCEPT !.failures = failures, !.activations = activations]
        /\ shell' = IF thread.activations = <<>> THEN shell
                    ELSE Activate(shell, Head(thread.activations))
        /\ UNCHANGED <<callbacks, served>>
    BY <1>0, <1>5 DEF Tick, Threads
  <2>2. failures \in Seq(Told)
    BY <1>1, HeadTailProperties
  <2>3. activations \in Seq(shell.clicked)
    BY <1>1, HeadTailProperties
  <2>4. thread.activations # <<>> => Head(thread.activations) \in shell.clicked
    BY <1>1, HeadTailProperties
  <2> HIDE DEF failures, activations, rest
  <2>5. /\ thread' \in Threads(shell.clicked)
        /\ thread'.pc = thread.pc /\ thread'.next = thread.next
        /\ thread'.icons = thread.icons /\ thread'.balloon = thread.balloon
    BY <1>0, <2>1, <2>2, <2>3 DEF Threads
  <2>6. shell' \in Shells(shell.clicked)
    BY <1>0, <2>1, <2>4, OpenSessionTypes
  <2>7. shell'.clicked = shell.clicked
    BY <2>6 DEF Shells
  <2>8. ThreadType' /\ ShellType'
    BY <1>0, <2>5, <2>6, <2>7 DEF ThreadType, ShellType
  <2> QED BY <1>2, <2>1, <2>5, <2>7, <2>8 DEF NotifierInv, BalloonIsLast, Truthful
<1> QED BY <1>3, <1>4, <1>5

(* A message of the system is about an icon there was.                     *)
LEMMA SystemCallsBackKeeps ==
    ASSUME NotifierInv, NEW i \in Nat, SystemCallsBack(i)
    PROVE  NotifierInv'
<1>1. PICK clicked \in BOOLEAN :
        /\ callbacks' = Append(callbacks, [icon |-> i, clicked |-> clicked])
        /\ shell' = IF clicked THEN [shell EXCEPT !.clicked = @ \cup {thread.icons[i]}]
                    ELSE shell
  BY DEF SystemCallsBack
<1>2. /\ UNCHANGED <<thread, served>> /\ i \in DOMAIN thread.icons
      /\ served \in [sessions : SUBSET Told, open : Spaces]
      /\ callbacks \in Seq(Callback)
      /\ \A j \in DOMAIN callbacks : Truthful(callbacks[j])
      /\ thread \in Threads(shell.clicked) /\ shell.clicked \in SUBSET Told
      /\ shell \in Shells(shell.clicked)
      /\ thread.pc = "run" => thread.next # Nobody
      /\ BalloonIsLast
  BY DEF SystemCallsBack, NotifierInv, ThreadType, ShellType
<1> DEFINE more == IF clicked THEN shell.clicked \cup {thread.icons[i]} ELSE shell.clicked
<1>3. thread.icons \in Seq(Told) /\ thread.activations \in Seq(shell.clicked)
  BY <1>2 DEF Threads
<1>4. more \in SUBSET Told /\ shell.clicked \subseteq more
      /\ (clicked => thread.icons[i] \in more)
  BY <1>2, <1>3
<1>5. shell' = [shell EXCEPT !.clicked = more]
  BY <1>1, <1>2 DEF Shells
<1> HIDE DEF more
<1>6. shell' \in Shells(more) /\ shell'.clicked = more
  BY <1>2, <1>4, <1>5 DEF Shells
<1>7. thread.activations \in Seq(more)
  BY <1>3, <1>4, SeqGrows
<1>8. thread \in Threads(more)
  BY <1>2, <1>7 DEF Threads
<1>9. ThreadType' /\ ShellType'
  BY <1>2, <1>4, <1>6, <1>8 DEF ThreadType, ShellType
<1>10. [icon |-> i, clicked |-> clicked] \in Callback
  BY DEF Callback
<1>11. callbacks' \in Seq(Callback)
  BY <1>1, <1>2, <1>10
<1>12. ASSUME NEW j \in DOMAIN callbacks'
       PROVE  Truthful(callbacks[j])'
  <2>1. \/ j \in DOMAIN callbacks /\ callbacks'[j] = callbacks[j]
        \/ callbacks'[j] = [icon |-> i, clicked |-> clicked]
    BY <1>1, <1>2, <1>10, <1>12
  <2>2. CASE j \in DOMAIN callbacks /\ callbacks'[j] = callbacks[j]
    BY <1>2, <1>4, <1>6, <2>2 DEF Truthful
  <2>3. CASE callbacks'[j] = [icon |-> i, clicked |-> clicked]
    <3>1. callbacks'[j].icon = i /\ callbacks'[j].clicked = clicked
      BY <2>3
    <3> QED BY <1>2, <1>4, <1>6, <3>1 DEF Truthful
  <2> QED BY <2>1, <2>2, <2>3
<1> QED BY <1>2, <1>9, <1>11, <1>12 DEF NotifierInv, BalloonIsLast

(* What every behaviour of the notifier keeps.                             *)
THEOREM NotifierInvariance == NotifierSpec => []NotifierInv
<1>1. NotifierInv /\ [NotifierNext]_notifierVars => NotifierInv'
  <2> SUFFICES ASSUME NotifierInv, [NotifierNext]_notifierVars PROVE NotifierInv'
    OBVIOUS
  <2>1. ASSUME NEW i \in 1 .. Cardinality(Told), SystemCallsBack(i)
        PROVE  NotifierInv'
    <3>1. thread.icons \in Seq(Told) /\ i \in DOMAIN thread.icons
      BY <2>1 DEF NotifierInv, ThreadType, Threads, SystemCallsBack
    <3>2. i \in Nat
      BY <3>1
    <3> QED BY <2>1, <3>2, SystemCallsBackKeeps
  <2>2. CASE UNCHANGED notifierVars
    BY <2>2 DEF notifierVars, NotifierInv, ThreadType, ShellType, BalloonIsLast, Truthful
  <2> QED BY <2>1, <2>2, LoopKeeps, AnswersKeep, ThreadStepsKeep, PumpKeeps,
             PresentFailsKeeps DEF NotifierNext, ThreadStep
<1> QED BY NotifierInitInv, <1>1, PTL DEF NotifierSpec

(* Only the Session whose notification was clicked is opened, whenever the *)
(* callbacks come and whatever the daemon's others do: for any number of   *)
(* Sessions and Workspaces and any capacity of the channels.               *)
THEOREM ClicksAreTrue == NotifierSpec => []ActivationIsOfTheClicked
<1>1. NotifierInv => ActivationIsOfTheClicked
  <2> SUFFICES ASSUME NotifierInv PROVE ActivationIsOfTheClicked
    OBVIOUS
  <2>1. thread.activations \in Seq(shell.clicked)
    BY DEF NotifierInv, ThreadType, Threads
  <2>2. Range(thread.activations) \subseteq shell.clicked
    BY <2>1 DEF Range
  <2>3. {shell.active, shell.pending} \subseteq shell.clicked \cup {Nobody}
    BY DEF NotifierInv, ShellType, Shells
  <2> QED BY <2>2, <2>3 DEF ActivationIsOfTheClicked
<1> QED BY NotifierInvariance, <1>1, PTL

----------------------------------------------------------------------------
(* The keyboard of the desktop application.                                *)

(* What the application is made of, as far as the keyboard goes.           *)
Parts == {"shown", "open", "active", "checkout", "selected", "terminals",
          "focused", "modal", "refreshing", "resuming", "activation",
          "calls", "connected", "missed"}

Operations == {"refresh", "attach", "detach", "stop", "inspect", "delete",
               "resume", "create"}

(* Requests under way are of an operation, events of a type.               *)
CallsFit(calls) ==
    /\ \E S : calls \in Seq(S)
    /\ \A i \in DOMAIN calls :
          "op" \in DOMAIN calls[i] /\ calls[i].op \in Operations

EventsFit(events) ==
    /\ \E S : events \in Seq(S)
    /\ \A i \in DOMAIN events :
          events[i].type \in {"status", "exited", "changed"}

Complete(a) == Parts \subseteq DOMAIN a /\ CallsFit(a.calls)

KeyboardInv ==
    /\ Complete(app)
    /\ EventsFit(announced)
    /\ app.focused => given \in {{app.active}, Sessions}

(* Application b has the keyboard where a has it; or nowhere.              *)
Same(a, b) == b.active = a.active /\ b.focused = a.focused

Stays(a, b) == b.focused => a.focused /\ b.active = a.active

----------------------------------------------------------------------------
(* Lists of requests and of events.                                        *)

(* A request is added, or taken.                                           *)
LEMMA CallAdded ==
    ASSUME NEW calls, CallsFit(calls), NEW op \in Operations,
           NEW s, NEW named, NEW reply
    PROVE  CallsFit(Append(calls, [op |-> op, session |-> s, named |-> named,
                                   reply |-> reply]))
<1> DEFINE c == [op |-> op, session |-> s, named |-> named, reply |-> reply]
           a == Append(calls, c)
<1>1. PICK S : calls \in Seq(S)
  BY DEF CallsFit
<1>2. "op" \in DOMAIN c /\ c.op \in Operations
  OBVIOUS
<1> HIDE DEF c
<1>3. calls \in Seq(S \cup {c})
  BY <1>1
<1>4. /\ a \in Seq(S \cup {c})
      /\ \A i \in DOMAIN a : \/ i \in DOMAIN calls /\ a[i] = calls[i]
                             \/ a[i] = c
  BY <1>3, LenProperties
<1>5. \A i \in DOMAIN a : "op" \in DOMAIN a[i] /\ a[i].op \in Operations
  BY <1>2, <1>4 DEF CallsFit
<1> QED BY <1>4, <1>5 DEF CallsFit, c

(* A request whose reply is taken is no longer under way.                  *)
LEMMA CallTaken ==
    ASSUME NEW calls, CallsFit(calls), NEW i \in DOMAIN calls
    PROVE  CallsFit(RemoveAt(calls, i))
<1>1. PICK S : calls \in Seq(S)
  BY DEF CallsFit
<1> DEFINE n == Len(calls)
           l == SubSeq(calls, 1, i - 1)
           r == SubSeq(calls, i + 1, n)
           t == l \o r
<1>2. n \in Nat /\ DOMAIN calls = 1 .. n /\ i \in 1 .. n
  BY <1>1, LenProperties
<1>3. /\ l \in Seq(S) /\ r \in Seq(S)
      /\ \A j \in DOMAIN l : j \in DOMAIN calls /\ l[j] = calls[j]
      /\ \A j \in DOMAIN r : i + j \in DOMAIN calls /\ r[j] = calls[i + j]
  BY <1>1, <1>2, LenProperties, SMTT(30)
<1> HIDE DEF l, r
<1>4. /\ t \in Seq(S)
      /\ \A j \in DOMAIN t : \/ j \in DOMAIN l /\ t[j] = l[j]
                             \/ j - Len(l) \in DOMAIN r /\ t[j] = r[j - Len(l)]
  BY <1>3, LenProperties, ConcatProperties
<1>5. \A j \in DOMAIN t : \E k \in DOMAIN calls : t[j] = calls[k]
  BY <1>3, <1>4
<1>6. RemoveAt(calls, i) = t
  BY DEF RemoveAt, l, r
<1> QED BY <1>4, <1>5, <1>6 DEF CallsFit

(* A request that is answered is still of its operation.                   *)
LEMMA CallAnswered ==
    ASSUME NEW calls, CallsFit(calls), NEW i \in DOMAIN calls, NEW reply
    PROVE  CallsFit([calls EXCEPT ![i].reply = reply])
<1> DEFINE c == [calls[i] EXCEPT !.reply = reply]
           t == [calls EXCEPT ![i].reply = reply]
<1>1. PICK S : calls \in Seq(S)
  BY DEF CallsFit
<1>2. DOMAIN c = DOMAIN calls[i] /\ ("op" \in DOMAIN calls[i] => c.op = calls[i].op)
  OBVIOUS
<1>3. t = [calls EXCEPT ![i] = c]
  OBVIOUS
<1> HIDE DEF c
<1>4. t \in Seq(S \cup {c})
  <2>1. calls \in Seq(S \cup {c})
    BY <1>1
  <2> QED BY <1>3, <2>1
<1>5. /\ DOMAIN t = DOMAIN calls
      /\ \A j \in DOMAIN t : t[j] = IF j = i THEN c ELSE calls[j]
  BY <1>3
<1>6. \A j \in DOMAIN t : "op" \in DOMAIN t[j] /\ t[j].op \in Operations
  BY <1>2, <1>5 DEF CallsFit
<1> QED BY <1>4, <1>6 DEF CallsFit

(* Events are published: the oldest may be lost.                           *)
LEMMA Published ==
    ASSUME NEW events, EventsFit(events), EventsFit(announced), Publish(events)
    PROVE  EventsFit(announced')
<1> DEFINE all == announced \o events
           n == Len(all)
           excess == IF n > MaxEvents THEN n - MaxEvents ELSE 0
           k == SubSeq(all, excess + 1, n)
<1>0. MaxEvents \in Nat
  BY DesktopAssumption
<1>1. PICK S : announced \in Seq(S)
  BY DEF EventsFit
<1>2. PICK T : events \in Seq(T)
  BY DEF EventsFit
<1>3. announced \in Seq(S \cup T) /\ events \in Seq(S \cup T)
  BY <1>1, <1>2
<1>4. /\ all \in Seq(S \cup T) /\ n \in Nat /\ DOMAIN all = 1 .. n
      /\ \A j \in DOMAIN all :
            \/ j \in DOMAIN announced /\ all[j] = announced[j]
            \/ j - Len(announced) \in DOMAIN events
               /\ all[j] = events[j - Len(announced)]
  BY <1>3, LenProperties, ConcatProperties
<1> HIDE DEF all, n
<1>5. excess \in Nat
  BY <1>0, <1>4
<1> HIDE DEF excess
<1>6. /\ k \in Seq(S \cup T)
      /\ \A j \in DOMAIN k : excess + j \in DOMAIN all /\ k[j] = all[excess + j]
  BY <1>4, <1>5, LenProperties DEF n
<1>7. EventsFit(k)
  BY <1>4, <1>6, ZenonT(60) DEF EventsFit
<1>8. announced' = k \/ announced' = announced
  BY DEF Publish, all, n, excess
<1> QED BY <1>7, <1>8

(* The events of the daemon are of their types.                            *)
LEMMA EventsToPublish ==
    ASSUME NEW s
    PROVE  EventsFit(<<Changed>>) /\ EventsFit(Ended(s)) /\ EventsFit(<<>>)
<1>1. EventsFit(<<Changed>>)
  <2>1. <<Changed>> \in Seq({Changed}) /\ DOMAIN <<Changed>> = {1} /\ <<Changed>>[1] = Changed
    OBVIOUS
  <2>2. Changed.type = "changed"
    BY DEF Changed
  <2> QED BY <2>1, <2>2 DEF EventsFit
<1>2. EventsFit(Ended(s))
  <2> DEFINE a == [type |-> "status", session |-> s]
             b == [type |-> "exited", session |-> s]
  <2>1. a.type = "status" /\ b.type = "exited" /\ Ended(s) = <<a, b>>
    BY DEF Ended
  <2> HIDE DEF a, b
  <2>2. <<a, b>> \in Seq({a, b}) /\ DOMAIN <<a, b>> = {1, 2} /\ <<a, b>>[1] = a /\ <<a, b>>[2] = b
    OBVIOUS
  <2> QED BY <2>1, <2>2 DEF EventsFit
<1>3. EventsFit(<<>>)
  <2>1. <<>> \in Seq({}) /\ DOMAIN <<>> = {}
    OBVIOUS
  <2> QED BY <2>1 DEF EventsFit
<1> QED BY <1>1, <1>2, <1>3

----------------------------------------------------------------------------
(* The helpers of the application.                                         *)

(* A request that is sent leaves the keyboard alone.                       *)
LEMMA AskFacts ==
    ASSUME NEW a, Complete(a), NEW op \in Operations, NEW s, NEW named
    PROVE  /\ Complete(AskNamed(a, op, s, named)) /\ Same(a, AskNamed(a, op, s, named))
           /\ Complete(Ask(a, op, s)) /\ Same(a, Ask(a, op, s))
<1>1. ASSUME NEW m
      PROVE  Complete(AskNamed(a, op, s, m)) /\ Same(a, AskNamed(a, op, s, m))
  <2> DEFINE q == Append(a.calls, [op |-> op, session |-> s, named |-> m,
                                   reply |-> Unanswered])
  <2>1. CallsFit(q)
    BY CallAdded DEF Complete
  <2> HIDE DEF q
  <2>2. CASE Busy(a)
    BY <2>2 DEF AskNamed, Same
  <2>3. CASE ~Busy(a)
    <3>1. AskNamed(a, op, s, m) = [a EXCEPT !.calls = q]
      BY <2>3 DEF AskNamed, q
    <3> QED BY <2>1, <3>1 DEF Complete, Same, Parts
  <2> QED BY <2>2, <2>3
<1> QED BY <1>1 DEF Ask

(* So does one for the list.                                               *)
LEMMA RequestSnapshotFacts ==
    ASSUME NEW a, Complete(a)
    PROVE  Complete(RequestSnapshot(a)) /\ Same(a, RequestSnapshot(a))
<1>1. Complete(Ask(a, "refresh", NoSession)) /\ Same(a, Ask(a, "refresh", NoSession))
  BY AskFacts DEF Operations
<1>2. CASE a.refreshing
  BY <1>2 DEF RequestSnapshot, Complete, Same, Parts
<1>3. CASE ~a.refreshing
  <2> DEFINE b == Ask(a, "refresh", NoSession)
  <2>1. RequestSnapshot(a) = [b EXCEPT !.refreshing = ~Busy(a), !.missed = Busy(a)]
    BY <1>3 DEF RequestSnapshot
  <2> HIDE DEF b
  <2> QED BY <1>1, <2>1 DEF Complete, Same, Parts, b
<1> QED BY <1>2, <1>3

(* The keyboard is left.                                                   *)
LEMMA UnfocusFacts ==
    ASSUME NEW a, Complete(a)
    PROVE  Complete(Unfocus(a)) /\ ~Unfocus(a).focused
  BY DEF Unfocus, Complete, Parts

(* A Session and its Checkout are selected.                                *)
LEMMA SelectContextFacts ==
    ASSUME NEW a, Complete(a), NEW s
    PROVE  Complete(SelectContext(a, s)) /\ Same(a, SelectContext(a, s))
  BY DEF SelectContext, Complete, Same, Parts

(* A Session that is opened takes the keyboard from every terminal.        *)
LEMMA SelectSessionFacts ==
    ASSUME NEW a, Complete(a), NEW s
    PROVE  Complete(SelectSession(a, s)) /\ ~SelectSession(a, s).focused
<1> DEFINE b == SelectContext(Unfocus(a), s)
<1>1. Complete(b) /\ ~b.focused
  BY UnfocusFacts, SelectContextFacts DEF Same
<1> HIDE DEF b
<1>2. \/ SelectSession(a, s) = Unfocus(a)
      \/ SelectSession(a, s) = [b EXCEPT !.active = s, !.open = AddTab(@, s)]
  BY DEF SelectSession, b
<1> QED BY <1>1, <1>2, UnfocusFacts DEF Complete, Parts

(* A notification is opened.                                               *)
LEMMA OpensFacts ==
    ASSUME NEW a, Complete(a), NEW s
    PROVE  Complete(Opens(a, s))
<1>1. Complete([a EXCEPT !.activation = s])
  BY DEF Complete, Parts
<1> QED BY <1>1, RequestSnapshotFacts, SelectSessionFacts DEF Opens

(* A notification that waited for the list is opened, or given up.         *)
LEMMA ResolveActivationFacts ==
    ASSUME NEW a, Complete(a)
    PROVE  /\ Complete(ResolveActivation(a))
           /\ Same(a, ResolveActivation(a)) \/ ~ResolveActivation(a).focused
<1> DEFINE b == [a EXCEPT !.activation = NoSession]
<1>1. Complete(b) /\ Same(a, b)
  BY DEF Complete, Same, Parts
<1> HIDE DEF b
<1>2. \/ ResolveActivation(a) = a
      \/ ResolveActivation(a) = b
      \/ ResolveActivation(a) = SelectSession(b, a.activation)
  BY DEF ResolveActivation, b
<1> QED BY <1>1, <1>2, SelectSessionFacts DEF Same

(* A list keeps the keyboard at a terminal it keeps.                       *)
LEMMA RestoreSelectionFacts ==
    ASSUME NEW a, Complete(a)
    PROVE  /\ Complete(RestoreSelection(a))
           /\ ~Astray(a) => Stays(a, RestoreSelection(a))
<1> DEFINE here == SessionsFor(a, a.checkout)
           open == SelectSeq(a.open, LAMBDA s : a.shown[s] # "none")
           terminals == [s \in Sessions |->
               IF a.shown[s] = "none" THEN "none" ELSE a.terminals[s]]
           active == IF \/ a.active = NoSession
                        \/ Contains(a.open, a.active) /\ a.shown[a.active] # "none"
                     THEN a.active ELSE LastOpen([a EXCEPT !.open = open])
           selected == IF a.selected \in here THEN a.selected ELSE FirstOf(here)
           b == RestoreSelection(a)
<1>1. b = [a EXCEPT !.selected = selected, !.open = open, !.terminals = terminals,
                    !.focused = @ /\ terminals = a.terminals, !.active = active]
  BY DEF RestoreSelection
<1> HIDE DEF here, open, active, selected, b
<1>2. Parts \subseteq DOMAIN b /\ b.calls = a.calls
  BY <1>1 DEF Complete, Parts
<1>3. b.active = active /\ (b.focused => a.focused /\ terminals = a.terminals)
  BY <1>1 DEF Complete, Parts
<1>4. ASSUME a.active \in Sessions, a.terminals[a.active] = "controller",
             Contains(a.open, a.active), b.focused
      PROVE  a.focused /\ b.active = a.active
  <2>1. terminals[a.active] = "controller"
    BY <1>3, <1>4
  <2>2. a.shown[a.active] # "none"
    BY <1>4, <2>1
  <2> QED BY <1>3, <1>4, <2>2 DEF active
<1>5. ASSUME ~Astray(a), b.focused
      PROVE  a.focused /\ b.active = a.active
  BY <1>3, <1>4, <1>5 DEF Astray
<1> QED BY <1>2, <1>5 DEF Complete, Stays, b

(* A terminal that is left loses the keyboard.                             *)
LEMMA DetachedFacts ==
    ASSUME NEW a, Complete(a), NEW s
    PROVE  Complete(Detached(a, s)) /\ Stays(a, Detached(a, s))
  BY DEF Detached, Complete, Stays, Parts

(* So does every terminal when a Session is deleted.                       *)
LEMMA CleanupFacts ==
    ASSUME NEW a, Complete(a), NEW s
    PROVE  Complete(CleanupDeletedSession(a, s)) /\ ~CleanupDeletedSession(a, s).focused
  BY DEF CleanupDeletedSession, Complete, Parts

(* The active Session is attached or resumed, with the keyboard as it is.  *)
LEMMA AttachActiveFacts ==
    ASSUME NEW a, Complete(a)
    PROVE  Complete(AttachActive(a)) /\ Same(a, AttachActive(a))
<1> DEFINE b == Ask(a, "resume", a.active)
<1>1. Complete(b) /\ Same(a, b)
  BY AskFacts DEF Operations
<1>2. Complete(Ask(a, "attach", a.active)) /\ Same(a, Ask(a, "attach", a.active))
  BY AskFacts DEF Operations
<1> HIDE DEF b
<1>3. /\ Complete([b EXCEPT !.resuming = @ \cup {a.active}])
      /\ Same(a, [b EXCEPT !.resuming = @ \cup {a.active}])
  BY <1>1 DEF Complete, Same, Parts
<1>4. \/ AttachActive(a) = a
      \/ AttachActive(a) = Ask(a, "attach", a.active)
      \/ AttachActive(a) = [b EXCEPT !.resuming = @ \cup {a.active}]
  BY DEF AttachActive, ResumeSession, b
<1> QED BY <1>2, <1>3, <1>4 DEF Same

(* A Session is to be stopped.                                             *)
LEMMA StopFormFacts ==
    ASSUME NEW a, Complete(a)
    PROVE  Complete(OpenStopConfirmation(a))
  BY UnfocusFacts DEF OpenStopConfirmation, Complete, Parts

(* A Session is to be deleted.                                             *)
LEMMA DeleteSelectedFacts ==
    ASSUME NEW a, Complete(a)
    PROVE  Complete(DeleteSelectedSession(a))
<1>1. Complete([a EXCEPT !.active = a.selected])
  BY DEF Complete, Parts
<1>2. Complete(Ask(Unfocus(a), "inspect", a.selected))
  BY UnfocusFacts, AskFacts DEF Operations
<1> QED BY <1>1, <1>2, StopFormFacts DEF DeleteSelectedSession

(* A reply that does not give the keyboard takes it away at most.          *)
LEMMA HandleResponseFacts ==
    ASSUME NEW a, Complete(a), NEW c, c.op \in Operations
    PROVE  /\ Complete(HandleResponse(a, c))
           /\ ~GivesKeyboard(c) /\ ~Astray(a) => Stays(a, HandleResponse(a, c))
<1> DEFINE s == c.session
           answer == c.reply.answer
           t == c.reply.session
           b == HandleResponse(a, c)
<1>1. CASE answer = "failed"
  <2> DEFINE f == [a EXCEPT !.refreshing = @ /\ c.op # "refresh",
                        !.missed = @ \/ c.op = "refresh",
                        !.resuming = IF c.op = "resume" THEN @ \ {s} ELSE @,
                        !.modal = IF c.op = "create" /\ @.kind = "submitted"
                                  THEN [@ EXCEPT !.kind = "form"] ELSE @]
  <2>1. b = f
    BY <1>1 DEF HandleResponse
  <2>2. Complete(f) /\ Same(a, f)
    BY DEF Complete, Same, Parts
  <2> QED BY <2>1, <2>2 DEF Same, Stays
<1>2. CASE answer = "error"
  <2> DEFINE f == [a EXCEPT !.missed = @ \/ c.op = "refresh",
                        !.resuming = IF c.op = "resume" THEN @ \ {s} ELSE @,
                        !.modal = IF c.op = "create" /\ @.kind = "submitted"
                                  THEN [@ EXCEPT !.kind = "form"] ELSE @]
  <2>1. b = f
    BY <1>2 DEF HandleResponse
  <2>2. Complete(f) /\ Same(a, f)
    BY DEF Complete, Same, Parts
  <2> QED BY <2>1, <2>2 DEF Same, Stays
<1>3. CASE answer \notin {"failed", "error"}
  <2>1. CASE c.op = "refresh"
    <3> DEFINE f == [a EXCEPT !.refreshing = FALSE, !.shown = c.reply.list]
               r == RestoreSelection(f)
    <3>1. b = ResolveActivation(r)
      BY <1>3, <2>1 DEF HandleResponse
    <3>2. /\ Complete(f) /\ Same(a, f) /\ f.terminals = a.terminals
          /\ f.open = a.open
      BY DEF Complete, Same, Parts
    <3> HIDE DEF f
    <3>3. Complete(r) /\ (~Astray(f) => Stays(f, r))
      BY <3>2, RestoreSelectionFacts
    <3> HIDE DEF r
    <3>4. ~Astray(a) => Stays(a, r)
      BY <3>2, <3>3 DEF Astray, Same, Stays
    <3>5. Complete(b) /\ (Same(r, b) \/ ~b.focused)
      BY <3>1, <3>3, ResolveActivationFacts
    <3> QED BY <3>4, <3>5 DEF Stays, Same
  <2>2. CASE c.op = "attach"
    <3> DEFINE f == [a EXCEPT !.terminals[s] = answer,
                              !.focused = (answer = "controller")]
    <3>1. b = f
      BY <1>3, <2>2 DEF HandleResponse
    <3>2. Complete(f)
      BY DEF Complete, Parts
    <3>3. GivesKeyboard(c)
      BY <1>3, <2>2 DEF GivesKeyboard
    <3> QED BY <3>1, <3>2, <3>3
  <2>3. CASE c.op = "detach"
    <3>1. b = Detached(a, s)
      BY <1>3, <2>3 DEF HandleResponse
    <3> QED BY <3>1, DetachedFacts
  <2>4. CASE c.op = "stop"
    <3>1. b = RequestSnapshot(Detached(a, s))
      BY <1>3, <2>4 DEF HandleResponse
    <3> QED BY <3>1, DetachedFacts, RequestSnapshotFacts DEF Same, Stays
  <2>5. CASE c.op = "inspect"
    <3> DEFINE f == [a EXCEPT !.modal = [kind |-> "delete", session |-> s]]
    <3>1. b = a \/ b = f
      BY <1>3, <2>5 DEF HandleResponse
    <3>2. Complete(f) /\ Same(a, f)
      BY DEF Complete, Same, Parts
    <3> QED BY <3>1, <3>2 DEF Stays, Same
  <2>6. CASE c.op = "delete"
    <3> DEFINE f == [a EXCEPT !.modal = NoModal]
    <3>1. b = RequestSnapshot(CleanupDeletedSession(f, s))
      BY <1>3, <2>6 DEF HandleResponse
    <3>2. Complete(f)
      BY DEF Complete, Parts
    <3> QED BY <3>1, <3>2, CleanupFacts, RequestSnapshotFacts DEF Same, Stays
  <2>7. CASE c.op = "resume" /\ answer = "unavailable"
    <3> DEFINE f == [a EXCEPT !.resuming = @ \ {s}, !.shown[s] = "ended"]
    <3>1. b = RequestSnapshot(SelectSession(f, s))
      BY <1>3, <2>7 DEF HandleResponse
    <3>2. Complete(f)
      BY DEF Complete, Parts
    <3> QED BY <3>1, <3>2, SelectSessionFacts, RequestSnapshotFacts DEF Same, Stays
  <2>8. CASE c.op = "resume" /\ answer # "unavailable"
    <3> DEFINE f == [a EXCEPT !.resuming = @ \ {s}, !.shown[t] = "live"]
               g == SelectSession(SelectContext(f, t), t)
    <3>1. b = RequestSnapshot(AttachActive(g))
      BY <1>3, <2>8 DEF HandleResponse
    <3>2. Complete(f)
      BY DEF Complete, Parts
    <3>3. Complete(g) /\ ~g.focused
      BY <3>2, SelectContextFacts, SelectSessionFacts
    <3> HIDE DEF g
    <3>4. Complete(AttachActive(g)) /\ ~AttachActive(g).focused
      BY <3>3, AttachActiveFacts DEF Same
    <3> QED BY <3>1, <3>4, RequestSnapshotFacts DEF Same, Stays
  <2>9. CASE c.op = "create"
    <3> DEFINE f == [a EXCEPT !.selected = t,
                            !.checkout = CheckoutOf[t],
                            !.active = t,
                            !.open = IF Contains(@, t) THEN @
                                     ELSE Append(@, t),
                            !.modal = NoModal]
    <3>1. b = RequestSnapshot(f)
      BY <1>3, <2>9 DEF HandleResponse
    <3>2. Complete(f)
      BY DEF Complete, Parts
    <3>3. GivesKeyboard(c)
      BY <1>3, <2>9 DEF GivesKeyboard
    <3> QED BY <3>1, <3>2, <3>3, RequestSnapshotFacts
  <2> QED BY <2>1, <2>2, <2>3, <2>4, <2>5, <2>6, <2>7, <2>8, <2>9 DEF Operations
<1> QED BY <1>1, <1>2, <1>3

----------------------------------------------------------------------------
(* The steps.                                                              *)

(* What takes the keyboard away at most keeps the invariant.               *)
LEMMA StaysKeeps ==
    ASSUME KeyboardInv, Complete(app'), EventsFit(announced'),
           Stays(app, app'), given' = given
    PROVE  KeyboardInv'
  BY DEF KeyboardInv, Stays

(* A reply is made.                                                        *)
LEMMA ReplyFacts ==
    ASSUME NEW i \in DOMAIN app.calls, NEW reply, Reply(i, reply), Complete(app)
    PROVE  Complete(app') /\ Same(app, app')
<1> DEFINE q == [app.calls EXCEPT ![i].reply = reply]
<1>1. CallsFit(q)
  BY CallAnswered DEF Complete
<1> HIDE DEF q
<1>2. app' = [app EXCEPT !.calls = q]
  BY DEF Reply, Complete, Parts, q
<1> QED BY <1>1, <1>2 DEF Complete, Same, Parts

(* The daemon does not touch the keyboard.                                 *)
LEMMA DaemonActsKeeps ==
    ASSUME KeyboardInv, DaemonActs
    PROVE  KeyboardInv'
<1>1. Complete(app) /\ EventsFit(announced)
  BY DEF KeyboardInv
<1>2. ASSUME NEW s \in Sessions, OthersCreate(s) \/ SessionExits(s) \/ OthersDelete(s)
      PROVE  KeyboardInv'
  <2>1. UNCHANGED <<app, given>>
    BY <1>2 DEF OthersCreate, SessionExits, OthersDelete
  <2>2. Publish(<<Changed>>) \/ Publish(Ended(s))
    BY <1>2 DEF OthersCreate, SessionExits, OthersDelete
  <2>3. EventsFit(announced')
    BY <1>1, <2>2, EventsToPublish, Published
  <2> QED BY <1>1, <2>1, <2>3, StaysKeeps DEF Stays
<1>3. ASSUME NEW i \in DOMAIN app.calls, ServesReading(i)
      PROVE  KeyboardInv'
  <2>1. \E reply : Reply(i, reply)
    BY <1>3 DEF ServesReading
  <2>2. Complete(app') /\ Same(app, app')
    BY <1>1, <1>3, <2>1, ReplyFacts
  <2>3. UNCHANGED <<announced, given>>
    BY <1>3 DEF ServesReading
  <2> QED BY <1>1, <2>1, <2>2, <2>3, StaysKeeps DEF Same, Stays
<1>4. ASSUME NEW i \in DOMAIN app.calls, ServesStop(i)
      PROVE  KeyboardInv'
  <2>1. /\ \E reply : Reply(i, reply)
        /\ \E s : Publish(Ended(s)) \/ Publish(<<>>)
        /\ UNCHANGED given
    BY <1>4 DEF ServesStop
  <2>2. Complete(app') /\ Same(app, app')
    BY <1>1, <1>4, <2>1, ReplyFacts
  <2>3. EventsFit(announced')
    BY <1>1, <2>1, EventsToPublish, Published
  <2> QED BY <2>1, <2>2, <2>3, StaysKeeps DEF Same, Stays
<1>5. ASSUME NEW i \in DOMAIN app.calls, ServesDelete(i) \/ ServesLaunch(i)
      PROVE  KeyboardInv'
  <2>1. /\ \E reply : Reply(i, reply)
        /\ Publish(<<Changed>>)
        /\ UNCHANGED given
    BY <1>5 DEF ServesDelete, ServesLaunch
  <2>2. Complete(app') /\ Same(app, app')
    BY <1>1, <1>5, <2>1, ReplyFacts
  <2>3. EventsFit(announced')
    BY <1>1, <2>1, EventsToPublish, Published
  <2> QED BY <2>1, <2>2, <2>3, StaysKeeps DEF Same, Stays
<1>6. ASSUME NEW i \in DOMAIN app.calls, ServesError(i) \/ RequestFails(i)
      PROVE  KeyboardInv'
  <2>1. (\E reply : Reply(i, reply)) /\ UNCHANGED <<announced, given>>
    BY <1>6 DEF ServesError, RequestFails
  <2>2. Complete(app') /\ Same(app, app')
    BY <1>1, <1>6, <2>1, ReplyFacts
  <2> QED BY <1>1, <2>1, <2>2, StaysKeeps DEF Same, Stays
<1>7. CASE ConnectionCloses
  <2>1. /\ app' = [app EXCEPT !.connected = FALSE, !.missed = TRUE]
        /\ UNCHANGED <<announced, given>>
    BY <1>7 DEF ConnectionCloses
  <2>2. Complete(app') /\ Same(app, app')
    BY <1>1, <2>1 DEF Complete, Same, Parts
  <2> QED BY <1>1, <2>1, <2>2, StaysKeeps DEF Same, Stays
<1> QED BY <1>2, <1>3, <1>4, <1>5, <1>6, <1>7 DEF DaemonActs

(* What reaches the application gives the keyboard, or takes it away.       *)
LEMMA ApplicationActsKeeps ==
    ASSUME KeyboardInv, ApplicationActs
    PROVE  KeyboardInv'
<1>1. Complete(app) /\ EventsFit(announced)
  BY DEF KeyboardInv
<1>2. CASE HandleDaemonEvent
  <2> DEFINE e == Head(announced)
             s == e.session
  <2>1. /\ announced # <<>>
        /\ app' = RequestSnapshot(
            CASE e.type = "status" -> [app EXCEPT !.shown[s] = "ended"]
              [] e.type = "exited" -> Detached(app, s)
              [] e.type = "changed" -> app)
        /\ announced' = Tail(announced)
        /\ given' = given
    BY <1>2 DEF HandleDaemonEvent
  <2>2. PICK S : announced \in Seq(S)
    BY <1>1 DEF EventsFit
  <2>3. /\ 1 \in DOMAIN announced /\ e = announced[1]
        /\ announced' \in Seq(S)
        /\ \A j \in DOMAIN announced' :
              j + 1 \in DOMAIN announced /\ announced'[j] = announced[j + 1]
    BY <2>1, <2>2, LenProperties, EmptySeq
  <2>4. EventsFit(announced') /\ e.type \in {"status", "exited", "changed"}
    BY <1>1, <2>3 DEF EventsFit
  <2> DEFINE f == [app EXCEPT !.shown[s] = "ended"]
  <2>5. Complete(f) /\ Same(app, f)
    BY <1>1 DEF Complete, Same, Parts
  <2>6. Complete(Detached(app, s)) /\ Stays(app, Detached(app, s))
    BY <1>1, DetachedFacts
  <2>7. \/ app' = RequestSnapshot(f) \/ app' = RequestSnapshot(Detached(app, s))
        \/ app' = RequestSnapshot(app)
    BY <2>1, <2>4
  <2> HIDE DEF f, s, e
  <2>8. Complete(app') /\ Stays(app, app')
    BY <1>1, <2>5, <2>6, <2>7, RequestSnapshotFacts DEF Same, Stays
  <2> QED BY <2>1, <2>4, <2>8, StaysKeeps
<1>3. CASE TakeOverflowed
  <2> DEFINE a == RequestSnapshot(app)
  <2>1. /\ app' = a \/ app' = Ask(a, "attach", a.active)
        /\ UNCHANGED <<announced, given>>
    BY <1>3 DEF TakeOverflowed
  <2>2. Complete(a) /\ Same(app, a)
    BY <1>1, RequestSnapshotFacts
  <2> HIDE DEF a
  <2>3. Complete(app') /\ Same(app, app')
    BY <2>1, <2>2, AskFacts DEF Same, Operations
  <2> QED BY <1>1, <2>1, <2>3, StaysKeeps DEF Same, Stays
<1>4. ASSUME NEW i \in DOMAIN app.calls, TakeReply(i)
      PROVE  KeyboardInv'
  <2> DEFINE a == [app EXCEPT !.calls = RemoveAt(@, i)]
             c == app.calls[i]
  <2>1. /\ app' = HandleResponse(a, c)
        /\ announced' = announced
        /\ given' = IF GivesKeyboard(c) THEN Given(app')
                    ELSE IF Astray(app) THEN Sessions ELSE given
    BY <1>4 DEF TakeReply
  <2>2. CallsFit(RemoveAt(app.calls, i))
    BY <1>1, <1>4, CallTaken DEF Complete
  <2>3. /\ Complete(a) /\ Same(app, a)
        /\ a.terminals = app.terminals /\ a.open = app.open
    BY <1>1, <2>2 DEF Complete, Same, Parts
  <2>4. c.op \in Operations
    BY <1>1, <1>4 DEF Complete, CallsFit
  <2> HIDE DEF a, c
  <2>5. /\ Complete(app')
        /\ ~GivesKeyboard(c) /\ ~Astray(a) => Stays(a, app')
    BY <2>1, <2>3, <2>4, HandleResponseFacts
  <2>6. CASE GivesKeyboard(c)
    <3>1. app'.focused => given' = {app'.active}
      BY <2>1, <2>6 DEF Given
    <3> QED BY <1>1, <2>1, <2>5, <3>1 DEF KeyboardInv
  <2>7. CASE ~GivesKeyboard(c) /\ Astray(app)
    <3>1. given' = Sessions
      BY <2>1, <2>7
    <3> QED BY <1>1, <2>1, <2>5, <3>1 DEF KeyboardInv
  <2>8. CASE ~GivesKeyboard(c) /\ ~Astray(app)
    <3>1. given' = given
      BY <2>1, <2>8
    <3>2. Stays(app, app')
      BY <2>3, <2>5, <2>8 DEF Astray, Same, Stays
    <3> QED BY <1>1, <2>1, <2>5, <3>1, <3>2, StaysKeeps
  <2> QED BY <2>6, <2>7, <2>8
<1>5. ASSUME NEW i \in DOMAIN app.calls, ReplyIsDropped(i)
      PROVE  KeyboardInv'
  <2>1. /\ app' = [app EXCEPT !.calls = RemoveAt(@, i),
                              !.missed = @ \/ app.calls[i].op = "refresh"]
        /\ UNCHANGED <<announced, given>>
    BY <1>5 DEF ReplyIsDropped
  <2>2. CallsFit(RemoveAt(app.calls, i))
    BY <1>1, <1>5, CallTaken DEF Complete
  <2>3. Complete(app') /\ Same(app, app')
    BY <1>1, <2>1, <2>2 DEF Complete, Same, Parts
  <2> QED BY <1>1, <2>1, <2>3, StaysKeeps DEF Same, Stays
<1> QED BY <1>2, <1>3, <1>4, <1>5 DEF ApplicationActs

(* What the user does leaves an application with all its parts.            *)
LEMMA UserActsFit ==
    ASSUME Complete(app), UserActs
    PROVE  \E a : Does(a) /\ Complete(a)
<1>0. Complete(Unfocus(app))
  BY UnfocusFacts
<1>1. ASSUME NEW s \in Sessions, ActivateNotification(s)
      PROVE  \E a : Does(a) /\ Complete(a)
  BY <1>1, OpensFacts DEF ActivateNotification
<1>2. ASSUME NEW s \in Sessions, ClickSession(s)
      PROVE  \E a : Does(a) /\ Complete(a)
  BY <1>2, SelectSessionFacts DEF ClickSession
<1>3. ASSUME NEW s \in Sessions, ClickTab(s)
      PROVE  \E a : Does(a) /\ Complete(a)
  <2>1. Complete([SelectContext(Unfocus(app), s) EXCEPT !.active = s])
    BY <1>0, SelectContextFacts DEF Complete, Parts
  <2> QED BY <1>0, <1>3, <2>1 DEF ClickTab
<1>4. ASSUME NEW s \in Sessions, CloseTab(s)
      PROVE  \E a : Does(a) /\ Complete(a)
  <2> DEFINE a == IF app.terminals[s] \in {"controller", "observer"}
                  THEN Ask(Unfocus(app), "detach", s) ELSE Unfocus(app)
             b == [a EXCEPT !.open = Remove(@, s), !.terminals[s] = "none"]
             c == [b EXCEPT !.active = NoSession]
             d == [b EXCEPT !.active = LastOpen(b)]
             e == SelectContext(d, LastOpen(b))
  <2>1. Complete(a)
    BY <1>0, AskFacts DEF Operations
  <2>2. Does(IF b.active # s THEN b ELSE IF b.open = <<>> THEN c ELSE e)
    BY <1>4 DEF CloseTab
  <2> HIDE DEF a
  <2>3. Complete(b)
    BY <2>1 DEF Complete, Parts
  <2> HIDE DEF b
  <2>4. Complete(c) /\ Complete(d)
    BY <2>3 DEF Complete, Parts
  <2> HIDE DEF c, d
  <2>5. Complete(e)
    BY <2>4, SelectContextFacts
  <2> QED BY <2>2, <2>3, <2>4, <2>5
<1>5. ASSUME NEW w \in Checkouts, ClickCheckout(w)
      PROVE  \E a : Does(a) /\ Complete(a)
  <2>1. Complete([Unfocus(app) EXCEPT !.checkout = w,
                                  !.selected = FirstOf(SessionsFor(app, w))])
    BY <1>0 DEF Complete, Parts
  <2> QED BY <1>0, <1>5, <2>1 DEF ClickCheckout
<1>6. CASE OpenTerminal
  BY <1>6, AttachActiveFacts DEF OpenTerminal
<1>7. CASE LeaveTerminal
  <2>1. Complete(Ask(Unfocus(app), "detach", app.active))
    BY <1>0, AskFacts DEF Operations
  <2> QED BY <1>0, <1>7, <2>1 DEF LeaveTerminal
<1>8. CASE ClickTerminal
  <2>1. Complete([app EXCEPT !.focused = TRUE])
    BY DEF Complete, Parts
  <2> QED BY <1>8, <2>1 DEF ClickTerminal
<1>9. CASE Stop
  BY <1>9, StopFormFacts DEF Stop
<1>10. CASE PressDelete
  BY <1>10, DeleteSelectedFacts DEF PressDelete
<1>11. CASE ClickTrash
  BY <1>11, SelectSessionFacts, DeleteSelectedFacts DEF ClickTrash
<1>12. CASE OpenSessionForm
  <2> DEFINE m == [kind |-> "form",
                   session |-> FirstOf({s \in Sessions :
                                        CheckoutOf[s] = app.checkout})]
  <2>1. Does([Unfocus(app) EXCEPT !.modal = m])
    BY <1>12 DEF OpenSessionForm
  <2> HIDE DEF m
  <2>2. Complete([Unfocus(app) EXCEPT !.modal = m])
    BY <1>0 DEF Complete, Parts
  <2> QED BY <2>1, <2>2
<1>13. CASE PressKey
  BY <1>0, <1>13 DEF PressKey
<1>14. CASE CancelModal
  <2>1. Complete([app EXCEPT !.modal = NoModal])
    BY DEF Complete, Parts
  <2> QED BY <1>14, <2>1 DEF CancelModal
<1>15. CASE SubmitForm
  <2> DEFINE a == Ask(app, "create", app.modal.session)
  <2>1. Complete(a)
    BY AskFacts DEF Operations
  <2> HIDE DEF a
  <2>2. Complete([a EXCEPT !.modal.kind = "submitted"])
    BY <2>1 DEF Complete, Parts
  <2> QED BY <1>15, <2>2 DEF SubmitForm, a
<1>16. CASE ConfirmAction
  <2> DEFINE a == AskNamed(app, "stop", app.active, app.modal.session)
             b == Ask(app, "delete", app.modal.session)
  <2>1. Complete(a) /\ Complete(b)
    BY AskFacts DEF Operations
  <2>2. Does([a EXCEPT !.modal = NoModal]) \/ Does(b)
    BY <1>16 DEF ConfirmAction
  <2> HIDE DEF a, b
  <2>3. Complete([a EXCEPT !.modal = NoModal])
    BY <2>1 DEF Complete, Parts
  <2> QED BY <2>1, <2>2, <2>3
<1> QED BY <1>1, <1>2, <1>3, <1>4, <1>5, <1>6, <1>7, <1>8, <1>9, <1>10, <1>11,
           <1>12, <1>13, <1>14, <1>15, <1>16 DEF UserActs

(* Where the keyboard is when the user has acted, the user gave it.        *)
LEMMA UserActsKeeps ==
    ASSUME KeyboardInv, UserActs
    PROVE  KeyboardInv'
<1>1. PICK a : Does(a) /\ Complete(a)
  BY UserActsFit DEF KeyboardInv
<1>2. app' = a /\ announced' = announced /\ given' = Given(a)
  BY <1>1 DEF Does
<1> QED BY <1>1, <1>2 DEF KeyboardInv, Given

(* The application starts with nothing under way.                          *)
LEMMA KeyboardStarts ==
    ASSUME DesktopInit PROVE KeyboardInv
<1>1. announced = <<>>
  BY DEF DesktopInit
<1>2. CallsFit(<<>>)
  <2>1. <<>> \in Seq({}) /\ DOMAIN <<>> = {}
    OBVIOUS
  <2> QED BY <2>1 DEF CallsFit
<1>3. PICK a : /\ app = RestoreSelection(a)
               /\ Parts \subseteq DOMAIN a /\ a.calls = <<>> /\ ~a.focused
  <2>1. PICK s, open : app = RestoreSelection(
               [shown |-> Snapshot,
                open |-> open,
                active |-> s,
                checkout |-> CheckoutOf[s],
                selected |-> s,
                terminals |-> [t \in Sessions |-> "none"],
                focused |-> FALSE,
                modal |-> NoModal,
                refreshing |-> FALSE,
                resuming |-> {},
                activation |-> NoSession,
                calls |-> <<>>,
                connected |-> TRUE,
                missed |-> FALSE])
    BY DEF DesktopInit
  <2> QED BY <2>1 DEF Parts
<1>4. Complete(a)
  BY <1>2, <1>3 DEF Complete
<1>5. Complete(app) /\ ~app.focused
  BY <1>3, <1>4, RestoreSelectionFacts DEF Stays, Astray
<1> QED BY <1>1, <1>5, EventsToPublish DEF KeyboardInv

(* The invariant of the desktop application.                               *)
THEOREM KeyboardInvariance == DesktopSpec => []KeyboardInv
<1>1. DesktopInit => KeyboardInv
  BY KeyboardStarts
<1>2. KeyboardInv /\ [DesktopNext]_desktopVars => KeyboardInv'
  <2>1. KeyboardInv /\ DesktopNext => KeyboardInv'
    BY DaemonActsKeeps, ApplicationActsKeeps, UserActsKeeps DEF DesktopNext
  <2>2. KeyboardInv /\ UNCHANGED desktopVars => KeyboardInv'
    BY DEF desktopVars, KeyboardInv
  <2> QED BY <2>1, <2>2
<1> QED BY <1>1, <1>2, PTL DEF DesktopSpec

(* The keyboard reaches only the terminal it was given to, by the user, by *)
(* an Attached reply or by a launch: whatever else comes takes it away at  *)
(* most, or finds it where nobody can type into a terminal with a tab.     *)
THEOREM KeyboardIsNotTaken == DesktopSpec => []KeyboardStays
<1>1. KeyboardInv => KeyboardStays
  <2> SUFFICES ASSUME KeyboardInv, InputTarget(app) # NoSession
               PROVE  InputTarget(app) \in given
    BY DEF KeyboardStays
  <2>1. app.focused /\ app.active \in Sessions /\ InputTarget(app) = app.active
    BY DEF InputTarget
  <2> QED BY <2>1 DEF KeyboardInv
<1> QED BY KeyboardInvariance, <1>1, PTL

=============================================================================
