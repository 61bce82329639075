--------------------------- MODULE MutationGate ----------------------------
(***************************************************************************)
(* ApplicationMutationCoordinator (daemon.rs): at most one update check,   *)
(* download, install or data removal at a time, and none while a detached  *)
(* installer's handoff waits to be finalized.  Three AtomicBools and a     *)
(* file that survives the daemon; every atomic operation is a step.  The   *)
(* daemon and the installer that take these steps are in Upgrade.          *)
(***************************************************************************)
EXTENDS Naturals

CONSTANTS
    Mutators,     \* requests that call begin()
    Finalizers    \* FinalizeUpdate requests

ASSUME TasksAssumption == Mutators \cap Finalizers = {}

VARIABLES
    inProgress,   \* in_progress
    pending,      \* handoff_pending
    finalizing,   \* handoff_finalizing
    file,         \* whether upgrades/handoff.json exists
    task          \* where each request is

gate == <<inProgress, pending, finalizing, file, task>>

Tasks == Mutators \cup Finalizers

(* ApplicationMutationCoordinator::new, in a daemon that starts: whether   *)
(* the file exists is all it knows of the installer.                       *)
NewGate ==
    /\ inProgress' = file
    /\ pending' = file
    /\ finalizing' = FALSE
    /\ UNCHANGED <<file, task>>

Move(t, from, to) ==
    /\ task[t] = from
    /\ task' = [task EXCEPT ![t] = to]

----------------------------------------------------------------------------
(* begin(): the compare-exchange, refused while one is in progress.        *)
Begin(t, from) ==
    /\ ~inProgress
    /\ Move(t, from, "mutating")
    /\ inProgress' = TRUE
    /\ UNCHANGED <<pending, finalizing, file>>

(* An install writes the handoff file for the daemon that comes next, and  *)
(* removes it again when the installer cannot be started.                  *)
WriteHandoff(t) ==
    /\ Move(t, "mutating", "written")
    /\ file' = TRUE
    /\ UNCHANGED <<inProgress, pending, finalizing>>

WithdrawHandoff(t) ==
    /\ Move(t, "written", "mutating")
    /\ file' = FALSE
    /\ UNCHANGED <<inProgress, pending, finalizing>>

(* Drop of ApplicationMutation.                                            *)
EndMutation(t) ==
    /\ \E from \in {"mutating", "written"} : Move(t, from, "idle")
    /\ inProgress' = FALSE
    /\ UNCHANGED <<pending, finalizing, file>>

----------------------------------------------------------------------------
(* FinalizeUpdate reads handoff_pending twice and then claims the lease.   *)

ReadPending(t) ==
    /\ Move(t, "idle", IF pending THEN "offered" ELSE "ordinary")
    /\ UNCHANGED <<inProgress, pending, finalizing, file>>

RefuseOrdinary(t) ==
    /\ inProgress
    /\ Move(t, "ordinary", "idle")
    /\ UNCHANGED <<inProgress, pending, finalizing, file>>

CheckPending(t) ==
    /\ Move(t, "offered", IF pending THEN "checked" ELSE "idle")
    /\ UNCHANGED <<inProgress, pending, finalizing, file>>

ClaimFinalization(t) ==
    /\ Move(t, "checked", IF finalizing THEN "idle" ELSE "finalizing")
    /\ finalizing' = TRUE
    /\ UNCHANGED <<inProgress, pending, file>>

(* The outcome cannot be recorded or the file is not there: the lease is   *)
(* dropped unfinished.                                                     *)
AbandonFinalization(t) ==
    /\ Move(t, "finalizing", "idle")
    /\ finalizing' = FALSE
    /\ UNCHANGED <<inProgress, pending, file>>

RemoveHandoff(t) ==
    /\ file
    /\ Move(t, "finalizing", "removed")
    /\ file' = FALSE
    /\ UNCHANGED <<inProgress, pending, finalizing>>

(* Mutant: complete() releases the mutation before the handoff.            *)
ClearInProgressFirst(t) ==
    /\ Move(t, "removed", "cleared")
    /\ inProgress' = FALSE
    /\ UNCHANGED <<pending, finalizing, file>>

(* complete(): three stores.                                               *)
ClearPending(t) ==
    /\ Move(t, "removed", "cleared")
    /\ pending' = FALSE
    /\ UNCHANGED <<inProgress, finalizing, file>>

ClearInProgress(t) ==
    /\ Move(t, "cleared", "released")
    /\ inProgress' = FALSE
    /\ UNCHANGED <<pending, finalizing, file>>

ClearFinalizing(t) ==
    /\ Move(t, "released", "idle")
    /\ finalizing' = FALSE
    /\ UNCHANGED <<inProgress, pending, file>>

----------------------------------------------------------------------------
(* Only one request at a time finalizes a handoff.                         *)
OneFinalization ==
    \A s, t \in Finalizers :
        /\ task[s] \in {"finalizing", "removed", "cleared", "released"}
        /\ task[t] \in {"finalizing", "removed", "cleared", "released"}
        => s = t

(* While a handoff is pending the mutation flag stays taken, so that no    *)
(* download or install starts beside an installer that has not reported.   *)
PendingBlocksMutations == pending => inProgress
============================================================================
