--------------------------- MODULE LifecycleGate ---------------------------
(***************************************************************************)
(* LifecycleCoordinator (daemon.rs): requests that start work take an      *)
(* activity with begin(); an upgrade or a data removal closes the gate     *)
(* with quiesce() and waits for the activities to drain.  The gate is two  *)
(* atomics and a Notify, without a lock, so every atomic operation is a    *)
(* step of its own.                                                        *)
(***************************************************************************)
EXTENDS Naturals, FiniteSets

CONSTANTS
    Workers,    \* requests that call begin()
    Quiescers   \* requests that call quiesce()

ASSUME WorkersAssumption == IsFiniteSet(Workers)

VARIABLES
    quiescing,   \* AtomicBool
    activities,  \* AtomicU32
    worker,      \* where each Worker is in begin(), its work, or the drop
    quiescer,    \* where each Quiescer is in quiesce() or its lease
    heard        \* whether the Quiescer's Notified future has fired

vars == <<quiescing, activities, worker, quiescer, heard>>

Init ==
    /\ quiescing = FALSE
    /\ activities = 0
    /\ worker = [w \in Workers |-> "idle"]
    /\ quiescer = [q \in Quiescers |-> "idle"]
    /\ heard = [q \in Quiescers |-> FALSE]

MoveWorker(w, from, to) ==
    /\ worker[w] = from
    /\ worker' = [worker EXCEPT ![w] = to]

MoveQuiescer(q, from, to) ==
    /\ quiescer[q] = from
    /\ quiescer' = [quiescer EXCEPT ![q] = to]

----------------------------------------------------------------------------
(* begin(): look, count, look again.  A refused Worker is idle again.      *)

Begin(w) ==
    /\ ~quiescing
    /\ MoveWorker(w, "idle", "admitted")
    /\ UNCHANGED <<quiescing, activities, quiescer, heard>>

Count(w) ==
    /\ MoveWorker(w, "admitted", "counted")
    /\ activities' = activities + 1
    /\ UNCHANGED <<quiescing, quiescer, heard>>

(* Mutant: the flag is not read again after the increment.                 *)
RecheckOmitted(w) ==
    /\ MoveWorker(w, "counted", "active")
    /\ UNCHANGED <<quiescing, activities, quiescer, heard>>

Recheck(w) ==
    /\ MoveWorker(w, "counted", IF quiescing THEN "leaving" ELSE "active")
    /\ UNCHANGED <<quiescing, activities, quiescer, heard>>

(* Mutant: a refused begin() takes its increment back without a notice.    *)
LeaveSilently(w) ==
    /\ \/ MoveWorker(w, "leaving", "idle")
       \/ MoveWorker(w, "active", IF activities = 1 THEN "notifying" ELSE "idle")
    /\ activities' = activities - 1
    /\ UNCHANGED <<quiescing, quiescer, heard>>

(* The end of an activity, and of a begin() that found the gate closed.    *)
Leave(w) ==
    /\ \E from \in {"leaving", "active"} :
         MoveWorker(w, from, IF activities = 1 THEN "notifying" ELSE "idle")
    /\ activities' = activities - 1
    /\ UNCHANGED <<quiescing, quiescer, heard>>

(* notify_waiters fires every Notified future that exists.                 *)
Notify(w) ==
    /\ MoveWorker(w, "notifying", "idle")
    /\ heard' = [q \in Quiescers |-> TRUE]
    /\ UNCHANGED <<quiescing, activities, quiescer>>

----------------------------------------------------------------------------
(* quiesce(): close the gate; subscribe, look, wait, again; or time out.   *)

Close(q) ==
    /\ ~quiescing
    /\ MoveQuiescer(q, "idle", "closing")
    /\ quiescing' = TRUE
    /\ UNCHANGED <<activities, worker, heard>>

Listen(q) ==
    /\ MoveQuiescer(q, "closing", "checking")
    /\ heard' = [heard EXCEPT ![q] = FALSE]
    /\ UNCHANGED <<quiescing, activities, worker>>

Check(q) ==
    /\ MoveQuiescer(q, "checking", IF activities = 0 THEN "quiesced"
                                                     ELSE "waiting")
    /\ UNCHANGED <<quiescing, activities, worker, heard>>

Wake(q) ==
    /\ heard[q]
    /\ MoveQuiescer(q, "waiting", "closing")
    /\ UNCHANGED <<quiescing, activities, worker, heard>>

(* The deadline passes, or an uncommitted lease is dropped: the gate opens *)
(* again.                                                                  *)
Reopen(q) ==
    /\ \E from \in {"waiting", "quiesced"} : MoveQuiescer(q, from, "reopened")
    /\ quiescing' = FALSE
    /\ UNCHANGED <<activities, worker, heard>>

(* The notice that follows may reach the next Quiescer, for no reason.     *)
Announce(q) ==
    /\ MoveQuiescer(q, "reopened", "idle")
    /\ heard' = [p \in Quiescers |-> TRUE]
    /\ UNCHANGED <<quiescing, activities, worker>>

(* The daemon is going to stop: the gate stays closed.                     *)
Commit(q) ==
    /\ MoveQuiescer(q, "quiesced", "committed")
    /\ UNCHANGED <<quiescing, activities, worker, heard>>

WorkerStep(w) == Begin(w) \/ Count(w) \/ Recheck(w) \/ Leave(w) \/ Notify(w)

QuiescerStep(q) ==
    \/ Close(q) \/ Listen(q) \/ Check(q) \/ Wake(q)
    \/ Reopen(q) \/ Announce(q) \/ Commit(q)

Next ==
    \/ \E w \in Workers : WorkerStep(w)
    \/ \E q \in Quiescers : QuiescerStep(q)

Spec == Init /\ [][Next]_vars

----------------------------------------------------------------------------
(* Every variable has its type.                                            *)
TypeOK ==
    /\ quiescing \in BOOLEAN
    /\ activities \in Nat
    /\ worker \in [Workers -> {"idle", "admitted", "counted", "leaving",
                               "active", "notifying"}]
    /\ quiescer \in [Quiescers -> {"idle", "closing", "checking", "waiting",
                                   "quiesced", "committed", "reopened"}]
    /\ heard \in [Quiescers -> BOOLEAN]

(* While an upgrade or a data removal holds the gate, no admitted request  *)
(* is at work, although begin() takes no lock.                             *)
Exclusion ==
    \A q \in Quiescers, w \in Workers :
        quiescer[q] \in {"quiesced", "committed"} => worker[w] # "active"

(* The Quiescers that have closed the gate and not opened it again.        *)
Holders == {q \in Quiescers : quiescer[q] \notin {"idle", "reopened"}}

(* Two requests never hold the closed gate together, although a lease that *)
(* ends opens the gate before it has notified the waiters.                 *)
OneQuiescer == \A p, q \in Holders : p = q

(* A Quiescer that waits although nothing is left to wait for has been     *)
(* notified or is about to be: the last drop is never missed.              *)
NoLostWakeup ==
    \A q \in Quiescers :
        quiescer[q] = "waiting" /\ activities = 0 =>
            heard[q] \/ \E w \in Workers : worker[w] = "notifying"
============================================================================
