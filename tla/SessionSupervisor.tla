------------------------- MODULE SessionSupervisor -------------------------
(***************************************************************************)
(* The daemon's tasks around one Session (daemon.rs): the launch, the hook *)
(* loop, the runtime-event task of a structured Session, the exit monitor, *)
(* the requests of clients, and a crash of the daemon.  They share the     *)
(* database row, the in-memory reducer, the managed record and the         *)
(* Session's operation lock.                                               *)
(*                                                                         *)
(* A task that holds the lock across an await takes several steps here:    *)
(* an event is staged on a clone of the reducer and committed later.       *)
(***************************************************************************)
EXTENDS SessionStatus, Sequences

CONSTANTS
    Clients,          \* connections that may stop the Session
    Attachers,        \* connections that may attach to it
    PlainShell,       \* whether the Session is a plain shell
    Structured,       \* whether a Codex bridge feeds runtime events
    Delivered,        \* the provider events that may arrive
    MaxDeliveries,    \* bound on the events of one Session
    DatabaseFaults,   \* whether persisting the exit may fail
    NoRecord          \* an absent row, reducer, clone, exit or token

ASSUME SupervisorAssumption ==
    /\ PlainShell \in BOOLEAN
    /\ Structured \in BOOLEAN
    /\ DatabaseFaults \in BOOLEAN
    /\ Delivered \subseteq Events
    /\ MaxDeliveries \in Nat
    /\ Clients \cap Attachers = {}

(* The row of a Session, and the ManagedSession.                           *)
Rows == [status : Machines, pid : BOOLEAN]
Records == [record : Machines, completed : BOOLEAN]

(* NoRecord is none of the values whose absence it marks, and a client is  *)
(* not one of the daemon's tasks.                                          *)
ASSUME NamesAssumption ==
    /\ NoRecord \notin Machines \cup Rows \cup Records \cup Exits
    /\ Attachers \cap {"free", "spawn", "monitor", "hook", "runtime"} = {}

VARIABLES
    row,         \* the database row: [status, pid]
    reducer,     \* the entry of status_machines
    managed,     \* the ManagedSession: [record, completed]
    process,     \* the child and its tree, as the Session actor reports it
    lock,        \* holder of session_operation_lock, or "free"
    spawn,       \* progress of spawn_managed_session
    feed,        \* per source of events: its queue and the staged clone
    monitor,     \* progress of spawn_exit_monitor
    credential,  \* whether the Session's hook credential is registered
    request,     \* per client: what its connection task is waiting for
    token,       \* a deletion authorization some client was given
    deliveries   \* events accepted so far

vars == <<row, reducer, managed, process, lock, spawn, feed, monitor,
          credential, request, token, deliveries>>

Processes == [state : {"none", "running", "exited"},
              exit : Exits \cup {NoRecord}, treeEmpty : BOOLEAN,
              actor : BOOLEAN, closing : SUBSET {"stop", "failed"}]

Feeds == [queue : Seq(Delivered), clone : Machines \cup {NoRecord},
          ends : BOOLEAN, open : BOOLEAN]

Sources == IF Structured THEN {"hook", "runtime"} ELSE {"hook"}

IdleFeed == [queue |-> <<>>, clone |-> NoRecord, ends |-> FALSE, open |-> TRUE]

NoProcess == [state |-> "none", exit |-> NoRecord, treeEmpty |-> TRUE,
              actor |-> FALSE, closing |-> {}]

NoMonitor == [step |-> "none", clone |-> NoRecord, drained |-> FALSE]

Init ==
    /\ row = NoRecord
    /\ reducer = NoRecord
    /\ managed = NoRecord
    /\ process = NoProcess
    /\ lock = "free"
    /\ spawn = "idle"
    /\ feed = [s \in Sources |-> IdleFeed]
    /\ monitor = NoMonitor
    /\ credential = FALSE
    /\ request = [c \in Clients \cup Attachers |-> "idle"]
    /\ token = NoRecord
    /\ deliveries = 0

Kept(r) == r # NoRecord

Row(status, pid) == [status |-> FromPersisted(status), pid |-> pid]

(* Mutant: a task does not wait for the operation lock.                    *)
LockIgnored == TRUE

(* session_operation_lock(...).lock().await can proceed.                   *)
LockAvailable == lock = "free"

----------------------------------------------------------------------------
(* spawn_managed_session, under the lock from the row to the reducer.      *)

CreateSession ==
    /\ spawn = "idle"
    /\ LockAvailable
    /\ lock' = "spawn"
    /\ spawn' = "created"
    /\ row' = Row(NewRow, FALSE)
    /\ credential' = ~PlainShell
    /\ UNCHANGED <<reducer, managed, process, feed, monitor, request, token,
                   deliveries>>

SpawnProcess ==
    /\ spawn = "created"
    /\ spawn' = "spawned"
    /\ process' = [NoProcess EXCEPT !.state = "running", !.treeEmpty = FALSE,
                                    !.actor = TRUE]
    /\ UNCHANGED <<row, reducer, managed, lock, feed, monitor, credential,
                   request, token, deliveries>>

(* The bridge or the process cannot be started, or the row cannot be       *)
(* marked running and the new process is stopped again.                    *)
SpawnFails ==
    /\ spawn \in {"created", "spawned"}
    /\ spawn' = "done"
    /\ lock' = "free"
    /\ row' = Row(StartFailure(row.status), FALSE)
    /\ credential' = FALSE
    /\ process' = NoProcess
    /\ UNCHANGED <<reducer, managed, feed, monitor, request, token,
                   deliveries>>

MarkSessionRunning ==
    /\ spawn = "spawned"
    /\ spawn' = "done"
    /\ lock' = "free"
    /\ row' = Row(MarkRunning(row.status), TRUE)
    /\ reducer' = row'.status
    /\ managed' = [record |-> row'.status, completed |-> FALSE]
    /\ monitor' = [monitor EXCEPT !.step = "waiting"]
    /\ UNCHANGED <<process, feed, credential, request, token, deliveries>>

----------------------------------------------------------------------------
(* The Session actor, as far as the tasks around it see it.                *)

(* The child is gone and its exit is published.  If it went by itself,     *)
(* descendants may outlive it and the actor stays; after a stop or a       *)
(* runtime failure the actor empties the tree first and then ends.         *)
ChildExits(code, empty) ==
    /\ process.state = "running"
    /\ process' = [process EXCEPT
         !.state = "exited",
         !.exit = [plainShell |-> PlainShell, code |-> code,
                   stopRequested |-> "stop" \in process.closing],
         !.treeEmpty = empty \/ process.closing # {},
         !.actor = process.closing = {}]
    /\ UNCHANGED <<row, reducer, managed, lock, spawn, feed, monitor,
                   credential, request, token, deliveries>>

DescendantsExit ==
    /\ process.state = "exited"
    /\ ~process.treeEmpty
    /\ process' = [process EXCEPT !.treeEmpty = TRUE]
    /\ UNCHANGED <<row, reducer, managed, lock, spawn, feed, monitor,
                   credential, request, token, deliveries>>

(* Command::Stop: close a running child, or clear what an exited one left. *)
Stopped(p) ==
    IF p.state = "running" THEN [p EXCEPT !.closing = @ \cup {"stop"}]
    ELSE [p EXCEPT !.treeEmpty = TRUE, !.actor = FALSE]

(* Command::RuntimeFailed.                                                 *)
RuntimeFailed(p) ==
    IF p.state = "running" THEN [p EXCEPT !.closing = @ \cup {"failed"}]
    ELSE p

----------------------------------------------------------------------------
(* Provider events: hooks while the credential is registered, runtime      *)
(* events while the bridge's process lives.                                *)

EventArrives(source, event) ==
    /\ source = "hook" => credential /\ process.state # "none"
    /\ source = "runtime" => process.state = "running" /\ feed[source].open
    /\ deliveries < MaxDeliveries
    /\ deliveries' = deliveries + 1
    /\ feed' = [feed EXCEPT ![source].queue = Append(@, event)]
    /\ UNCHANGED <<row, reducer, managed, process, lock, spawn, monitor,
                   credential, request, token>>

AcceptsEvents(r) ==
    /\ Kept(r)
    /\ LifecycleIsActive(r.status.lifecycle)
    /\ r.pid

(* Older observational hooks cannot clear a prompt the bridge opened.      *)
Overruled(source, event) ==
    /\ source = "hook" /\ Structured
    /\ managed # NoRecord
    /\ row.status.activity = "awaiting_input"
    /\ event.type \notin {"SubagentStarted", "SubagentStopped"}

StagedMachine(event) ==
    Apply(IF reducer = NoRecord THEN FromPersisted(row.status) ELSE reducer,
          event)

(* A source takes its next event when its previous one is committed.  The  *)
(* runtime task starts once the row is marked running.                     *)
TakesEvent(source) ==
    /\ feed[source].queue # <<>>
    /\ feed[source].clone = NoRecord
    /\ source = "runtime" => spawn = "done"
    /\ LockAvailable

Dequeue(source, clone) ==
    feed' = [feed EXCEPT
               ![source].queue = Tail(@),
               ![source].clone = clone,
               ![source].ends = Head(feed[source].queue).type = "SessionEnded"]

(* apply_hook_delivery and apply_runtime_event up to the database await.   *)
StageEvent(source) ==
    LET event == Head(feed[source].queue) IN
    /\ TakesEvent(source)
    /\ AcceptsEvents(row)
    /\ ~Overruled(source, event)
    /\ InRange(StagedMachine(event))
    /\ lock' = source
    /\ Dequeue(source, StagedMachine(event))
    /\ UNCHANGED <<row, reducer, managed, process, spawn, monitor, credential,
                   request, token, deliveries>>

(* A late or overruled event is dropped.                                   *)
DropEvent(source) ==
    /\ TakesEvent(source)
    /\ Kept(row)
    /\ ~AcceptsEvents(row) \/ Overruled(source, Head(feed[source].queue))
    /\ Dequeue(source, NoRecord)
    /\ UNCHANGED <<row, reducer, managed, process, lock, spawn, monitor,
                   credential, request, token, deliveries>>

(* An event is refused: a duplicate or closed turn, a conversation that    *)
(* changed unexpectedly, an identity out of range, or no row any more.     *)
(* The hook loop goes on to the next event; the runtime task fails the     *)
(* Session's runtime and ends.                                             *)
RefuseEvent(source) ==
    /\ TakesEvent(source)
    /\ Kept(row) => AcceptsEvents(row)
    /\ IF source = "hook"
       THEN Dequeue(source, NoRecord) /\ UNCHANGED process
       ELSE /\ feed' = [feed EXCEPT ![source] = [IdleFeed EXCEPT !.open = FALSE]]
            /\ process' = IF managed # NoRecord /\ process.actor
                          THEN RuntimeFailed(process) ELSE process
    /\ UNCHANGED <<row, reducer, managed, lock, spawn, monitor, credential,
                   request, token, deliveries>>

(* update_session_status writes only a running row with a process.         *)
CommitEvent(source) ==
    LET clone == feed[source].clone IN
    /\ clone # NoRecord
    /\ feed' = [feed EXCEPT ![source].clone = NoRecord]
    /\ lock' = "free"
    /\ IF AcceptsEvents(row) /\ row.status.lifecycle = "running"
       THEN /\ row' = Row(clone, TRUE)
            /\ reducer' = clone
            /\ managed' = IF managed = NoRecord THEN NoRecord
                          ELSE [managed EXCEPT !.record = FromPersisted(clone)]
            /\ credential' = (credential
                                /\ ~(source = "hook" /\ feed[source].ends))
       ELSE UNCHANGED <<row, reducer, managed, credential>>
    /\ UNCHANGED <<process, spawn, monitor, request, token, deliveries>>

----------------------------------------------------------------------------
(* spawn_exit_monitor.                                                     *)

(* Mutant: the drain starts with the credential still registered.          *)
MonitorWakesUnrevoked ==
    /\ monitor.step = "waiting"
    /\ process.exit # NoRecord
    /\ monitor' = [monitor EXCEPT !.step = "draining"]
    /\ UNCHANGED <<row, reducer, managed, process, lock, spawn, feed,
                   credential, request, token, deliveries>>

(* The exit is published: revoke the credential and, if it was still       *)
(* there, wait for the hooks already accepted.                             *)
MonitorWakes ==
    /\ monitor.step = "waiting"
    /\ process.exit # NoRecord
    /\ credential' = FALSE
    /\ monitor' = [monitor EXCEPT !.step = IF credential THEN "draining"
                                                         ELSE "locking"]
    /\ UNCHANGED <<row, reducer, managed, process, lock, spawn, feed, request,
                   token, deliveries>>

HooksDrained ==
    /\ monitor.step = "draining"
    /\ feed["hook"].queue = <<>>
    /\ feed["hook"].clone = NoRecord
    /\ monitor' = [monitor EXCEPT !.step = "locking", !.drained = TRUE]
    /\ UNCHANGED <<row, reducer, managed, process, lock, spawn, feed,
                   credential, request, token, deliveries>>

DrainTimesOut ==
    /\ monitor.step = "draining"
    /\ monitor' = [monitor EXCEPT !.step = "locking"]
    /\ UNCHANGED <<row, reducer, managed, process, lock, spawn, feed,
                   credential, request, token, deliveries>>

ExitStaged ==
    ApplyProcessExit(IF reducer = NoRecord THEN managed.record ELSE reducer,
                     process.exit)

MonitorLocks ==
    /\ monitor.step = "locking"
    /\ LockAvailable
    /\ lock' = "monitor"
    /\ monitor' = [monitor EXCEPT !.step = "finishing", !.clone = ExitStaged]
    /\ UNCHANGED <<row, reducer, managed, process, spawn, feed, credential,
                   request, token, deliveries>>

(* finish_session_outcome writes whatever lifecycle the row has.  When the *)
(* outcome cannot be derived or stored the Session still completes.        *)
MonitorFinishes(stored) ==
    /\ monitor.step = "finishing"
    /\ monitor' = [monitor EXCEPT !.step = "done", !.clone = NoRecord]
    /\ lock' = "free"
    /\ ~stored => DatabaseFaults
    /\ IF stored /\ InRange(monitor.clone) /\ Kept(row)
       THEN /\ row' = Row(monitor.clone, FALSE)
            /\ reducer' = monitor.clone
            /\ managed' = [record |-> FromPersisted(monitor.clone),
                           completed |-> TRUE]
       ELSE /\ managed' = [managed EXCEPT !.completed = TRUE]
            /\ UNCHANGED <<row, reducer>>
    /\ UNCHANGED <<process, spawn, feed, credential, request, token,
                   deliveries>>

----------------------------------------------------------------------------
(* Requests of clients.                                                    *)

(* AttachSession keeps the operation lock while it waits for the exit of   *)
(* an exited child to be recorded.  Attaching to a live child, or after    *)
(* the exit is recorded, changes nothing here.                             *)
AttachSession(c) ==
    /\ request[c] = "idle"
    /\ LockAvailable
    /\ managed # NoRecord
    /\ process.actor
    /\ process.state = "exited"
    /\ lock' = c
    /\ request' = [request EXCEPT ![c] = "attaching"]
    /\ UNCHANGED <<row, reducer, managed, process, spawn, feed, monitor,
                   credential, token, deliveries>>

AttachAnswered(c) ==
    /\ request[c] = "attaching"
    /\ managed.completed
    /\ lock' = "free"
    /\ request' = [request EXCEPT ![c] = "idle"]
    /\ UNCHANGED <<row, reducer, managed, process, spawn, feed, monitor,
                   credential, token, deliveries>>

(* The `completed' signal of the handle a client holds; a handle whose     *)
(* Session was deleted had completed.                                      *)
Completed == IF managed = NoRecord THEN TRUE ELSE managed.completed

(* Mutant: StopSession waits for the exit monitor with the lock held.      *)
StopSessionLocked(c) ==
    /\ request[c] = "idle"
    /\ LockAvailable
    /\ managed # NoRecord
    /\ process.actor
    /\ process' = Stopped(process)
    /\ lock' = "client"
    /\ request' = [request EXCEPT ![c] = "stopping"]
    /\ UNCHANGED <<row, reducer, managed, spawn, feed, monitor, credential,
                   token, deliveries>>

(* StopSession takes no lock: it stops the actor and waits for the exit    *)
(* monitor.                                                                *)
StopSession(c) ==
    /\ request[c] = "idle"
    /\ managed # NoRecord
    /\ process.actor
    /\ process' = Stopped(process)
    /\ request' = [request EXCEPT ![c] = "stopping"]
    /\ UNCHANGED <<row, reducer, managed, lock, spawn, feed, monitor,
                   credential, token, deliveries>>

StopAnswered(c) ==
    /\ request[c] = "stopping"
    /\ Completed
    /\ request' = [request EXCEPT ![c] = "idle"]
    /\ UNCHANGED <<row, reducer, managed, process, lock, spawn, feed, monitor,
                   credential, token, deliveries>>

(* Mutant: the review does not reach the reducer.                          *)
NotMirrored(machine, id, reasons) == machine

(* mirror_attention_acknowledgement.                                       *)
Mirrored(machine, id, reasons) ==
    IF machine # NoRecord /\ Acknowledges(machine, id, reasons)
    THEN Acknowledge(machine) ELSE machine

(* AcknowledgeAttention and DismissAttention: the row decides, the record  *)
(* and the reducer follow.                                                 *)
ReviewAttention(id, reasons) ==
    /\ LockAvailable
    /\ Kept(row)
    /\ Acknowledges(row.status, id, reasons)
    /\ row' = [row EXCEPT !.status = Acknowledge(row.status)]
    /\ managed' = IF managed = NoRecord THEN NoRecord
                  ELSE [managed EXCEPT !.record = row'.status]
    /\ reducer' = Mirrored(reducer, id, reasons)
    /\ UNCHANGED <<process, lock, spawn, feed, monitor, credential, request,
                   token, deliveries>>

(* Mutant: a recorded exit is taken for an empty process tree.             *)
RuntimeOwnedUntilExit == managed # NoRecord /\ ~managed.completed

(* inspect_session_deletion: the Session is over and owns no process.      *)
RuntimeOwned ==
    managed # NoRecord /\ ~(managed.completed /\ process.treeEmpty)

Deletable ==
    /\ Kept(row)
    /\ LifecycleAllowsDeletion(row.status.lifecycle)
    /\ ~row.pid
    /\ ~RuntimeOwned

(* session_deletion_token: what the client saw when it was authorized.     *)
DeletionToken == [seen |-> row.status, managed |-> managed # NoRecord]

InspectSessionDeletion ==
    /\ Deletable
    /\ token' = DeletionToken
    /\ UNCHANGED <<row, reducer, managed, process, lock, spawn, feed, monitor,
                   credential, request, deliveries>>

DeleteSession ==
    /\ LockAvailable
    /\ Deletable
    /\ token = DeletionToken
    /\ row' = NoRecord
    /\ managed' = NoRecord
    /\ reducer' = NoRecord
    /\ credential' = FALSE
    /\ UNCHANGED <<process, lock, spawn, feed, monitor, request, token,
                   deliveries>>

----------------------------------------------------------------------------

(* reconcile_sessions, for the row of this Session.                        *)
Reconciled(r) == Row(Reconcile(r.status), FALSE)

(* The daemon dies and starts again: memory is lost, connections are       *)
(* closed, and reconcile_sessions disconnects what was active.             *)
Restart ==
    /\ row' = IF Kept(row) THEN Reconciled(row) ELSE row
    /\ spawn' = IF spawn = "idle" THEN "idle" ELSE "done"
    /\ reducer' = NoRecord
    /\ managed' = NoRecord
    /\ process' = NoProcess
    /\ lock' = "free"
    /\ feed' = [s \in Sources |-> IdleFeed]
    /\ monitor' = NoMonitor
    /\ credential' = FALSE
    /\ request' = [c \in Clients \cup Attachers |-> "idle"]
    /\ UNCHANGED <<token, deliveries>>

Launch ==
    \/ CreateSession
    \/ SpawnProcess
    \/ SpawnFails
    \/ MarkSessionRunning

ExitMonitor ==
    \/ MonitorWakes
    \/ HooksDrained
    \/ DrainTimesOut
    \/ MonitorLocks
    \/ \E stored \in BOOLEAN : MonitorFinishes(stored)

Intake(source) == StageEvent(source) \/ DropEvent(source) \/ RefuseEvent(source)

SomeChildExits ==
    \E code \in {"zero", "nonzero"}, empty \in BOOLEAN : ChildExits(code, empty)

Next ==
    \/ Launch
    \/ SomeChildExits
    \/ DescendantsExit
    \/ \E source \in Sources :
         \/ \E event \in Delivered : EventArrives(source, event)
         \/ Intake(source)
         \/ CommitEvent(source)
    \/ ExitMonitor
    \/ \E c \in Attachers : AttachSession(c) \/ AttachAnswered(c)
    \/ \E c \in Clients : StopSession(c) \/ StopAnswered(c)
    \/ \E id \in 1..MaxAttentionId :
         \E reasons \in {OpenedReasons, DismissedReasons} :
           ReviewAttention(id, reasons)
    \/ InspectSessionDeletion
    \/ DeleteSession
    \/ Restart

Spec == Init /\ [][Next]_vars

(* The daemon's own tasks run when they can; a task waiting for the lock   *)
(* gets it, because a tokio Mutex is handed over first come, first served; *)
(* a child that is being closed is killed after the grace period.  Nobody  *)
(* has to attach, stop, review or delete, and no child exits by itself.    *)
Fairness ==
    /\ WF_vars(SpawnProcess \/ SpawnFails \/ MarkSessionRunning)
    /\ WF_vars(process.closing # {} /\ SomeChildExits)
    /\ WF_vars(MonitorWakes)
    /\ WF_vars(HooksDrained \/ DrainTimesOut)
    /\ SF_vars(MonitorLocks)
    /\ WF_vars(MonitorFinishes(TRUE))
    /\ \A source \in Sources : SF_vars(Intake(source))
    /\ \A source \in Sources : WF_vars(CommitEvent(source))
    /\ \A c \in Attachers : WF_vars(AttachAnswered(c))
    /\ \A c \in Clients : WF_vars(StopAnswered(c))

FairSpec == Spec /\ Fairness

----------------------------------------------------------------------------
(* Every variable has its type.                                            *)
TypeOK ==
    /\ row \in Rows \cup {NoRecord}
    /\ reducer \in Machines \cup {NoRecord}
    /\ managed \in Records \cup {NoRecord}
    /\ process \in Processes
    /\ lock \in {"free", "spawn", "monitor"} \cup Sources \cup Attachers
    /\ spawn \in {"idle", "created", "spawned", "done"}
    /\ feed \in [Sources -> Feeds]
    /\ monitor.step \in {"none", "waiting", "draining", "locking",
                         "finishing", "done"}
    /\ credential \in BOOLEAN
    /\ request \in [Clients \cup Attachers ->
                      {"idle", "stopping", "attaching"}]
    /\ deliveries \in 0..MaxDeliveries

(* Whenever nobody holds the operation lock, the database row, the reducer *)
(* and the managed record of a live Session tell the same story, whichever *)
(* of hook loop, runtime task, exit monitor, review and database fault     *)
(* came last: the reducer's next event starts from what clients see.       *)
StoresAgree ==
    lock = "free" /\ managed # NoRecord =>
        /\ Kept(row) /\ reducer # NoRecord
        /\ FromPersisted(reducer) = row.status
        /\ managed.record = row.status

(* The row names a process exactly while its lifecycle is running.         *)
ProcessIdFollowsLifecycle ==
    Kept(row) => (row.pid <=> row.status.lifecycle = "running")

(* Deleting a Session orphans nothing: no process of its tree, no staged   *)
(* event, no credential and no task of the daemon still belongs to it.     *)
DeletionOrphansNothing ==
    ~Kept(row) /\ spawn = "done" =>
        /\ process.treeEmpty
        /\ managed = NoRecord /\ reducer = NoRecord
        /\ ~credential
        /\ lock = "free"
        /\ monitor.step \in {"none", "done"}

(* Unless the drain timed out, every hook accepted before the exit was     *)
(* handled before the exit is derived, and none can arrive after.          *)
AcceptedHooksPrecedeExit ==
    monitor.drained =>
        feed["hook"].queue = <<>> /\ feed["hook"].clone = NoRecord

Contract ==
    INSTANCE SessionContract WITH
        phase  <- IF Kept(row) THEN "kept"
                  ELSE IF spawn = "idle" THEN "unborn" ELSE "deleted",
        status <- IF Kept(row) THEN row.status ELSE NewRow

(* The interleaved tasks implement SessionContract: one terminal lifecycle,*)
(* ordered attention events whose review is never undone, and deletion of  *)
(* terminal Sessions only.                                                 *)
ImplementsContract == Contract!ContractSpec

(* A published exit reaches the database.                                  *)
ExitIsRecorded ==
    process.exit # NoRecord
      ~> (Kept(row) => row.status.lifecycle \in Terminal)

(* A client that asked to stop the Session is answered.                    *)
StopIsAnswered ==
    \A c \in Clients : request[c] = "stopping" ~> request[c] = "idle"
============================================================================
