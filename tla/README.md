# A verification project for Sylvops

Sylvops runs coding agents and shells ("Sessions") in pseudo-terminals, each in
a Git worktree, and lets a terminal UI, a desktop application and a command
line watch and steer them.  One daemon per user owns every process, the
database and the upgrade of the program; the clients talk to it over a local
socket.  The TLA+ modules here model the parts of the daemon and its clients
where several tasks share state: what a Session's status may say, which task
may change it and when, how a process tree is stopped, how output reaches a
client that cannot keep up and keys reach a child, who notifies the user, how
checkouts and Sessions are created, resumed and removed beside each other, how
the daemon starts, closes itself for an upgrade and removes its data, and what
the clients make of answers that come late.

Paths are relative to the repository; `daemon.rs`, `session.rs` and
`database.rs` are those of `src/crates/sylvops-daemon/src/`, `status.rs` and
`session_state.rs` those of `src/crates/sylvops-core/src/`.  `PROJECT.json`
holds the machine-readable side: components, runs, mutants, the map from
definitions to source lines, findings, hazards and theorems.

## 1. Inventory

### Components, their state and their operations

| Component | State | Operations | What makes it correct |
|---|---|---|---|
| Status reducer (`status.rs`, `session_state.rs`) | one `SessionStatusMachine`: lifecycle, activity, attention event with identity and acknowledgement, subagents tracked up to a capacity, failure category | `apply(event)`, `apply_process_exit`, `acknowledge`, persistence and `validate` | every record is valid; a turn is complete only when no subagent runs; terminal is final; an attention event is never renumbered, revived or lost |
| Session supervision (`daemon.rs`) | database row, entry of `status_machines`, `ManagedSession`, per-Session operation lock, hook credential, `completed` watch | launch, hook loop, runtime-event task, exit monitor, attach, stop, review, deletion, reconciliation at start | the three copies of the status agree; hooks accepted before the exit count, none after it; the exit is stored and whoever waits for it is answered; deletion leaves nothing behind |
| Session actor (`session.rs`) | child and its process tree, PTY reader, `stop_replies`, pending exit, scrollback, controller lease, parser | `Actor::run`: events of child, reader and timer; stop, resize, input, attach, inspect | a stop answered with success leaves no process; the exit is published once and never early; every stop is answered |
| Lifecycle coordinator (`daemon.rs` 304-395) | two atomics and a `Notify` | `begin`, drop of an activity, `quiesce`, `commit`, drop of the lease | no admitted request is at work while the daemon is quiesced; the last drop wakes the waiter |
| Mutation coordinator (`daemon.rs` 397-480) | three atomics and the handoff file | `begin`, `begin_handoff_finalization`, completion, abandonment, restart | one mutation at a time; a pending handoff blocks mutations, also after a restart |
| Terminal stream (`session.rs`, `daemon.rs`, `sylvops-tui`, `sylvops-desktop`, `sylvops-cli`) | scrollback, broadcast, forwarder of an attachment, bounded `ClientSink`, the client's own queue and screen | output, resize, attach, detach, forward, drop, lag, resynchronize, draw | a client that has caught up shows the whole output |
| Hook receiver and credentials (`hook.rs`) | registered credentials, per-Session queue, rate window | register, revoke, receive, drain | no event of an unregistered Session; a bounded queue; revocation closes the intake |
| Database (`database.rs`) | SQLite tables | guarded updates, migrations, `reconcile_sessions` | a stale update changes nothing; a restart leaves no active row |
| Attention claims (`attention.rs`, `daemon.rs`) | registered clients with focus, watermarks, bounded queue of pending events | register, unregister, report focus, record, claim, cancel, announce when due (input requests wait one second), prune | one notification per event across clients; none for the Session in focus; none lost by a client that leaves |
| Codex bridge (`codex_bridge.rs`) | `InputTracker`: requests in flight, private responses, failure | relay in both directions, `failed`, `terminate` | bounded requests; an answered request is not reported as waiting; a failure reaches the Session |
| Provider integration (`provider.rs`) | the last discovery of an adapter, hook profiles and settings on disk | probe, refresh of the health, configuration of a launch | a launch runs as its probe promised |
| Daemon start and stop (`ipc.rs`, `lib.rs`, `sylvops-cli`) | socket file, token file, reconciliation | `bind_unix`, reconcile, serve, close; `start_daemon` with its handshake | one daemon at a time owns the data |
| Upgrade service and native helper | staged files, attempt journal, phases, backup, watchdog | check, download, recover, prepare, record the outcome; apply, verify, roll back | a crash at any phase leaves a program that starts |
| Data removal | reservation, lease, prepared plan, audit | reserve, prepare, execute, recover | resumable; nothing outside the plan is removed |
| Project, Worktree and Workspace removal; StartWork, RetryStartWorkSession, ResumeSession | rows, Git worktrees, capacity reservations, resume lineage | two-phase removal, allocation, retry, resume | no worktree without a row or row without a worktree; one successor per resumed Session |
| IPC connection | pending map, request ids, bounded queues on both sides, attachments | request, response, event, replay, timeout, close | every caller learns how its request ended |
| Git | checkouts on disk | creation, inspection and removal of worktrees; diffs | no changed file is deleted |
| GitHub connection | association of a Project, surfaces of both clients, requests under way | list, detail, comments, Start Work, disconnect | what is shown under a query is the answer to it |
| Terminal UI | explorer rows and selection, modal, terminal, review | keys, replies, events, snapshots | the marked row is the selected one; the screen follows the stream |
| Desktop | tabs, focus, dialogs, snapshot, surfaces, notifier thread | clicks, replies, events, incidents | the keyboard does not follow a tab that became active by itself; only what was clicked is opened |
| Changes review | `ReviewState`, pending request, pause | list, file, refresh, pause, filter | a paused review shows what it showed |
| Command line | none | one request per invocation; starts the daemon | - |
| Vendored `vt100` | parser | - | third-party |

### How they interact

A client's request is handled by the task of its connection.  Requests that
touch one Session take its operation lock; requests that change the
application as a whole pass the mutation coordinator, and most pass the
lifecycle coordinator.  A launch creates the row, starts the actor, registers a
hook credential and spawns three tasks: the hook loop, the runtime-event task
(Codex only) and the exit monitor.  These and the client requests share row,
reducer and record of the Session.  The actor owns the process; it reports
through watches (`exit`, `process_tree_empty`), a broadcast of output, and
replies to commands.  An attachment is a forwarder task between the broadcast
and the bounded queue of the connection.

### What is hard

* **Interleaving.** Every `await` between reading the reducer and writing the
  row; two lock-free gates with several atomics each.
* **Waiting on each other.** Requests wait for `completed`, which the exit
  monitor signals after taking the lock that a request may hold.
* **Losses.** Output is dropped at three bounded queues, each with its own
  recovery, and the recoveries overlap with output still on its way.
* **Failure.** The database refuses an update, a kill is refused, a tree
  outlives its deadline, the daemon dies between two writes.
* **Long sequences.** Subagents start and stop around turns that end, fail, are
  interrupted and reviewed.

The hazards, each at its line and with the properties that cover it, are in
`PROJECT.json`.

## 2. Modules

| Module | Models |
|---|---|
| `SessionStatus` | the reducer and the status statements of the database, as operators |
| `StatusMachine` | one status record and what can happen to it: spawn, launch failure, any event, exit, review, restart |
| `CodexBridge` | extends `StatusMachine`: the bridge of a Codex Session, its `InputTracker`, the runtime-event channel and its consumer |
| `SessionContract` | abstract: what a client may rely on about a stored Session |
| `SessionSupervisor` | the daemon's tasks around one Session, from launch to deletion and over restarts |
| `SessionActor` | `Actor::run`, the child and its descendants, stop with its timer, the reap, the publication of the exit |
| `LifecycleGate` | the lifecycle coordinator, one step per atomic operation |
| `DataRemoval` | extends `LifecycleGate`: reservation, client, helper, recovery and observers of a removal of all data |
| `MutationGate` | the mutation coordinator, one step per atomic operation |
| `Upgrade` | extends `MutationGate`: check, download, install, handoff, helper, watchdog, rollback, finalization |
| `TerminalStream` | output from the actor to a terminal UI or a command line: scrollback, broadcast, forwarder, bounded sink, the client's event queue, which replies bypass |
| `ClientTerminal` | the client's own queue of output, its overflow and its recovery |
| `TerminalInput` | keys from the keyboard to the child: the bridge of the desktop, the pump of the terminal UI, the controller lease |
| `ClientConnection` | `DaemonClient` and `serve_client`: requests, responses, events, replay, timeouts and a crash |
| `Desktop` | tabs, selection, focus, dialogs, snapshots of the desktop application |
| `DesktopNotifier` | the notifier thread of the desktop and what a click on a notification does |
| `ChangesReview` | `ReviewState` and its request cycle in both clients |
| `AttentionClaims` | the claims record of the daemon, as operators |
| `AttentionDelivery` | extends `AttentionClaims`: events raised, claimed and presented by terminals and desktops |
| `Workbench` | requests that create, start, resume and remove Projects, checkouts and Sessions, under their locks |
| `Explorer` | the explorer of the terminal UI: rows, folding, selection, questions, refreshes |
| `GitHubBrowser` | the GitHub surface of the desktop |
| `GitHubModal` | extends `GitHubBrowser`: the GitHub modal of the terminal UI and its tasks |
| `ProviderRuntime` | discovery and health of an adapter shared by requests, and the launches configured from it |
| `DaemonStartup` | daemon processes and commands that start them, around one socket and one token |

The variables of each module carry the names of the fields they stand for in
their comments; one action stands for one handler, or for the part of a handler
between two `await`s that others can interleave with.  `PROJECT.json` maps every
definition to its lines.

What is composed:

* `SessionSupervisor` and `StatusMachine` both use `SessionStatus`; lemmas about
  its operators serve the proofs of both.
* `SessionSupervisor` sees the actor only through what it reports;
  `SessionActor` is where those reports are shown to be true.
* `ClientTerminal` takes the stream as if the daemon lost nothing and adds the
  losses of the client's own queue; `TerminalStream` is where the daemon's are.
  It is about the terminal UI and the command line.  The desktop sorts what it
  receives into two queues, replies and resynchronizations ahead of output
  (`bridge.rs` 305-315, 489-500, 530-575), and nothing is claimed about what the
  daemon's losses do there.
* `CodexBridge`, `DataRemoval`, `Upgrade`, `AttentionDelivery` and `GitHubModal`
  each extend the component they act on.
* In `TerminalInput` a batch is gathered command by command (`TakeQueued`), as the
  pump does it, so that other tasks act between two of them.

The `MC` modules put parts that share no state side by side, to be explored in
one run: a behaviour is of one part, with the others at rest.
`MCDaemonSafety` holds the supervisor, startup, both GitHub clients and the
provider; `MCSessionProgress` the actor, the connection and the supervisor
without faults; `MCTerminalPaths` the stream, both terminals, the keys, the
desktop and the review; `MCUpgrade` the upgrade and the notifier; `MCWorkbench`
the workbench and the explorer.

Definitions commented "Mutant" are not part of any specification.  Each is the
neighbouring definition with one plausible bug, and shows that a property can
fail.

### Abstractions

* **Status.** Failure categories and subagents are elements of small sets.
  Everything `validate` and `apply` distinguish is kept.  The attention
  identity is bounded by `MaxAttentionId` in place of the maximum of its
  integer type, so that exhaustion happens.
* **Supervisor.** One Session.  A task that holds the lock across an `await`
  takes two steps: an event is staged on a clone, then committed.  A crash of
  the daemon forgets the memory; the process is then no longer owned, which is
  what reconciliation assumes.
* **Time.** Timers and deadlines are steps that may happen at any time after
  they are set.
* **Faults.** Failed writes, refused kills, crashes and lost replies are actions,
  bounded by a constant (`MaxFaults`, `MaxMishaps`, ...).
* **Gates.** Memory is sequentially consistent.  The source uses
  acquire/release, which in principle allows store-buffering outcomes that this
  model does not have; nothing is claimed about them.
* **Stream.** A chunk is its sequence number and a snapshot stands for every
  chunk up to its own, so what is checked is which output is shown, not how it
  is drawn.  The scrollback counts chunks, not bytes; a chunk larger than the
  whole scrollback cannot occur with the sizes the daemon configures.  The end
  of the stream when a Session is deleted is not modelled.
* **Answers of others.** Git, `gh`, a provider's executable and the platform's
  installer are nondeterministic outcomes, of the kinds the code tells apart.
* **Merged steps.**  `SessionSupervisor.SpawnF` always stores a start failure
  (`daemon.rs:4135` may fail to; section 5).  `Upgrade.RecordOutcome` is one step for
  the separate writes of `upgrade.rs` 833-838.  `Workbench.Loads` leaves out the limit
  on the number of lineage links (`database.rs:3332`).
* **Histories.** Some variables (`stolen`, `cut`, `raced`, `leftover`, `mixed`,
  `stray`, `again`, `shifted`, `torn`, `silent`) record that a known exception happened.  A
  property that names one says exactly what is not promised after it; section 5
  describes each.

## 3. Runs

| Run | Instance | Shows |
|---|---|---|
| `status_machine` | 3 subagents, capacity 2, 5 attention identities; the bridge with 2 threads, 2 turns, 3 requests against limits of 2 | a turn is complete only when no subagent runs; tracking is exact or admits that it is not; a dismissed failure stays quiet; a Codex Session waits for input while Codex does, and only a reply resumes it |
| `daemon_safety` | 1 stopping and 1 attaching client, 3 deliveries, database faults; 3 daemons and 2 starters with a mishap; 2 Projects, 5 steps, 3 requests; 2 probers, an update, 2 lives of the daemon | row, reducer and record agree; deletion orphans nothing; accepted hooks precede the exit; the tasks implement `SessionContract`; one daemon unless a socket was stolen; GitHub answers are shown under their query; a launched Codex Session is bridged as its probe promised |
| `session_progress` | 2 callers, 2 faults; 2 clients, no attach; every queue of length 1, 3 requests, 2 mishaps | a successful stop leaves nothing; stops are answered; a published exit is stored; every caller learns how its request ended |
| `terminal_paths` | scrollback 2, broadcast 1, queue 2, 5 updates, 2 attachments; client queue 2, 8 chunks, 3 reattachments; 2 Sessions; 4 keys; 2 files in 2 checkouts | what a settled terminal UI or command line misses was dropped while a resynchronization was pending, or is below a chunk that a reply with a blank terminal overtook; the terminal UI recovers its own losses; keys arrive in order, once, at their child; the keyboard of the desktop is only where the user, an `Attached` reply or a launch put it; a paused review stands still |
| `attention` | 2 terminals, 1 desktop, 2 Sessions, 1 pending event, 2 events, 7 scenarios | one presentation at most; nothing pending is forgotten; every offer is taken |
| `upgrade` | 2 finalizers, 16 kinds of fault, 3 of them at a time; 2 Sessions in 2 Workspaces | a pending handoff blocks mutations; the journal is true; no daemon opens a newer database; a daemon returns; only what was clicked is opened |
| `data_removal` | 2 reservations, 2 boots, 1 fault | the gate excludes and loses no wake-up; data is quiet when it is deleted; the removal ends |
| `workbench` | 2 clients, 2 Projects, 2 Worktrees, 4 Sessions, 2 conversations, capacity 1, 4 workloads, an edit, a switch, a boot and a fault | Sessions have their checkouts; capacity is exact; a conversation runs once; no work is deleted; requests are answered; the marked row is the selected one |
| `attach_during_exit`, `rollback_report`, `lineage_identity`, `stop_confirmation` | as above, smaller | violations: findings 1 to 4 |

**Why the bounds are enough.**  Each is the smallest at which the case in
question arises, with one to spare where the run stays short.  Three subagents
against a capacity of two overflow the tracking and leave some tracked.  Three
deliveries are one staged, one queued and one late.  Two attachments are enough for
the second to find all that the first can leave: frames queued, events not drawn, a
resynchronization pending, and a reply that overtakes them; a
broadcast of one and a queue of two overflow within five updates, and eight
chunks overflow the client's queue a second time while it recovers from the
first loss.  Two clients and two Projects with a Worktree each are enough for any
two requests to meet at any two of their steps; four Sessions make a lineage of
three with a bystander.  Three of sixteen faults let a helper, its watchdog and
a daemon fail in one upgrade.  Three daemon processes are one dead, one serving
and one starting.  Where a theorem states the property, no bound matters.

**Deadlock** is checked in `status_machine` and `attach_during_exit`.  In the
other runs it is off, because a part may really stop: a committed gate admits
nothing more, an actor that has ended does nothing, bounded users and faults run
out.  That a request does not get stuck is then stated as a temporal property.

**Fairness.**

* `SessionSupervisor`: weak fairness of the daemon's own tasks, which the tokio
  runtime polls when they are ready; strong fairness of taking the operation
  lock, because a tokio `Mutex` is handed over in the order of requests; weak
  fairness of the exit of a child that is being closed, because the actor kills
  it after the grace period.  No child must exit by itself, and no client must
  do anything.
* `SessionActor`: the timer fires, each event in the queue is handled (the
  `select` of the actor is fair among its branches), a kill is followed by
  death.  No process that was not killed must exit.
* `ClientConnection`: the loops of both ends go on.  No caller must wait and no
  child must read.
* `AttentionDelivery`: coordination, maturing and the clients' ticks go on.
* `Upgrade`: the daemon, its requests, and the helper and the watchdog while no
  fault has stopped them.
* `DataRemoval`: the steps of the gate, the client, the helper and the remover.
* `Workbench`: a request advances, because Git commands have deadlines and tokio
  locks are granted in turn.

## 4. Proofs

The theorems hold for every value of the constants that meets the assumptions
named; TLC evaluates those on every run of the module.

**`StatusMachineProofs`**, with the lemmas of **`SessionStatusProofs`**
(`CapacityAssumption`: the capacity is a natural number; `AttentionIdAssumption`:
there is at least one identity).

* *The record.*  `StatusValid` is not inductive: that a completed turn has nothing
  running rests on the exact tracking of subagents, which in turn needs that a
  Session that has not started has none.  `Inv` adds these.  `SessionStatusProofs`
  shows what each reducer operation does to a record (`Good`, `Agrees`,
  `Validate`, `AttentionStep`), one lemma each for raising and resolving
  attention, for the priority among conditions, for the derivation of the
  activity and for the exit; the induction step then has one case per action.
* *Behind the bridge* (`BridgeAssumption`: hooks are events of the reducer and ask
  the user nothing by themselves).  The record moves only as `StatusMachine` lets
  it (`BridgeImplements`), so all of the above holds of a Codex Session too.
  `Shown` follows a question of Codex from the tracker over the channel into the
  record: behind the events that are queued, the record shows a wait if the
  tracker has one.  `RepliesAreAccounted` says the same of the replies, which is
  why nothing but a reply ends the wait.

Theorems: `CompletionIsHonest`, `TrackingIsExact`, `AlwaysValid`, the action
properties `AttentionMovesForward`, `TerminalStays` and `DismissalHolds`; for the
bridge `WaitingIsTrue`, `RepliesResume` and `BridgedStatus`.

**`DaemonProofs`**, three parts of the daemon that share no state.

* *Supervision* (`SupervisorAssumption`, and `NamesAssumption`: the value for "no
  record" is none of the records, and no client is called like a task).  Any
  clients, attachers, delivered events and number of deliveries, plain shell or
  not, bridge or not, faulty database or not.  `StoresAgree` speaks of the moments
  at which the lock is free, so an induction needs to know what is true while it
  is held: `Holders` says who holds it at which of its steps; `StagedIsSound` that
  a staged clone continues the stored row, which nobody else can have changed;
  `Belongs` which of process, record, reducer, monitor and credential live
  together; `Launched` how far the launch is; `Drained` that the drain of the exit
  monitor closed the intake.  `RowIsSound` carries `Validate` and the exact process
  id through restarts.  The refinement of `SessionContract` shows that each step
  under this invariant is a step of the contract or changes nothing it sees: the
  attention a client saw never goes back, and a terminal Session stays terminal
  until it is deleted.  Theorems: `StoresAlwaysAgree`, `ProcessIdIsExact`,
  `DeletionIsClean`, `HooksPrecedeExit`, `TasksImplementContract`.
* *Startup* (`StartupAssumption`).  Any number of daemons and starters.  Unless a
  socket was stolen, whoever is between its bind and its unlink finds its own
  socket at the path (`FileIsOfHolder`).  Two owners would be one daemon.
  Theorem: `OneDaemonOwns`.
* *Providers* (`ProviderAssumption`: the search path is a sequence of names).  Any
  number of requests share what the daemon knows of an adapter.  `ProviderInv`
  says of each place of a request what it found and whether that is still the
  answer of the program that will be started.  Two smaller invariants follow what
  a launch leaves: the credential it registered is revoked on every error path,
  the settings of a killed daemon are found by the next.  Theorems:
  `CodexIsBridged`, `NoOrphanCredential`, `SettingsAreCleaned`, `OthersFilesStay`.

**`WorkbenchProofs`** (`WorkbenchAssumption`: each checkout belongs to a Project,
a Project has a root, root and Worktree differ, clients and Worktrees are
finitely many, the markers for "free" and "none" are no names).  The arguments,
with the parts of `Inv` they use:

* *Checkouts.*  A launch and a removal of one checkout exclude each other because
  each has a lock the other needs when it decides (`RequestsAreSound`, `Guarded`:
  a request has the locks that it is past).  What was checked stays true until
  it is acted on: a checkout that is created is nobody else's (`CreatedAlone`),
  one that is removed is used by nobody (`RemovedUnused`), one that is launched
  in is still there unless the Project went (`LaunchedVerified`).
* *Capacity.*  A request has a permit exactly while it is a Start Work between
  its check and its record (`WellFormed`), so permits free, permits held and
  Work Sources recorded sum up to the capacity at every step, over a restart
  too, which counts the rows again (`SourcesHaveRows`, `CapacityIsExact`).
* *Conversations.*  `OneLivePerConversation` is far from inductive: nothing about
  live Sessions alone says why a resume starts no second one.  `Lineage` does.
  A predecessor has ended, a Session has one predecessor, and a conversation that
  was not cut has one end (`EndOf`), the Session no successor of which continues
  it.  A live Session runs, a running one is nobody's predecessor, so it is the
  end; two live Sessions of one conversation are the same.
* *Work.*  `RemovalKeepsWork` is an action property: Git removes a checkout only
  in a step whose request was authorized and whose checkout is unused.

* *The explorer* (`ExplorerAssumption`: a tree of depth at most four, and an order
  of its nodes in which each is after those above it).  The rows are a part of
  that order, and `Only` filters it by a recursive function.  That function exists,
  because its values can be written down (`FilterExists`); and there is no least
  prefix in which an element is not found at its rank, the number of elements up
  to it that pass the filter (`FilterByRank`).  So a mark stays on its node when
  rows come only after it (`RowStays`), and they do when something is unfolded,
  since what is below a node comes after it.  `ExplorerInv` says that the daemon's
  state is such a tree, that activity anywhere keeps its order one
  (`ReorderKeepsPreorder`), and that the client is `Sound`: unless `shifted`, what
  it selects has a row and that row is marked.  Each handler of the application is
  a lemma (`RevealFacts`, `RestoreFacts`, `ReconcileKeepsSound`, `ReplaceIsSound`).

Theorems: `LaunchesKeepCheckouts`, `CapacityHolds`, `OneRunner`, `RemovalIsSafe`,
`MarkedIsSelected`.

**`UpgradeProofs`** (`TasksAssumption`: mutators and finalizers are different
requests; `MutatorsAssumption`: check, download and install are among the
mutators).  Any number of finalizers, any faults in any number.  Three invariants:

* *The gate* (`GateInv`).  That a pending handoff keeps the mutation flag taken is
  not inductive, because the end of a mutation clears the flag.  `NothingPending`
  says that whoever is about to clear it began, or cleared the handoff, since:
  only a daemon that starts finds a handoff pending, and it starts with no request
  under way (`IdleUnlessServing`).  `LeaseIsHeld` ties the lease to its flag.
* *What is installed* (`DiskInv`).  The journal is written by two processes that
  can be killed anywhere, and a daemon that anybody starts migrates the database.
  `OneAtWork`: the watchdog acts only when the helper has ended, and no helper is
  spawned beside either.  `ReportersWait`: whoever is acknowledged reported.
  `Fits` relates the place of a process to the phase of the journal, and the phase
  to package and database; `JournalIsTrue` says of each phase what is installed,
  and that until something is restored a daemon runs on a database of its own
  version, which is why a health check that passes means that the database was
  migrated.

* *The notifier* (`NotifierInv`, with `NotifierAssumption`: every Session is in one
  Workspace, the queue holds something).  The thread compares the icon of a
  callback with the icon it added last; `BalloonIsLast` says that a balloon that
  can still be clicked is the one of the last icon, and `Truthful` that a callback
  under way tells of a click that happened on the Session it is taken for.

* *The keyboard of the desktop* (any Sessions, tabs, requests and events).
  `KeyboardStays` compares the terminal the keyboard is in with the history `given`
  of the terminals it was given to.  `given` changes only when the user acts or a
  reply of an attach or a launch is taken, so a keyboard that is taken away in one
  step and turns up elsewhere in a later one violates it, however many steps lie
  between.  The proof is the case analysis of the handlers: each keeps the active
  tab, or gives up the focus, or is one of those.  The invariant has to say of which
  kinds requests and events are.

Theorems: `HandoffBlocks`, `OneFinalizes`, `JournalIsHonest`, `DatabaseAlwaysFits`,
`ClicksAreTrue`, `KeyboardIsNotTaken`.

**`LifecycleGateProofs`**, the lifecycle coordinator and the removal under it.

* *The gate* (`WorkersAssumption`: finitely many workers, any number of quiescers).
  `Inv` adds that the counter is the cardinality of the workers whose increment is
  outstanding, and that the flag is set exactly while a quiescer holds the gate.
  Without the first, a counter of zero says nothing about who is at work.
  Theorems: `GateExcludes`, `GateWakes`, `GateHasOneQuiescer`.
* *The removal of data* (`RootsAssumption`: the directories are different ones, and a
  handoff token is not the name of a request).  Any directories, any requests,
  reservations, daemons and faults.  Data is quiet when it is deleted because
  nothing else runs then, and `RemovalInv` says why, from the request to the last
  directory.  A request writes its reservation into one directory after the other
  with the gate closed, so a daemon that comes to its end by itself leaves all of
  them reserved or none (`ReservedByRequest`).  Whoever removes has the lease of
  the newest reservation, of which there is one (`RemoversHold`), so there is one
  such process, and past its wait the token is gone.  No daemon starts while a
  reservation is on the disk (`StartsAlone`); that one is on the disk until the last
  directory goes is the heart of it: directories are visited in turn, whatever
  failed or died in between, and those ahead of the visit are reserved (`InTurn`,
  `VisitsFit`).  A marker that is being taken away is remembered until its
  directory is gone, and put back when it stays.  The two ways in which a process
  outlives its reservation (`OldHelper`, section 5) are excepted; the types, the gate
  and what belongs to the daemon hold even then.  Theorems: `DataIsQuiet`,
  `GateHoldsDuringRemoval`.

**`SessionActorProofs`**, what the actor does with the process and with its output.

* *Stop and exit* (`ActorAssumption`: the fault bound is a natural number; any set
  of callers).  `Bookkeeping` is the strengthening: an exit the actor knows of, or
  is about to hear of, is the death of the child; the tree is emptied only after
  an exit; replies wait in the loop only for a stop that has yet to publish.
  Theorems: `StopIsThorough`, `AnnouncementsAreTrue`, `NoReplyIsLost`.
* *Output* (`StreamAssumption`: each capacity is at least one).  Any number of
  updates and attachments.  `MissingIsExplained` speaks of a client to which
  nothing is on its way, so the invariant must say what a client will show while
  much is.  `StreamInv` splits what is on its way (`OnTheWay`) into the events `E`
  from before the latest attachment, its reply `R` as long as it is not taken, and
  the frames `F` of its forwarder (`Parted`).
  - The reply overtakes the events, so the terminal with which the frames begin is
    not one but any of a set (`Fresh`): the terminal of the reply, with some chunks
    of `E` drawn on it already.  Every chunk of `E` that can make a blank terminal
    ignore its replay is `torn` (`Stale`), so a hole in such a terminal is below one.
    When `E` and `R` are used up, the terminal is one of that set (`Awaits`).
  - From each of them, `Leads` says that the frames lead to a terminal that stands
    for all that the forwarder has taken (`Covers`, except while a snapshot is owed),
    that is ahead of it only as a whole snapshot (`AheadIsWhole`), and that no
    snapshot on its way is outdated by what is drawn before it (`ReachesSnapshots`),
    so a drop that a later snapshot is said to make up for is made up for.
  Each step appends a frame, moves the first one on, or moves the cursor, and there
  are lemmas about the terminals for each (`ForetoldOne`, `ForetoldTail`,
  `ForetoldGrows`, `LeadsForward`, `LeadsOvertaken`, `LeadsDrop`, `LeadsTail`), over
  logs and frames rather than states.  Theorem: `NothingIsMissed`.
* *Keys* (`InputAssumption`: batches, queues and channels hold something, the marker
  for "no Session" is none).  `InputInOrder` looks at the child only.  The invariant
  lays all stages from the child back to the keyboard in a row: each holds keys in
  the order they were typed, and every key of a stage is behind every key of the
  stages ahead of it.  A batch that fails, a detach and a timeout take
  keys out of the row, and a part of an ordered row is ordered, so nothing has to be
  said of them beyond that no key is put back.  Theorem: `KeysArriveInOrder`.
* *The client's screen* (`ClientAssumption`: the queues hold something).
  `TerminalViewIsExact` speaks of a client that is settled.  Before it is, each
  chunk is shown, or on its way behind all that is shown, or was lost, and a loss
  is known to the client and covered by the one attachment that is under way: its
  snapshot is taken after the loss, and nothing is shown until it arrives.
  Theorem: `TerminalShowsAll`.

**`ClientProofs`**, what clients are told and show.

* *Notifications* (`DeliveryAssumption`, `ClaimCapacityAssumption`: the list of claims
  holds something).  The argument follows the claim.  It is in one place
  (`OnePlace`): on offer, with the connection that validates it, or in one message
  to one client; wherever it is, its event was not presented (`ClaimsAreLive`).
  An event whose update is finished has its claim in one of these places, or its
  fate says what became of it (`EventsAreAccounted`).  What an offer needs to be
  claimable, and what the connections and the terminals remember, are
  `OffersAreClaimable`, `ConnectionsHold` and `TerminalsAwait`.  Theorems:
  `PresentedAtMostOnce`, `NoneIsForgotten`.
* *GitHub in the desktop* (`GitHubAssumption`: the markers for "no filter" and "none"
  are what they should be, there are pages).  One request is under way; `SlotFits`
  says that it asks for what the surface shows or for the page after it, unless
  the surface was reset under it, and `ShowsItsQuery` what list and comments are.
  Theorem: `SurfaceKeepsToTheQuery`.
* *GitHub in the terminal UI* (`ModalAssumption`).  Tasks of all purposes overlap and
  are replaced, but identities are fresh: a task or a result with the identity
  the modal waits for asks for what it shows (`Fits`, `ShowsItsChoice`).  Theorem:
  `ModalKeepsToTheQuery`.
* *The review of changes* (`ReviewAssumption`).  A pause stops nothing that is under
  way.  `LetAlone` says of a paused review what may still arrive: a reply that is
  thrown away, one that was overtaken by a later generation, or the diff of a file
  that was chosen since the pause; `AnswerFits` relates the pending request to its
  reply.  Theorem: `PauseIsKept`.

**Only model-checked.**

* All liveness (`StopIsAnswered`, `ExitIsRecorded`, `RequestsAreAnswered`,
  `OffersAreTaken`, `DaemonReturns`, `RemovalEnds`, `RequestIsAnswered`): liveness
  under fairness is out of the prover's reach.
* What the recursive function `Leaf` of `Workbench` computes, which would be an
  induction over data; the proof needs only that a resume is refused unless it
  starts from a Session that exists and has no successor.

**What the proofs corrected.**  Six inductions failed for a reason that a bounded
run had not shown, and the models were brought closer to the code: an answer about a
GitHub item that is no longer shown is now remembered as `stray`; some handlers
were written with overlapping cases; a reservation that is withdrawn after a
client recovered its lease leaves that client at work (section 5); `KeyboardStays`
held only within the run's bounds, because the reply to a launch moves the keyboard
even when the user has gone on to type elsewhere (`sylvops-desktop` `lib.rs:4862`), so
that reply now counts as giving it; the pump was modelled as taking a whole batch in one
step; and `RowIsSelection` was false three changes of the daemon away, one more than
its run allows: a snapshot that fills an explorer without rows selects a Project
that a folded Workspace hides (section 5), so `shifted` now remembers that too.

## 5. Findings and known exceptions

Four runs violate what the repository says of the program.

1. **An attach while the exit is being recorded never returns**
   (`attach_during_exit`, `daemon.rs:2985`).  `AttachSession` holds the
   operation lock and waits for `completed`; the exit monitor needs that lock
   to store the exit and only then signals `completed`.  The row stays running
   until the daemon restarts (`docs/architecture/pty.md:15`).
2. **A rollback after a failed health check is never recorded**
   (`rollback_report`, `upgrade.rs:826`).  The replacement daemon that starts has
   already removed the staged release, which is now its own version
   (`upgrade.rs:663`).  The restored daemon has nothing staged and refuses the
   report; the reservation stays (`docs/architecture/ipc.md:36`).
3. **A cleared conversation makes the database unloadable**
   (`lineage_identity`, `daemon.rs:4205`).  A resumed Session that is told to
   clear its conversation stores the new identity in its own row only; the link
   to its predecessor then fails the check of the lineage (`database.rs:3340`),
   on every snapshot and at the next start
   (`docs/adr/0010-preserve-session-lineage-on-resume.md:3`).
4. **The Stop dialog stops another Session than it names**
   (`stop_confirmation`, `sylvops-desktop` `lib.rs:7153`).  It keeps the name and
   not the identity of the Session; a click on a notification changes which one
   is active while it is open (`docs/product/desktop-ux.md:34`).

The rest of this section lists behaviours that are part of the models and worth
knowing.  Where a property would fail because of one, it names the exception and
holds otherwise.

**Sessions.**  After a refused kill the actor answers the waiting stops with an
error and leaves `stop_requested` set, so a repeated stop starts no timer
(`session.rs` 812 and 861; `StopIsAnswered` excuses `KillSpent`).  When the
database refuses the outcome of an exit, row, reducer and record keep the running
status until a restart: they agree, on the old state.  A Codex question whose
turn fails leaves `answer_request` set (`codex_bridge.rs:519`; `leftover`), and
the next question may be taken for answered.

**Providers.**  A probe, or the `refresh_health` of another launch
(`provider.rs:1442`), resets what is known of the Codex executable, so that a
Session that is configured meanwhile runs without bridge and `--no-daemon`
(`raced`), contrary to `docs/adr/0013` and `docs/providers/codex.md`.  Older
health may be stored after newer, and the executable may change between check
and spawn.

**Starting the daemon.**  A daemon that finds a refused connection unlinks the
socket at the path; another may have bound it since (`stolen`;
`docs/decisions/0007:20`).  The losing starter reports "daemon exited before
becoming ready" (`main.rs:648`), a stale token refuses a handshake that waits,
and the drop of a listener unlinks whatever socket is at the path (`ipc.rs:108`).

**Upgrades.**  Two finalizers: `handoff_pending` is read before
`handoff_finalizing` is exchanged (`daemon.rs:425`); between the two another may
complete and an ordinary mutation begin.  A daemon that is killed leaves its
token, and the wait for its stop times out.  A failed response to
`InstallUpdate` after the helper was spawned leaves the daemon up beside it
(`daemon.rs:3418`).  The watchdog may roll back an installation that was recorded
as installed; a helper that exits early leaves `handoff.json`.

**Removal of all data.**  The helper compares its handoff token once, so two
removers can overlap; a daemon may start between the deletion of the last
reservation and of its directory; a remover killed between the ownership marker
and the directory leaves it unmarked; the audit of an earlier failed attempt
makes the next observer report failure; a reservation that is withdrawn after
another client recovered its lease leaves that client at work on the next one
(`data_removal.rs:324-345`, `433-445`).

**Checkouts and conversations.**  The deletion of a middle Session leaves two
ends of a conversation (`database.rs:2628`), and so may a provider that resumes by
itself (`cut`).  A row that is "missing" is never removable.  `git worktree
remove` deletes ignored files that were created after the inspection
(`git.rs:753`).  A retry of Start Work may be overtaken by a creation between its
check and its launch (`daemon.rs:2356`).  The code for a capacity excess is never
reached (`database.rs:1990`).  A start failure that cannot be stored leaves a
row "starting" until the next start (`daemon.rs:4135`).

**Terminal output.**  `docs/wayfinding/mvp-beta/tickets/release-proof.md:130` has a
tester reattach "from desktop, TUI, and CLI and observe replay/reconnect without
duplicated or missing current screen state".  `MissingIsExplained` shows that a
terminal UI or a command line that has drawn all it received can miss output of
the daemon in two ways only:

* While a resynchronization is pending, further updates that do not fit are dropped
  with nothing to follow (`daemon.rs:3654`; `silent`).
* A reply goes to the request that waits for it, past the events that are still to be
  drawn (`client.rs` 183-191).  When it brings a blank terminal, and chunks of the
  attachment before are among those events, they are drawn first and raise
  `last_sequence`; the replay of the chunks below is then ignored (`sylvops-tui`
  `lib.rs` 290-303, 3627-3646; `torn`).  That needs events that are left when the user
  attaches again, for instance more than the 512 that one turn of the loop draws
  (`lib.rs:289`) or those that come while the request is under way.  The command
  line attaches once and asks for a snapshot from then on, which leaves no hole.

A loss in the client's own queue is another matter, which `ClientTerminal` covers.
There, the desktop attaches again from its last sequence where the terminal UI
asks for a snapshot, and resumes past a hole (`sylvops-desktop` `lib.rs:4274`);
`TerminalViewIsExact` is about the terminal UI.

**Terminal input.**  A pump that is dropped at detach loses its queued keys, and
the timeout of the terminal UI may report input as cancelled that is applied.  A
batch that failed is lost while later keys are sent.

**Connections.**  Neither client notices a lost connection by itself
(`bridge.rs:501`).  The daemon serves one client's requests one after another and
forwards no events meanwhile, so a child that does not read holds up the
connection (`stalled`).  A replay that times out answers an attach twice, and the
client closes the connection.  A failed response suppresses the broadcast of its
event.

**Attention.**  The desktop does not report that it went to the background when
its focus was unknown before (`lib.rs:7936`); its bridge subscribes after it has
loaded (`bridge.rs:481`), and the daemon registers a client before it subscribes
it (`daemon.rs:1061` and `1097`).

**Notifier.**  What is sent between the last drain and the drop of the receiver is
lost.  An activation whose `OpenWorkspace` is refused stays pending and moves the
user at a later snapshot; an older click into another Workspace overrides a later
one, or the user's own selection.

**Desktop.** An overtaken snapshot leaves a stale list.  A refresh answered with
an error, or dropped, leaves `snapshot_pending` set (`lib.rs:5395`).  An
`Attached` reply gives the keyboard to the tab that is active when it comes
(`lib.rs:4979`), which may be one that a refresh made active since the request;
a late reply to `Resume` makes its Session active and asks for such an attach
(`lib.rs` 4882-4919).  A keyboard that is on without a terminal to type into may
come to any tab with the next reply (`Astray`).  `KeyboardStays` excepts these.
Tabs may exceed `MAX_OPEN_DESKTOP_SESSIONS` (`lib.rs:4869`).

**Changes review.**  Choosing the selected file again while a request is pending
renews a paused list (`again`).  A refresh of a paused review loses its list when
another file is selected meanwhile.  A refresh queued behind a list without a
visible file is never sent; a lost reply leaves `pending` for good.

**Explorer.**  A partial update after Start Work shifts the rows under the marker
(`shifted`).  So does the snapshot that brings a Workspace back to an explorer
whose last Workspace was folded and removed: `restore_selection` selects its first
Project, only the Workspace has a row, and that row is marked (`app.rs:749`).  Every refresh unfolds a collapsed Workspace and the selected
Project.  A question to delete a checkout that vanished asks about the row
selected before.

**GitHub.**  Desktop: a tab chosen while a request is pending stays loading
(`lib.rs:6372`); a tab reopened while a filtered page is under way shows that page
under the default filter (`mixed`); comments that arrive after Back are appended
to a detail without its first page (`stray`, `lib.rs:4679`).  Terminal UI: opened
on a Work Source only the detail is requested, and the list stays loading after
Escape; a late detail hides the form of Start Work; a plain error in answer to
Start Work ends the program.

## 6. Not modelled

`vt100` is third-party.  Rendering, key bindings, parsing, framing, SQL and
migrations, argument vectors, signatures and package formats hold no shared state
or are pure I/O; the models take their outcomes.  Within modelled parts: the rate
limit and queue bound of the hook receiver, resizing of a terminal by its
controller, the cache of the GitHub gateway (where a slower, older fetch may
overwrite a newer entry), Pull Request links, task labels and renames, layout and
settings rows.  The notes of the components in `PROJECT.json` say what is left out
of each.  The map covers about a sixth of the implementation's lines; most of the
rest is the drawing, layout and forms of the two clients, parsing, and tests that
live beside the code.

## 7. Plan

The parts with shared state have a module, and the safety properties that cross
several of their steps have a proof.  What remains is breadth, the parts that
section 6 names.

## 8. Reproducing

    tlc -workers 2 -config Workbench.cfg MCWorkbench
    tlapm WorkbenchProofs.tla

Leaves that come near a prover's default time limit name the prover and a longer
one, so that the proofs do not depend on the speed of the machine.

`PROJECT.json` lists the module and configuration of every run.
