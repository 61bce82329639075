---------------------------- MODULE DataRemoval ----------------------------
(***************************************************************************)
(* Removal of the user's data (data_removal.rs): the daemon quiesces,      *)
(* writes a reservation into every owned directory, launches a detached    *)
(* helper and stops; the helper waits for the daemon, deletes the          *)
(* directories and keeps the Git checkouts; clients watch, and recover a   *)
(* removal whose helper failed.  Every process here can die between two    *)
(* steps, and what it left on the disk is what the next one finds.         *)
(*                                                                         *)
(* The request runs under the lifecycle gate of the daemon, so the gate's  *)
(* own steps are steps of this module.  Of the roots it keeps what         *)
(* validate_owned_root and the reservation look at; links, containment and *)
(* canonical paths are not modelled.                                       *)
(***************************************************************************)
EXTENDS LifecycleGate, Integers, Sequences, SequencesExt

CONSTANTS
    Roots,            \* the owned directories, in the order they are visited
    Checkouts,        \* the owned directories with a Git checkout below them
    MaxReservations,  \* bound: reservations made
    MaxBoots,         \* bound: daemons started
    MaxBusyBoots,     \* bound: the daemons that also get other requests
    MaxFaults         \* bound: kills, failed writes and expired deadlines

(* The directories are different ones (data_removal.rs drops repetitions), *)
(* and a handoff token is not the name of a request.                       *)
ASSUME RootsAssumption ==
    /\ Roots \in Seq(Range(Roots)) /\ IsInjective(Roots)
    /\ Checkouts \subseteq Range(Roots)
    /\ MaxReservations \in Nat
    /\ Quiescers \cap (0 .. MaxReservations) = {}

VARIABLES
    daemon,        \* where the newest daemon process is in its life
    boots,         \* daemons started so far: the process id of the newest
    token,         \* whether the authentication token file exists
    session,       \* whether a Session process runs
    disk,          \* the owned directories
    plan,          \* for each handoff token, the directories it reserved
    reservations,  \* reservations made so far: the newest handoff token
    prep,          \* how far each Quiescer is in PrepareDataRemoval
    client,        \* what each Quiescer's client does
    remover,       \* the processes that remove: helpers and recovering clients
    lease,         \* for each handoff token, the process that has lease.lock
    audit,         \* the handoff tokens with an audit.json beside the lease
    faults, hits   \* faults so far, and which of them matter later

removal == <<daemon, boots, token, session, disk, plan, reservations, prep,
             client, remover, lease, audit, faults, hits>>
rvars == <<vars, removal>>

RootSet == Range(Roots)
HandoffTokens == 1 .. MaxReservations
Removers == HandoffTokens \union Quiescers

(* A directory: which one it is (0 when there is none), its ownership      *)
(* marker, the reservation in it (0 for none), the daemons that wrote data *)
(* into it, a failure audit, and a Git checkout.                           *)
Nothing == [id |-> 0, owned |-> FALSE, reserved |-> 0, data |-> {},
            audit |-> FALSE, checkout |-> FALSE]
Exists(r) == disk[r].id # 0

Idle == [at |-> "none", token |-> 0, pid |-> 0, root |-> 0, saved |-> 0,
         ids |-> [r \in RootSet |-> 0]]

RemovalInit ==
    /\ Init
    /\ daemon = "up" /\ boots = 1 /\ token = TRUE /\ session = FALSE
    /\ disk = [r \in RootSet |->
                 [id |-> 1, owned |-> TRUE, reserved |-> 0, data |-> {1},
                  audit |-> FALSE, checkout |-> r \in Checkouts]]
    /\ plan = [n \in HandoffTokens |-> Idle.ids]
    /\ reservations = 0
    /\ prep = [q \in Quiescers |-> 0]
    /\ client = [q \in Quiescers |-> [at |-> "idle", token |-> 0]]
    /\ remover = [p \in Removers |-> Idle]
    /\ lease = [n \in HandoffTokens |-> 0]
    /\ audit = {}
    /\ faults = 0 /\ hits = {}

Fault(hit) ==
    /\ faults < MaxFaults
    /\ faults' = faults + 1
    /\ hits' = hits \union hit

NoFault == UNCHANGED <<faults, hits>>

----------------------------------------------------------------------------
(* What a process reads from the disk.                                     *)

(* read_reservation: the reservation in the directories that are left.     *)
Reserved == {disk[r].reserved : r \in {s \in RootSet : Exists(s)}} \ {0}
Reservation == IF Reserved = {} THEN 0 ELSE CHOOSE n \in Reserved : TRUE

(* validate_owned_root refuses a directory without its marker.             *)
Unowned == {r \in RootSet : Exists(r) /\ ~disk[r].owned}

(* removal_complete: the directories are gone or hold checkouts only.      *)
RemovalComplete ==
    /\ Unowned = {}
    /\ \A r \in RootSet :
         Exists(r) => /\ disk[r].checkout /\ disk[r].reserved = 0
                      /\ disk[r].data = {} /\ ~disk[r].audit

(* Mutant: a directory that an earlier pass removed is missed.             *)
PlanMatchesAll(ids) == \A r \in RootSet : disk[r].owned /\ disk[r].id = ids[r]

(* prepare and matches_reservation: every directory that is left is owned  *)
(* and is the one the daemon reserved.                                     *)
PlanMatches(ids) ==
    /\ \E r \in RootSet : Exists(r)
    /\ Unowned = {}
    /\ \A r \in RootSet : Exists(r) => disk[r].id = ids[r]

(* failure_audit, and the audit.json of the token the observer started     *)
(* with.                                                                   *)
FailureAudited(n) ==
    \/ {n, Reservation} \intersect audit # {}
    \/ \E r \in RootSet : Exists(r) /\ disk[r].audit

----------------------------------------------------------------------------
(* The daemon.                                                             *)

GateIdle ==
    /\ \A w \in Workers : worker[w] = "idle"
    /\ \A q \in Quiescers : quiescer[q] \in {"idle", "committed"}

GateStep ==
    /\ daemon \in {"up", "stopping"}
    /\ \/ \E w \in Workers :
            \/ daemon = "up" /\ boots <= MaxBusyBoots /\ Begin(w)
            \/ Count(w) \/ Recheck(w) \/ Leave(w) \/ Notify(w)
       \/ \E q \in Quiescers : Listen(q) \/ Check(q) \/ Wake(q) \/ Announce(q)
    /\ UNCHANGED removal

(* An admitted request creates a Session, which outlives the activity.     *)
LaunchSession(w) ==
    /\ daemon \in {"up", "stopping"} /\ worker[w] = "active" /\ ~session
    /\ session' = TRUE
    /\ UNCHANGED <<vars, daemon, boots, token, disk, plan, reservations, prep,
                   client, remover, lease, audit, faults, hits>>

SessionEnds ==
    /\ session
    /\ session' = FALSE
    /\ UNCHANGED <<vars, daemon, boots, token, disk, plan, reservations, prep,
                   client, remover, lease, audit, faults, hits>>

ShutdownDaemon ==
    /\ daemon = "up"
    /\ daemon' = "stopping"
    /\ UNCHANGED <<vars, boots, token, session, disk, plan, reservations, prep,
                   client, remover, lease, audit, faults, hits>>

(* The end of run: requests are joined, Sessions stopped, the database     *)
(* closed, and then the token is removed; the process is still there.      *)
RemoveToken ==
    /\ daemon = "stopping" /\ GateIdle
    /\ daemon' = "released" /\ token' = FALSE /\ session' = FALSE
    /\ UNCHANGED <<vars, boots, disk, plan, reservations, prep, client, remover,
                   lease, audit, faults, hits>>

DaemonExits ==
    /\ daemon = "released"
    /\ daemon' = "gone"
    /\ UNCHANGED <<vars, boots, token, session, disk, plan, reservations, prep,
                   client, remover, lease, audit, faults, hits>>

(* A killed daemon leaves its token and forgets its requests.  Its         *)
(* Sessions end with their PTY owner.                                      *)
KillDaemon ==
    /\ daemon \in {"up", "stopping"}
    /\ Fault({"killed"})
    /\ daemon' = "gone" /\ session' = FALSE
    /\ worker' = [w \in Workers |-> "idle"]
    /\ quiescer' = [q \in Quiescers |-> "idle"]
    /\ quiescing' = FALSE /\ activities' = 0 /\ UNCHANGED heard
    /\ prep' = [q \in Quiescers |-> 0]
    /\ client' = [q \in Quiescers |->
                    IF client[q].at = "requesting"
                    THEN [client[q] EXCEPT !.at = "failed"] ELSE client[q]]
    /\ UNCHANGED <<boots, token, disk, plan, reservations, remover, lease, audit>>

(* The daemon looks for a reservation before it touches a directory.  The  *)
(* last one is deleted a little before the directory that held it: a       *)
(* daemon that starts then has overtaken the removal.                      *)
StartDaemon ==
    /\ daemon = "gone" /\ boots < MaxBoots /\ Reserved = {}
    /\ daemon' = "starting" /\ boots' = boots + 1
    /\ hits' = hits \union
         IF \E p \in Removers : remover[p].at \in {"disown", "rmdir"}
         THEN {"overtaken"} ELSE {}
    /\ UNCHANGED <<vars, token, session, disk, plan, reservations, prep,
                   client, remover, lease, audit, faults>>

(* RuntimePaths::prepare creates and marks the directories, the listener   *)
(* and the database open, the token is written.                            *)
Serve ==
    /\ daemon = "starting"
    /\ daemon' = "up" /\ token' = TRUE
    /\ disk' = [r \in RootSet |->
                  [disk[r] EXCEPT !.id = IF @ = 0 THEN boots ELSE @,
                                  !.owned = TRUE,
                                  !.data = @ \union {boots}]]
    /\ quiescing' = FALSE /\ activities' = 0
    /\ worker' = [w \in Workers |-> "idle"]
    /\ quiescer' = [q \in Quiescers |-> "idle"]
    /\ UNCHANGED <<heard, boots, session, plan, reservations, prep, client,
                   remover, lease, audit, faults, hits>>

DaemonStep ==
    \/ GateStep \/ \E w \in Workers : LaunchSession(w)
    \/ SessionEnds \/ ShutdownDaemon \/ RemoveToken \/ DaemonExits
    \/ KillDaemon \/ StartDaemon \/ Serve

----------------------------------------------------------------------------
(* PrepareDataRemoval, from the quiesced gate to the daemon's shutdown.    *)
(* prep counts its writes: one marker for each root, the helper, and the   *)
(* audit record with the response.                                         *)

Preparing(q, i) == quiescer[q] = "quiesced" /\ prep[q] = i
Advance(q) == prep' = [prep EXCEPT ![q] = @ + 1]
HelperStage == Len(Roots) + 1

(* The request fails: its lease opens the gate again.                      *)
Refuse(q) ==
    /\ Reopen(q)
    /\ prep' = [prep EXCEPT ![q] = 0]
    /\ client' = [client EXCEPT ![q].at = "failed"]

ClearReservation(d) == [r \in RootSet |-> [d[r] EXCEPT !.reserved = 0]]

(* No Session is active and every directory is owned; the identities go    *)
(* into the reservation with a new token.                                  *)
Validate(q) ==
    /\ Preparing(q, 0)
    /\ ~session /\ Unowned = {}
    /\ reservations' = reservations + 1
    /\ plan' = [plan EXCEPT ![reservations'] = [r \in RootSet |-> disk[r].id]]
    /\ Advance(q)
    /\ UNCHANGED <<vars, daemon, boots, token, session, disk, client, remover,
                   lease, audit, faults, hits>>

(* Before the reservation: the gate's deadline, an active Session, an      *)
(* unsafe directory.                                                       *)
RefuseEarly(q) ==
    /\ prep[q] = 0
    /\ quiescer[q] = "quiesced" => session \/ Unowned # {}
    /\ Refuse(q)
    /\ UNCHANGED <<daemon, boots, token, session, disk, plan, reservations,
                   remover, lease, audit, faults, hits>>

(* reserve_with_token: the markers are written one after the other.        *)
WriteMarker(q) ==
    /\ prep[q] \in 1 .. Len(Roots) /\ Preparing(q, prep[q])
    /\ disk' = [disk EXCEPT ![Roots[prep[q]]].reserved = reservations]
    /\ Advance(q)
    /\ UNCHANGED <<vars, daemon, boots, token, session, plan, reservations,
                   client, remover, lease, audit, faults, hits>>

LaunchHelper(q) ==
    /\ Preparing(q, HelperStage)
    /\ remover' = [remover EXCEPT ![reservations] =
                      [Idle EXCEPT !.at = "starting", !.token = reservations,
                                   !.pid = boots]]
    /\ Advance(q)
    /\ UNCHANGED <<vars, daemon, boots, token, session, disk, plan,
                   reservations, client, lease, audit, faults, hits>>

(* A marker cannot be written, the helper cannot be started, the audit or  *)
(* the response fails: the reservation is taken back.  A helper that was   *)
(* launched, and a client that recovers, are not.                          *)
Withdraw(q) ==
    /\ prep[q] > 0
    /\ Fault(IF prep[q] > HelperStage \/ \E p \in Removers : remover[p].token = reservations
             THEN {"withdrawn"} ELSE {})
    /\ Refuse(q)
    /\ disk' = ClearReservation(disk)
    /\ UNCHANGED <<daemon, boots, token, session, plan, reservations, remover,
                   lease, audit>>

(* The audit is recorded and the response queued, the daemon stops, the    *)
(* gate stays closed; the client starts to watch.                          *)
Respond(q) ==
    /\ Preparing(q, HelperStage + 1)
    /\ Commit(q)
    /\ daemon' = IF daemon = "up" THEN "stopping" ELSE daemon
    /\ prep' = [prep EXCEPT ![q] = 0]
    /\ client' = [client EXCEPT ![q].at = "observing",
                                ![q].token = Reservation]
    /\ UNCHANGED <<boots, token, session, disk, plan, reservations, remover,
                   lease, audit, faults, hits>>

PrepareStep(q) ==
    \/ Validate(q) \/ RefuseEarly(q) \/ WriteMarker(q) \/ LaunchHelper(q)
    \/ Withdraw(q) \/ Respond(q)

----------------------------------------------------------------------------
(* A process that removes: the helper of a handoff token or a recovering   *)
(* client.                                                                 *)

At(p, stage) == remover[p].at = stage
Working == {"waiting", "exiting", "completing", "empty", "unreserve", "disown",
            "rmdir"}

(* What becomes of a client when the recovery it runs ends.                *)
ClientAfter(p, outcome) ==
    client' = IF p \in Quiescers THEN [client EXCEPT ![p].at = outcome]
                                 ELSE client

Release(p) == lease' = [n \in HandoffTokens |-> IF lease[n] = p THEN 0 ELSE lease[n]]

Ends(p, outcome) ==
    /\ remover' = [remover EXCEPT ![p] = Idle]
    /\ Release(p)
    /\ ClientAfter(p, outcome)

(* record_helper_failure: the audit is written beside the lease, if the    *)
(* reservation still names it, and into every directory that is owned.     *)
Fails(p, d) ==
    /\ Ends(p, "failed")
    /\ audit' = audit \union Reserved
    /\ disk' = [r \in RootSet |->
                  IF d[r].id # 0 /\ d[r].owned THEN [d[r] EXCEPT !.audit = TRUE]
                                              ELSE d[r]]

OnlyRemoval ==
    UNCHANGED <<vars, daemon, boots, token, session, plan, reservations, prep>>

(* The helper checks the markers and its token and takes the lease, which  *)
(* is kept in a directory named after the token.                           *)
StartHelper(n) ==
    /\ At(n, "starting")
    /\ IF /\ \A r \in RootSet : Exists(r) /\ disk[r].owned
          /\ Reservation = n /\ lease[n] = 0
       THEN /\ remover' = [remover EXCEPT ![n].at = "waiting"]
            /\ lease' = [lease EXCEPT ![n] = n]
            /\ UNCHANGED <<disk, client, audit>>
       ELSE IF Reservation \notin {0, n} THEN Fails(n, disk)
       ELSE Ends(n, "failed") /\ UNCHANGED <<disk, audit>>
    /\ OnlyRemoval /\ NoFault

(* Mutant: the process that launched the helper is not waited for, nor is  *)
(* its token.                                                              *)
NoWait(p) ==
    /\ remover[p].at \in {"waiting", "exiting"}
    /\ remover' = [remover EXCEPT ![p].at = "completing"]
    /\ OnlyRemoval /\ NoFault /\ UNCHANGED <<disk, client, lease, audit>>

(* wait_for_daemon_stop watches the token; the helper then also waits for  *)
(* the process that launched it.                                           *)
DaemonStopped(p) ==
    /\ \/ /\ At(p, "waiting") /\ ~token
          /\ remover' = [remover EXCEPT ![p].at =
                            IF p \in Quiescers THEN "completing" ELSE "exiting"]
       \/ /\ At(p, "exiting") /\ (boots = remover[p].pid => daemon = "gone")
          /\ remover' = [remover EXCEPT ![p].at = "completing"]
    /\ OnlyRemoval /\ NoFault /\ UNCHANGED <<disk, client, lease, audit>>

DaemonDidNotStop(p) ==
    /\ \/ At(p, "waiting") /\ token
       \/ At(p, "exiting") /\ boots = remover[p].pid /\ daemon # "gone"
    /\ Fails(p, disk)
    /\ OnlyRemoval /\ NoFault

Completes(p) ==
    /\ Ends(p, "removed")
    /\ audit' = audit \ {remover[p].token}

(* complete_prepared_removal: nothing left to do, no reservation, a        *)
(* directory that is not the reserved one, or a plan to execute.           *)
CompletePrepared(p) ==
    /\ At(p, "completing")
    /\ \/ RemovalComplete /\ Completes(p) /\ UNCHANGED disk
       \/ /\ ~RemovalComplete
          /\ IF Reserved # {} /\ PlanMatches(plan[Reservation])
             THEN /\ remover' = [remover EXCEPT ![p].at = "empty", ![p].root = 1,
                                   ![p].ids = [r \in RootSet |-> disk[r].id]]
                  /\ UNCHANGED <<disk, client, lease, audit>>
             ELSE Fails(p, disk)
    /\ OnlyRemoval /\ NoFault

(* A step failed with RemovalFailed: the loop starts again, or its         *)
(* deadline has passed.                                                    *)
TryAgain(p, d) ==
    \/ /\ remover' = [remover EXCEPT ![p].at = "completing", ![p].root = 0,
                                     ![p].ids = Idle.ids, ![p].saved = 0]
       /\ disk' = d /\ UNCHANGED <<client, lease, audit>>
    \/ Fails(p, d)

NextRoot(p) ==
    IF remover[p].root < Len(Roots)
    THEN /\ remover' = [remover EXCEPT ![p].at = "empty", ![p].root = @ + 1,
                                      ![p].saved = 0]
         /\ UNCHANGED <<client, lease, audit>>
    ELSE Completes(p)

(* remove_open_directory deletes all but the markers and the checkouts; a  *)
(* directory that keeps a checkout gives up its reservation.               *)
Emptied(entry) ==
    [entry EXCEPT !.data = {}, !.audit = FALSE,
                  !.reserved = IF entry.checkout THEN 0 ELSE @]

(* The handle of the directory the remover is at.                          *)
Here(p) == Roots[remover[p].root]

EmptyRoot(p) ==
    /\ At(p, "empty")
    /\ LET r == Here(p)
           planned == remover[p].ids[r]
       IN \/ /\ planned = 0 \/ ~Exists(r)
             /\ NextRoot(p) /\ UNCHANGED disk
          \/ /\ planned # 0 /\ Exists(r)
             /\ ~disk[r].owned \/ disk[r].id # planned
             /\ Fails(p, disk)
          \/ /\ planned # 0 /\ disk[r].owned /\ disk[r].id = planned
             /\ disk' = [disk EXCEPT ![r] = Emptied(@)]
             /\ IF disk[r].checkout THEN NextRoot(p)
                ELSE /\ remover' = [remover EXCEPT ![p].at = "unreserve"]
                     /\ UNCHANGED <<client, lease, audit>>
    /\ OnlyRemoval /\ NoFault

(* An entry cannot be deleted.                                             *)
EmptyRootFails(p) ==
    /\ At(p, "empty") /\ Exists(Here(p)) /\ disk[Here(p)].owned
    /\ disk[Here(p)].id = remover[p].ids[Here(p)]
    /\ Fault({})
    /\ \E d \in {disk, [disk EXCEPT ![Here(p)].data = {}]} : TryAgain(p, d)
    /\ OnlyRemoval

(* finalize_empty_directory: the reservation, the ownership marker, the    *)
(* directory.  Its handle stays good whoever deletes the name.             *)
SameDirectory(p) == disk[Here(p)].id = remover[p].ids[Here(p)]

Unreserve(p) ==
    /\ At(p, "unreserve")
    /\ remover' = [remover EXCEPT ![p].at = "disown",
                      ![p].saved = IF SameDirectory(p) THEN disk[Here(p)].reserved
                                                       ELSE 0]
    /\ disk' = IF SameDirectory(p) THEN [disk EXCEPT ![Here(p)].reserved = 0]
                                   ELSE disk
    /\ OnlyRemoval /\ NoFault /\ UNCHANGED <<client, lease, audit>>

Disown(p) ==
    /\ At(p, "disown")
    /\ remover' = [remover EXCEPT ![p].at = "rmdir"]
    /\ disk' = IF SameDirectory(p) THEN [disk EXCEPT ![Here(p)].owned = FALSE]
                                   ELSE disk
    /\ OnlyRemoval /\ NoFault /\ UNCHANGED <<client, lease, audit>>

(* A directory that could not be deleted gets its markers back.            *)
MarkersRestored(p) ==
    [disk EXCEPT ![Here(p)].owned = TRUE,
                 ![Here(p)].reserved = IF remover[p].saved = 0 THEN @
                                       ELSE remover[p].saved]

RemoveDirectory(p) ==
    LET empty == disk[Here(p)] = [Nothing EXCEPT !.id = disk[Here(p)].id]
    IN /\ At(p, "rmdir")
       /\ \/ /\ SameDirectory(p) /\ empty
             /\ disk' = [disk EXCEPT ![Here(p)] = Nothing]
             /\ NextRoot(p) /\ NoFault
          \/ /\ SameDirectory(p)
             /\ IF empty THEN Fault({}) ELSE NoFault
             /\ TryAgain(p, MarkersRestored(p))
          \/ /\ ~SameDirectory(p) /\ NoFault
             /\ IF Exists(Here(p)) THEN Fails(p, disk) ELSE TryAgain(p, disk)
       /\ OnlyRemoval

(* A remover dies: its lease is released by the system, nothing else is.   *)
KillRemover(p) ==
    /\ remover[p].at \in Working
    /\ Fault(IF At(p, "rmdir") THEN {"unmarked"} ELSE {})
    /\ Ends(p, "failed")
    /\ OnlyRemoval /\ UNCHANGED <<disk, audit>>

RemoverStep(p) ==
    \/ DaemonStopped(p) \/ DaemonDidNotStop(p) \/ CompletePrepared(p)
    \/ EmptyRoot(p) \/ Unreserve(p) \/ Disown(p) \/ RemoveDirectory(p)

----------------------------------------------------------------------------
(* remove_user_data, the command of a client.                              *)

ToClient(q, at, n) == client' = [client EXCEPT ![q].at = at, ![q].token = n]

OnlyClient ==
    /\ UNCHANGED <<daemon, boots, token, session, disk, plan, reservations, prep,
                   audit>>
    /\ NoFault

RemoveUserData(q) ==
    /\ client[q].at = "idle"
    /\ \/ /\ Reserved # {}
          /\ client' = [client EXCEPT ![q] = [at |-> "observing_old",
                                              token |-> Reservation]]
          /\ UNCHANGED vars
       \/ /\ Reserved = {} /\ RemovalComplete
          /\ client' = [client EXCEPT ![q] = [at |-> "removed", token |-> 0]]
          /\ UNCHANGED vars
       \/ /\ Reserved = {} /\ Unowned = {} /\ ~RemovalComplete
          /\ daemon = "up" /\ reservations < MaxReservations
          /\ client' = [client EXCEPT ![q] = [at |-> "requesting", token |-> 0]]
          /\ Close(q)
    /\ OnlyClient /\ UNCHANGED <<remover, lease>>

(* wait_for_removal_completion: an audit or the deadline is a failure.     *)
Observe(q) ==
    LET failed == IF client[q].at = "observing_old" THEN "recover" ELSE "failed"
    IN /\ client[q].at \in {"observing", "observing_old"}
       /\ \/ ~FailureAudited(client[q].token) /\ RemovalComplete
             /\ ToClient(q, "removed", 0)
          \/ (FailureAudited(client[q].token) \/ ~RemovalComplete)
             /\ ToClient(q, failed, 0)
       /\ OnlyClient /\ UNCHANGED <<vars, remover, lease>>

(* recover_prepared_removal takes the lease of the reservation it finds.   *)
RecoverPreparedRemoval(q) ==
    /\ client[q].at = "recover"
    /\ IF Reserved # {} /\ lease[Reservation] = 0
       THEN /\ ToClient(q, "recovering", 0)
            /\ remover' = [remover EXCEPT ![q] =
                 [Idle EXCEPT !.at = "waiting", !.token = Reservation]]
            /\ lease' = [lease EXCEPT ![Reservation] = q]
       ELSE ToClient(q, "failed", 0) /\ UNCHANGED <<remover, lease>>
    /\ OnlyClient /\ UNCHANGED vars

(* The user runs the command again.                                        *)
RunAgain(q) ==
    /\ client[q].at \in {"removed", "failed"}
    /\ client' = [client EXCEPT ![q] = [at |-> "idle", token |-> 0]]
    /\ OnlyClient /\ UNCHANGED <<vars, remover, lease>>

ClientStep(q) == RemoveUserData(q) \/ Observe(q) \/ RecoverPreparedRemoval(q)
                   \/ RunAgain(q)

RemovalNext ==
    \/ DaemonStep
    \/ \E q \in Quiescers : PrepareStep(q) \/ ClientStep(q)
    \/ \E n \in HandoffTokens : StartHelper(n)
    \/ \E p \in Removers : RemoverStep(p) \/ EmptyRootFails(p) \/ KillRemover(p)

RemovalSpec == RemovalInit /\ [][RemovalNext]_rvars

(* Processes run: a daemon that stops comes to its end, a request and a    *)
(* remover go on, a helper that was launched starts.  The user runs the    *)
(* command again until it succeeds.  The gate's deadline need not come to  *)
(* the rescue.                                                             *)
RemovalFairness ==
    /\ WF_rvars(RemoveToken \/ DaemonExits \/ Serve)
    /\ WF_rvars(GateStep)
    /\ \A q \in Quiescers :
         /\ WF_rvars(/\ quiescer[q] = "quiesced"
                     /\ \/ Validate(q) \/ RefuseEarly(q) \/ WriteMarker(q)
                        \/ LaunchHelper(q) \/ Respond(q))
         /\ WF_rvars(ClientStep(q))
    /\ \A n \in HandoffTokens : WF_rvars(StartHelper(n))
    /\ \A p \in Removers : WF_rvars(RemoverStep(p))

RemovalFairSpec == RemovalSpec /\ RemovalFairness

----------------------------------------------------------------------------

(* A remover may be at work on a reservation that is not its own: it was   *)
(* launched, or had recovered the lease, before its reservation was        *)
(* withdrawn, or a daemon started when it had deleted the last             *)
(* reservation.  It reads the reservation it finds then, without looking   *)
(* at its own token again.                                                 *)
OldHelper == hits \intersect {"overtaken", "withdrawn"} # {}

(* Data disappears only when no daemon serves from it and no Session runs, *)
(* an old helper apart.                                                    *)
DataIsQuietWhenDeleted ==
    [][\A r \in RootSet :
         disk[r].data \ disk'[r].data # {} =>
             OldHelper \/ (daemon \notin {"up", "stopping"} /\ ~session)]_rvars

(* A reservation keeps every daemon from starting.  It goes away once the  *)
(* user repeats the command, whatever failed and whoever died, except:     *)
(* a killed daemon leaves the token the removers wait for; a remover that  *)
(* dies between the ownership marker and the directory leaves a directory  *)
(* nobody may touch; and the helper that was overtaken puts a reservation  *)
(* into the new daemon's directory.                                        *)
RemovalEnds ==
    Reserved # {} ~>
        Reserved = {} \/ hits \intersect {"killed", "unmarked", "overtaken"} # {}
============================================================================
