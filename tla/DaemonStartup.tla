--------------------------- MODULE DaemonStartup ---------------------------
(***************************************************************************)
(* How one daemon comes to own the user's data, and how it lets go: the    *)
(* start and the end of the process (daemon.rs), the socket that stands    *)
(* for the ownership (ipc.rs), the token file beside it (runtime.rs), and  *)
(* the command that starts a daemon when it reaches none (main.rs).        *)
(*                                                                         *)
(* This is the Unix build, where the endpoint is a file: it outlives a     *)
(* daemon that is killed, and whoever starts next has to tell such a file  *)
(* from one that is in use.  A Windows pipe name has one first instance    *)
(* and goes with its process.                                              *)
(***************************************************************************)
EXTENDS Naturals, FiniteSets

CONSTANTS
    Daemons,     \* processes of `sylvops daemon run'
    Former,      \* the one that ran before, and may have been killed
    Starters,    \* processes of start_daemon
    Nobody,      \* no daemon, or no file
    MaxMishaps   \* bound: daemons killed, and starts that fail by themselves

ASSUME StartupAssumption ==
    /\ Former \in Daemons
    /\ Nobody \notin Daemons
    /\ MaxMishaps \in Nat

VARIABLES
    socketFile,   \* whose socket the file at the endpoint is
    listening,    \* the daemons whose socket accepts connections
    tokenFile,    \* whose authentication token the file holds
    place,        \* where each daemon process is
    running,      \* the daemons with a live Session
    recorded,     \* those whose Session the database has as active
    start,        \* where each start_daemon is
    child,        \* the process it spawned
    seen,         \* what it read of the token, and whom it is connected to
    mishaps,
    stolen        \* a starting daemon has unlinked the socket of a live one

startupVars == <<socketFile, listening, tokenFile, place, running, recorded,
                 start, child, seen, mishaps, stolen>>

(* A daemon goes through these from the spawn to the exit; it has the      *)
(* database open in Owning, and its listener in Bound.                     *)
Owning == {"token", "serving", "stopping"}
Bound == Owning \cup {"setup", "database", "compare", "unlink", "drop", "close"}

Unseen == [token |-> Nobody, peer |-> Nobody]

(* A daemon that was killed while it served left both files and the record *)
(* of a live Session; one that was killed on its way, less.                *)
StartupInit ==
    /\ \/ /\ socketFile \in {Nobody, Former}
          /\ tokenFile = Nobody /\ recorded = {}
       \/ /\ socketFile = Former /\ tokenFile = Former
          /\ recorded \in {{}, {Former}}
    /\ listening = {} /\ running = {}
    /\ place = [d \in Daemons |-> IF d = Former THEN "gone" ELSE "unborn"]
    /\ start = [s \in Starters |-> "idle"]
    /\ child = [s \in Starters |-> Nobody]
    /\ seen = [s \in Starters |-> Unseen]
    /\ mishaps = 0 /\ stolen = FALSE

Connectable == socketFile \in listening

paths == <<socketFile, listening, tokenFile>>
sessions == <<running, recorded>>
callers == <<start, child, seen>>

Goes(d, from, to) ==
    /\ place[d] = from
    /\ place' = [place EXCEPT ![d] = to]
    /\ UNCHANGED callers

----------------------------------------------------------------------------
(* bind_unix.                                                              *)

(* symlink_metadata.                                                       *)
LookForSocket(d) ==
    /\ Goes(d, "look", IF socketFile = Nobody THEN "bind" ELSE "connect")
    /\ UNCHANGED <<paths, sessions, mishaps, stolen>>

(* The live connection probe.                                              *)
ProbeSocket(d) ==
    /\ Goes(d, "connect", IF Connectable THEN "gone" ELSE "remove")
    /\ UNCHANGED <<paths, sessions, mishaps, stolen>>

(* remove_file: whatever is there by now.                                  *)
RemoveStaleSocket(d) ==
    /\ Goes(d, "remove", IF socketFile = Nobody THEN "gone" ELSE "bind")
    /\ socketFile' = Nobody
    /\ stolen' = (stolen \/ (socketFile # Nobody
                              /\ place[socketFile] \in Bound \cup {"listen", "permit"}))
    /\ UNCHANGED <<listening, tokenFile, sessions, mishaps>>

(* UnixListener::bind is two system calls: a file that exists is an error, *)
(* and a bound socket refuses connections until it listens.                *)
BindSocket(d) ==
    /\ Goes(d, "bind", IF socketFile = Nobody THEN "listen" ELSE "gone")
    /\ socketFile' = IF socketFile = Nobody THEN d ELSE socketFile
    /\ UNCHANGED <<listening, tokenFile, sessions, mishaps, stolen>>

ListenOnSocket(d) ==
    /\ Goes(d, "listen", "permit")
    /\ listening' = listening \cup {d}
    /\ UNCHANGED <<socketFile, tokenFile, sessions, mishaps, stolen>>

(* set_permissions; the file may have gone, and then so does the socket.   *)
PermitOwner(d) ==
    /\ Goes(d, "permit", IF socketFile = Nobody THEN "gone" ELSE "setup")
    /\ listening' = IF socketFile = Nobody THEN listening \ {d} ELSE listening
    /\ UNCHANGED <<socketFile, tokenFile, sessions, mishaps, stolen>>

----------------------------------------------------------------------------
(* run_with_handoff_launchers.                                             *)

(* The hook receiver, the providers and the upgrade coordinator.           *)
Prepare(d) ==
    /\ Goes(d, "setup", "database")
    /\ UNCHANGED <<paths, sessions, mishaps, stolen>>

(* Any of them, the database or the token can fail: the listener is        *)
(* dropped.                                                                *)
PrepareFails(d) ==
    /\ place[d] \in {"setup", "database", "token"}
    /\ Goes(d, place[d], "drop")
    /\ mishaps < MaxMishaps
    /\ mishaps' = mishaps + 1
    /\ UNCHANGED <<paths, sessions, stolen>>

(* open, and reconcile_after_restart: no Session in the database is active *)
(* any more.                                                               *)
ReconcileAfterRestart(d) ==
    /\ Goes(d, "database", "token")
    /\ recorded' = {}
    /\ UNCHANGED <<paths, running, mishaps, stolen>>

WriteToken(d) ==
    /\ Goes(d, "token", "serving")
    /\ tokenFile' = d
    /\ UNCHANGED <<socketFile, listening, sessions, mishaps, stolen>>

LaunchSession(d) ==
    /\ Goes(d, "serving", "serving")
    /\ d \notin running
    /\ running' = running \cup {d}
    /\ recorded' = recorded \cup {d}
    /\ UNCHANGED <<paths, mishaps, stolen>>

(* Mutant: the socket is given up when the daemon stops accepting.         *)
ShutdownCloses(d) ==
    /\ Goes(d, "serving", "stopping")
    /\ socketFile' = Nobody
    /\ listening' = listening \ {d}
    /\ UNCHANGED <<tokenFile, sessions, mishaps, stolen>>

(* An authenticated ShutdownDaemon, an upgrade or a data removal.          *)
Shutdown(d) ==
    /\ Goes(d, "serving", "stopping")
    /\ UNCHANGED <<paths, sessions, mishaps, stolen>>

(* stop_all_sessions, and the database is closed.                          *)
StopAllSessions(d) ==
    /\ Goes(d, "stopping", "compare")
    /\ running' = running \ {d}
    /\ recorded' = recorded \ {d}
    /\ UNCHANGED <<paths, mishaps, stolen>>

(* remove_token_if_owned reads the file and then removes it.               *)
CompareToken(d) ==
    /\ Goes(d, "compare", IF tokenFile = d THEN "unlink" ELSE "drop")
    /\ UNCHANGED <<paths, sessions, mishaps, stolen>>

RemoveToken(d) ==
    /\ Goes(d, "unlink", "drop")
    /\ tokenFile' = Nobody
    /\ UNCHANGED <<socketFile, listening, sessions, mishaps, stolen>>

(* Drop of LocalListener: the file at its path, if it is a socket; then    *)
(* the descriptor.                                                         *)
DropListener(d) ==
    /\ Goes(d, "drop", "close")
    /\ socketFile' = Nobody
    /\ UNCHANGED <<listening, tokenFile, sessions, mishaps, stolen>>

CloseSocket(d) ==
    /\ Goes(d, "close", "gone")
    /\ listening' = listening \ {d}
    /\ UNCHANGED <<socketFile, tokenFile, sessions, mishaps, stolen>>

(* A killed daemon takes its Sessions along and leaves both files.         *)
DaemonKilled(d) ==
    /\ place[d] \notin {"unborn", "gone"}
    /\ Goes(d, place[d], "gone")
    /\ mishaps < MaxMishaps
    /\ mishaps' = mishaps + 1
    /\ listening' = listening \ {d}
    /\ running' = running \ {d}
    /\ UNCHANGED <<socketFile, tokenFile, recorded, stolen>>

----------------------------------------------------------------------------
(* start_daemon, and DaemonClient::connect in it.                          *)

daemonVars == <<paths, place, sessions, mishaps, stolen>>

Answers(s, next) ==
    /\ start' = [start EXCEPT ![s] = next]
    /\ seen' = [seen EXCEPT ![s] = Unseen]
    /\ UNCHANGED <<child, daemonVars>>

(* After a connection that failed: the first time a daemon is spawned; in  *)
(* the loop the child is looked at before the next attempt.                *)
Missed(s) == IF start[s] = "asks" THEN "spawns" ELSE "looks"

ReadToken(s) ==
    /\ start[s] \in {"idle", "asks", "polls"}
    /\ seen[s] = Unseen
    /\ IF tokenFile = Nobody
       THEN Answers(s, IF start[s] = "polls" THEN "looks" ELSE "spawns")
       ELSE /\ seen' = [seen EXCEPT ![s].token = tokenFile]
            /\ start' = [start EXCEPT ![s] = IF @ = "idle" THEN "asks" ELSE @]
            /\ UNCHANGED <<child, daemonVars>>

ConnectSocket(s) ==
    /\ seen[s].token # Nobody /\ seen[s].peer = Nobody
    /\ IF Connectable
       THEN /\ seen' = [seen EXCEPT ![s].peer = socketFile]
            /\ UNCHANGED <<start, child, daemonVars>>
       ELSE Answers(s, Missed(s))

(* The Hello waits in the backlog until the daemon serves or goes; it is   *)
(* refused when the token is another daemon's.                             *)
Handshake(s) ==
    /\ seen[s].peer # Nobody
    /\ \/ /\ place[seen[s].peer] = "serving"
          /\ Answers(s, IF seen[s].token = seen[s].peer THEN "ready" ELSE Missed(s))
       \/ /\ seen[s].peer \notin listening
          /\ Answers(s, Missed(s))

SpawnDaemon(s) ==
    /\ start[s] = "spawns"
    /\ \E d \in Daemons : place[d] = "unborn"
    /\ LET d == CHOOSE d \in Daemons : place[d] = "unborn" IN
          /\ place' = [place EXCEPT ![d] = "look"]
          /\ child' = [child EXCEPT ![s] = d]
    /\ start' = [start EXCEPT ![s] = "polls"]
    /\ UNCHANGED <<paths, sessions, mishaps, stolen, seen>>

(* try_wait: the child has exited before anyone answered; then the         *)
(* deadline.                                                               *)
LookAtChild(s) ==
    /\ start[s] = "looks"
    /\ \/ Answers(s, "failed")
       \/ place[child[s]] # "gone" /\ Answers(s, "polls")

DaemonStep(d) ==
    \/ LookForSocket(d) \/ ProbeSocket(d) \/ RemoveStaleSocket(d)
    \/ BindSocket(d) \/ ListenOnSocket(d) \/ PermitOwner(d)
    \/ Prepare(d) \/ ReconcileAfterRestart(d) \/ WriteToken(d)
    \/ StopAllSessions(d) \/ CompareToken(d) \/ RemoveToken(d)
    \/ DropListener(d) \/ CloseSocket(d)

StartupNext ==
    \/ \E d \in Daemons :
          \/ DaemonStep(d) \/ PrepareFails(d) \/ LaunchSession(d)
          \/ Shutdown(d) \/ DaemonKilled(d)
    \/ \E s \in Starters :
          ReadToken(s) \/ ConnectSocket(s) \/ Handshake(s) \/ SpawnDaemon(s)
             \/ LookAtChild(s)

StartupSpec == StartupInit /\ [][StartupNext]_startupVars

----------------------------------------------------------------------------
(* "One daemon owns SQLite, Git mutations, PTYs, and provider processes":  *)
(* no two processes have the database open.  bind_unix does not keep this  *)
(* promise: the file that it removes need not be the one that it probed.   *)
OneDaemon == Cardinality({d \in Daemons : place[d] \in Owning}) <= 1

(* Unless a socket was stolen there is one daemon at a time: what binds    *)
(* the socket first keeps the others from the database until it closed it. *)
OneDaemonUnlessStolen == stolen \/ OneDaemon
============================================================================
