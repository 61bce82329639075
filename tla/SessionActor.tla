---------------------------- MODULE SessionActor ----------------------------
(***************************************************************************)
(* The task that owns one Session's process tree (Actor::run, session.rs): *)
(* it waits for the child and its reader, stops the tree on request, and   *)
(* publishes the exit once.  The processes run on their own; a kill signal *)
(* may be refused, and a killed tree may outlast the reap deadline.        *)
(***************************************************************************)
EXTENDS Naturals, FiniteSets

CONSTANTS
    Callers,     \* requests that may stop the Session
    MaxFaults    \* bound on refused kills and missed reap deadlines

ASSUME ActorAssumption == MaxFaults \in Nat

VARIABLES
    child,       \* the child process: "alive", or "dead" and reaped
    offspring,   \* whether descendants of the child are alive
    doomed,      \* whether the tree was sent a kill signal
    events,      \* actor events on their way: Exited, ReaderClosed, ForceStop
    timer,       \* whether the two-second timer of a stop is running
    actor,       \* the fields of Actor and the locals of run()
    treeEmpty,   \* the process_tree_empty watch
    caller,      \* what each Caller knows of its stop request
    faults       \* faults so far

vars == <<child, offspring, doomed, events, timer, actor, treeEmpty, caller,
          faults>>

processes == <<child, offspring>>

Init ==
    /\ child = "alive"
    /\ offspring = FALSE
    /\ doomed = FALSE
    /\ events = {}
    /\ timer = FALSE
    /\ actor = [step |-> "select", readerClosed |-> FALSE,
                pendingExit |-> FALSE, published |-> FALSE,
                stopRequested |-> FALSE, runtimeFailed |-> FALSE,
                replies |-> {}]
    /\ treeEmpty = FALSE
    /\ caller = [c \in Callers |-> "idle"]
    /\ faults = 0

TreeIsEmpty == child = "dead" /\ ~offspring

----------------------------------------------------------------------------
(* The processes and the threads that watch them.                          *)

Fork ==
    /\ ~TreeIsEmpty /\ ~doomed /\ ~offspring
    /\ offspring' = TRUE
    /\ UNCHANGED <<child, doomed, events, timer, actor, treeEmpty, caller,
                   faults>>

(* spawn_waiter reaps the child.                                           *)
ChildExits ==
    /\ child = "alive"
    /\ child' = "dead"
    /\ events' = events \cup {"Exited"}
    /\ UNCHANGED <<offspring, doomed, timer, actor, treeEmpty, caller, faults>>

OffspringExits ==
    /\ offspring
    /\ offspring' = FALSE
    /\ UNCHANGED <<child, doomed, events, timer, actor, treeEmpty, caller,
                   faults>>

(* spawn_reader: the terminal is closed, perhaps before the child is gone; *)
(* descendants that keep it open keep the reader.                          *)
ReaderCloses ==
    /\ ~actor.readerClosed
    /\ "ReaderClosed" \notin events
    /\ events' = events \cup {"ReaderClosed"}
    /\ UNCHANGED <<child, offspring, doomed, timer, actor, treeEmpty, caller,
                   faults>>

TimerFires ==
    /\ timer
    /\ timer' = FALSE
    /\ events' = events \cup {"ForceStop"}
    /\ UNCHANGED <<child, offspring, doomed, actor, treeEmpty, caller, faults>>

----------------------------------------------------------------------------
(* Actor::run.  Every turn of the loop handles one command or event and    *)
(* then looks whether the exit can be published.                           *)

(* ProcessTree::terminate, refused or not.                                 *)
Terminate(refused) ==
    /\ refused => faults < MaxFaults
    /\ faults' = IF refused THEN faults + 1 ELSE faults
    /\ doomed' = (doomed \/ ~refused)

NoSignal == UNCHANGED <<doomed, faults>>

(* The replies in stop_replies are sent.                                   *)
Answer(outcome) ==
    caller' = [c \in Callers |-> IF c \in actor.replies THEN outcome
                                 ELSE caller[c]]

(* Mutant: a stop publishes the exit and ends without emptying the tree.   *)
TurnEarly(a) ==
    IF a.published \/ ~a.pendingExit
         \/ ~(a.readerClosed \/ a.stopRequested \/ a.runtimeFailed) THEN a
    ELSE IF a.stopRequested \/ a.runtimeFailed
    THEN [a EXCEPT !.step = "gone", !.published = TRUE]
    ELSE [a EXCEPT !.published = TRUE]

(* The end of a turn: a natural exit is published once the reader closed;  *)
(* after a stop or a runtime failure the tree is emptied first.            *)
Turn(a) ==
    IF a.published \/ ~a.pendingExit
         \/ ~(a.readerClosed \/ a.stopRequested \/ a.runtimeFailed) THEN a
    ELSE IF a.stopRequested \/ a.runtimeFailed THEN [a EXCEPT !.step = "kill"]
    ELSE [a EXCEPT !.published = TRUE]

Takes(event) ==
    /\ actor.step = "select"
    /\ event \in events
    /\ events' = events \ {event}

HandleExited ==
    /\ Takes("Exited")
    /\ actor' = Turn([actor EXCEPT !.pendingExit = TRUE])
    /\ NoSignal
    /\ UNCHANGED <<processes, timer, treeEmpty, caller>>

HandleReaderClosed ==
    /\ Takes("ReaderClosed")
    /\ actor' = Turn([actor EXCEPT !.readerClosed = TRUE])
    /\ NoSignal
    /\ UNCHANGED <<processes, timer, treeEmpty, caller>>

(* A kill that is refused is the answer to every stop so far.              *)
HandleForceStop(refused) ==
    /\ Takes("ForceStop")
    /\ IF actor.pendingExit
       THEN ~refused /\ NoSignal /\ actor' = Turn(actor) /\ UNCHANGED caller
       ELSE /\ Terminate(refused)
            /\ IF refused
               THEN Answer("error") /\ actor' = [actor EXCEPT !.replies = {}]
               ELSE UNCHANGED <<actor, caller>>
    /\ UNCHANGED <<processes, timer, treeEmpty>>

(* Mutant: nothing forces a stop that the child ignores.                   *)
StopWithoutTimer(c) ==
    /\ caller[c] = "idle"
    /\ actor.step = "select"
    /\ caller' = [caller EXCEPT ![c] = "asked"]
    /\ actor' = IF actor.published
                THEN [actor EXCEPT !.replies = {c}, !.step = "kill"]
                ELSE Turn([actor EXCEPT !.replies = @ \cup {c},
                                        !.stopRequested = TRUE])
    /\ UNCHANGED <<processes, doomed, events, timer, treeEmpty, faults>>

(* Command::Stop.  The first one starts the timer; of an exited Session it *)
(* clears what is left of the tree at once.                                *)
Stop(c) ==
    /\ caller[c] = "idle"
    /\ actor.step = "select"
    /\ caller' = [caller EXCEPT ![c] = "asked"]
    /\ actor' = IF actor.published
                THEN [actor EXCEPT !.replies = {c}, !.step = "kill"]
                ELSE Turn([actor EXCEPT !.replies = @ \cup {c},
                                        !.stopRequested = TRUE])
    /\ timer' = (timer \/ (~actor.published /\ ~actor.stopRequested))
    /\ UNCHANGED <<processes, doomed, events, treeEmpty, faults>>

(* A stop that finds the actor gone.                                       *)
StopTooLate(c) ==
    /\ caller[c] = "idle"
    /\ actor.step = "gone"
    /\ caller' = [caller EXCEPT ![c] = "error"]
    /\ UNCHANGED <<processes, doomed, events, timer, actor, treeEmpty, faults>>

(* The bridge fails, or reports that it did.                               *)
RuntimeFails(refused) ==
    /\ actor.step = "select"
    /\ actor' = Turn([actor EXCEPT !.runtimeFailed = TRUE])
    /\ Terminate(refused)
    /\ UNCHANGED <<processes, events, timer, treeEmpty, caller>>

(* Command::InspectProcessTree.                                            *)
InspectProcessTree ==
    /\ actor.step = "select"
    /\ treeEmpty' = (treeEmpty \/ TreeIsEmpty)
    /\ actor' = Turn(actor)
    /\ UNCHANGED <<processes, doomed, events, timer, caller, faults>>

(* Output, and the commands on the terminal and its clients: for the exit  *)
(* only the end of their turn counts.                                      *)
Serve ==
    /\ actor.step = "select"
    /\ actor' = Turn(actor)
    /\ UNCHANGED <<processes, doomed, events, timer, treeEmpty, caller, faults>>

(* The last SessionHandle is dropped: the tree is killed, and nobody waits *)
(* for it to become empty.                                                 *)
HandlesDropped(refused) ==
    /\ actor.step = "select"
    /\ \A c \in Callers : caller[c] # "asked"
    /\ actor' = [actor EXCEPT !.step = "dropped"]
    /\ IF treeEmpty THEN ~refused /\ NoSignal ELSE Terminate(refused)
    /\ UNCHANGED <<processes, events, timer, treeEmpty, caller>>

----------------------------------------------------------------------------
(* terminate_process_tree: kill, then poll until the tree is empty.  The   *)
(* actor does nothing else meanwhile.                                      *)

Kill ==
    /\ actor.step = "kill"
    /\ Terminate(FALSE)
    /\ actor' = [actor EXCEPT !.step = "reap"]
    /\ UNCHANGED <<processes, events, timer, treeEmpty, caller>>

(* The kill is refused or the deadline passes: the stops are answered with *)
(* an error and the actor goes on.                                         *)
ReapFails ==
    /\ actor.step \in {"kill", "reap"}
    /\ faults < MaxFaults
    /\ faults' = faults + 1
    /\ Answer("error")
    /\ actor' = [actor EXCEPT !.step = "select", !.replies = {}]
    /\ UNCHANGED <<processes, doomed, events, timer, treeEmpty>>

Reaped ==
    /\ actor.step = "reap"
    /\ TreeIsEmpty
    /\ treeEmpty' = TRUE
    /\ Answer("ok")
    /\ actor' = [actor EXCEPT !.step = "gone", !.replies = {},
                              !.published = TRUE]
    /\ UNCHANGED <<processes, doomed, events, timer, faults>>

Processes == Fork \/ ChildExits \/ OffspringExits \/ ReaderCloses

Handles ==
    \/ HandleExited
    \/ HandleReaderClosed
    \/ \E refused \in BOOLEAN : HandleForceStop(refused)

Reaps == Kill \/ Reaped

Next ==
    \/ Processes
    \/ TimerFires
    \/ Handles
    \/ Reaps
    \/ ReapFails
    \/ \E c \in Callers : Stop(c) \/ StopTooLate(c)
    \/ \E refused \in BOOLEAN : RuntimeFails(refused) \/ HandlesDropped(refused)
    \/ InspectProcessTree
    \/ Serve

Spec == Init /\ [][Next]_vars

(* The actor and the timer run, and killed processes die.  Nothing makes a *)
(* process that was not killed exit, and no kill has to be refused.        *)
Fairness ==
    /\ WF_vars(TimerFires)
    /\ \A event \in {"Exited", "ReaderClosed", "ForceStop"} :
         WF_vars(event \in events /\ Handles)
    /\ WF_vars(Reaps)
    /\ WF_vars(doomed /\ ChildExits)
    /\ WF_vars(doomed /\ OffspringExits)

FairSpec == Spec /\ Fairness

----------------------------------------------------------------------------
(* Every variable has its type, and the faults stay within their bound.    *)
TypeOK ==
    /\ child \in {"alive", "dead"}
    /\ offspring \in BOOLEAN
    /\ doomed \in BOOLEAN
    /\ events \subseteq {"Exited", "ReaderClosed", "ForceStop"}
    /\ timer \in BOOLEAN
    /\ actor \in [step : {"select", "kill", "reap", "gone", "dropped"},
                  readerClosed : BOOLEAN, pendingExit : BOOLEAN,
                  published : BOOLEAN, stopRequested : BOOLEAN,
                  runtimeFailed : BOOLEAN, replies : SUBSET Callers]
    /\ treeEmpty \in BOOLEAN
    /\ caller \in [Callers -> {"idle", "asked", "ok", "error"}]
    /\ faults \in 0..MaxFaults

(* A stop that is answered with success has left no process of the tree,   *)
(* and so has an actor that ended of itself: not the child, not a          *)
(* descendant that outlived it.                                            *)
StopLeavesNothing ==
    (\E c \in Callers : caller[c] = "ok") \/ actor.step = "gone"
      => TreeIsEmpty

(* The exit that others act on comes after the child's death, and the      *)
(* confirmation of an empty tree is never premature.                       *)
ConfirmationIsHonest ==
    /\ actor.published => child = "dead"
    /\ treeEmpty => TreeIsEmpty

(* Whoever waits for an answer is in stop_replies and nobody else: no      *)
(* refused kill, missed deadline, second stop or exit in between loses a   *)
(* reply or answers it twice.                                              *)
RepliesAreHeld == actor.replies = {c \in Callers : caller[c] = "asked"}

(* The one kill of a requested stop was refused and the child goes on.     *)
KillSpent ==
    /\ actor.stopRequested /\ ~actor.pendingExit
    /\ ~timer /\ "ForceStop" \notin events
    /\ ~doomed /\ faults > 0

(* A caller of stop() gets an answer, though the child may ignore the end  *)
(* of its input, its descendants may outlive it and the tree may miss its  *)
(* deadline.  Only a stop that is repeated after the kill was refused may  *)
(* wait: no second kill is tried.                                          *)
StopIsAnswered ==
    \A c \in Callers : caller[c] = "asked" ~> (caller[c] # "asked" \/ KillSpent)
=============================================================================
