------------------------- MODULE MCSessionProgress -------------------------
(* What has to come to an end: what the actor that owns a process tree is  *)
(* asked, with two callers and faults; what the daemon's tasks around a    *)
(* Session are asked, with two clients; and what a client asks over its    *)
(* connection, with every queue of length one.  A behaviour is one of one  *)
(* part, with the others at rest.                                          *)
EXTENDS SessionActor, ClientConnection

CONSTANTS
    a1, c1, c2, NoRecord, Agents, Categories, MaxSubagents, MaxAttentionId,
    Clients, Delivered, MaxDeliveries

VARIABLES
    part,  \* the part that this behaviour is of
    row, reducer, managed, process, lock, spawn, feed, monitor, credential,
    request, token, deliveries

Supervisor == INSTANCE SessionSupervisor
    WITH Attachers <- {}, PlainShell <- FALSE, Structured <- TRUE,
         DatabaseFaults <- FALSE

supervisorVars == <<row, reducer, managed, process, lock, spawn, feed, monitor,
                    credential, request, token, deliveries>>

allVars == <<part, vars, supervisorVars, connectionVars>>

MCAgents == {a1}
MCCategories == {"rate_limit"}
TwoClients == {c1, c2}
MCFewDelivered ==
    { [type |-> "TurnStopped", remaining |-> FALSE],
      [type |-> "SessionEnded"] }

ProgressInit ==
    /\ part \in {"actor", "supervisor", "connection"}
    /\ Init
    /\ Supervisor!Init
    /\ ConnectionInit

ActorPart ==
    /\ part = "actor"
    /\ Next
    /\ UNCHANGED <<part, supervisorVars, connectionVars>>

SupervisorPart ==
    /\ part = "supervisor"
    /\ Supervisor!Next
    /\ UNCHANGED <<part, vars, connectionVars>>

ConnectionPart ==
    /\ part = "connection"
    /\ ConnectionNext
    /\ UNCHANGED <<part, vars, supervisorVars>>

ProgressNext == ActorPart \/ SupervisorPart \/ ConnectionPart

(* A part at rest owes nothing: no action that has to be taken is enabled  *)
(* in its initial state, so its fairness says nothing there.               *)
ProgressSpec ==
    /\ ProgressInit
    /\ [][ProgressNext]_allVars
    /\ Fairness
    /\ Supervisor!Fairness
    /\ ConnectionFairness

(* A published exit reaches the database.                                  *)
ExitIsRecorded == Supervisor!ExitIsRecorded
=============================================================================
