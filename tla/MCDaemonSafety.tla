--------------------------- MODULE MCDaemonSafety --------------------------
(* The daemon's tasks around a Session, for TLC: one client that stops it, *)
(* one that attaches, one event of each kind that matters to the tasks,    *)
(* and a database that fails.  Beside it the daemon itself: two commands   *)
(* that start one, after one that may have been killed.  And what the two  *)
(* clients make of its slowest answers, those that it has from GitHub, and *)
(* of two requests that probe and launch one provider.  A behaviour is of  *)
(* one part, with the others at rest.                                      *)
EXTENDS SessionSupervisor, DaemonStartup, GitHubModal, ProviderRuntime

CONSTANTS a1, c1, c3, p1, r1

MCPaths == <<"first", "second">>

VARIABLE part  \* the part that this behaviour is of

(* Work, a question, a failure, a completion, a subagent and the end.      *)
MCDelivered ==
    { [type |-> "PromptSubmitted"], [type |-> "InputRequestOpened"],
      [type |-> "TurnFailed", category |-> "rate_limit"],
      [type |-> "TurnStopped", remaining |-> FALSE],
      [type |-> "SubagentStarted", agent |-> a1],
      [type |-> "SessionEnded"] }

(* The desktop starts on the first Project, and all Projects with the same *)
(* repository.                                                             *)
DaemonInit ==
    /\ part \in {"supervisor", "startup", "surface", "modal", "provider"}
    /\ Init
    /\ StartupInit
    /\ part # "startup" => socketFile = Nobody
    /\ SurfaceInit
    /\ here = p1 /\ repository = [p \in Projects |-> r1]
    /\ ModalInit
    /\ ProviderInit
    /\ part # "provider" => adapter = "Codex" /\ discovery = NoDiscovery

SupervisorPart ==
    /\ part = "supervisor"
    /\ Next
    /\ UNCHANGED <<part, startupVars, surfaceVars, modalVars, providerVars>>

StartupPart ==
    /\ part = "startup"
    /\ StartupNext
    /\ UNCHANGED <<part, vars, surfaceVars, modalVars, providerVars>>

SurfacePart ==
    /\ part = "surface"
    /\ SurfaceNext
    /\ UNCHANGED <<part, vars, startupVars, modalVars, providerVars>>

ModalPart ==
    /\ part = "modal"
    /\ ModalNext
    /\ UNCHANGED <<part, vars, startupVars, surfaceVars, providerVars>>

ProviderPart ==
    /\ part = "provider"
    /\ ProviderNext
    /\ UNCHANGED <<part, vars, startupVars, surfaceVars, modalVars>>

DaemonNext == SupervisorPart \/ StartupPart \/ SurfacePart \/ ModalPart \/ ProviderPart

DaemonSpec ==
    DaemonInit
    /\ [][DaemonNext]_<<part, vars, startupVars, surfaceVars, modalVars, providerVars>>
============================================================================
