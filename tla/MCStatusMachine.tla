-------------------------- MODULE MCStatusMachine --------------------------
(* StatusMachine and CodexBridge for TLC: three agents against a capacity  *)
(* of two, so that tracking overflows, and five attention identities; the  *)
(* bridge with two turns and an app server that asks once too often.       *)
EXTENDS CodexBridge, TLC

CONSTANTS a1, a2, a3

(* Turns, requests and questions are told apart, and no more.              *)
MCSymmetry ==
    Permutations(Turns) \cup Permutations(Requests) \cup Permutations(Items)

MCAgents == {a1, a2, a3}
MCCategories == {"rate_limit", "provider_unavailable"}

(* What normalize_lifecycle_event makes of the Codex hooks; one agent.     *)
MCHooks ==
    { [type |-> type] : type \in {"TurnStarted", "SessionEnded",
        "PromptSubmitted", "PermissionCheckStarted", "ToolStarted",
        "ToolCompleted", "TurnInterrupted"} }
    \cup { [type |-> "TurnStopped", remaining |-> FALSE] }
    \cup { [type |-> type, agent |-> a1] :
              type \in {"SubagentStarted", "SubagentStopped"} }
============================================================================
