--------------------------- MODULE SessionStatus ---------------------------
(***************************************************************************)
(* The per-Session status reducer of sylvops-core (status.rs and           *)
(* session_state.rs): the record SessionStatusMachine, the provider events *)
(* it accepts and, as operators on that record, what each event, a process *)
(* exit, an acknowledgement and a daemon restart make of it.               *)
(*                                                                         *)
(* The module has no variables: StatusMachine drives one record through    *)
(* these operators, SessionSupervisor lets the daemon's tasks do it.       *)
(***************************************************************************)
EXTENDS Naturals, FiniteSets

CONSTANTS
    Agents,          \* provider subagent identifiers
    MaxSubagents,    \* MAX_TRACKED_ACTIVE_SUBAGENTS
    Categories,      \* failure categories a provider may report for a turn
    MaxAttentionId   \* the largest AttentionEventId (i64::MAX in the code)

ASSUME CapacityAssumption == MaxSubagents \in Nat
ASSUME AttentionIdAssumption == MaxAttentionId \in Nat \ {0}

(***************************************************************************)
(* Types.  An absent attention event (None in the code) is the resolved    *)
(* event with identity 0: AttentionEventId is never 0, the first event     *)
(* gets identity 1, and an absent and a resolved event raise nothing.      *)
(***************************************************************************)
Lifecycles == {"fresh", "starting", "running",
               "exited", "failed", "terminated", "disconnected"}

Terminal == {"exited", "failed", "terminated", "disconnected"}

Activities == {"none", "working", "awaiting_input", "completed",
               "interrupted", "recoverable_failure"}

Reasons == {"input_requested", "successful_completion",
            "recoverable_failure", "terminal_failure"}

Acknowledgements == {"pending", "acknowledged", "resolved"}

NoAttention == [id |-> 0, reason |-> "none", ack |-> "resolved"]

AttentionEvents == [id : 1..MaxAttentionId, reason : Reasons,
                    ack : Acknowledgements]

NoCategory == "none"

(* The failure field also holds two kinds of daemon text: the launch error *)
(* of a Session that never started, and the note a restart leaves.         *)
FailureCategories ==
    Categories \cup {NoCategory, "process_exit_nonzero",
                     "process_exit_without_completion",
                     "launch_error", "daemon_restarted"}

(***************************************************************************)
(* SessionStatusMachine.  Of RemainingWork only is_empty() is ever read,   *)
(* so `remaining' is its negation.                                         *)
(***************************************************************************)
Machines == [lifecycle  : Lifecycles,
             activity   : Activities,
             attention  : AttentionEvents \cup {NoAttention},
             category   : FailureCategories,
             subagents  : SUBSET Agents,
             exhausted  : BOOLEAN,
             remaining  : BOOLEAN]

(* NormalizedProviderEvent.  The conversation identity of TurnStarted is   *)
(* not read by the reducer.                                                *)
Events ==
    [type : {"PromptSubmitted", "TurnStarted", "PermissionRequested",
             "PermissionCheckStarted", "UserInputRequested",
             "InputRequestOpened", "InputRequestsResolved", "ToolStarted",
             "ToolCompleted", "TurnInterrupted", "SessionEnded"}]
      \cup [type : {"SubagentStarted", "SubagentStopped"}, agent : Agents]
      \cup [type : {"TurnStopped"}, remaining : BOOLEAN]
      \cup [type : {"TurnFailed"}, category : Categories]

----------------------------------------------------------------------------
(* Policies on the lifecycle and the attention event.                      *)

LifecycleIsActive(lifecycle) == lifecycle \in {"starting", "running"}

LifecycleAllowsResume(lifecycle) == lifecycle \in Terminal

LifecycleAllowsDeletion(lifecycle) == lifecycle \in Terminal

Effective(attention) == attention.ack # "resolved"

ExpectedReason(activity) ==
    CASE activity = "awaiting_input"      -> "input_requested"
      [] activity = "completed"           -> "successful_completion"
      [] activity = "recoverable_failure" -> "recoverable_failure"
      [] OTHER                            -> "none"

(* SessionStatus::validate.  The timestamp check is left out with the      *)
(* timestamps.                                                             *)
Validate(m) ==
    /\ m.lifecycle # "running" => m.activity = "none"
    /\ m.lifecycle \in {"fresh", "starting"} => m.attention = NoAttention
    /\ m.lifecycle = "running" =>
         ExpectedReason(m.activity)
           = (IF Effective(m.attention) THEN m.attention.reason ELSE "none")
    /\ Effective(m.attention) =>
         CASE m.attention.reason \in {"input_requested", "recoverable_failure"} ->
                \/ ExpectedReason(m.activity) = m.attention.reason
                \/ m.lifecycle = "disconnected"
           [] m.attention.reason = "terminal_failure" ->
                m.lifecycle \in {"failed", "disconnected"}
           [] m.attention.reason = "successful_completion" ->
                \/ m.activity = "completed"
                \/ m.lifecycle \in {"exited", "disconnected"}
           [] OTHER -> FALSE
    /\ m.attention = NoAttention => ExpectedReason(m.activity) = "none"

----------------------------------------------------------------------------
(* The reducer's private steps.                                            *)

(* A condition that is already effective keeps its event and whatever the  *)
(* user made of it, unless it is materially new.                           *)
SetAttentionCondition(m, reason, materiallyNew) ==
    IF ~materiallyNew /\ m.attention.reason = reason /\ Effective(m.attention)
    THEN m
    ELSE [m EXCEPT !.attention = [id |-> m.attention.id + 1,
                                  reason |-> reason, ack |-> "pending"]]

ResolveAttention(m) == [m EXCEPT !.attention.ack = "resolved"]

SetLiveCondition(m, activity, reason) ==
    LET live == [m EXCEPT !.activity = activity,
                          !.category = IF activity = "recoverable_failure"
                                       THEN @ ELSE NoCategory]
    IN  IF reason = "none" THEN ResolveAttention(live)
                           ELSE SetAttentionCondition(live, reason, FALSE)

RenewInputAttention(m) ==
    SetAttentionCondition([m EXCEPT !.activity = "awaiting_input"],
                          "input_requested", TRUE)

NoKnownWork(m) == m.subagents = {} /\ ~m.exhausted /\ ~m.remaining

(* Mutant: a new turn keeps the subagents of the old one.                  *)
StartTurnKeepingAgents(m) ==
    SetLiveCondition([m EXCEPT !.remaining = FALSE], "working", "none")

(* The arms of SessionStatusMachine::apply that do more than one step.     *)
StartTurn(m) ==
    SetLiveCondition([m EXCEPT !.subagents = {}, !.exhausted = FALSE,
                               !.remaining = FALSE], "working", "none")

(* Mutant: every failure is materially new.                                *)
FailTurnAgain(m, category) ==
    SetAttentionCondition([m EXCEPT !.category = category,
                                    !.activity = "recoverable_failure"],
                          "recoverable_failure", TRUE)

FailTurn(m, category) ==
    SetAttentionCondition([m EXCEPT !.category = category,
                                    !.activity = "recoverable_failure"],
                          "recoverable_failure",
                          m.category \notin {NoCategory, category})

(* Mutant: an agent beyond the capacity is forgotten.                      *)
TrackSubagentSilently(m, agent) ==
    IF Cardinality(m.subagents) < MaxSubagents
    THEN [m EXCEPT !.subagents = @ \cup {agent}] ELSE m

TrackSubagent(m, agent) ==
    IF agent \in m.subagents THEN m
    ELSE IF Cardinality(m.subagents) < MaxSubagents
         THEN [m EXCEPT !.subagents = @ \cup {agent}]
         ELSE [m EXCEPT !.exhausted = TRUE]

StartSubagent(m, agent) ==
    IF m.activity = "awaiting_input" THEN TrackSubagent(m, agent)
    ELSE SetLiveCondition(TrackSubagent(m, agent), "working", "none")

StopSubagent(m, agent) == [m EXCEPT !.subagents = @ \ {agent}]

StopTurn(m, remaining) ==
    LET stopped == [m EXCEPT !.remaining = remaining]
    IN  IF NoKnownWork(stopped)
        THEN SetLiveCondition(stopped, "completed", "successful_completion")
        ELSE SetLiveCondition(stopped, "working", "none")

EndSession(m) ==
    IF m.activity \in {"none", "working"} /\ NoKnownWork(m)
    THEN SetLiveCondition(m, "completed", "successful_completion")
    ELSE m

(* SessionStatusMachine::apply.                                            *)
Apply(m, event) ==
    IF m.lifecycle \in Terminal THEN m
    ELSE LET r == [m EXCEPT !.lifecycle = "running"]
             t == event.type
         IN  CASE t = "InputRequestOpened" -> RenewInputAttention(r)
               [] t = "InputRequestsResolved" ->
                    IF r.activity = "awaiting_input"
                    THEN SetLiveCondition(r, "working", "none") ELSE r
               [] t \in {"ToolStarted", "ToolCompleted"} -> r
               [] t = "PermissionCheckStarted" ->
                    SetLiveCondition(r, "working", "none")
               [] t \in {"PromptSubmitted", "TurnStarted"} -> StartTurn(r)
               [] t \in {"PermissionRequested", "UserInputRequested"} ->
                    SetLiveCondition(r, "awaiting_input", "input_requested")
               [] t = "TurnFailed" -> FailTurn(r, event.category)
               [] t = "SubagentStarted" -> StartSubagent(r, event.agent)
               [] t = "SubagentStopped" -> StopSubagent(r, event.agent)
               [] t = "TurnStopped" -> StopTurn(r, event.remaining)
               [] t = "TurnInterrupted" ->
                    SetLiveCondition(r, "interrupted", "none")
               [] t = "SessionEnded" -> EndSession(r)

----------------------------------------------------------------------------
(* A process exit: what the child's exit code was, whether the Session is  *)
(* a plain shell, and whether Stop Session asked for it.                   *)
Exits == [plainShell : BOOLEAN, code : {"zero", "nonzero", "unknown"},
          stopRequested : BOOLEAN]

HasCompletion(m) ==
    m.attention.reason = "successful_completion" /\ Effective(m.attention)

ExitTo(m, lifecycle, category) ==
    [m EXCEPT !.lifecycle = lifecycle, !.activity = "none",
              !.category = category]

ApplyProcessExit(m, exit) ==
    IF exit.stopRequested
    THEN ResolveAttention(ExitTo(m, "terminated", NoCategory))
    ELSE IF (exit.plainShell /\ exit.code = "zero") \/ HasCompletion(m)
    THEN SetAttentionCondition(ExitTo(m, "exited", NoCategory),
                               "successful_completion", FALSE)
    ELSE IF m.activity = "interrupted" /\ exit.code = "zero"
    THEN ResolveAttention(ExitTo(m, "exited", NoCategory))
    ELSE SetAttentionCondition(
           ExitTo(m, "failed", IF exit.code = "nonzero"
                               THEN "process_exit_nonzero"
                               ELSE "process_exit_without_completion"),
           "terminal_failure", FALSE)

(* The reducer works on a clone that is dropped when the attention         *)
(* identity would leave its range.                                         *)
InRange(m) == m.attention.id \in 0..MaxAttentionId

(* SessionStatusMachine::acknowledge_attention, and the database's test of *)
(* the same event.                                                         *)
Acknowledges(m, id, reasons) ==
    /\ m.attention.id = id
    /\ m.attention.ack = "pending"
    /\ m.attention.reason \in reasons

Acknowledge(m) == [m EXCEPT !.attention.ack = "acknowledged"]

OpenedReasons == {"input_requested", "successful_completion",
                  "terminal_failure"}

DismissedReasons == {"recoverable_failure"}

----------------------------------------------------------------------------
(* The rows the database writes without the reducer.                       *)

(* insert_session: the column defaults of a new row.                       *)
NewRow ==
    [lifecycle |-> "starting", activity |-> "none",
     attention |-> NoAttention, category |-> NoCategory,
     subagents |-> {}, exhausted |-> FALSE, remaining |-> FALSE]

MarkRunning(m) == [m EXCEPT !.lifecycle = "running", !.category = NoCategory]

(* from_persisted: the tracking of work in flight is not persisted.        *)
FromPersisted(m) == [m EXCEPT !.subagents = {}, !.exhausted = FALSE,
                              !.remaining = FALSE]

(* finish_session without a transition, for a Session that never started.  *)
StartFailure(m) ==
    [m EXCEPT !.lifecycle = "failed", !.activity = "none",
              !.category = "launch_error",
              !.attention = [id |-> 1, reason |-> "terminal_failure",
                             ack |-> "pending"]]

(* reconcile_sessions, at daemon start.                                    *)
Reconcile(m) ==
    IF LifecycleIsActive(m.lifecycle)
    THEN [FromPersisted(m) EXCEPT !.lifecycle = "disconnected",
                                  !.activity = "none",
                                  !.category = IF @ = NoCategory
                                               THEN "daemon_restarted" ELSE @]
    ELSE FromPersisted(m)
============================================================================
