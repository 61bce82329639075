---------------------------- MODULE CodexBridge ----------------------------
(***************************************************************************)
(* A Codex Session with its structured runtime: the bridge between the     *)
(* native terminal and the app server, the InputTracker that reads what    *)
(* passes (codex_bridge.rs), and the status record that its events and the *)
(* observational hooks both change (daemon.rs).  The terminal and the app  *)
(* server may send anything at any time.  A Session without a bridge is    *)
(* StatusMachine.                                                          *)
(***************************************************************************)
EXTENDS StatusMachine, Sequences

CONSTANTS
    Threads,         \* conversations of the app server
    Turns,
    Requests,        \* identities of the app server's requests
    Items,           \* asynchronous question messages
    ThreadIds,       \* identities of the terminal's thread requests
    Hooks,           \* events the Codex hooks report
    RequestLimit,    \* REQUEST_LIMIT
    RequestIdLimit,  \* REQUEST_ID_LIMIT
    EventCapacity,   \* of the channel of runtime events
    None

(* The Codex hooks only observe: normalize_lifecycle_event makes no input  *)
(* request of any of them.  Codex turns fail in one category.              *)
ASSUME BridgeAssumption ==
    /\ Hooks \subseteq Events
    /\ \A hook \in Hooks :
          hook.type \notin {"PermissionRequested", "UserInputRequested",
                           "InputRequestOpened"}
    /\ "provider_unavailable" \in Categories
    /\ None \notin Items
    /\ {RequestLimit, RequestIdLimit, EventCapacity} \subseteq Nat \ {0}

VARIABLES
    link,      \* the bridge: "none", "connecting", "open", "closed"
    tracker,   \* the InputTracker
    events,    \* runtime events the daemon has not applied
    identity,  \* the conversation the Session's row has
    answered,  \* history: the open question was replied to
    leftover   \* history: answer_request is a reply to an earlier question

bridgeVars == <<link, tracker, events, identity, answered, leftover>>
sessionVars == <<vars, bridgeVars>>

NoTracker ==
    [conversation |-> None, turn |-> None, pending |-> {}, seen |-> {},
     threadRequests |-> {}, question |-> None, answer |-> FALSE,
     pausing |-> FALSE, turnFinished |-> FALSE]

(* A new Session, or one that resumes a known conversation.                *)
BridgeInit ==
    /\ Init
    /\ link \in {"none", "connecting"}
    /\ tracker = NoTracker
    /\ events = <<>>
    /\ identity \in {None} \cup Threads
    /\ answered = FALSE
    /\ leftover = FALSE

----------------------------------------------------------------------------
(* forward.                                                                *)

(* The terminal connects with the token; nobody else can from then on.     *)
Connect ==
    /\ link = "connecting"
    /\ link' = "open"
    /\ UNCHANGED <<vars, tracker, events, identity, answered, leftover>>

(* A deadline, a broken transport, the end of the app server, a message    *)
(* for a thread the bridge does not follow that wants an answer, or one    *)
(* that is not understood.                                                 *)
Close ==
    /\ link \in {"connecting", "open"}
    /\ link' = "closed"
    /\ UNCHANGED <<vars, tracker, events, identity, answered, leftover>>

(* What a handled message makes of the tracker, and the events it sends.   *)
Sends(t, sent) ==
    /\ Len(events) + Len(sent) <= EventCapacity
    /\ tracker' = t
    /\ events' = events \o sent
    /\ UNCHANGED <<vars, link, identity>>

(* The message is refused: forward returns.                                *)
Refuses ==
    /\ link' = "closed"
    /\ UNCHANGED <<vars, tracker, events, identity, answered, leftover>>

RuntimeEvent(event) == [event |-> event, conversation |-> tracker.conversation]

Opened == RuntimeEvent([type |-> "InputRequestOpened"])
InputResolved == RuntimeEvent([type |-> "InputRequestsResolved"])
Prompted == RuntimeEvent([type |-> "PromptSubmitted"])

----------------------------------------------------------------------------
(* client_message; a message that it refuses is answered and goes nowhere. *)

Waits == tracker.pending # {} \/ tracker.question # None

ThreadRequest(id, resumes) ==
    /\ link = "open"
    /\ ~(resumes /\ tracker.pending # {})
    /\ Cardinality(tracker.threadRequests) < RequestLimit
    /\ Sends([tracker EXCEPT !.threadRequests = @ \cup {id}], <<>>)
    /\ UNCHANGED <<answered, leftover>>

(* turn/start with some input, which is a reply when a question is open.   *)
TurnStart ==
    /\ link = "open"
    /\ tracker.pending = {}
    /\ tracker.question # None
    /\ Sends([tracker EXCEPT !.answer = TRUE], <<>>)
    /\ answered' = TRUE
    /\ leftover' = FALSE

----------------------------------------------------------------------------
(* consume_private_response and server_message.                            *)

(* The app server answers the pause the bridge asked for.                  *)
PauseAnswered(refused) ==
    /\ link = "open"
    /\ tracker.pausing
    /\ IF refused /\ ~tracker.turnFinished THEN Refuses
       ELSE Sends(tracker, <<>>) /\ UNCHANGED <<answered, leftover>>

(* The response to a thread request binds the bridge to its conversation.  *)
ThreadAnswered(id, thread) ==
    LET t == [tracker EXCEPT !.threadRequests = @ \ {id}] IN
    /\ link = "open"
    /\ id \in tracker.threadRequests
    /\ IF thread = None \/ thread = tracker.conversation
       THEN Sends(t, <<>>) /\ UNCHANGED <<answered, leftover>>
       ELSE IF tracker.conversation # None THEN Refuses
       ELSE /\ Sends([t EXCEPT !.conversation = thread],
                     <<[event |-> [type |-> "TurnStarted"],
                        conversation |-> thread]>>)
            /\ UNCHANGED <<answered, leftover>>

Bound == link = "open" /\ tracker.conversation # None

TurnStarted(turn) ==
    /\ Bound
    /\ IF \/ tracker.pending # {}
          \/ tracker.question # None /\ ~tracker.answer
       THEN Refuses
       ELSE IF tracker.question # None
       THEN /\ Sends([tracker EXCEPT !.turn = turn, !.question = None,
                                     !.answer = FALSE, !.pausing = FALSE,
                                     !.turnFinished = FALSE],
                     <<InputResolved, Prompted>>)
            /\ answered' = FALSE
            /\ leftover' = FALSE
       ELSE /\ Sends([tracker EXCEPT !.turn = turn], <<Prompted>>)
            /\ UNCHANGED <<answered, leftover>>

(* An approval, a question that blocks, or an elicitation, which need not  *)
(* belong to a turn.                                                       *)
InputRequested(id, elicitation) ==
    /\ Bound
    /\ IF tracker.turn = None /\ ~elicitation THEN Refuses
       ELSE IF id \in tracker.pending
       THEN Sends(tracker, <<>>) /\ UNCHANGED <<answered, leftover>>
       ELSE IF \/ id \in tracker.seen
               \/ Cardinality(tracker.seen) >= RequestIdLimit
               \/ Cardinality(tracker.pending) >= RequestLimit
       THEN Refuses
       ELSE /\ Sends([tracker EXCEPT !.pending = @ \cup {id},
                                     !.seen = @ \cup {id}], <<Opened>>)
            /\ UNCHANGED <<answered, leftover>>

RequestResolved(id) ==
    LET t == [tracker EXCEPT !.pending = @ \ {id}] IN
    /\ Bound
    /\ Sends(t, IF id \in tracker.pending /\ ~(t.pending # {}
                                               \/ t.question # None)
                THEN <<InputResolved>> ELSE <<>>)
    /\ UNCHANGED <<answered, leftover>>

TurnEnd(status) ==
    RuntimeEvent(
      CASE status = "completed" -> [type |-> "TurnStopped", remaining |-> FALSE]
        [] status = "interrupted" -> [type |-> "TurnInterrupted"]
        [] status = "failed" -> [type |-> "TurnFailed",
                                 category |-> "provider_unavailable"])

(* A turn that a question interrupted is not reported; the question stays. *)
(* A turn that failed takes it along, but not a reply under way.           *)
TurnCompleted(turn, status) ==
    /\ Bound
    /\ IF turn # tracker.turn
       THEN Sends(tracker, <<>>) /\ UNCHANGED <<answered, leftover>>
       ELSE IF tracker.question # None /\ status # "failed"
       THEN /\ Sends([tracker EXCEPT !.pending = {}, !.turnFinished = TRUE],
                     <<>>)
            /\ UNCHANGED <<answered, leftover>>
       ELSE /\ Sends([tracker EXCEPT !.pending = {}, !.question = None],
                     <<TurnEnd(status)>>)
            /\ answered' = FALSE
            /\ leftover' = tracker.answer

(* Mutant: a question does not wait for the one before.                    *)
QuestionAskedOver(item, turn) ==
    /\ Bound
    /\ IF item = tracker.question
       THEN Sends(tracker, <<>>) /\ UNCHANGED <<answered, leftover>>
       ELSE IF turn = None \/ turn # tracker.turn THEN Refuses
       ELSE /\ Sends([tracker EXCEPT !.question = item, !.pausing = TRUE,
                                     !.turnFinished = FALSE], <<Opened>>)
            /\ answered' = FALSE
            /\ UNCHANGED leftover

(* An asynchronous question: the bridge asks for the turn's interruption.  *)
QuestionAsked(item, turn) ==
    /\ Bound
    /\ IF item = tracker.question
       THEN Sends(tracker, <<>>) /\ UNCHANGED <<answered, leftover>>
       ELSE IF tracker.question # None \/ turn = None \/ turn # tracker.turn
       THEN Refuses
       ELSE /\ Sends([tracker EXCEPT !.question = item, !.pausing = TRUE,
                                     !.turnFinished = FALSE], <<Opened>>)
            /\ answered' = FALSE
            /\ UNCHANGED leftover

----------------------------------------------------------------------------
(* The daemon.                                                             *)

(* provider_external_id_update for identities that are established.        *)
IdentityAgrees(conversation) == identity \in {None, conversation}

(* apply_runtime_event; nothing is done for a Session that has ended, and  *)
(* a refused event ends the runtime.                                       *)
ApplyRuntimeEvent ==
    LET e == Head(events) IN
    /\ events # <<>>
    /\ machine.lifecycle # "starting"
    /\ IF machine.lifecycle \in Terminal
       THEN events' = Tail(events) /\ UNCHANGED <<vars, link, identity>>
       ELSE IF IdentityAgrees(e.conversation) /\ InRange(Apply(machine, e.event))
       THEN /\ Deliver(e.event)
            /\ identity' = e.conversation
            /\ events' = Tail(events)
            /\ UNCHANGED link
       ELSE /\ events' = <<>>
            /\ link' = "closed"
            /\ UNCHANGED <<vars, identity>>
    /\ UNCHANGED <<tracker, answered, leftover>>

(* Mutant: hooks are taken at their word while the Session waits.          *)
HookIgnoredNever(event) == FALSE

(* The structured transport is authoritative while the Session waits.      *)
HookIgnored(event) ==
    /\ machine.activity = "awaiting_input"
    /\ event.type \notin {"SubagentStarted", "SubagentStopped"}

(* apply_hook_delivery, for a hook that is neither a duplicate nor stale.  *)
ApplyHook(event, conversation) ==
    /\ link # "none"
    /\ machine.lifecycle = "running"
    /\ ~HookIgnored(event)
    /\ IdentityAgrees(conversation)
    /\ Deliver(event)
    /\ identity' = conversation
    /\ UNCHANGED <<link, tracker, events, answered, leftover>>

(* The launch fails, the process exits or the daemon does: the bridge is   *)
(* dropped with the Session's actor, its last events still arrive unless   *)
(* the daemon is gone.                                                     *)
Ends ==
    /\ link # "none"
    /\ \/ LaunchFailed /\ UNCHANGED events
       \/ (\E exit \in Exits : ProcessExit(exit)) /\ UNCHANGED events
       \/ Restart /\ events' = <<>>
    /\ link' = "closed"
    /\ UNCHANGED <<tracker, identity, answered, leftover>>

Reviews ==
    /\ link # "none"
    /\ \E id \in 1..MaxAttentionId :
         \E reasons \in {OpenedReasons, DismissedReasons} : Review(id, reasons)
    /\ UNCHANGED bridgeVars

Traffic ==
    \/ \E id \in ThreadIds, resumes \in BOOLEAN : ThreadRequest(id, resumes)
    \/ TurnStart
    \/ \E refused \in BOOLEAN : PauseAnswered(refused)
    \/ \E id \in ThreadIds, thread \in Threads \cup {None} :
         ThreadAnswered(id, thread)
    \/ \E turn \in Turns : TurnStarted(turn)
    \/ \E id \in Requests, elicitation \in BOOLEAN :
         InputRequested(id, elicitation)
    \/ \E id \in Requests : RequestResolved(id)
    \/ \E turn \in Turns, status \in {"completed", "interrupted", "failed"} :
         TurnCompleted(turn, status)
    \/ \E item \in Items, turn \in Turns : QuestionAsked(item, turn)

BridgeNext ==
    \/ link = "none" /\ Next /\ UNCHANGED bridgeVars
    \/ link # "none" /\ Spawned /\ UNCHANGED bridgeVars
    \/ Connect
    \/ Close
    \/ Traffic
    \/ ApplyRuntimeEvent
    \/ \E event \in Hooks, conversation \in Threads :
         ApplyHook(event, conversation)
    \/ Ends
    \/ Reviews

BridgeSpec == BridgeInit /\ [][BridgeNext]_sessionVars

----------------------------------------------------------------------------
(* The Session waits for input exactly while the app server waits for an   *)
(* answer, once the events under way are applied: no hook, duplicate,      *)
(* stale resolution or interrupted turn clears a prompt or leaves one.     *)
WaitingIsShown ==
    link = "open" /\ machine.lifecycle = "running" /\ events = <<>> =>
        (machine.activity = "awaiting_input" <=> Waits)

(* A question goes away only when a turn starts after the user replied to  *)
(* it, or with its turn when that fails; but a reply to an earlier         *)
(* question, left over from a turn that failed, passes for one to this.    *)
OnlyAReplyResumes ==
    [][tracker.question # None /\ tracker'.question # tracker.question =>
         \/ answered \/ leftover
         \/ tracker'.turn = tracker.turn /\ events'[Len(events')].event.type = "TurnFailed"
      ]_sessionVars
============================================================================
