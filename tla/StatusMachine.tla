--------------------------- MODULE StatusMachine ---------------------------
(***************************************************************************)
(* The life of one Session's status record, from the row insert_session    *)
(* creates to its terminal state and the reviews after it, driven by any   *)
(* sequence of provider events, one process exit, user reviews and daemon  *)
(* restarts.  What the daemon's locks and channels add to this is in       *)
(* SessionSupervisor; this module asks whether the reducer itself is right.*)
(***************************************************************************)
EXTENDS SessionStatus

VARIABLES
    machine,     \* the SessionStatusMachine, with its persisted status
    outstanding  \* history: agents started and not stopped in this turn

vars == <<machine, outstanding>>

Init ==
    /\ machine = NewRow
    /\ outstanding = {}

----------------------------------------------------------------------------
(* spawn_managed_session: the process was spawned, or it could not be.     *)
Spawned ==
    /\ machine.lifecycle = "starting"
    /\ machine' = FromPersisted(MarkRunning(machine))
    /\ UNCHANGED outstanding

LaunchFailed ==
    /\ machine.lifecycle = "starting"
    /\ machine' = StartFailure(machine)
    /\ UNCHANGED outstanding

(* An event reaches the reducer only while the Session has a process, or   *)
(* late, when the record is already terminal.  A clone whose identity is   *)
(* out of range is dropped, and with it the event.                         *)
Deliver(event) ==
    /\ machine.lifecycle \notin {"fresh", "starting"}
    /\ InRange(Apply(machine, event))
    /\ machine' = Apply(machine, event)
    /\ outstanding' =
         CASE event.type \in {"PromptSubmitted", "TurnStarted"} -> {}
           [] event.type = "SubagentStarted" -> outstanding \cup {event.agent}
           [] event.type = "SubagentStopped" -> outstanding \ {event.agent}
           [] OTHER -> outstanding

(* The exit monitor, once, when the process of a running Session is gone.  *)
ProcessExit(exit) ==
    /\ machine.lifecycle = "running"
    /\ InRange(ApplyProcessExit(machine, exit))
    /\ machine' = ApplyProcessExit(machine, exit)
    /\ UNCHANGED outstanding

(* AcknowledgeAttention and DismissAttention, for whatever identity the    *)
(* client last saw; a stale one is refused.                                *)
Review(id, reasons) ==
    /\ Acknowledges(machine, id, reasons)
    /\ machine' = Acknowledge(machine)
    /\ UNCHANGED outstanding

Restart ==
    /\ machine' = Reconcile(machine)
    /\ outstanding' = {}

Next ==
    \/ Spawned
    \/ LaunchFailed
    \/ \E event \in Events : Deliver(event)
    \/ \E exit \in Exits : ProcessExit(exit)
    \/ \E id \in 1..MaxAttentionId :
         \E reasons \in {OpenedReasons, DismissedReasons} : Review(id, reasons)
    \/ Restart

Spec == Init /\ [][Next]_vars

----------------------------------------------------------------------------
(* The record and the history variable have their types.                   *)
TypeOK ==
    /\ machine \in Machines
    /\ outstanding \in SUBSET Agents

(* No sequence of events, exits, reviews and restarts makes the reducer    *)
(* produce a record SessionStatus::validate refuses: its `?' never fires,  *)
(* so no event is lost to it and no stored row is unreadable at startup.   *)
StatusValid == Validate(machine)

(* A turn is reported complete only when no subagent of the turn is still  *)
(* running, although the reducer can name only MaxSubagents of them.       *)
CompletionHasNoOutstandingWork ==
    machine.activity = "completed" =>
        outstanding = {} /\ ~machine.remaining

(* Every subagent that runs is tracked by name unless capacity was         *)
(* exhausted in this turn.                                                 *)
TrackingCoversOutstanding ==
    machine.lifecycle = "running" /\ ~machine.exhausted =>
        outstanding = machine.subagents

(* A terminal record is never resurrected: late hooks, a second exit and   *)
(* restarts leave lifecycle and attention identity alone.                  *)
TerminalIsFinal ==
    [][machine.lifecycle \in Terminal =>
         /\ machine'.lifecycle = machine.lifecycle
         /\ machine'.attention.id = machine.attention.id]_vars

AckRank(ack) == CASE ack = "pending" -> 0
                  [] ack = "acknowledged" -> 1
                  [] ack = "resolved" -> 2

SameEvent(old, new) ==
    /\ new.id = old.id
    /\ new.reason = old.reason
    /\ AckRank(new.ack) >= AckRank(old.ack)

NextEvent(old, new) ==
    /\ new.id = old.id + 1
    /\ new.ack = "pending"

(* An attention identity names one condition for ever: identities only     *)
(* grow, by one at a time, and while the identity stays the reason stays   *)
(* and a reviewed or resolved event never becomes unread again.            *)
AttentionIdentity ==
    [][\/ SameEvent(machine.attention, machine'.attention)
       \/ NextEvent(machine.attention, machine'.attention)]_vars

(* A recoverable failure the user dismissed stays quiet while the same     *)
(* failure persists, however often the provider repeats it.                *)
DismissedFailureStaysQuiet ==
    [][/\ machine.activity = "recoverable_failure"
       /\ machine.attention.ack = "acknowledged"
       /\ machine'.activity = "recoverable_failure"
       /\ machine'.category = machine.category
       => machine'.attention = machine.attention]_vars
============================================================================
