-------------------------- MODULE SessionContract --------------------------
(***************************************************************************)
(* What a client may rely on about the stored record of one Session,       *)
(* whatever the daemon's tasks do: it is created once, runs, reaches one   *)
(* terminal lifecycle, keeps the order of its attention events, and may be *)
(* deleted only when terminal.  SessionSupervisor is shown to implement    *)
(* this module.                                                            *)
(***************************************************************************)
EXTENDS SessionStatus

VARIABLES
    phase,   \* "unborn", "kept" or "deleted"
    status   \* the persisted SessionStatus, with its failure category

contractVars == <<phase, status>>

EventMoved(old, new) ==
    \/ new = old
    \/ new = [old EXCEPT !.ack = "resolved"]
    \/ new.id = old.id + 1 /\ new.ack = "pending"

ContractInit ==
    /\ phase = "unborn"
    /\ status = NewRow

Create ==
    /\ phase = "unborn"
    /\ phase' = "kept"
    /\ UNCHANGED status

(* The process starts, the provider reports, or the Session ends.          *)
Progress ==
    /\ phase = "kept"
    /\ LifecycleIsActive(status.lifecycle)
    /\ status'.lifecycle \in {"running"} \cup Terminal
    /\ EventMoved(status.attention, status'.attention)
    /\ Validate(status')
    /\ UNCHANGED phase

(* The user reviews the pending event: nothing else changes.               *)
ReviewEvent ==
    /\ phase = "kept"
    /\ status.attention.ack = "pending"
    /\ status' = Acknowledge(status)
    /\ UNCHANGED phase

Delete ==
    /\ phase = "kept"
    /\ LifecycleAllowsDeletion(status.lifecycle)
    /\ phase' = "deleted"
    /\ status' = NewRow

ContractNext == Create \/ Progress \/ ReviewEvent \/ Delete

ContractSpec == ContractInit /\ [][ContractNext]_contractVars
============================================================================
