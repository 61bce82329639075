------------------------ MODULE StatusMachineProofs ------------------------
(***************************************************************************)
(* Theorems about StatusMachine for every set of agents and categories,    *)
(* every subagent capacity and every bound on attention identities, and    *)
(* about CodexBridge for every capacity of its channel and its tables.     *)
(***************************************************************************)
EXTENDS CodexBridge, SessionStatusProofs, SequenceTheorems

(* What a step may do to the attention event.                              *)
Forward(old, new) == SameEvent(old, new) \/ NextEvent(old, new)

(* The reducer's steps move the attention event forward.                   *)
LEMMA StepsAreForward ==
    ASSUME NEW m \in RawMachines, NEW new, AttentionStep(m.attention, new)
    PROVE  Forward(m.attention, new)
<1>1. m.attention \in RawEvents \cup {NoAttention}
  BY DEF RawMachines
<1>2. m.attention.ack \in Acknowledgements
  BY <1>1 DEF RawEvents, NoAttention, Acknowledgements
<1>3. AckRank(m.attention.ack) \in 0..2 /\ AckRank("resolved") = 2
  BY <1>2 DEF AckRank, Acknowledgements
<1>4. CASE new = m.attention
  BY <1>3, <1>4 DEF Forward, SameEvent
<1>5. CASE new = [m.attention EXCEPT !.ack = "resolved"]
  <2>1. /\ new.id = m.attention.id
        /\ new.reason = m.attention.reason
        /\ new.ack = "resolved"
    BY <1>1, <1>5 DEF RawEvents, NoAttention
  <2> QED BY <1>3, <2>1 DEF Forward, SameEvent
<1>6. CASE new.id = m.attention.id + 1 /\ new.ack = "pending"
  BY <1>6 DEF Forward, NextEvent
<1> QED BY <1>4, <1>5, <1>6 DEF AttentionStep

----------------------------------------------------------------------------
(* The inductive invariant.  StatusValid alone is not inductive: that a    *)
(* completed turn has no agents running needs the exact tracking, and the  *)
(* tracking needs that a Session that has not started has none.            *)
Inv ==
    /\ TypeOK
    /\ StatusValid
    /\ CompletedMeansDone(machine)
    /\ TrackingCoversOutstanding
    /\ machine.lifecycle = "starting" =>
         outstanding = {} /\ machine.attention = NoAttention

(* A record that was just inserted satisfies the invariant.                *)
LEMMA InitInv == Init => Inv
<1> SUFFICES ASSUME Init PROVE Inv
  OBVIOUS
<1>1. /\ machine = NewRow
      /\ outstanding = {}
  BY DEF Init
<1>2. NewRow \in Machines
  BY DEF NewRow, Machines, Lifecycles, Activities, FailureCategories
<1>3. Validate(NewRow)
  BY DEF NewRow, Validate, ExpectedReason, Effective, NoAttention
<1> QED BY <1>1, <1>2, <1>3
        DEF Inv, TypeOK, StatusValid, CompletedMeansDone,
            TrackingCoversOutstanding, NewRow

(* Every step preserves the invariant and moves the attention event only   *)
(* forward.                                                                *)
LEMMA StepInv ==
    Inv /\ [Next]_vars
      => Inv' /\ Forward(machine.attention, machine'.attention)
<1> SUFFICES ASSUME Inv, [Next]_vars
             PROVE  Inv' /\ Forward(machine.attention, machine'.attention)
  OBVIOUS
<1> USE DEF Inv, TypeOK
<1>1. machine \in RawMachines
  BY RawRecords
<1>2. CASE Spawned
  <2>1. machine.lifecycle = "starting" /\ outstanding' = outstanding
    BY <1>2 DEF Spawned
  <2>2. machine' = [machine EXCEPT !.lifecycle = "running",
                                   !.category = NoCategory,
                                   !.subagents = {}, !.exhausted = FALSE,
                                   !.remaining = FALSE]
    BY <1>2 DEF Spawned, FromPersisted, MarkRunning, Machines
  <2>3. /\ machine' \in Machines
        /\ machine'.lifecycle = "running"
        /\ machine'.activity = machine.activity
        /\ machine'.attention = machine.attention
        /\ NoKnownWork(machine')
    BY <2>2 DEF Machines, Lifecycles, FailureCategories, NoKnownWork
  <2>4. machine.activity = "none"
    BY <2>1 DEF StatusValid, Validate
  <2>5. Agrees(machine')
    BY <2>1, <2>3, <2>4
       DEF Agrees, ExpectedReason, Effective, NoAttention
  <2>6. Validate(machine')
    BY <2>3, <2>5, RunningIsValid, RawRecords
  <2>7. Forward(machine.attention, machine'.attention)
    BY <1>1, <2>3, Unmoved, StepsAreForward
  <2> QED BY <2>1, <2>3, <2>6, <2>7
          DEF StatusValid, CompletedMeansDone, TrackingCoversOutstanding,
              NoKnownWork
<1>3. CASE LaunchFailed
  <2> DEFINE event == [id |-> 1, reason |-> "terminal_failure",
                       ack |-> "pending"]
  <2>1. machine.lifecycle = "starting" /\ outstanding' = outstanding
    BY <1>3 DEF LaunchFailed
  <2>2. machine' = [machine EXCEPT !.lifecycle = "failed",
                                   !.activity = "none",
                                   !.category = "launch_error",
                                   !.attention = event]
    BY <1>3 DEF LaunchFailed, StartFailure
  <2>3. event \in AttentionEvents /\ event # NoAttention
    BY AttentionIdAssumption
       DEF AttentionEvents, Reasons, Acknowledgements, NoAttention
  <2>4. /\ machine' \in Machines
        /\ machine'.lifecycle = "failed"
        /\ machine'.activity = "none"
        /\ machine'.attention = event
    BY <2>2, <2>3 DEF Machines, Lifecycles, Activities, FailureCategories
  <2>5. Validate(machine')
    BY <2>3, <2>4 DEF Validate, ExpectedReason
  <2>6. NextEvent(machine.attention, machine'.attention)
    BY <2>1, <2>4 DEF NextEvent, NoAttention
  <2> QED BY <2>1, <2>4, <2>5, <2>6
          DEF StatusValid, CompletedMeansDone, TrackingCoversOutstanding,
              Forward
<1>4. ASSUME NEW event \in Events, Deliver(event)
      PROVE  Inv' /\ Forward(machine.attention, machine'.attention)
  <2> DEFINE n == Apply(machine, event)
  <2>1. machine' = n /\ InRange(n) /\ outstanding' \in SUBSET Agents
    BY <1>4 DEF Deliver, Events
  <2>2. CASE machine.lifecycle \in Terminal
    <3>1. machine' = machine
      BY <2>1, <2>2 DEF Apply
    <3> QED BY <1>1, <2>1, <2>2, <3>1, Unmoved, StepsAreForward
            DEF StatusValid, Validate, CompletedMeansDone,
                TrackingCoversOutstanding, Terminal
  <2>3. CASE machine.lifecycle \notin Terminal
    <3>1. machine.lifecycle = "running"
      BY <1>4, <2>3 DEF Deliver, Machines, Lifecycles, Terminal
    <3>2. /\ Sound(machine, machine')
          /\ CompletedMeansDone(machine')
          /\ Tracks(machine, machine', event)
      BY <1>1, <2>1, <3>1, ApplySound DEF StatusValid
    <3>3. /\ machine' \in Machines
          /\ Validate(machine')
          /\ machine'.lifecycle = "running"
          /\ Forward(machine.attention, machine'.attention)
      BY <1>1, <2>1, <3>2, RawRecords, StepsAreForward DEF Sound
    <3>4. ~machine.exhausted => outstanding = machine.subagents
      BY <3>1 DEF TrackingCoversOutstanding
    <3>5. ~machine'.exhausted => outstanding' = machine'.subagents
      BY <1>4, <3>2, <3>4, <3>3
         DEF Deliver, Tracks, Counted, Machines
    <3> QED BY <2>1, <3>2, <3>3, <3>5
            DEF StatusValid, TrackingCoversOutstanding
  <2> QED BY <2>2, <2>3
<1>5. ASSUME NEW exit \in Exits, ProcessExit(exit)
      PROVE  Inv' /\ Forward(machine.attention, machine'.attention)
  <2>1. /\ machine' = ApplyProcessExit(machine, exit)
        /\ machine.lifecycle = "running"
        /\ InRange(machine')
        /\ outstanding' = outstanding
    BY <1>5 DEF ProcessExit
  <2>2. /\ machine' \in RawMachines
        /\ machine'.lifecycle \in {"exited", "failed", "terminated"}
        /\ machine'.activity = "none"
        /\ Validate(machine')
        /\ Forward(machine.attention, machine'.attention)
    BY <1>1, <2>1, ApplyProcessExitSound, StepsAreForward DEF StatusValid
  <2> QED BY <2>1, <2>2, RawRecords
          DEF StatusValid, CompletedMeansDone, TrackingCoversOutstanding
<1>6. ASSUME NEW id \in 1..MaxAttentionId,
             NEW reasons \in {OpenedReasons, DismissedReasons},
             Review(id, reasons)
      PROVE  Inv' /\ Forward(machine.attention, machine'.attention)
  <2> DEFINE read == [machine.attention EXCEPT !.ack = "acknowledged"]
  <2>1. /\ machine' = [machine EXCEPT !.attention = read]
        /\ machine.attention.ack = "pending"
        /\ outstanding' = outstanding
    BY <1>6 DEF Review, Acknowledge, Acknowledges
  <2>2. machine.attention \in AttentionEvents
    BY <2>1 DEF Machines, NoAttention
  <2>3. /\ read \in AttentionEvents
        /\ read.id = machine.attention.id
        /\ read.reason = machine.attention.reason
        /\ read.ack = "acknowledged"
        /\ read # NoAttention
        /\ machine.attention # NoAttention
    BY <2>1, <2>2, AttentionIdAssumption
       DEF AttentionEvents, Acknowledgements, NoAttention
  <2> HIDE DEF read
  <2>4. /\ machine' \in Machines
        /\ machine'.attention = read
        /\ machine'.lifecycle = machine.lifecycle
        /\ machine'.activity = machine.activity
        /\ SameWork(machine, machine')
    BY <2>1, <2>3 DEF Machines, SameWork
  <2>5. Validate(machine')
    BY <2>1, <2>3, <2>4 DEF StatusValid, Validate, Effective
  <2>6. SameEvent(machine.attention, machine'.attention)
    BY <2>1, <2>3, <2>4 DEF SameEvent, AckRank
  <2> QED BY <2>1, <2>3, <2>4, <2>5, <2>6
          DEF StatusValid, CompletedMeansDone, TrackingCoversOutstanding,
              Forward, SameWork, NoKnownWork
<1>7. CASE Restart
  <2>1. CASE LifecycleIsActive(machine.lifecycle)
    <3>1. /\ machine' \in Machines
          /\ machine'.lifecycle = "disconnected"
          /\ machine'.activity = "none"
          /\ machine'.attention = machine.attention
          /\ outstanding' = {}
      BY <1>7, <2>1
         DEF Restart, Reconcile, FromPersisted, Machines, Lifecycles,
             Activities, FailureCategories
    <3>2. Effective(machine.attention) => machine.attention.reason \in Reasons
      BY DEF Machines, AttentionEvents, NoAttention, Effective
    <3>3. Validate(machine')
      BY <3>1, <3>2 DEF Validate, ExpectedReason, Reasons
    <3> QED BY <1>1, <3>1, <3>3, Unmoved, StepsAreForward
            DEF StatusValid, CompletedMeansDone, TrackingCoversOutstanding
  <2>2. CASE ~LifecycleIsActive(machine.lifecycle)
    <3>1. /\ machine' \in Machines
          /\ machine'.lifecycle = machine.lifecycle
          /\ machine'.activity = machine.activity
          /\ machine'.attention = machine.attention
          /\ NoKnownWork(machine')
          /\ outstanding' = {}
      BY <1>7, <2>2
         DEF Restart, Reconcile, FromPersisted, Machines, NoKnownWork
    <3>2. Validate(machine')
      BY <3>1 DEF StatusValid, Validate
    <3> QED BY <1>1, <2>2, <3>1, <3>2, Unmoved, StepsAreForward
            DEF StatusValid, CompletedMeansDone, TrackingCoversOutstanding,
                LifecycleIsActive
  <2> QED BY <2>1, <2>2
<1>8. CASE UNCHANGED vars
  <2>1. machine' = machine /\ outstanding' = outstanding
    BY <1>8 DEF vars
  <2> QED BY <1>1, <2>1, Unmoved, StepsAreForward
          DEF StatusValid, Validate, CompletedMeansDone, NoKnownWork,
              TrackingCoversOutstanding
<1> QED BY <1>2, <1>3, <1>4, <1>5, <1>6, <1>7, <1>8 DEF Next

(* A terminal record keeps its lifecycle and its attention identity in     *)
(* every step.                                                             *)
LEMMA StepFinal ==
    ASSUME Inv, [Next]_vars, machine.lifecycle \in Terminal
    PROVE  /\ machine'.lifecycle = machine.lifecycle
           /\ machine'.attention.id = machine.attention.id
<1> USE DEF Inv, TypeOK
<1>1. machine.lifecycle \notin {"starting", "running"}
  BY DEF Terminal
<1>2. CASE Spawned \/ LaunchFailed
  BY <1>1, <1>2 DEF Spawned, LaunchFailed
<1>3. ASSUME NEW event \in Events, Deliver(event)
      PROVE  machine' = machine
  BY <1>3 DEF Deliver, Apply
<1>4. ASSUME NEW exit \in Exits, ProcessExit(exit)
      PROVE  FALSE
  BY <1>1, <1>4 DEF ProcessExit
<1>5. ASSUME NEW id \in 1..MaxAttentionId,
             NEW reasons \in {OpenedReasons, DismissedReasons},
             Review(id, reasons)
      PROVE  /\ machine'.lifecycle = machine.lifecycle
             /\ machine'.attention.id = machine.attention.id
  <2> DEFINE read == [machine.attention EXCEPT !.ack = "acknowledged"]
  <2>1. machine' = [machine EXCEPT !.attention = read]
    BY <1>5 DEF Review, Acknowledge
  <2>2. read.id = machine.attention.id
    BY DEF Machines, AttentionEvents, NoAttention
  <2> QED BY <2>1, <2>2 DEF Machines
<1>6. CASE Restart
  BY <1>1, <1>6 DEF Restart, Reconcile, FromPersisted, LifecycleIsActive,
                    Machines
<1>7. CASE UNCHANGED vars
  BY <1>7 DEF vars
<1> QED BY <1>2, <1>3, <1>4, <1>5, <1>6, <1>7 DEF Next

(* A record that has failed recoverably and whose failure the user has     *)
(* reviewed keeps its event in every step that leaves the failure as it    *)
(* is: a repetition of the same category is not materially new.            *)
LEMMA StepQuiet ==
    ASSUME Inv, [Next]_vars,
           machine.activity = "recoverable_failure",
           machine.attention.ack = "acknowledged",
           machine'.activity = "recoverable_failure",
           machine'.category = machine.category
    PROVE  machine'.attention = machine.attention
<1> USE DEF Inv, TypeOK
<1>1. machine \in RawMachines
  BY RawRecords
<1>2. machine.lifecycle = "running"
  BY DEF StatusValid, Validate
<1>3. Effective(machine.attention)
      /\ machine.attention.reason = "recoverable_failure"
  BY <1>2 DEF StatusValid, Validate, Effective, ExpectedReason
<1>4. ASSUME NEW event \in Events, Deliver(event)
      PROVE  machine'.attention = machine.attention
  <2> DEFINE t == event.type
  <2>1. machine' = Apply(machine, event)
    BY <1>4 DEF Deliver
  <2>2. machine.lifecycle \notin Terminal
        /\ [machine EXCEPT !.lifecycle = "running"] = machine
    BY <1>2 DEF Terminal, Machines
  <2>3. ASSUME NEW k \in RawMachines, k.lifecycle = "running",
               NEW activity \in Activities \ {"recoverable_failure"},
               NEW reason \in Reasons \cup {"none"},
               reason = ExpectedReason(activity),
               machine' = SetLiveCondition(k, activity, reason)
        PROVE  FALSE
    BY <2>3, SetLiveConditionFacts
  <2>4. CASE t = "TurnFailed"
    <3>1. machine' = FailTurn(machine, event.category)
      BY <2>1, <2>2, <2>4 DEF Apply
    <3>2. event.category \in Categories
      BY <2>4 DEF Events
    <3> DEFINE down == [machine EXCEPT !.category = event.category,
                                       !.activity = "recoverable_failure"]
               new == machine.category \notin {NoCategory, event.category}
    <3>3. /\ down \in RawMachines
          /\ down.attention = machine.attention
          /\ down.category = event.category
      BY <1>1, <3>2 DEF RawMachines, Activities, FailureCategories
    <3>4. machine' = SetAttentionCondition(down, "recoverable_failure", new)
      BY <3>1 DEF FailTurn
    <3> HIDE DEF down, new
    <3>5. Raised(down, machine', "recoverable_failure")
      BY <3>3, <3>4, SetAttentionConditionFacts, Zenon DEF Reasons
    <3>6. machine.category = event.category
      BY <3>3, <3>5 DEF Raised
    <3>7. ~new
      BY <3>6 DEF new
    <3> QED BY <1>3, <3>3, <3>4, <3>7 DEF SetAttentionCondition
  <2>5. CASE t = "InputRequestOpened"
    <3>1. machine' = RenewInputAttention(machine)
      BY <2>1, <2>2, <2>5 DEF Apply
    <3> QED BY <1>1, <1>2, <3>1, RenewInputAttentionSound
  <2>6. CASE t \in {"InputRequestsResolved", "ToolStarted", "ToolCompleted"}
    BY <2>1, <2>2, <2>6 DEF Apply
  <2>7. CASE t = "PermissionCheckStarted"
    <3>1. machine' = SetLiveCondition(machine, "working", "none")
      BY <2>1, <2>2, <2>7 DEF Apply
    <3> QED BY <1>1, <1>2, <2>3, <3>1 DEF Activities, ExpectedReason
  <2>8. CASE t \in {"PromptSubmitted", "TurnStarted"}
    <3>1. machine' = StartTurn(machine)
      BY <2>1, <2>2, <2>8 DEF Apply
    <3> QED BY <1>1, <1>2, <3>1, StartTurnSound
  <2>9. CASE t \in {"PermissionRequested", "UserInputRequested"}
    <3>1. machine' = SetLiveCondition(machine, "awaiting_input", "input_requested")
      BY <2>1, <2>2, <2>9 DEF Apply
    <3> QED BY <1>1, <1>2, <2>3, <3>1 DEF Activities, Reasons, ExpectedReason
  <2>10. CASE t = "SubagentStarted"
    <3>1. machine' = StartSubagent(machine, event.agent) /\ event.agent \in Agents
      BY <2>1, <2>2, <2>10 DEF Apply, Events
    <3> QED BY <1>1, <1>2, <3>1, StartSubagentSound DEF StatusValid
  <2>11. CASE t = "SubagentStopped"
    BY <2>1, <2>2, <2>11 DEF Apply, StopSubagent, Machines
  <2>12. CASE t = "TurnStopped"
    <3> DEFINE k == [machine EXCEPT !.remaining = event.remaining]
    <3>1. machine' = StopTurn(machine, event.remaining)
          /\ event.remaining \in BOOLEAN
      BY <2>1, <2>2, <2>12 DEF Apply, Events
    <3>2. k \in RawMachines /\ k.lifecycle = "running"
      BY <1>1, <1>2, <3>1 DEF RawMachines
    <3>3. \/ machine' = SetLiveCondition(k, "completed", "successful_completion")
          \/ machine' = SetLiveCondition(k, "working", "none")
      BY <3>1 DEF StopTurn
    <3> HIDE DEF k
    <3> QED BY <2>3, <3>2, <3>3 DEF Activities, Reasons, ExpectedReason
  <2>13. CASE t = "TurnInterrupted"
    <3>1. machine' = SetLiveCondition(machine, "interrupted", "none")
      BY <2>1, <2>2, <2>13 DEF Apply
    <3> QED BY <1>1, <1>2, <2>3, <3>1 DEF Activities, ExpectedReason
  <2>14. CASE t = "SessionEnded"
    <3>1. machine' = EndSession(machine)
      BY <2>1, <2>2, <2>14 DEF Apply
    <3> QED BY <3>1 DEF EndSession
  <2> QED BY <2>4, <2>5, <2>6, <2>7, <2>8, <2>9, <2>10, <2>11, <2>12, <2>13,
             <2>14 DEF Events
<1>5. ASSUME NEW exit \in Exits, ProcessExit(exit)
      PROVE  FALSE
  BY <1>1, <1>5, ApplyProcessExitSound DEF ProcessExit, StatusValid
<1>6. ASSUME NEW id \in 1..MaxAttentionId,
             NEW reasons \in {OpenedReasons, DismissedReasons},
             Review(id, reasons)
      PROVE  FALSE
  BY <1>6 DEF Review, Acknowledges
<1>7. CASE Restart
  <2>1. machine'.activity = "none"
    BY <1>2, <1>7 DEF Restart, Reconcile, FromPersisted, LifecycleIsActive,
                      Machines
  <2> QED BY <2>1
<1>8. CASE Spawned \/ LaunchFailed
  BY <1>2, <1>8 DEF Spawned, LaunchFailed
<1>9. CASE UNCHANGED vars
  BY <1>9 DEF vars
<1> QED BY <1>4, <1>5, <1>6, <1>7, <1>8, <1>9 DEF Next

----------------------------------------------------------------------------
(* The invariant holds of every behaviour.                                 *)
THEOREM Invariance == Spec => []Inv
<1>1. Inv /\ [Next]_vars => Inv'
  BY StepInv
<1> QED BY InitInv, <1>1, PTL DEF Spec

(* The status record is well typed: in particular the attention identity   *)
(* never leaves AttentionEventId's range.                                  *)
THEOREM TypeCorrect == Spec => []TypeOK
<1>1. Inv => TypeOK
  BY DEF Inv
<1> QED BY Invariance, <1>1, PTL

(* SessionStatus::validate accepts every record the reducer, the exit      *)
(* monitor, a review or a restart produces.                                *)
THEOREM AlwaysValid == Spec => []StatusValid
<1>1. Inv => StatusValid
  BY DEF Inv
<1> QED BY Invariance, <1>1, PTL

(* A completed turn has no subagent running, at any tracking capacity.     *)
THEOREM CompletionIsHonest == Spec => []CompletionHasNoOutstandingWork
<1>1. Inv => CompletionHasNoOutstandingWork
  <2> SUFFICES ASSUME Inv, machine.activity = "completed"
               PROVE  outstanding = {} /\ ~machine.remaining
    BY DEF CompletionHasNoOutstandingWork
  <2>1. NoKnownWork(machine)
    BY DEF Inv, CompletedMeansDone
  <2>2. machine.lifecycle = "running"
    BY DEF Inv, StatusValid, Validate
  <2> QED BY <2>1, <2>2 DEF Inv, TrackingCoversOutstanding, NoKnownWork
<1> QED BY Invariance, <1>1, PTL

(* Tracking by name is exact until the capacity is exhausted.              *)
THEOREM TrackingIsExact == Spec => []TrackingCoversOutstanding
<1>1. Inv => TrackingCoversOutstanding
  BY DEF Inv
<1> QED BY Invariance, <1>1, PTL

(* Attention identities only grow, and a review is never undone.           *)
THEOREM AttentionMovesForward == Spec => AttentionIdentity
<1> DEFINE Moves == \/ SameEvent(machine.attention, machine'.attention)
                    \/ NextEvent(machine.attention, machine'.attention)
<1>1. Inv /\ [Next]_vars => [Moves]_vars
  BY StepInv DEF Forward
<1>2. Spec => [][Moves]_vars
  BY Invariance, <1>1, PTL DEF Spec
<1> QED BY <1>2 DEF AttentionIdentity

(* No late event, exit, review or restart revives a terminal Session.      *)
THEOREM TerminalStays == Spec => TerminalIsFinal
<1> DEFINE Stays == machine.lifecycle \in Terminal =>
                      /\ machine'.lifecycle = machine.lifecycle
                      /\ machine'.attention.id = machine.attention.id
<1>1. Inv /\ [Next]_vars => [Stays]_vars
  BY StepFinal
<1>2. Spec => [][Stays]_vars
  BY Invariance, <1>1, PTL DEF Spec
<1> QED BY <1>2 DEF TerminalIsFinal

(* A recoverable failure that the user dismissed stays quiet however often *)
(* the provider repeats it, for every category and every bound.            *)
THEOREM DismissalHolds == Spec => DismissedFailureStaysQuiet
<1> DEFINE Quiet == /\ machine.activity = "recoverable_failure"
                    /\ machine.attention.ack = "acknowledged"
                    /\ machine'.activity = "recoverable_failure"
                    /\ machine'.category = machine.category
                    => machine'.attention = machine.attention
<1>1. Inv /\ [Next]_vars => [Quiet]_vars
  BY StepQuiet
<1>2. Spec => [][Quiet]_vars
  BY Invariance, <1>1, PTL DEF Spec
<1> QED BY <1>2 DEF DismissedFailureStaysQuiet

----------------------------------------------------------------------------
(* A Session with a bridge.                                                *)

(* The runtime events the bridge sends.                                    *)
BridgeEvents ==
    [event : {e \in Events : e.type \in {"InputRequestOpened",
                "InputRequestsResolved", "PromptSubmitted", "TurnStarted",
                "TurnStopped", "TurnInterrupted", "TurnFailed"}},
     conversation : Threads \cup {None}]

Trackers ==
    [conversation : Threads \cup {None}, turn : Turns \cup {None},
     pending : SUBSET Requests, seen : SUBSET Requests,
     threadRequests : SUBSET ThreadIds, question : Items \cup {None},
     answer : BOOLEAN, pausing : BOOLEAN, turnFinished : BOOLEAN]

BridgeTypeOK ==
    /\ link \in {"none", "connecting", "open", "closed"}
    /\ tracker \in Trackers
    /\ events \in Seq(BridgeEvents)
    /\ answered \in BOOLEAN
    /\ leftover \in BOOLEAN

(* Whether the Session will be shown as waiting once every event under way *)
(* is applied: the last one decides.                                       *)
WillWait ==
    IF events = <<>> THEN machine.activity = "awaiting_input"
    ELSE events[Len(events)].event.type = "InputRequestOpened"

(* A bridge that has not been connected to has seen nothing, and one that  *)
(* follows no conversation yet waits for nothing.                          *)
BridgeStarts ==
    /\ link = "connecting" => tracker = NoTracker /\ events = <<>>
    /\ tracker.conversation = None => ~Waits

(* A reply that is under way is one to the question that is open, or it is *)
(* left over; and only an open question is replied to.                     *)
RepliesAreAccounted ==
    /\ tracker.answer => answered \/ leftover
    /\ answered => tracker.question # None

(* Whether a record shows that the Session waits, after an event of type   *)
(* t: requests make it wait, the steps of a turn end that, and the rest    *)
(* leaves it.                                                              *)
Shows(m, n, t) ==
    IF t \in {"InputRequestOpened", "PermissionRequested",
              "UserInputRequested"}
    THEN n.activity = "awaiting_input"
    ELSE IF t \in {"SubagentStarted", "SubagentStopped", "ToolStarted",
                   "ToolCompleted", "SessionEnded"}
    THEN n.activity = "awaiting_input" <=> m.activity = "awaiting_input"
    ELSE n.activity # "awaiting_input"

(* What each event makes of a running record that may be waiting.          *)
LEMMA ApplyShows ==
    ASSUME NEW m \in RawMachines, m.lifecycle = "running", Validate(m),
           NEW event \in Events
    PROVE  Shows(m, Apply(m, event), event.type)
<1> DEFINE n == Apply(m, event)
           t == event.type
<1>1. [m EXCEPT !.lifecycle = "running"] = m /\ m.lifecycle \notin Terminal
  BY DEF RawMachines, Terminal
<1>2. ASSUME NEW k \in RawMachines, k.lifecycle = "running",
             NEW activity \in Activities,
             NEW reason \in Reasons \cup {"none"},
             reason = ExpectedReason(activity),
             n = SetLiveCondition(k, activity, reason)
      PROVE  n.activity = activity
  BY <1>2, SetLiveConditionFacts
<1>3. CASE t = "InputRequestOpened"
  <2>1. n = RenewInputAttention(m)
    BY <1>1, <1>3 DEF Apply
  <2> QED BY <1>3, <2>1, RenewInputAttentionSound DEF Shows
<1>4. CASE t \in {"PermissionRequested", "UserInputRequested"}
  <2>1. n = SetLiveCondition(m, "awaiting_input", "input_requested")
    BY <1>1, <1>4 DEF Apply
  <2>2. n.activity = "awaiting_input"
    BY <1>2, <2>1 DEF Activities, Reasons, ExpectedReason
  <2> QED BY <1>4, <2>2 DEF Shows
<1>5. CASE \/ t \in {"ToolStarted", "ToolCompleted"}
           \/ t = "InputRequestsResolved" /\ m.activity # "awaiting_input"
  <2>1. n = m
    BY <1>1, <1>5 DEF Apply
  <2> QED BY <1>5, <2>1 DEF Shows
<1>6. CASE \/ t = "PermissionCheckStarted"
           \/ t = "InputRequestsResolved" /\ m.activity = "awaiting_input"
  <2>1. n = SetLiveCondition(m, "working", "none")
    BY <1>1, <1>6 DEF Apply
  <2>2. n.activity = "working"
    BY <1>2, <2>1 DEF Activities, ExpectedReason
  <2> QED BY <1>6, <2>2 DEF Shows
<1>7. CASE t \in {"PromptSubmitted", "TurnStarted"}
  <2>1. n = StartTurn(m)
    BY <1>1, <1>7 DEF Apply
  <2>2. n.activity = "working"
    BY <2>1, StartTurnSound
  <2> QED BY <1>7, <2>2 DEF Shows
<1>8. CASE t = "TurnFailed"
  <2>1. n = FailTurn(m, event.category) /\ event.category \in Categories
    BY <1>1, <1>8 DEF Apply, Events
  <2>2. n.activity = "recoverable_failure"
    BY <2>1, FailTurnSound
  <2> QED BY <1>8, <2>2 DEF Shows
<1>9. CASE t = "SubagentStarted"
  <2> DEFINE k == TrackSubagent(m, event.agent)
  <2>1. n = StartSubagent(m, event.agent) /\ event.agent \in Agents
    BY <1>1, <1>9 DEF Apply, Events
  <2>2. /\ k \in RawMachines
        /\ k.lifecycle = "running"
        /\ k.activity = m.activity
    BY <2>1 DEF TrackSubagent, RawMachines
  <2>3. CASE m.activity = "awaiting_input"
    <3>1. n = k
      BY <2>1, <2>3 DEF StartSubagent
    <3> QED BY <1>9, <2>2, <3>1 DEF Shows
  <2>4. CASE m.activity # "awaiting_input"
    <3>1. n = SetLiveCondition(k, "working", "none")
      BY <2>1, <2>4 DEF StartSubagent
    <3> HIDE DEF k
    <3>2. n.activity = "working"
      BY <1>2, <2>2, <3>1 DEF Activities, ExpectedReason
    <3> QED BY <1>9, <2>4, <3>2 DEF Shows
  <2> QED BY <2>3, <2>4
<1>10. CASE t = "SubagentStopped"
  <2>1. n.activity = m.activity
    BY <1>1, <1>10 DEF Apply, StopSubagent, RawMachines
  <2> QED BY <1>10, <2>1 DEF Shows
<1>11. CASE t = "TurnStopped"
  <2> DEFINE k == [m EXCEPT !.remaining = event.remaining]
  <2>1. n = StopTurn(m, event.remaining) /\ event.remaining \in BOOLEAN
    BY <1>1, <1>11 DEF Apply, Events
  <2>2. k \in RawMachines /\ k.lifecycle = "running"
    BY <2>1 DEF RawMachines
  <2>3. \/ n = SetLiveCondition(k, "completed", "successful_completion")
        \/ n = SetLiveCondition(k, "working", "none")
    BY <2>1 DEF StopTurn
  <2> HIDE DEF k
  <2>4. n.activity \in {"completed", "working"}
    BY <1>2, <2>2, <2>3 DEF Activities, Reasons, ExpectedReason
  <2> QED BY <1>11, <2>4 DEF Shows
<1>12. CASE t = "TurnInterrupted"
  <2>1. n = SetLiveCondition(m, "interrupted", "none")
    BY <1>1, <1>12 DEF Apply
  <2>2. n.activity = "interrupted"
    BY <1>2, <2>1 DEF Activities, ExpectedReason
  <2> QED BY <1>12, <2>2 DEF Shows
<1>13. CASE t = "SessionEnded"
  <2>1. n = EndSession(m)
    BY <1>1, <1>13 DEF Apply
  <2>2. \/ n = m
        \/ /\ m.activity \in {"none", "working"}
           /\ n = SetLiveCondition(m, "completed", "successful_completion")
    BY <2>1 DEF EndSession
  <2>3. n.activity = "awaiting_input" <=> m.activity = "awaiting_input"
    BY <1>2, <2>2 DEF Activities, Reasons, ExpectedReason
  <2> QED BY <1>13, <2>3 DEF Shows
<1> QED BY <1>3, <1>4, <1>5, <1>6, <1>7, <1>8, <1>9, <1>10, <1>11, <1>12,
           <1>13 DEF Events

----------------------------------------------------------------------------
(* A behaviour of the bridge is one of the status record: what the         *)
(* terminal and the app server do never reaches it, and what the daemon    *)
(* does about them is a step of StatusMachine.                             *)
LEMMA BridgeStepsAreSteps ==
    ASSUME BridgeTypeOK, [BridgeNext]_sessionVars
    PROVE  [Next]_vars
<1>1. CASE link = "none" /\ Next
  BY <1>1
<1>2. CASE Spawned
  BY <1>2 DEF Next
<1>3. CASE Connect \/ Close
  BY <1>3 DEF Connect, Close
<1>4. CASE Traffic
  <2>1. UNCHANGED vars
    BY <1>4 DEF Traffic, ThreadRequest, TurnStart, PauseAnswered,
         ThreadAnswered, TurnStarted, InputRequested, RequestResolved,
         TurnCompleted, QuestionAsked, Sends, Refuses
  <2> QED BY <2>1
<1>5. CASE ApplyRuntimeEvent
  <2>1. events # <<>> => Head(events).event \in Events
    <3>1. events \in Seq(BridgeEvents)
      BY DEF BridgeTypeOK
    <3>2. events # <<>> => Head(events) \in BridgeEvents
      BY <3>1, HeadTailProperties
    <3> QED BY <3>2 DEF BridgeEvents
  <2>2. UNCHANGED vars \/ (events # <<>> /\ Deliver(Head(events).event))
    BY <1>5 DEF ApplyRuntimeEvent
  <2> QED BY <2>1, <2>2 DEF Next
<1>6. ASSUME NEW event \in Hooks, NEW conversation \in Threads,
             ApplyHook(event, conversation)
      PROVE  Next
  BY <1>6, BridgeAssumption DEF ApplyHook, Next
<1>7. CASE Ends
  BY <1>7 DEF Ends, Next
<1>8. CASE Reviews
  BY <1>8 DEF Reviews, Next
<1>9. CASE UNCHANGED sessionVars
  BY <1>9 DEF sessionVars, bridgeVars
<1> QED BY <1>1, <1>2, <1>3, <1>4, <1>5, <1>6, <1>7, <1>8, <1>9 DEF BridgeNext

(* Waits, of any tracker.                                                  *)
Waiting(t) == t.pending # {} \/ t.question # None

(* What a handled message may make of the tracker t and send: the last     *)
(* event it sends, or else the tracker as it was, says whether t waits; a  *)
(* bridge that follows no conversation waits for nothing.                  *)
Settles(t, sent) ==
    /\ t \in Trackers
    /\ sent \in Seq(BridgeEvents)
    /\ IF sent = <<>> THEN Waiting(t) <=> Waits
       ELSE sent[Len(sent)].event.type = "InputRequestOpened" <=> Waiting(t)
    /\ t.conversation = None => ~Waiting(t)

(* The events that are sent are the last ones under way.                   *)
LEMMA SendsFacts ==
    ASSUME BridgeTypeOK, NEW t, NEW sent \in Seq(BridgeEvents), Sends(t, sent)
    PROVE  /\ tracker' = t
           /\ events' \in Seq(BridgeEvents)
           /\ sent = <<>> => events' = events
           /\ sent # <<>> => /\ events' # <<>>
                             /\ events'[Len(events')] = sent[Len(sent)]
           /\ UNCHANGED <<machine, outstanding, link, identity>>
<1>1. /\ tracker' = t
      /\ events' = events \o sent
      /\ UNCHANGED <<machine, outstanding, link, identity>>
  BY DEF Sends, vars
<1>2. events \in Seq(BridgeEvents)
  BY DEF BridgeTypeOK
<1>3. /\ events \o sent \in Seq(BridgeEvents)
      /\ Len(events \o sent) = Len(events) + Len(sent)
      /\ \A i \in 1..(Len(events) + Len(sent)) :
            (events \o sent)[i] = IF i <= Len(events) THEN events[i]
                                  ELSE sent[i - Len(events)]
  BY <1>2, ConcatProperties
<1>4. Len(events) \in Nat /\ Len(sent) \in Nat
  BY <1>2, LenProperties
<1>5. CASE sent = <<>>
  <2>1. events \o sent = events
    BY <1>2, <1>5, ConcatEmptySeq
  <2> QED BY <1>1, <1>3, <1>5, <2>1
<1>6. CASE sent # <<>>
  <2>1. Len(sent) > 0
    BY <1>4, <1>6, EmptySeq
  <2>2. (events \o sent)[Len(events) + Len(sent)] = sent[Len(sent)]
    BY <1>3, <1>4, <2>1
  <2>3. events \o sent # <<>>
    BY <1>3, <1>4, <2>1, EmptySeq
  <2> QED BY <1>1, <1>3, <1>6, <2>2, <2>3
<1> QED BY <1>5, <1>6

(* What the last event says is what the tracker says.  WaitingIsShown is   *)
(* not inductive: it says nothing while events are under way, nor before   *)
(* the terminal has connected and the process has started.                 *)
Shown ==
    link \in {"connecting", "open"} /\ machine.lifecycle \notin Terminal =>
        (WillWait <=> Waits)

(* A message that is handled, and one that is refused, keep the bridge's   *)
(* part of the invariant.                                                  *)
LEMMA SettledIsShown ==
    ASSUME BridgeTypeOK, BridgeStarts, Shown, link = "open",
           NEW t, NEW sent, Settles(t, sent), Sends(t, sent)
    PROVE  /\ tracker' = t
           /\ tracker' \in Trackers
           /\ events' \in Seq(BridgeEvents)
           /\ link' = link
           /\ BridgeStarts'
           /\ Shown'
<1>1. /\ t \in Trackers
      /\ sent \in Seq(BridgeEvents)
      /\ t.conversation = None => ~Waiting(t)
  BY DEF Settles
<1>2. /\ tracker' = t
      /\ events' \in Seq(BridgeEvents)
      /\ sent = <<>> => events' = events
      /\ sent # <<>> => /\ events' # <<>>
                        /\ events'[Len(events')] = sent[Len(sent)]
      /\ UNCHANGED <<machine, link>>
  BY <1>1, SendsFacts
<1>3. Waits' <=> Waiting(t)
  BY <1>2 DEF Waits, Waiting
<1>4. BridgeStarts'
  BY <1>1, <1>2, <1>3 DEF BridgeStarts
<1>5. CASE sent = <<>>
  <2>1. WillWait' <=> WillWait
    BY <1>2, <1>5 DEF WillWait
  <2>2. Waiting(t) <=> Waits
    BY <1>5 DEF Settles
  <2> QED BY <1>1, <1>2, <1>3, <1>4, <2>1, <2>2 DEF Shown
<1>6. CASE sent # <<>>
  <2>1. WillWait' <=> sent[Len(sent)].event.type = "InputRequestOpened"
    BY <1>2, <1>6 DEF WillWait
  <2>2. sent[Len(sent)].event.type = "InputRequestOpened" <=> Waiting(t)
    BY <1>6 DEF Settles
  <2> QED BY <1>1, <1>2, <1>3, <1>4, <2>1, <2>2 DEF Shown
<1> QED BY <1>5, <1>6

(* A refused message closes the bridge and changes nothing else.           *)
LEMMA RefusedIsShown ==
    ASSUME BridgeTypeOK, BridgeStarts, RepliesAreAccounted, Shown, Refuses
    PROVE  BridgeTypeOK' /\ BridgeStarts' /\ RepliesAreAccounted' /\ Shown'
BY DEF Refuses, BridgeTypeOK, BridgeStarts, RepliesAreAccounted, Shown, Waits

(* The events the bridge sends are runtime events.                         *)
LEMMA SentEvents ==
    ASSUME BridgeTypeOK
    PROVE  /\ Opened \in BridgeEvents
           /\ Opened.event.type = "InputRequestOpened"
           /\ InputResolved \in BridgeEvents
           /\ InputResolved.event.type = "InputRequestsResolved"
           /\ Prompted \in BridgeEvents
           /\ Prompted.event.type = "PromptSubmitted"
           /\ \A thread \in Threads :
                LET e == [event |-> [type |-> "TurnStarted"],
                          conversation |-> thread]
                IN  e \in BridgeEvents /\ e.event.type = "TurnStarted"
           /\ \A status \in {"completed", "interrupted", "failed"} :
                /\ TurnEnd(status) \in BridgeEvents
                /\ TurnEnd(status).event.type
                     = CASE status = "completed" -> "TurnStopped"
                         [] status = "interrupted" -> "TurnInterrupted"
                         [] status = "failed" -> "TurnFailed"
<1>1. tracker.conversation \in Threads \cup {None}
  BY DEF BridgeTypeOK, Trackers
<1>2. ASSUME NEW type \in {"InputRequestOpened", "InputRequestsResolved",
                           "PromptSubmitted", "TurnStarted",
                           "TurnInterrupted"},
             NEW conversation \in Threads \cup {None}
      PROVE  LET e == [event |-> [type |-> type],
                       conversation |-> conversation]
             IN  e \in BridgeEvents /\ e.event.type = type
  BY DEF BridgeEvents, Events
<1>3. LET e == RuntimeEvent([type |-> "TurnStopped", remaining |-> FALSE])
      IN  e \in BridgeEvents /\ e.event.type = "TurnStopped"
  BY <1>1 DEF BridgeEvents, Events, RuntimeEvent
<1>4. LET e == RuntimeEvent([type |-> "TurnFailed",
                             category |-> "provider_unavailable"])
      IN  e \in BridgeEvents /\ e.event.type = "TurnFailed"
  BY <1>1, BridgeAssumption DEF BridgeEvents, Events, RuntimeEvent
<1>5. ASSUME NEW status \in {"completed", "interrupted", "failed"}
      PROVE  /\ TurnEnd(status) \in BridgeEvents
             /\ TurnEnd(status).event.type
                  = CASE status = "completed" -> "TurnStopped"
                      [] status = "interrupted" -> "TurnInterrupted"
                      [] status = "failed" -> "TurnFailed"
  <2>1. CASE status = "completed"
    BY <1>3, <2>1 DEF TurnEnd
  <2>2. CASE status = "interrupted"
    BY <1>1, <1>2, <2>2 DEF TurnEnd, RuntimeEvent
  <2>3. CASE status = "failed"
    BY <1>4, <2>3 DEF TurnEnd
  <2> QED BY <2>1, <2>2, <2>3
<1>6. /\ Opened \in BridgeEvents
      /\ Opened.event.type = "InputRequestOpened"
      /\ InputResolved \in BridgeEvents
      /\ InputResolved.event.type = "InputRequestsResolved"
      /\ Prompted \in BridgeEvents
      /\ Prompted.event.type = "PromptSubmitted"
  BY <1>1, <1>2 DEF Opened, InputResolved, Prompted, RuntimeEvent
<1> QED BY <1>2, <1>5, <1>6

(* Short sequences and their last elements.                                *)
LEMMA ShortSequences ==
    /\ <<>> \in Seq(BridgeEvents)
    /\ \A a \in BridgeEvents :
         <<a>> \in Seq(BridgeEvents) /\ <<a>> # <<>> /\ <<a>>[Len(<<a>>)] = a
    /\ \A a, b \in BridgeEvents :
         /\ <<a, b>> \in Seq(BridgeEvents) /\ <<a, b>> # <<>>
         /\ <<a, b>>[Len(<<a, b>>)] = b
OBVIOUS

(* The bridge's part of the invariant; the record's is Inv.                *)
BridgeKept ==
    /\ BridgeTypeOK
    /\ BridgeStarts
    /\ RepliesAreAccounted
    /\ Shown

(* A question goes away by a reply, or with its turn when that fails.      *)
Resumes ==
    tracker.question # None /\ tracker'.question # tracker.question =>
        \/ answered \/ leftover
        \/ /\ tracker'.turn = tracker.turn
           /\ events'[Len(events')].event.type = "TurnFailed"

(* A message that leaves question and reply alone.                         *)
LEMMA QuietMessage ==
    ASSUME BridgeKept, link = "open", NEW t, NEW sent, Settles(t, sent),
           Sends(t, sent), t.question = tracker.question,
           t.answer = tracker.answer, UNCHANGED <<answered, leftover>>
    PROVE  BridgeKept' /\ Resumes
<1>1. /\ tracker' = t
      /\ tracker' \in Trackers
      /\ events' \in Seq(BridgeEvents)
      /\ link' = link
      /\ BridgeStarts'
      /\ Shown'
  BY SettledIsShown DEF BridgeKept
<1>2. RepliesAreAccounted'
  BY <1>1 DEF BridgeKept, RepliesAreAccounted
<1> QED BY <1>1, <1>2 DEF BridgeKept, BridgeTypeOK, Resumes

(* No message makes the Session wait for nothing or forgets a prompt, and  *)
(* none takes a question away without a reply.                             *)
LEMMA TrafficKept ==
    ASSUME BridgeKept, Traffic
    PROVE  BridgeKept' /\ Resumes
<1>1. BridgeTypeOK /\ tracker \in Trackers
  BY DEF BridgeKept, BridgeTypeOK
<1>2. ASSUME Refuses
      PROVE  BridgeKept' /\ Resumes
  <2>1. tracker' = tracker
    BY <1>2 DEF Refuses
  <2> QED BY <1>2, <2>1, RefusedIsShown DEF BridgeKept, Resumes
<1>3. tracker.conversation = None => ~Waiting(tracker)
  BY DEF BridgeKept, BridgeStarts, Waits, Waiting
<1>4. ASSUME link = "open", Sends(tracker, <<>>),
             UNCHANGED <<answered, leftover>>
      PROVE  BridgeKept' /\ Resumes
  <2>1. Settles(tracker, <<>>)
    BY <1>1, <1>3, ShortSequences DEF Settles, Waits, Waiting
  <2> QED BY <1>4, <2>1, QuietMessage
<1>5. ASSUME NEW id \in ThreadIds, NEW resumes \in BOOLEAN,
             ThreadRequest(id, resumes)
      PROVE  BridgeKept' /\ Resumes
  <2> DEFINE t == [tracker EXCEPT !.threadRequests = @ \cup {id}]
  <2>1. /\ t \in Trackers
        /\ t.question = tracker.question /\ t.answer = tracker.answer
        /\ t.pending = tracker.pending
        /\ t.conversation = tracker.conversation
    BY <1>1 DEF Trackers
  <2>2. link = "open" /\ Sends(t, <<>>) /\ UNCHANGED <<answered, leftover>>
    BY <1>5 DEF ThreadRequest
  <2> HIDE DEF t
  <2>3. Settles(t, <<>>)
    BY <1>3, <2>1, ShortSequences DEF Settles, Waits, Waiting
  <2> QED BY <2>1, <2>2, <2>3, QuietMessage
<1>6. CASE TurnStart
  <2> DEFINE t == [tracker EXCEPT !.answer = TRUE]
  <2>1. /\ t \in Trackers
        /\ t.question = tracker.question
        /\ t.pending = tracker.pending
        /\ t.conversation = tracker.conversation
    BY <1>1 DEF Trackers
  <2>2. /\ link = "open" /\ Sends(t, <<>>) /\ tracker.question # None
        /\ answered' = TRUE /\ leftover' = FALSE
    BY <1>6 DEF TurnStart
  <2> HIDE DEF t
  <2>3. Settles(t, <<>>)
    BY <1>3, <2>1, ShortSequences DEF Settles, Waits, Waiting
  <2>4. /\ tracker' = t
        /\ tracker' \in Trackers
        /\ events' \in Seq(BridgeEvents)
        /\ link' = link
        /\ BridgeStarts'
        /\ Shown'
    BY <2>2, <2>3, SettledIsShown DEF BridgeKept
  <2>5. RepliesAreAccounted'
    BY <2>1, <2>2, <2>4 DEF RepliesAreAccounted
  <2> QED BY <2>1, <2>2, <2>4, <2>5 DEF BridgeKept, BridgeTypeOK, Resumes
<1>7. ASSUME NEW refused \in BOOLEAN, PauseAnswered(refused)
      PROVE  BridgeKept' /\ Resumes
  BY <1>2, <1>4, <1>7 DEF PauseAnswered
<1>8. ASSUME NEW id \in ThreadIds, NEW thread \in Threads \cup {None},
             ThreadAnswered(id, thread)
      PROVE  BridgeKept' /\ Resumes
  <2> DEFINE t == [tracker EXCEPT !.threadRequests = @ \ {id}]
             bound == [t EXCEPT !.conversation = thread]
             e == [event |-> [type |-> "TurnStarted"], conversation |-> thread]
  <2>1. /\ t \in Trackers
        /\ t.question = tracker.question /\ t.answer = tracker.answer
        /\ t.pending = tracker.pending
        /\ t.conversation = tracker.conversation
    BY <1>1 DEF Trackers
  <2>2. /\ bound \in Trackers
        /\ bound.question = tracker.question
        /\ bound.answer = tracker.answer
        /\ bound.pending = tracker.pending
    BY <1>1, <2>1 DEF Trackers
  <2>3. /\ link = "open"
        /\ \/ Sends(t, <<>>) /\ UNCHANGED <<answered, leftover>>
           \/ Refuses
           \/ /\ thread # None /\ tracker.conversation = None
              /\ Sends(bound, <<e>>)
              /\ UNCHANGED <<answered, leftover>>
    BY <1>8 DEF ThreadAnswered
  <2> HIDE DEF t, bound
  <2>4. CASE Sends(t, <<>>) /\ UNCHANGED <<answered, leftover>>
    <3>1. Settles(t, <<>>)
      BY <1>3, <2>1, ShortSequences DEF Settles, Waits, Waiting
    <3> QED BY <2>1, <2>3, <2>4, <3>1, QuietMessage
  <2>5. CASE /\ thread # None /\ tracker.conversation = None
             /\ Sends(bound, <<e>>)
             /\ UNCHANGED <<answered, leftover>>
    <3>1. e \in BridgeEvents /\ e.event.type = "TurnStarted"
      BY <1>1, <2>5, SentEvents
    <3> HIDE DEF e
    <3>2. ~Waiting(bound)
      BY <1>3, <2>2, <2>5 DEF Waiting
    <3>3. Settles(bound, <<e>>)
      BY <2>2, <3>1, <3>2, ShortSequences DEF Settles
    <3> QED BY <2>2, <2>3, <2>5, <3>3, QuietMessage
  <2> QED BY <1>2, <2>3, <2>4, <2>5
<1>9. ASSUME NEW turn \in Turns, TurnStarted(turn)
      PROVE  BridgeKept' /\ Resumes
  <2> DEFINE on == [tracker EXCEPT !.turn = turn]
             resumed == [tracker EXCEPT !.turn = turn, !.question = None,
                                        !.answer = FALSE, !.pausing = FALSE,
                                        !.turnFinished = FALSE]
  <2>1. /\ on \in Trackers
        /\ on.question = tracker.question /\ on.answer = tracker.answer
        /\ on.pending = tracker.pending
        /\ on.conversation = tracker.conversation
    BY <1>1 DEF Trackers
  <2>2. /\ resumed \in Trackers
        /\ resumed.question = None /\ resumed.answer = FALSE
        /\ resumed.pending = tracker.pending
    BY <1>1 DEF Trackers
  <2>3. /\ link = "open"
        /\ \/ Refuses
           \/ /\ tracker.pending = {} /\ tracker.answer
              /\ tracker.question # None
              /\ Sends(resumed, <<InputResolved, Prompted>>)
              /\ answered' = FALSE /\ leftover' = FALSE
           \/ /\ tracker.pending = {} /\ tracker.question = None
              /\ Sends(on, <<Prompted>>)
              /\ UNCHANGED <<answered, leftover>>
    BY <1>9 DEF TurnStarted, Bound
  <2> HIDE DEF on, resumed
  <2>4. CASE /\ tracker.pending = {} /\ tracker.answer
             /\ tracker.question # None
             /\ Sends(resumed, <<InputResolved, Prompted>>)
             /\ answered' = FALSE /\ leftover' = FALSE
    <3>1. Settles(resumed, <<InputResolved, Prompted>>)
      BY <1>1, <2>2, <2>4, SentEvents, ShortSequences DEF Settles, Waiting
    <3>2. /\ tracker' = resumed
          /\ tracker' \in Trackers
          /\ events' \in Seq(BridgeEvents)
          /\ link' = link
          /\ BridgeStarts'
          /\ Shown'
      BY <2>3, <2>4, <3>1, SettledIsShown DEF BridgeKept
    <3>3. RepliesAreAccounted'
      BY <2>2, <2>4, <3>2 DEF RepliesAreAccounted
    <3>4. Resumes
      BY <2>4 DEF Resumes, BridgeKept, RepliesAreAccounted
    <3> QED BY <2>4, <3>2, <3>3, <3>4 DEF BridgeKept, BridgeTypeOK
  <2>5. CASE /\ tracker.pending = {} /\ tracker.question = None
             /\ Sends(on, <<Prompted>>)
             /\ UNCHANGED <<answered, leftover>>
    <3>1. Settles(on, <<Prompted>>)
      BY <1>1, <2>1, <2>5, SentEvents, ShortSequences DEF Settles, Waiting
    <3> QED BY <2>1, <2>3, <2>5, <3>1, QuietMessage
  <2> QED BY <1>2, <2>3, <2>4, <2>5
<1>10. ASSUME NEW id \in Requests, NEW elicitation \in BOOLEAN,
              InputRequested(id, elicitation)
       PROVE  BridgeKept' /\ Resumes
  <2> DEFINE t == [tracker EXCEPT !.pending = @ \cup {id},
                                  !.seen = @ \cup {id}]
  <2>1. /\ t \in Trackers
        /\ t.question = tracker.question /\ t.answer = tracker.answer
        /\ t.pending # {}
        /\ t.conversation = tracker.conversation
    BY <1>1 DEF Trackers
  <2>2. /\ link = "open" /\ tracker.conversation # None
        /\ \/ Refuses
           \/ Sends(tracker, <<>>) /\ UNCHANGED <<answered, leftover>>
           \/ Sends(t, <<Opened>>) /\ UNCHANGED <<answered, leftover>>
    BY <1>10 DEF InputRequested, Bound
  <2> HIDE DEF t
  <2>3. Settles(t, <<Opened>>)
    BY <1>1, <2>1, <2>2, SentEvents, ShortSequences DEF Settles, Waiting
  <2> QED BY <1>2, <1>4, <2>1, <2>2, <2>3, QuietMessage
<1>11. ASSUME NEW id \in Requests, RequestResolved(id)
       PROVE  BridgeKept' /\ Resumes
  <2> DEFINE t == [tracker EXCEPT !.pending = @ \ {id}]
  <2>1. /\ t \in Trackers
        /\ t.question = tracker.question /\ t.answer = tracker.answer
        /\ t.pending = tracker.pending \ {id}
        /\ t.conversation = tracker.conversation
    BY <1>1 DEF Trackers
  <2>2. /\ link = "open" /\ tracker.conversation # None
        /\ UNCHANGED <<answered, leftover>>
        /\ \/ Sends(t, <<>>) /\ (id \notin tracker.pending \/ Waiting(t))
           \/ Sends(t, <<InputResolved>>) /\ ~Waiting(t)
    BY <1>11 DEF RequestResolved, Bound, Waiting
  <2> HIDE DEF t
  <2>3. CASE Sends(t, <<>>) /\ (id \notin tracker.pending \/ Waiting(t))
    <3>1. Waiting(t) <=> Waits
      BY <2>1, <2>3 DEF Waits, Waiting
    <3>2. Settles(t, <<>>)
      BY <2>1, <2>2, <3>1, ShortSequences DEF Settles
    <3> QED BY <2>1, <2>2, <2>3, <3>2, QuietMessage
  <2>4. CASE Sends(t, <<InputResolved>>) /\ ~Waiting(t)
    <3>1. Settles(t, <<InputResolved>>)
      BY <1>1, <2>1, <2>4, SentEvents, ShortSequences DEF Settles
    <3> QED BY <2>1, <2>2, <2>4, <3>1, QuietMessage
  <2> QED BY <2>2, <2>3, <2>4
<1>12. ASSUME NEW turn \in Turns,
              NEW status \in {"completed", "interrupted", "failed"},
              TurnCompleted(turn, status)
       PROVE  BridgeKept' /\ Resumes
  <2> DEFINE kept == [tracker EXCEPT !.pending = {}, !.turnFinished = TRUE]
             over == [tracker EXCEPT !.pending = {}, !.question = None]
  <2>1. /\ kept \in Trackers
        /\ kept.question = tracker.question /\ kept.answer = tracker.answer
        /\ kept.pending = {}
        /\ kept.conversation = tracker.conversation
    BY <1>1 DEF Trackers
  <2>2. /\ over \in Trackers
        /\ over.question = None /\ over.answer = tracker.answer
        /\ over.pending = {}
        /\ over.turn = tracker.turn
    BY <1>1 DEF Trackers
  <2>3. /\ link = "open" /\ tracker.conversation # None
        /\ \/ Sends(tracker, <<>>) /\ UNCHANGED <<answered, leftover>>
           \/ /\ tracker.question # None
              /\ Sends(kept, <<>>)
              /\ UNCHANGED <<answered, leftover>>
           \/ /\ tracker.question = None \/ status = "failed"
              /\ Sends(over, <<TurnEnd(status)>>)
              /\ answered' = FALSE
              /\ leftover' = tracker.answer
    BY <1>12 DEF TurnCompleted, Bound
  <2> HIDE DEF kept, over
  <2>4. CASE /\ tracker.question # None
             /\ Sends(kept, <<>>)
             /\ UNCHANGED <<answered, leftover>>
    <3>1. Settles(kept, <<>>)
      BY <2>1, <2>3, <2>4, ShortSequences DEF Settles, Waits, Waiting
    <3> QED BY <2>1, <2>3, <2>4, <3>1, QuietMessage
  <2>5. CASE /\ tracker.question = None \/ status = "failed"
             /\ Sends(over, <<TurnEnd(status)>>)
             /\ answered' = FALSE
             /\ leftover' = tracker.answer
    <3>1. /\ TurnEnd(status) \in BridgeEvents
          /\ TurnEnd(status).event.type # "InputRequestOpened"
          /\ status = "failed" => TurnEnd(status).event.type = "TurnFailed"
      BY <1>1, SentEvents
    <3>2. Settles(over, <<TurnEnd(status)>>)
      BY <2>2, <3>1, ShortSequences DEF Settles, Waiting
    <3>3. /\ tracker' = over
          /\ tracker' \in Trackers
          /\ events' \in Seq(BridgeEvents)
          /\ link' = link
          /\ BridgeStarts'
          /\ Shown'
      BY <2>3, <2>5, <3>2, SettledIsShown DEF BridgeKept
    <3>4. RepliesAreAccounted'
      BY <2>2, <2>5, <3>3 DEF RepliesAreAccounted
    <3>5. events'[Len(events')] = TurnEnd(status)
      <4>1. <<TurnEnd(status)>> \in Seq(BridgeEvents)
            /\ <<TurnEnd(status)>> # <<>>
            /\ <<TurnEnd(status)>>[Len(<<TurnEnd(status)>>)] = TurnEnd(status)
        BY <3>1, ShortSequences
      <4> QED BY <1>1, <2>5, <4>1, SendsFacts
    <3>6. Resumes
      BY <2>2, <2>5, <3>1, <3>3, <3>5 DEF Resumes
    <3>7. answered' \in BOOLEAN /\ leftover' \in BOOLEAN
      BY <1>1, <2>5 DEF Trackers
    <3> QED BY <3>3, <3>4, <3>6, <3>7 DEF BridgeKept, BridgeTypeOK
  <2> QED BY <1>4, <2>3, <2>4, <2>5
<1>13. ASSUME NEW item \in Items, NEW turn \in Turns,
              QuestionAsked(item, turn)
       PROVE  BridgeKept' /\ Resumes
  <2> DEFINE t == [tracker EXCEPT !.question = item, !.pausing = TRUE,
                                  !.turnFinished = FALSE]
  <2>1. /\ t \in Trackers
        /\ t.question = item /\ t.answer = tracker.answer
        /\ t.conversation = tracker.conversation
        /\ item # None
    BY <1>1, BridgeAssumption DEF Trackers
  <2>2. /\ link = "open" /\ tracker.conversation # None
        /\ \/ Sends(tracker, <<>>) /\ UNCHANGED <<answered, leftover>>
           \/ Refuses
           \/ /\ tracker.question = None
              /\ Sends(t, <<Opened>>)
              /\ answered' = FALSE
              /\ leftover' = leftover
    BY <1>13 DEF QuestionAsked, Bound
  <2> HIDE DEF t
  <2>3. CASE /\ tracker.question = None
             /\ Sends(t, <<Opened>>)
             /\ answered' = FALSE
             /\ leftover' = leftover
    <3>1. Settles(t, <<Opened>>)
      BY <1>1, <2>1, <2>2, SentEvents, ShortSequences DEF Settles, Waiting
    <3>2. /\ tracker' = t
          /\ tracker' \in Trackers
          /\ events' \in Seq(BridgeEvents)
          /\ link' = link
          /\ BridgeStarts'
          /\ Shown'
      BY <2>2, <2>3, <3>1, SettledIsShown DEF BridgeKept
    <3>3. RepliesAreAccounted'
      BY <2>1, <2>3, <3>2 DEF BridgeKept, RepliesAreAccounted
    <3> QED BY <2>3, <3>2, <3>3 DEF BridgeKept, BridgeTypeOK, Resumes
  <2> QED BY <1>2, <1>4, <2>2, <2>3
<1> QED BY <1>5, <1>6, <1>7, <1>8, <1>9, <1>10, <1>11, <1>12, <1>13 DEF Traffic

(* The tracker and the replies do not depend on the daemon.                *)
LEMMA DaemonKeepsTracker ==
    ASSUME BridgeKept, UNCHANGED <<tracker, answered, leftover>>
    PROVE  RepliesAreAccounted' /\ Resumes /\ (Waits' <=> Waits)
BY DEF BridgeKept, RepliesAreAccounted, Resumes, Waits

(* What the first event under way leaves for the others to decide.         *)
LEMMA FirstEvent ==
    ASSUME NEW s \in Seq(BridgeEvents), s # <<>>
    PROVE  /\ Head(s) \in BridgeEvents
           /\ Tail(s) \in Seq(BridgeEvents)
           /\ Tail(s) = <<>> => s[Len(s)] = Head(s)
           /\ Tail(s) # <<>> => Tail(s)[Len(Tail(s))] = s[Len(s)]
<1> DEFINE t == Tail(s)
<1>1. /\ Head(s) \in BridgeEvents
      /\ t \in Seq(BridgeEvents)
      /\ Len(t) = Len(s) - 1
      /\ \A i \in 1..Len(t) : t[i] = s[i + 1]
      /\ Head(s) = s[1]
  BY HeadTailProperties
<1> HIDE DEF t
<1>2. Len(s) \in Nat /\ Len(t) \in Nat
  BY <1>1, LenProperties
<1>3. t = <<>> => Len(s) = 1
  BY <1>1, <1>2
<1>4. t # <<>> => Len(t) \in 1..Len(t)
  BY <1>1, <1>2, EmptySeq
<1>5. t # <<>> => t[Len(t)] = s[Len(s)]
  BY <1>1, <1>2, <1>4
<1> QED BY <1>1, <1>3, <1>5 DEF t

(* An event that reaches a running Session is shown as ApplyShows says.    *)
LEMMA DeliverShows ==
    ASSUME Inv, NEW event \in Events, Deliver(event),
           machine.lifecycle \notin Terminal
    PROVE  Shows(machine, machine', event.type)
<1>1. machine \in Machines /\ machine' = Apply(machine, event)
  BY DEF Inv, TypeOK, Deliver
<1>2. machine.lifecycle = "running"
  BY <1>1 DEF Deliver, Machines, Lifecycles, Terminal
<1> QED BY <1>1, <1>2, RawRecords, ApplyShows DEF Inv, StatusValid

(* Every step keeps what is shown, and takes no question away unreplied.   *)
LEMMA BridgeStep ==
    ASSUME Inv, BridgeKept, [BridgeNext]_sessionVars
    PROVE  BridgeKept' /\ Resumes
<1> USE DEF BridgeTypeOK
<1>1. CASE Traffic
  BY <1>1, TrafficKept
<1>2. CASE link = "none" /\ UNCHANGED bridgeVars
  <2>1. UNCHANGED <<link, tracker, events, answered, leftover>>
    BY <1>2 DEF bridgeVars
  <2> QED BY <1>2, <2>1, DaemonKeepsTracker
          DEF BridgeKept, BridgeStarts, Shown
<1>3. CASE Spawned /\ UNCHANGED bridgeVars
  <2>1. UNCHANGED <<link, tracker, events, answered, leftover>>
    BY <1>3 DEF bridgeVars
  <2>2. /\ machine'.activity = machine.activity
        /\ machine.lifecycle \notin Terminal
    BY <1>3 DEF Inv, TypeOK, Spawned, FromPersisted, MarkRunning, Machines,
                Terminal
  <2>3. WillWait' <=> WillWait
    BY <2>1, <2>2 DEF WillWait
  <2> QED BY <2>1, <2>2, <2>3, DaemonKeepsTracker
          DEF BridgeKept, BridgeStarts, Shown
<1>4. CASE Connect \/ Close
  <2>1. UNCHANGED <<machine, tracker, events, answered, leftover>>
    BY <1>4 DEF Connect, Close, vars
  <2>2. /\ link \in {"connecting", "open"}
        /\ link' \in {"open", "closed"}
    BY <1>4 DEF Connect, Close
  <2>3. WillWait' <=> WillWait
    BY <2>1 DEF WillWait
  <2> QED BY <2>1, <2>2, <2>3, DaemonKeepsTracker
          DEF BridgeKept, BridgeStarts, Shown
<1>5. CASE ApplyRuntimeEvent
  <2> DEFINE e == Head(events)
  <2>1. /\ UNCHANGED <<tracker, answered, leftover>>
        /\ events # <<>> /\ events \in Seq(BridgeEvents)
        /\ link # "connecting"
    BY <1>5 DEF ApplyRuntimeEvent, BridgeKept, BridgeStarts
  <2>2. /\ e \in BridgeEvents
        /\ Tail(events) \in Seq(BridgeEvents)
        /\ Tail(events) = <<>> => events[Len(events)] = e
        /\ Tail(events) # <<>> =>
             Tail(events)[Len(Tail(events))] = events[Len(events)]
    BY <2>1, FirstEvent
  <2>3. CASE machine.lifecycle \in Terminal
    <3>1. /\ events' = Tail(events)
          /\ UNCHANGED <<machine, link>>
      BY <1>5, <2>3 DEF ApplyRuntimeEvent, vars
    <3> QED BY <2>1, <2>2, <2>3, <3>1, DaemonKeepsTracker
            DEF BridgeKept, BridgeStarts, Shown
  <2>4. CASE /\ machine.lifecycle \notin Terminal
             /\ Deliver(e.event)
             /\ events' = Tail(events)
             /\ link' = link
    <3>1. /\ e.event \in Events
          /\ e.event.type \in {"InputRequestOpened",
                "InputRequestsResolved", "PromptSubmitted", "TurnStarted",
                "TurnStopped", "TurnInterrupted", "TurnFailed"}
      BY <2>2 DEF BridgeEvents
    <3> HIDE DEF e
    <3>2. Shows(machine, machine', e.event.type)
      BY <2>4, <3>1, DeliverShows
    <3>3. machine'.activity = "awaiting_input"
            <=> e.event.type = "InputRequestOpened"
      BY <3>1, <3>2 DEF Shows
    <3>4. WillWait' <=> WillWait
      BY <2>1, <2>2, <2>4, <3>3 DEF WillWait
    <3> QED BY <2>1, <2>2, <2>4, <3>4, DaemonKeepsTracker
            DEF BridgeKept, BridgeStarts, Shown
  <2>5. CASE events' = <<>> /\ link' = "closed"
    BY <2>1, <2>5, DaemonKeepsTracker DEF BridgeKept, BridgeStarts, Shown
  <2> QED BY <1>5, <2>3, <2>4, <2>5 DEF ApplyRuntimeEvent
<1>6. ASSUME NEW event \in Hooks, NEW conversation \in Threads,
             ApplyHook(event, conversation)
      PROVE  BridgeKept' /\ Resumes
  <2>1. /\ UNCHANGED <<link, tracker, events, answered, leftover>>
        /\ machine.lifecycle = "running"
        /\ ~HookIgnored(event)
        /\ Deliver(event)
        /\ event \in Events
    BY <1>6, BridgeAssumption DEF ApplyHook
  <2>2. Shows(machine, machine', event.type)
    BY <2>1, DeliverShows DEF Terminal
  <2>3. machine'.activity = "awaiting_input"
          <=> machine.activity = "awaiting_input"
    BY <2>1, <2>2, BridgeAssumption DEF Shows, HookIgnored
  <2>4. WillWait' <=> WillWait
    BY <2>1, <2>3 DEF WillWait
  <2> QED BY <2>1, <2>4, DaemonKeepsTracker
          DEF BridgeKept, BridgeStarts, Shown, Terminal
<1>7. CASE Ends
  <2>1. /\ UNCHANGED <<tracker, answered, leftover>>
        /\ link' = "closed"
        /\ events' \in {events, <<>>}
    BY <1>7 DEF Ends
  <2>2. events' \in Seq(BridgeEvents)
    BY <2>1, ShortSequences DEF BridgeKept
  <2>3. Waits' <=> Waits
    BY <2>1 DEF Waits
  <2>4. BridgeStarts'
    BY <2>1, <2>3 DEF BridgeKept, BridgeStarts
  <2> QED BY <2>1, <2>2, <2>4, DaemonKeepsTracker DEF BridgeKept, Shown
<1>8. CASE Reviews
  <2>1. UNCHANGED <<link, tracker, events, answered, leftover>>
    BY <1>8 DEF Reviews, bridgeVars
  <2>2. /\ machine'.activity = machine.activity
        /\ machine'.lifecycle = machine.lifecycle
    BY <1>8 DEF Reviews, Review, Acknowledge, Inv, TypeOK, Machines
  <2>3. WillWait' <=> WillWait
    BY <2>1, <2>2 DEF WillWait
  <2> QED BY <2>1, <2>2, <2>3, DaemonKeepsTracker
          DEF BridgeKept, BridgeStarts, Shown
<1>9. CASE UNCHANGED sessionVars
  <2>1. UNCHANGED <<machine, link, tracker, events, answered, leftover>>
    BY <1>9 DEF sessionVars, bridgeVars, vars
  <2>2. WillWait' <=> WillWait
    BY <2>1 DEF WillWait
  <2> QED BY <2>1, <2>2, DaemonKeepsTracker
          DEF BridgeKept, BridgeStarts, Shown
<1> QED BY <1>1, <1>2, <1>3, <1>4, <1>5, <1>6, <1>7, <1>8, <1>9 DEF BridgeNext

(* A new bridge has seen nothing.                                          *)
LEMMA BridgeInitKept == BridgeInit => BridgeKept
<1> SUFFICES ASSUME BridgeInit PROVE BridgeKept
  OBVIOUS
<1>1. /\ link \in {"none", "connecting"}
      /\ tracker = NoTracker
      /\ events = <<>>
      /\ answered = FALSE
      /\ leftover = FALSE
      /\ machine = NewRow
  BY DEF BridgeInit, Init
<1>2. NoTracker \in Trackers /\ ~Waiting(NoTracker)
      /\ NoTracker.answer = FALSE
  BY DEF NoTracker, Trackers, Waiting
<1>3. ~WillWait /\ ~Waits
  BY <1>1, <1>2 DEF WillWait, NewRow, Waits, Waiting
<1> QED BY <1>1, <1>2, <1>3, ShortSequences
        DEF BridgeKept, BridgeTypeOK, BridgeStarts, RepliesAreAccounted, Shown

(* A Session with a bridge behaves as a status record does: every theorem  *)
(* about StatusMachine is one about it.                                    *)
THEOREM BridgeImplements == BridgeSpec => Spec
<1>1. BridgeInit => Init /\ BridgeKept
  BY BridgeInitKept DEF BridgeInit
<1>2. Inv /\ BridgeKept /\ [BridgeNext]_sessionVars
        => [Next]_vars /\ Inv' /\ BridgeKept'
  BY BridgeStepsAreSteps, BridgeStep, StepInv DEF BridgeKept
<1> QED BY <1>1, <1>2, InitInv, PTL DEF BridgeSpec, Spec

(* The bridge's part of the invariant holds of every behaviour.            *)
THEOREM BridgeInvariance == BridgeSpec => [](Inv /\ BridgeKept)
<1>1. BridgeInit => Inv /\ BridgeKept
  BY BridgeInitKept, InitInv DEF BridgeInit
<1>2. Inv /\ BridgeKept /\ [BridgeNext]_sessionVars => (Inv /\ BridgeKept)'
  BY BridgeStepsAreSteps, BridgeStep, StepInv DEF BridgeKept
<1> QED BY <1>1, <1>2, PTL DEF BridgeSpec

(* The Session waits for input exactly while the app server waits for an   *)
(* answer, once the events under way are applied: for any capacity of the  *)
(* channel, any number of requests, and any order of events and hooks.     *)
THEOREM WaitingIsTrue == BridgeSpec => []WaitingIsShown
<1>1. Inv /\ BridgeKept => WaitingIsShown
  BY DEF BridgeKept, Shown, WillWait, WaitingIsShown, Terminal
<1> QED BY BridgeInvariance, <1>1, PTL

(* A question goes away only by a reply, or with a turn that fails.        *)
THEOREM RepliesResume == BridgeSpec => OnlyAReplyResumes
<1> DEFINE Replied ==
             tracker.question # None /\ tracker'.question # tracker.question =>
               \/ answered \/ leftover
               \/ tracker'.turn = tracker.turn
                  /\ events'[Len(events')].event.type = "TurnFailed"
<1>1. Inv /\ BridgeKept /\ [BridgeNext]_sessionVars => [Replied]_sessionVars
  BY BridgeStep DEF Resumes
<1>2. BridgeSpec => [][Replied]_sessionVars
  BY BridgeInvariance, <1>1, PTL DEF BridgeSpec
<1> QED BY <1>2 DEF OnlyAReplyResumes

(* With a bridge too a completed turn has no subagent running, tracking is *)
(* exact until its capacity is exhausted, and a dismissal holds.           *)
THEOREM BridgedStatus ==
    BridgeSpec => /\ []CompletionHasNoOutstandingWork
                  /\ []TrackingCoversOutstanding
                  /\ DismissedFailureStaysQuiet
BY BridgeImplements, CompletionIsHonest, TrackingIsExact, DismissalHolds, PTL
============================================================================
