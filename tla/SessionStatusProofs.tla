------------------------ MODULE SessionStatusProofs ------------------------
(***************************************************************************)
(* Lemmas about the reducer's operators: what every event, an exit, the    *)
(* launch, a review and a restart make of a status record, for every set   *)
(* of agents and categories, every subagent capacity and every bound on    *)
(* attention identities.  StatusMachineProofs and SessionSupervisorProofs  *)
(* rest on them.                                                           *)
(***************************************************************************)
EXTENDS SessionStatus, TLAPS

(* A record the reducer may hold before the range check of its identity.   *)
RawEvents == [id : Nat \ {0}, reason : Reasons, ack : Acknowledgements]

RawMachines == [lifecycle  : Lifecycles,
                activity   : Activities,
                attention  : RawEvents \cup {NoAttention},
                category   : FailureCategories,
                subagents  : SUBSET Agents,
                exhausted  : BOOLEAN,
                remaining  : BOOLEAN]

(* What one step of the reducer may do to the attention event: leave it,   *)
(* resolve it, or raise the next one.                                      *)
AttentionStep(old, new) ==
    \/ new = old
    \/ new = [old EXCEPT !.ack = "resolved"]
    \/ new.id = old.id + 1 /\ new.ack = "pending"

(* The tracking fields of two records agree.                               *)
SameWork(m, n) ==
    /\ n.subagents = m.subagents
    /\ n.exhausted = m.exhausted
    /\ n.remaining = m.remaining

(* Every stored record is a raw record, and a raw record whose identity is *)
(* in range is one that may be stored.                                     *)
LEMMA RawRecords ==
    /\ Machines \subseteq RawMachines
    /\ \A m \in RawMachines : InRange(m) => m \in Machines
<1>1. ASSUME NEW m \in Machines
      PROVE  m \in RawMachines
  <2>1. m.attention \in RawEvents \cup {NoAttention}
    BY AttentionIdAssumption
       DEF Machines, AttentionEvents, RawEvents, NoAttention
  <2> QED BY <2>1 DEF Machines, RawMachines
<1>2. ASSUME NEW m \in RawMachines, InRange(m)
      PROVE  m \in Machines
  <2>1. m.attention \in AttentionEvents \cup {NoAttention}
    BY <1>2, AttentionIdAssumption
       DEF RawMachines, AttentionEvents, RawEvents, NoAttention, InRange
  <2> QED BY <2>1 DEF Machines, RawMachines
<1> QED BY <1>1, <1>2

(* n is m with the condition `reason' effective and nothing else changed.  *)
Raised(m, n, reason) ==
    /\ n \in RawMachines
    /\ n.lifecycle = m.lifecycle
    /\ n.activity = m.activity
    /\ n.category = m.category
    /\ SameWork(m, n)
    /\ n.attention.reason = reason
    /\ Effective(n.attention)
    /\ n.attention # NoAttention
    /\ AttentionStep(m.attention, n.attention)

(* set_attention_condition makes the condition effective, whether or not   *)
(* it is materially new, and touches nothing else.                         *)
LEMMA SetAttentionConditionFacts ==
    ASSUME NEW m \in RawMachines, NEW reason \in Reasons, NEW new
    PROVE  Raised(m, SetAttentionCondition(m, reason, new), reason)
<1> DEFINE n == SetAttentionCondition(m, reason, new)
           fresh == [id |-> m.attention.id + 1, reason |-> reason,
                     ack |-> "pending"]
<1>1. /\ m.attention.id \in Nat
      /\ m.attention.ack \in Acknowledgements
      /\ m.attention \in RawEvents \cup {NoAttention}
  BY DEF RawMachines, RawEvents, NoAttention, Acknowledgements
<1>2. CASE ~new /\ m.attention.reason = reason /\ Effective(m.attention)
  <2>1. n = m
    BY <1>2 DEF SetAttentionCondition
  <2>2. m.attention # NoAttention
    BY <1>2 DEF NoAttention, Reasons
  <2> QED BY <1>2, <2>1, <2>2 DEF AttentionStep, SameWork, Raised
<1>3. CASE ~(~new /\ m.attention.reason = reason /\ Effective(m.attention))
  <2>1. n = [m EXCEPT !.attention = fresh]
    BY <1>3 DEF SetAttentionCondition
  <2>2. fresh \in RawEvents
    BY <1>1 DEF RawEvents, Acknowledgements
  <2>3. n \in RawMachines
    BY <2>1, <2>2 DEF RawMachines
  <2>4. n.attention = fresh
    BY <2>1 DEF RawMachines
  <2>5. fresh # NoAttention
    BY DEF NoAttention, Reasons
  <2> QED BY <2>1, <2>3, <2>4, <2>5
          DEF AttentionStep, SameWork, Effective, RawMachines, Raised
<1> QED BY <1>2, <1>3

(* Resolving leaves the event's identity and reason and everything else.   *)
LEMMA ResolveAttentionFacts ==
    ASSUME NEW m \in RawMachines
    PROVE  LET n == ResolveAttention(m)
           IN  /\ n \in RawMachines
               /\ n.lifecycle = m.lifecycle
               /\ n.activity = m.activity
               /\ n.category = m.category
               /\ SameWork(m, n)
               /\ ~Effective(n.attention)
               /\ m.attention = NoAttention <=> n.attention = NoAttention
               /\ AttentionStep(m.attention, n.attention)
<1> DEFINE n == ResolveAttention(m)
           ended == [m.attention EXCEPT !.ack = "resolved"]
<1>1. n = [m EXCEPT !.attention = ended]
  BY DEF ResolveAttention
<1>2. /\ ended \in RawEvents \cup {NoAttention}
      /\ ended.id = m.attention.id
      /\ ended.reason = m.attention.reason
      /\ ended.ack = "resolved"
      /\ m.attention = NoAttention <=> ended = NoAttention
  BY DEF RawMachines, RawEvents, NoAttention, Acknowledgements
<1>3. n \in RawMachines /\ n.attention = ended
  BY <1>1, <1>2 DEF RawMachines
<1> QED BY <1>1, <1>2, <1>3
        DEF AttentionStep, SameWork, Effective, RawMachines

(* For a running record the agreement of activity and attention is all     *)
(* that validate asks.                                                     *)
Agrees(m) ==
    ExpectedReason(m.activity)
      = (IF Effective(m.attention) THEN m.attention.reason ELSE "none")

(* The reason a condition calls for is one of the reasons.                 *)
LEMMA ExpectedReasonType ==
    ASSUME NEW activity \in Activities
    PROVE  ExpectedReason(activity)
             \in {"none", "input_requested", "successful_completion",
                  "recoverable_failure"}
BY DEF ExpectedReason, Activities

(* A record that mark_session_running produced is valid.                   *)
LEMMA RunningIsValid ==
    ASSUME NEW m \in RawMachines, m.lifecycle = "running", Agrees(m)
    PROVE  Validate(m)
<1>1. m.activity \in Activities
  BY DEF RawMachines
<1>2. ~Effective(NoAttention)
  BY DEF Effective, NoAttention
<1>3. m.attention = NoAttention => ExpectedReason(m.activity) = "none"
  BY <1>2 DEF Agrees
<1>4. ASSUME Effective(m.attention)
      PROVE  m.attention.reason \in {"input_requested", "recoverable_failure"}
               \/ (m.attention.reason = "successful_completion"
                     /\ m.activity = "completed")
  BY <1>1, <1>4 DEF Agrees, ExpectedReason, Activities, RawMachines,
                    RawEvents, NoAttention, Reasons, Effective
<1> QED BY <1>3, <1>4 DEF Validate, Agrees

(* set_live_condition establishes validity whatever the record was.        *)
LEMMA SetLiveConditionFacts ==
    ASSUME NEW m \in RawMachines, m.lifecycle = "running",
           NEW activity \in Activities, NEW reason \in Reasons \cup {"none"},
           reason = ExpectedReason(activity)
    PROVE  LET n == SetLiveCondition(m, activity, reason)
           IN  /\ n \in RawMachines
               /\ n.lifecycle = "running"
               /\ n.activity = activity
               /\ SameWork(m, n)
               /\ Validate(n)
               /\ AttentionStep(m.attention, n.attention)
<1> DEFINE live == [m EXCEPT !.activity = activity,
                             !.category = IF activity = "recoverable_failure"
                                          THEN @ ELSE NoCategory]
           n == SetLiveCondition(m, activity, reason)
<1>1. /\ live \in RawMachines
      /\ live.lifecycle = "running"
      /\ live.activity = activity
      /\ live.attention = m.attention
      /\ SameWork(m, live)
  BY DEF RawMachines, FailureCategories, SameWork
<1> HIDE DEF live
<1>2. CASE reason = "none"
  <2>1. n = ResolveAttention(live)
    BY <1>2 DEF SetLiveCondition, live
  <2>2. /\ n \in RawMachines
        /\ n.lifecycle = "running"
        /\ n.activity = activity
        /\ SameWork(live, n)
        /\ ~Effective(n.attention)
        /\ AttentionStep(m.attention, n.attention)
    BY <1>1, <2>1, ResolveAttentionFacts
  <2>3. Validate(n)
    BY <1>2, <2>2, RunningIsValid DEF Agrees
  <2> QED BY <1>1, <2>2, <2>3 DEF SameWork
<1>3. CASE reason # "none"
  <2>1. n = SetAttentionCondition(live, reason, FALSE)
    BY <1>3 DEF SetLiveCondition, live
  <2>2. reason \in Reasons
    BY <1>3
  <2>r. Raised(live, n, reason)
    BY <1>1, <2>1, <2>2, SetAttentionConditionFacts, Zenon
  <2>3. /\ n \in RawMachines
        /\ n.lifecycle = "running"
        /\ n.activity = activity
        /\ SameWork(live, n)
        /\ Effective(n.attention)
        /\ n.attention.reason = reason
        /\ AttentionStep(m.attention, n.attention)
    BY <1>1, <2>r DEF Raised
  <2>4. Validate(n)
    BY <2>3, RunningIsValid DEF Agrees
  <2> QED BY <1>1, <2>3, <2>4 DEF SameWork
<1> QED BY <1>2, <1>3

(* What every arm of apply guarantees for a running record.                *)
Sound(m, n) ==
    /\ n \in RawMachines
    /\ n.lifecycle = "running"
    /\ Validate(n)
    /\ AttentionStep(m.attention, n.attention)

CompletedMeansDone(m) == m.activity = "completed" => NoKnownWork(m)

(* Doing nothing is a step.                                                *)
LEMMA Unmoved ==
    ASSUME NEW m \in RawMachines
    PROVE  AttentionStep(m.attention, m.attention)
BY DEF AttentionStep

(* Validity and soundness do not look at the tracking fields.              *)
LEMMA WorkIsIndependent ==
    ASSUME NEW m \in RawMachines, NEW n \in RawMachines,
           n.lifecycle = m.lifecycle, n.activity = m.activity,
           n.attention = m.attention, Validate(m)
    PROVE  Validate(n)
BY DEF Validate

(* A further prompt raises a new event and keeps the record sound.         *)
LEMMA RenewInputAttentionSound ==
    ASSUME NEW m \in RawMachines, m.lifecycle = "running"
    PROVE  LET n == RenewInputAttention(m)
           IN  Sound(m, n) /\ SameWork(m, n) /\ n.activity = "awaiting_input"
<1> DEFINE asked == [m EXCEPT !.activity = "awaiting_input"]
           n == RenewInputAttention(m)
<1>1. /\ asked \in RawMachines
      /\ asked.lifecycle = "running"
      /\ asked.activity = "awaiting_input"
      /\ asked.attention = m.attention
      /\ SameWork(m, asked)
  BY DEF RawMachines, Activities, SameWork
<1>2. n = SetAttentionCondition(asked, "input_requested", TRUE)
  BY DEF RenewInputAttention
<1> HIDE DEF asked
<1>a. Raised(asked, n, "input_requested")
  BY <1>1, <1>2, SetAttentionConditionFacts, Zenon DEF Reasons
<1>3. /\ n \in RawMachines
      /\ n.lifecycle = "running"
      /\ n.activity = "awaiting_input"
      /\ SameWork(asked, n)
      /\ Effective(n.attention)
      /\ n.attention.reason = "input_requested"
      /\ AttentionStep(m.attention, n.attention)
  BY <1>1, <1>a DEF Raised
<1>4. Agrees(n)
  BY <1>3 DEF Agrees, ExpectedReason
<1> QED BY <1>1, <1>3, <1>4, RunningIsValid DEF Sound, SameWork

(* A failed turn leaves a sound record.                                    *)
LEMMA FailTurnSound ==
    ASSUME NEW m \in RawMachines, m.lifecycle = "running",
           NEW category \in Categories
    PROVE  LET n == FailTurn(m, category)
           IN  /\ Sound(m, n)
               /\ SameWork(m, n)
               /\ n.activity = "recoverable_failure"
<1> DEFINE down == [m EXCEPT !.category = category,
                             !.activity = "recoverable_failure"]
           new == m.category \notin {NoCategory, category}
           n == FailTurn(m, category)
<1>1. /\ down \in RawMachines
      /\ down.lifecycle = "running"
      /\ down.activity = "recoverable_failure"
      /\ down.attention = m.attention
      /\ SameWork(m, down)
  BY DEF RawMachines, Activities, FailureCategories, SameWork
<1>2. n = SetAttentionCondition(down, "recoverable_failure", new)
  BY DEF FailTurn
<1> HIDE DEF down, new
<1>3. Raised(down, n, "recoverable_failure")
  BY <1>1, <1>2, SetAttentionConditionFacts, Zenon DEF Reasons
<1>4. /\ n \in RawMachines
      /\ n.lifecycle = "running"
      /\ n.activity = "recoverable_failure"
      /\ SameWork(down, n)
      /\ Effective(n.attention)
      /\ n.attention.reason = "recoverable_failure"
      /\ AttentionStep(m.attention, n.attention)
  BY <1>1, <1>3 DEF Raised
<1>5. Agrees(n)
  BY <1>4 DEF Agrees, ExpectedReason
<1> QED BY <1>1, <1>4, <1>5, RunningIsValid DEF Sound, SameWork

(* A new turn starts from a sound record with nothing outstanding.         *)
LEMMA StartTurnSound ==
    ASSUME NEW m \in RawMachines, m.lifecycle = "running"
    PROVE  LET n == StartTurn(m)
           IN  /\ Sound(m, n)
               /\ n.subagents = {} /\ n.exhausted = FALSE
               /\ n.activity = "working"
<1> DEFINE reset == [m EXCEPT !.subagents = {}, !.exhausted = FALSE,
                              !.remaining = FALSE]
<1>1. /\ reset \in RawMachines
      /\ reset.lifecycle = "running"
      /\ reset.attention = m.attention
      /\ reset.subagents = {} /\ reset.exhausted = FALSE
  BY DEF RawMachines
<1>2. StartTurn(m) = SetLiveCondition(reset, "working", "none")
  BY DEF StartTurn
<1> HIDE DEF reset
<1> QED BY <1>1, <1>2, SetLiveConditionFacts
        DEF Sound, SameWork, Activities, ExpectedReason

(* A started agent is tracked, or the exhaustion of the capacity is.       *)
Counted(m, n, agent) ==
    /\ n.exhausted = TRUE \/ n.subagents = m.subagents \cup {agent}
    /\ m.exhausted = TRUE => n.exhausted = TRUE

(* A subagent that starts is counted, by name or as incomplete.            *)
LEMMA StartSubagentSound ==
    ASSUME NEW m \in RawMachines, m.lifecycle = "running", Validate(m),
           NEW agent \in Agents
    PROVE  LET n == StartSubagent(m, agent)
           IN  /\ Sound(m, n)
               /\ Counted(m, n, agent)
               /\ n.activity \in {"working", "awaiting_input"}
<1> DEFINE k == TrackSubagent(m, agent)
           n == StartSubagent(m, agent)
<1>1. /\ k \in RawMachines
      /\ k.lifecycle = "running"
      /\ k.activity = m.activity
      /\ k.attention = m.attention
      /\ Counted(m, k, agent)
  BY DEF RawMachines, TrackSubagent, Counted
<1> HIDE DEF k
<1>2. CASE m.activity = "awaiting_input"
  <2>1. n = k
    BY <1>2 DEF StartSubagent, k
  <2>2. Validate(k)
    BY <1>1, WorkIsIndependent
  <2> QED BY <1>1, <1>2, <2>1, <2>2, Unmoved DEF Sound
<1>3. CASE m.activity # "awaiting_input"
  <2>1. n = SetLiveCondition(k, "working", "none")
    BY <1>3 DEF StartSubagent, k
  <2> QED BY <1>1, <2>1, SetLiveConditionFacts
          DEF Sound, SameWork, Counted, Activities, ExpectedReason
<1> QED BY <1>2, <1>3

(* A turn that stops completes only when no work is outstanding.           *)
LEMMA StopTurnSound ==
    ASSUME NEW m \in RawMachines, m.lifecycle = "running",
           NEW remaining \in BOOLEAN
    PROVE  LET n == StopTurn(m, remaining)
           IN  /\ Sound(m, n)
               /\ n.subagents = m.subagents /\ n.exhausted = m.exhausted
               /\ CompletedMeansDone(n)
<1> DEFINE k == [m EXCEPT !.remaining = remaining]
           n == StopTurn(m, remaining)
<1>1. /\ k \in RawMachines
      /\ k.lifecycle = "running"
      /\ k.attention = m.attention
      /\ k.subagents = m.subagents /\ k.exhausted = m.exhausted
  BY DEF RawMachines
<1> HIDE DEF k
<1>2. CASE NoKnownWork(k)
  <2>1. n = SetLiveCondition(k, "completed", "successful_completion")
    BY <1>2 DEF StopTurn, k
  <2>2. /\ Sound(m, n)
        /\ SameWork(k, n)
    BY <1>1, <2>1, SetLiveConditionFacts
       DEF Sound, Activities, Reasons, ExpectedReason
  <2> QED BY <1>1, <1>2, <2>2 DEF SameWork, CompletedMeansDone, NoKnownWork
<1>3. CASE ~NoKnownWork(k)
  <2>1. n = SetLiveCondition(k, "working", "none")
    BY <1>3 DEF StopTurn, k
  <2>2. /\ Sound(m, n)
        /\ SameWork(k, n)
        /\ n.activity = "working"
    BY <1>1, <2>1, SetLiveConditionFacts
       DEF Sound, Activities, ExpectedReason
  <2> QED BY <1>1, <2>2 DEF SameWork, CompletedMeansDone
<1> QED BY <1>2, <1>3

(* A provider that ends its Session leaves a sound record.                 *)
LEMMA EndSessionSound ==
    ASSUME NEW m \in RawMachines, m.lifecycle = "running", Validate(m),
           CompletedMeansDone(m)
    PROVE  LET n == EndSession(m)
           IN  Sound(m, n) /\ SameWork(m, n) /\ CompletedMeansDone(n)
<1> DEFINE n == EndSession(m)
           quiet == m.activity \in {"none", "working"} /\ NoKnownWork(m)
<1>1. CASE quiet
  <2>1. n = SetLiveCondition(m, "completed", "successful_completion")
    BY <1>1 DEF EndSession
  <2>2. Sound(m, n) /\ SameWork(m, n)
    BY <2>1, SetLiveConditionFacts
       DEF Sound, Activities, Reasons, ExpectedReason
  <2> QED BY <1>1, <2>2 DEF SameWork, CompletedMeansDone, NoKnownWork
<1>2. CASE ~quiet
  <2>1. n = m
    BY <1>2 DEF EndSession
  <2> QED BY <2>1, Unmoved DEF Sound, SameWork
<1> QED BY <1>1, <1>2

(* What one event does to the agents tracked by name.                      *)
Tracks(m, n, event) ==
    CASE event.type \in {"PromptSubmitted", "TurnStarted"} ->
           n.subagents = {} /\ n.exhausted = FALSE
      [] event.type = "SubagentStarted" ->
           Counted(m, n, event.agent)
      [] event.type = "SubagentStopped" ->
           n.subagents = m.subagents \ {event.agent} /\ n.exhausted = m.exhausted
      [] OTHER -> n.subagents = m.subagents /\ n.exhausted = m.exhausted

(* Every event leaves a running record sound and its tracking exact.       *)
LEMMA ApplySound ==
    ASSUME NEW m \in RawMachines, m.lifecycle = "running", Validate(m),
           CompletedMeansDone(m), NEW event \in Events
    PROVE  LET n == Apply(m, event)
           IN  Sound(m, n) /\ CompletedMeansDone(n) /\ Tracks(m, n, event)
<1> DEFINE n == Apply(m, event)
           t == event.type
<1>1. [m EXCEPT !.lifecycle = "running"] = m
  BY DEF RawMachines
<1>2. m.lifecycle \notin Terminal
  BY DEF Terminal
<1>3. CASE t = "InputRequestOpened"
  <2>1. n = RenewInputAttention(m)
    BY <1>1, <1>2, <1>3 DEF Apply
  <2>2. Sound(m, n) /\ SameWork(m, n) /\ n.activity = "awaiting_input"
    BY <2>1, RenewInputAttentionSound
  <2> QED BY <1>3, <2>2 DEF SameWork, Tracks, CompletedMeansDone
<1>4. CASE \/ t \in {"ToolStarted", "ToolCompleted"}
           \/ t = "InputRequestsResolved" /\ m.activity # "awaiting_input"
  <2>1. n = m
    BY <1>1, <1>2, <1>4 DEF Apply
  <2> QED BY <1>4, <2>1, Unmoved DEF Sound, Tracks
<1>5. CASE \/ t = "PermissionCheckStarted"
           \/ t = "InputRequestsResolved" /\ m.activity = "awaiting_input"
  <2>1. n = SetLiveCondition(m, "working", "none")
    BY <1>1, <1>2, <1>5 DEF Apply
  <2>2. Sound(m, n) /\ SameWork(m, n) /\ n.activity = "working"
    BY <2>1, SetLiveConditionFacts DEF Sound, Activities, ExpectedReason
  <2> QED BY <1>5, <2>2 DEF SameWork, Tracks, CompletedMeansDone
<1>6. CASE t \in {"PromptSubmitted", "TurnStarted"}
  <2>1. n = StartTurn(m)
    BY <1>1, <1>2, <1>6 DEF Apply
  <2>2. /\ Sound(m, n)
        /\ n.subagents = {} /\ n.exhausted = FALSE
        /\ n.activity = "working"
    BY <2>1, StartTurnSound
  <2> QED BY <1>6, <2>2 DEF Tracks, CompletedMeansDone
<1>7. CASE t \in {"PermissionRequested", "UserInputRequested"}
  <2>1. n = SetLiveCondition(m, "awaiting_input", "input_requested")
    BY <1>1, <1>2, <1>7 DEF Apply
  <2>2. Sound(m, n) /\ SameWork(m, n) /\ n.activity = "awaiting_input"
    BY <2>1, SetLiveConditionFacts
       DEF Sound, Activities, Reasons, ExpectedReason
  <2> QED BY <1>7, <2>2 DEF SameWork, Tracks, CompletedMeansDone
<1>8. CASE t = "TurnFailed"
  <2>1. n = FailTurn(m, event.category) /\ event.category \in Categories
    BY <1>1, <1>2, <1>8 DEF Apply, Events
  <2>2. Sound(m, n) /\ SameWork(m, n) /\ n.activity = "recoverable_failure"
    BY <2>1, FailTurnSound
  <2> QED BY <1>8, <2>2 DEF SameWork, Tracks, CompletedMeansDone
<1>9. CASE t = "SubagentStarted"
  <2>1. n = StartSubagent(m, event.agent) /\ event.agent \in Agents
    BY <1>1, <1>2, <1>9 DEF Apply, Events
  <2>2. /\ Sound(m, n)
        /\ Counted(m, n, event.agent)
        /\ n.activity \in {"working", "awaiting_input"}
    BY <2>1, StartSubagentSound
  <2> QED BY <1>9, <2>2 DEF Tracks, CompletedMeansDone
<1>10. CASE t = "SubagentStopped"
  <2>1. n = [m EXCEPT !.subagents = @ \ {event.agent}]
    BY <1>1, <1>2, <1>10 DEF Apply, StopSubagent
  <2>2. /\ n \in RawMachines
        /\ n.lifecycle = "running"
        /\ n.activity = m.activity
        /\ n.attention = m.attention
        /\ n.subagents = m.subagents \ {event.agent}
        /\ n.exhausted = m.exhausted
        /\ n.remaining = m.remaining
    BY <2>1 DEF RawMachines
  <2>3. Validate(n)
    BY <2>2, WorkIsIndependent
  <2> QED BY <1>10, <2>2, <2>3, Unmoved
          DEF Sound, Tracks, CompletedMeansDone, NoKnownWork
<1>11. CASE t = "TurnStopped"
  <2>1. n = StopTurn(m, event.remaining) /\ event.remaining \in BOOLEAN
    BY <1>1, <1>2, <1>11 DEF Apply, Events
  <2>2. /\ Sound(m, n)
        /\ n.subagents = m.subagents /\ n.exhausted = m.exhausted
        /\ CompletedMeansDone(n)
    BY <2>1, StopTurnSound
  <2> QED BY <1>11, <2>2 DEF Tracks
<1>12. CASE t = "TurnInterrupted"
  <2>1. n = SetLiveCondition(m, "interrupted", "none")
    BY <1>1, <1>2, <1>12 DEF Apply
  <2>2. Sound(m, n) /\ SameWork(m, n) /\ n.activity = "interrupted"
    BY <2>1, SetLiveConditionFacts DEF Sound, Activities, ExpectedReason
  <2> QED BY <1>12, <2>2 DEF SameWork, Tracks, CompletedMeansDone
<1>13. CASE t = "SessionEnded"
  <2>1. n = EndSession(m)
    BY <1>1, <1>2, <1>13 DEF Apply
  <2>2. Sound(m, n) /\ SameWork(m, n) /\ CompletedMeansDone(n)
    BY <2>1, EndSessionSound
  <2> QED BY <1>13, <2>2 DEF SameWork, Tracks
<1> QED BY <1>3, <1>4, <1>5, <1>6, <1>7, <1>8, <1>9, <1>10, <1>11, <1>12,
           <1>13 DEF Events

(* A process exit leaves a valid terminal record.                          *)
LEMMA ApplyProcessExitSound ==
    ASSUME NEW m \in RawMachines, m.lifecycle = "running", Validate(m),
           NEW exit \in Exits
    PROVE  LET n == ApplyProcessExit(m, exit)
           IN  /\ n \in RawMachines
               /\ n.lifecycle \in {"exited", "failed", "terminated"}
               /\ n.activity = "none"
               /\ Validate(n)
               /\ AttentionStep(m.attention, n.attention)
<1> DEFINE n == ApplyProcessExit(m, exit)
           Good(k) == /\ k \in RawMachines
                      /\ k.lifecycle \in {"exited", "failed", "terminated"}
                      /\ k.activity = "none"
                      /\ Validate(k)
                      /\ AttentionStep(m.attention, k.attention)
<1>1. ASSUME NEW lifecycle \in {"exited", "failed", "terminated"},
             NEW category \in FailureCategories
      PROVE  LET k == ExitTo(m, lifecycle, category)
             IN  /\ k \in RawMachines
                 /\ k.lifecycle = lifecycle
                 /\ k.activity = "none"
                 /\ k.attention = m.attention
  BY DEF ExitTo, RawMachines, Lifecycles, Activities
<1>2. ExpectedReason("none") = "none"
  BY DEF ExpectedReason
<1>3. ASSUME NEW lifecycle \in {"exited", "failed", "terminated"}
      PROVE  Good(ResolveAttention(ExitTo(m, lifecycle, NoCategory)))
  <2> DEFINE k == ExitTo(m, lifecycle, NoCategory)
             r == ResolveAttention(k)
  <2>1. /\ k \in RawMachines
        /\ k.lifecycle = lifecycle
        /\ k.activity = "none"
        /\ k.attention = m.attention
    BY <1>1 DEF FailureCategories
  <2> HIDE DEF k
  <2>2. /\ r \in RawMachines
        /\ r.lifecycle = lifecycle
        /\ r.activity = "none"
        /\ ~Effective(r.attention)
        /\ AttentionStep(m.attention, r.attention)
    BY <2>1, ResolveAttentionFacts
  <2>3. Validate(r)
    BY <1>2, <2>2 DEF Validate
  <2> QED BY <2>2, <2>3 DEF k
<1>4. ASSUME NEW lifecycle \in {"exited", "failed"},
             NEW category \in FailureCategories,
             NEW reason \in {"successful_completion", "terminal_failure"},
             lifecycle = "exited" <=> reason = "successful_completion"
      PROVE  Good(SetAttentionCondition(ExitTo(m, lifecycle, category),
                                        reason, FALSE))
  <2> DEFINE k == ExitTo(m, lifecycle, category)
             r == SetAttentionCondition(k, reason, FALSE)
  <2>1. /\ k \in RawMachines
        /\ k.lifecycle = lifecycle
        /\ k.activity = "none"
        /\ k.attention = m.attention
    BY <1>1
  <2> HIDE DEF k
  <2>2. reason \in Reasons
    BY DEF Reasons
  <2>3. Raised(k, r, reason)
    BY <2>1, <2>2, SetAttentionConditionFacts, Zenon
  <2> HIDE DEF r
  <2>4. /\ r \in RawMachines
        /\ r.lifecycle = lifecycle
        /\ r.activity = "none"
        /\ r.attention.reason = reason
        /\ r.attention # NoAttention
        /\ AttentionStep(m.attention, r.attention)
    BY <2>1, <2>3 DEF Raised
  <2>5. Validate(r)
    BY <1>2, <1>4, <2>4 DEF Validate
  <2> QED BY <2>4, <2>5 DEF k, r
<1>5. /\ NoCategory \in FailureCategories
      /\ "process_exit_nonzero" \in FailureCategories
      /\ "process_exit_without_completion" \in FailureCategories
  BY DEF FailureCategories
<1> HIDE DEF Good
<1>6. CASE exit.stopRequested
  <2>1. n = ResolveAttention(ExitTo(m, "terminated", NoCategory))
    BY <1>6 DEF ApplyProcessExit
  <2> QED BY <1>3, <2>1 DEF Good
<1>7. CASE ~exit.stopRequested
  <2>1. CASE (exit.plainShell /\ exit.code = "zero") \/ HasCompletion(m)
    <3>1. n = SetAttentionCondition(ExitTo(m, "exited", NoCategory),
                                    "successful_completion", FALSE)
      BY <1>7, <2>1 DEF ApplyProcessExit
    <3>2. Good(n)
      BY <1>4, <1>5, <3>1, Zenon
    <3> QED BY <3>2 DEF Good
  <2>2. CASE /\ ~((exit.plainShell /\ exit.code = "zero") \/ HasCompletion(m))
             /\ m.activity = "interrupted" /\ exit.code = "zero"
    <3>1. n = ResolveAttention(ExitTo(m, "exited", NoCategory))
      BY <1>7, <2>2 DEF ApplyProcessExit
    <3> QED BY <1>3, <3>1 DEF Good
  <2>3. CASE /\ ~((exit.plainShell /\ exit.code = "zero") \/ HasCompletion(m))
             /\ ~(m.activity = "interrupted" /\ exit.code = "zero")
    <3>1. PICK category \in FailureCategories :
            n = SetAttentionCondition(ExitTo(m, "failed", category),
                                      "terminal_failure", FALSE)
      <4>1. CASE exit.code = "nonzero"
        BY <1>5, <1>7, <2>3, <4>1 DEF ApplyProcessExit
      <4>2. CASE exit.code # "nonzero"
        BY <1>5, <1>7, <2>3, <4>2 DEF ApplyProcessExit
      <4> QED BY <4>1, <4>2
    <3>2. "failed" \in {"exited", "failed"}
      OBVIOUS
    <3>3. "failed" = "exited" <=> "terminal_failure" = "successful_completion"
      OBVIOUS
    <3>4. Good(n)
      BY <1>4, <3>1, <3>2, <3>3, Zenon
    <3> QED BY <3>4 DEF Good
  <2> QED BY <2>1, <2>2, <2>3
<1> QED BY <1>6, <1>7

----------------------------------------------------------------------------
(* The rows that the database writes without the reducer.                  *)

(* A record without tracking is what is persisted of it.                   *)
LEMMA Untracked ==
    ASSUME NEW m \in RawMachines, m.subagents = {}, m.exhausted = FALSE,
           m.remaining = FALSE
    PROVE  FromPersisted(m) = m
BY DEF FromPersisted, RawMachines

(* A new row is well typed, valid and carries no tracking.                 *)
LEMMA NewRowFacts ==
    /\ NewRow \in Machines
    /\ NewRow.lifecycle = "starting"
    /\ NewRow.attention = NoAttention
    /\ FromPersisted(NewRow) = NewRow
    /\ Validate(NewRow)
<1>1. NewRow \in Machines
  BY DEF NewRow, Machines, Lifecycles, Activities, FailureCategories
<1>2. Validate(NewRow)
  BY DEF NewRow, Validate, ExpectedReason, Effective, NoAttention
<1>3. FromPersisted(NewRow) = NewRow
  <2>1. NewRow.subagents = {} /\ NewRow.exhausted = FALSE
        /\ NewRow.remaining = FALSE
    BY DEF NewRow
  <2> QED BY <1>1, <2>1, RawRecords, Untracked
<1> QED BY <1>1, <1>2, <1>3 DEF NewRow

(* What is persisted of a record is the record without its tracking.       *)
LEMMA FromPersistedFacts ==
    ASSUME NEW m \in RawMachines
    PROVE  LET n == FromPersisted(m)
           IN  /\ n \in RawMachines
               /\ m \in Machines => n \in Machines
               /\ n.lifecycle = m.lifecycle
               /\ n.activity = m.activity
               /\ n.attention = m.attention
               /\ n.category = m.category
               /\ NoKnownWork(n)
               /\ FromPersisted(n) = n
               /\ Validate(n) <=> Validate(m)
<1> DEFINE n == FromPersisted(m)
<1>1. /\ n \in RawMachines
      /\ n.lifecycle = m.lifecycle
      /\ n.activity = m.activity
      /\ n.attention = m.attention
      /\ n.category = m.category
      /\ n.subagents = {} /\ n.exhausted = FALSE /\ n.remaining = FALSE
  BY DEF FromPersisted, RawMachines
<1>2. m \in Machines => n \in Machines
  BY DEF FromPersisted, Machines
<1>3. FromPersisted(n) = n
  BY <1>1, Untracked
<1> HIDE DEF n
<1>4. Validate(n) <=> Validate(m)
  BY <1>1, WorkIsIndependent
<1> QED BY <1>1, <1>2, <1>3, <1>4 DEF n, NoKnownWork

(* The process of a new row was started.                                   *)
LEMMA MarkRunningFacts ==
    LET n == MarkRunning(NewRow)
    IN  /\ n \in Machines
        /\ n.lifecycle = "running"
        /\ n.activity = "none"
        /\ n.attention = NoAttention
        /\ FromPersisted(n) = n
        /\ Validate(n)
<1> DEFINE n == MarkRunning(NewRow)
<1>0. /\ NewRow \in Machines
      /\ NewRow.activity = "none"
      /\ NewRow.attention = NoAttention
      /\ NewRow.subagents = {} /\ NewRow.exhausted = FALSE
      /\ NewRow.remaining = FALSE
  BY NewRowFacts DEF NewRow
<1>a. /\ n \in Machines
      /\ n.lifecycle = "running"
      /\ n.activity = "none"
      /\ n.attention = NoAttention
      /\ n.subagents = {} /\ n.exhausted = FALSE /\ n.remaining = FALSE
  BY <1>0 DEF MarkRunning, Machines, Lifecycles, FailureCategories
<1> HIDE DEF n
<1>1. n \in RawMachines /\ FromPersisted(n) = n
  BY <1>a, RawRecords, Untracked
<1>2. Validate(n)
  BY <1>1, <1>a, RunningIsValid
     DEF Agrees, ExpectedReason, Effective, NoAttention
<1> QED BY <1>1, <1>a, <1>2 DEF n

(* The process of a new row could not be started.                          *)
LEMMA StartFailureFacts ==
    LET n == StartFailure(NewRow)
    IN  /\ n \in Machines
        /\ n.lifecycle = "failed"
        /\ FromPersisted(n) = n
        /\ Validate(n)
        /\ AttentionStep(NewRow.attention, n.attention)
<1> DEFINE n == StartFailure(NewRow)
           event == [id |-> 1, reason |-> "terminal_failure",
                     ack |-> "pending"]
<1>1. event \in AttentionEvents /\ event # NoAttention
  BY AttentionIdAssumption
     DEF AttentionEvents, Reasons, Acknowledgements, NoAttention
<1>0. /\ NewRow \in Machines
      /\ NewRow.subagents = {} /\ NewRow.exhausted = FALSE
      /\ NewRow.remaining = FALSE
  BY NewRowFacts DEF NewRow
<1>2. /\ n \in Machines
      /\ n.lifecycle = "failed"
      /\ n.activity = "none"
      /\ n.attention = event
      /\ n.subagents = {} /\ n.exhausted = FALSE /\ n.remaining = FALSE
  BY <1>0, <1>1 DEF StartFailure, Machines, Lifecycles, Activities,
                    FailureCategories
<1> HIDE DEF n
<1>3. FromPersisted(n) = n
  BY <1>2, RawRecords, Untracked
<1>4. Validate(n)
  BY <1>1, <1>2 DEF Validate, ExpectedReason
<1>5. AttentionStep(NewRow.attention, n.attention)
  BY <1>2 DEF AttentionStep, NewRow, NoAttention
<1> QED BY <1>2, <1>3, <1>4, <1>5 DEF n

(* A review changes nothing but the acknowledgement.                       *)
LEMMA AcknowledgeFacts ==
    ASSUME NEW m \in Machines, m.attention.ack = "pending"
    PROVE  LET n == Acknowledge(m)
           IN  /\ n \in Machines
               /\ n.lifecycle = m.lifecycle
               /\ n.activity = m.activity
               /\ n.category = m.category
               /\ SameWork(m, n)
               /\ Validate(m) => Validate(n)
               /\ FromPersisted(n) = Acknowledge(FromPersisted(m))
<1> DEFINE n == Acknowledge(m)
           read == [m.attention EXCEPT !.ack = "acknowledged"]
<1>1. n = [m EXCEPT !.attention = read]
  BY DEF Acknowledge
<1>2. m.attention \in AttentionEvents
  BY DEF Machines, NoAttention
<1>3. /\ read \in AttentionEvents
      /\ read.reason = m.attention.reason
      /\ read.ack = "acknowledged"
      /\ read # NoAttention
      /\ m.attention # NoAttention
  BY <1>2, AttentionIdAssumption
     DEF AttentionEvents, Acknowledgements, NoAttention
<1>4. FromPersisted(n) = Acknowledge(FromPersisted(m))
  BY <1>1 DEF FromPersisted, Acknowledge, Machines
<1> HIDE DEF read
<1>5. /\ n \in Machines
      /\ n.attention = read
      /\ n.lifecycle = m.lifecycle
      /\ n.activity = m.activity
      /\ n.category = m.category
      /\ SameWork(m, n)
  BY <1>1, <1>3 DEF Machines, SameWork
<1>6. Validate(m) => Validate(n)
  BY <1>3, <1>5 DEF Validate, Effective
<1> QED BY <1>4, <1>5, <1>6

(* A restart disconnects an active Session and leaves any other.           *)
LEMMA ReconcileFacts ==
    ASSUME NEW m \in Machines, Validate(m)
    PROVE  LET n == Reconcile(m)
           IN  /\ n \in Machines
               /\ Validate(n)
               /\ n.attention = m.attention
               /\ n.lifecycle = IF LifecycleIsActive(m.lifecycle)
                                THEN "disconnected" ELSE m.lifecycle
               /\ FromPersisted(n) = n
               /\ ~LifecycleIsActive(m.lifecycle) => n = FromPersisted(m)
<1> DEFINE n == Reconcile(m)
<1>1. CASE LifecycleIsActive(m.lifecycle)
  <2>1. /\ n \in Machines
        /\ n.lifecycle = "disconnected"
        /\ n.activity = "none"
        /\ n.attention = m.attention
        /\ FromPersisted(n) = n
    BY <1>1 DEF Reconcile, FromPersisted, Machines, Lifecycles, Activities,
                FailureCategories
  <2>2. Effective(m.attention) => m.attention.reason \in Reasons
    BY DEF Machines, AttentionEvents, NoAttention, Effective
  <2>3. Validate(n)
    BY <2>1, <2>2 DEF Validate, ExpectedReason, Reasons
  <2> QED BY <1>1, <2>1, <2>3
<1>2. CASE ~LifecycleIsActive(m.lifecycle)
  <2>1. n = FromPersisted(m)
    BY <1>2 DEF Reconcile
  <2> QED BY <1>2, <2>1, RawRecords, FromPersistedFacts
<1> QED BY <1>1, <1>2
============================================================================
