------------------------- MODULE SessionActorProofs -------------------------
(***************************************************************************)
(* Proofs that a stop leaves no process behind, that the exit and the      *)
(* empty tree are never announced early, and that no reply to a stop is    *)
(* lost, for any number of callers and of refused kills; that output is    *)
(* missed on its way to a terminal UI or command line for two reasons      *)
(* only, for any number of updates and attachments and any capacities;     *)
(* that a terminal UI recovers what its own queue loses; and that keys     *)
(* reach their Sessions as they were typed, for any Sessions and sizes of  *)
(* the queue.                                                              *)
(***************************************************************************)
EXTENDS SessionActor, TerminalStream, TerminalInput, ClientTerminal,
        SequenceTheorems, TLAPS

(* What makes the invariants inductive: an exit the actor knows of or is   *)
(* about to hear of is the death of the child, the tree is emptied only    *)
(* after an exit, and replies wait in the loop only for a stop that has    *)
(* yet to publish the exit.                                                *)
Bookkeeping ==
    /\ actor.pendingExit \/ "Exited" \in events => child = "dead"
    /\ actor.step \in {"kill", "reap"} => actor.pendingExit \/ actor.published
    /\ actor.step = "select" /\ actor.replies # {}
         => actor.stopRequested /\ ~actor.published

Inv == /\ TypeOK
       /\ StopLeavesNothing
       /\ ConfirmationIsHonest
       /\ RepliesAreHeld
       /\ Bookkeeping

Actors == [step : {"select", "kill", "reap", "gone", "dropped"},
           readerClosed : BOOLEAN, pendingExit : BOOLEAN,
           published : BOOLEAN, stopRequested : BOOLEAN,
           runtimeFailed : BOOLEAN, replies : SUBSET Callers]

(* The end of a turn touches only the step and the publication: it emptied *)
(* nothing yet, publishes only an exit it has, and never while a stop is   *)
(* requested.                                                              *)
LEMMA TurnFacts ==
    ASSUME NEW a \in Actors
    PROVE  /\ Turn(a) \in Actors
           /\ Turn(a).replies = a.replies
           /\ Turn(a).pendingExit = a.pendingExit
           /\ Turn(a).stopRequested = a.stopRequested
           /\ Turn(a).step \in {a.step, "kill"}
           /\ Turn(a).step = "kill" => a.step = "kill" \/ a.pendingExit
           /\ Turn(a).published => a.published \/ a.pendingExit
           /\ a.stopRequested => Turn(a).published = a.published
  BY DEF Turn, Actors

(* Before the first step the child is alive and nobody has asked.          *)
LEMMA InitEstablishes == Init => Inv
<1> SUFFICES ASSUME Init PROVE Inv
  OBVIOUS
<1>1. TypeOK
  <2>1. faults \in 0..MaxFaults
    BY ActorAssumption DEF Init
  <2>2. actor \in [step : {"select", "kill", "reap", "gone", "dropped"},
                  readerClosed : BOOLEAN, pendingExit : BOOLEAN,
                  published : BOOLEAN, stopRequested : BOOLEAN,
                  runtimeFailed : BOOLEAN, replies : SUBSET Callers]
    BY DEF Init
  <2>3. caller \in [Callers -> {"idle", "asked", "ok", "error"}]
    BY DEF Init
  <2> QED BY <2>1, <2>2, <2>3 DEF Init, TypeOK
<1>2. StopLeavesNothing
  BY DEF Init, StopLeavesNothing
<1>3. ConfirmationIsHonest
  BY DEF Init, ConfirmationIsHonest
<1>4. RepliesAreHeld
  BY DEF Init, RepliesAreHeld
<1>5. Bookkeeping
  BY DEF Init, Bookkeeping
<1> QED BY <1>1, <1>2, <1>3, <1>4, <1>5 DEF Inv

(* A turn of the loop that leaves processes, watch and callers alone and   *)
(* changes the actor only by Turn keeps the invariant, if the exit it may  *)
(* note is the death of the child.                                         *)
LEMMA TurnKeeps ==
    ASSUME Inv, NEW a \in Actors, actor' = Turn(a),
           actor.step = "select", a.step = "select",
           a.replies = actor.replies, a.published = actor.published,
           actor.stopRequested => a.stopRequested,
           a.pendingExit => child = "dead",
           events' \subseteq events, UNCHANGED <<processes, timer, caller>>,
           doomed' \in BOOLEAN, faults' \in 0..MaxFaults,
           treeEmpty' = treeEmpty
    PROVE  Inv'
<1> USE DEF Inv
<1>1. a.published => child = "dead"
  BY DEF ConfirmationIsHonest
<1>2. actor' \in Actors /\ actor'.step \in {"select", "kill"}
  BY TurnFacts
<1>3. TypeOK'
  BY <1>2, TurnFacts DEF TypeOK, Actors, processes
<1>4. TreeIsEmpty' = TreeIsEmpty
  BY DEF TreeIsEmpty, processes
<1>5. StopLeavesNothing'
  BY <1>2, <1>4 DEF StopLeavesNothing
<1>6. ConfirmationIsHonest'
  BY <1>1, <1>4, TurnFacts DEF ConfirmationIsHonest, processes
<1>7. RepliesAreHeld'
  BY TurnFacts DEF RepliesAreHeld
<1>8. Bookkeeping'
  BY TurnFacts DEF Bookkeeping, processes, TypeOK
<1> QED BY <1>3, <1>5, <1>6, <1>7, <1>8

(* A refused kill stays within the bound of the faults.                    *)
LEMMA TerminateTypes ==
    ASSUME TypeOK, NEW refused \in BOOLEAN, Terminate(refused)
    PROVE  doomed' \in BOOLEAN /\ faults' \in 0..MaxFaults
  BY ActorAssumption DEF TypeOK, Terminate

(* The processes: each step only lets something die, forks from a live     *)
(* tree, or reports what happened.                                         *)
LEMMA ProcessesKeep == Inv /\ (Processes \/ TimerFires) => Inv'
<1> USE DEF Inv, TypeOK, StopLeavesNothing, ConfirmationIsHonest,
       RepliesAreHeld, Bookkeeping, TreeIsEmpty
<1>1. ASSUME Inv, Fork PROVE Inv'
  BY <1>1 DEF Fork
<1>2. ASSUME Inv, ChildExits PROVE Inv'
  BY <1>2 DEF ChildExits
<1>3. ASSUME Inv, OffspringExits PROVE Inv'
  BY <1>3 DEF OffspringExits
<1>4. ASSUME Inv, ReaderCloses PROVE Inv'
  BY <1>4 DEF ReaderCloses
<1>5. ASSUME Inv, TimerFires PROVE Inv'
  BY <1>5 DEF TimerFires
<1> QED BY <1>1, <1>2, <1>3, <1>4, <1>5 DEF Processes

(* The events of the loop.                                                 *)
LEMMA HandlesKeep == Inv /\ Handles => Inv'
<1>1. ASSUME Inv, HandleExited PROVE Inv'
  <2> DEFINE a == [actor EXCEPT !.pendingExit = TRUE]
  <2>1. a \in Actors /\ a.step = "select" /\ a.replies = actor.replies
          /\ a.published = actor.published
          /\ a.stopRequested = actor.stopRequested
    BY <1>1 DEF Inv, TypeOK, Actors, HandleExited, Takes
  <2>2. child = "dead"
    BY <1>1 DEF Inv, Bookkeeping, HandleExited, Takes
  <2> HIDE DEF a
  <2>3. actor' = Turn(a)
    BY <1>1 DEF HandleExited, a
  <2> QED BY <1>1, <2>1, <2>2, <2>3, TurnKeeps
          DEF HandleExited, Takes, NoSignal, Inv, TypeOK, processes
<1>2. ASSUME Inv, HandleReaderClosed PROVE Inv'
  <2> DEFINE a == [actor EXCEPT !.readerClosed = TRUE]
  <2>1. a \in Actors /\ a.step = "select" /\ a.replies = actor.replies
          /\ a.published = actor.published /\ a.pendingExit = actor.pendingExit
          /\ a.stopRequested = actor.stopRequested
    BY <1>2 DEF Inv, TypeOK, Actors, HandleReaderClosed, Takes
  <2> HIDE DEF a
  <2>2. actor' = Turn(a)
    BY <1>2 DEF HandleReaderClosed, a
  <2> QED BY <1>2, <2>1, <2>2, TurnKeeps
          DEF HandleReaderClosed, Takes, NoSignal, Inv, TypeOK, processes,
              Bookkeeping
<1>3. ASSUME Inv, NEW refused \in BOOLEAN, HandleForceStop(refused)
      PROVE  Inv'
  <2>0. actor \in Actors /\ actor.step = "select" /\ events' \subseteq events
    BY <1>3 DEF Inv, TypeOK, Actors, HandleForceStop, Takes
  <2>1. CASE actor.pendingExit
    BY <1>3, <2>0, <2>1, TurnKeeps
    DEF HandleForceStop, NoSignal, Inv, TypeOK, processes, Bookkeeping
  <2>2. CASE ~actor.pendingExit /\ ~refused
    <3>1. doomed' \in BOOLEAN /\ faults' \in 0..MaxFaults
      BY <1>3, <2>2, TerminateTypes DEF HandleForceStop, Inv
    <3>2. UNCHANGED <<processes, timer, treeEmpty, actor, caller>>
      BY <1>3, <2>2 DEF HandleForceStop
    <3> QED BY <1>3, <2>0, <3>1, <3>2
            DEF Inv, TypeOK, StopLeavesNothing, ConfirmationIsHonest,
                RepliesAreHeld, Bookkeeping, TreeIsEmpty, processes
  <2>3. CASE ~actor.pendingExit /\ refused
    <3>1. doomed' \in BOOLEAN /\ faults' \in 0..MaxFaults
      BY <1>3, <2>3, TerminateTypes DEF HandleForceStop, Inv
    <3>2. /\ UNCHANGED <<processes, timer, treeEmpty>>
          /\ actor' = [actor EXCEPT !.replies = {}]
          /\ Answer("error")
      BY <1>3, <2>3 DEF HandleForceStop
    <3> QED BY <1>3, <2>0, <3>1, <3>2
            DEF Inv, TypeOK, StopLeavesNothing, ConfirmationIsHonest,
                RepliesAreHeld, Bookkeeping, TreeIsEmpty, processes, Answer
  <2> QED BY <2>1, <2>2, <2>3
<1> QED BY <1>1, <1>2, <1>3 DEF Handles

(* The commands of the loop.                                               *)
LEMMA CommandsKeep ==
    ASSUME Inv,
           \/ \E c \in Callers : Stop(c) \/ StopTooLate(c)
           \/ \E refused \in BOOLEAN :
                RuntimeFails(refused) \/ HandlesDropped(refused)
           \/ InspectProcessTree
           \/ Serve
    PROVE  Inv'
<1>0. actor \in Actors
  BY DEF Inv, TypeOK, Actors
<1>1. ASSUME NEW c \in Callers, Stop(c), ~actor.published PROVE Inv'
  <2> DEFINE a == [actor EXCEPT !.replies = @ \cup {c}, !.stopRequested = TRUE]
  <2>1. /\ a \in Actors /\ a.step = "select"
        /\ a.replies = actor.replies \cup {c}
        /\ a.published = FALSE /\ a.pendingExit = actor.pendingExit
        /\ a.stopRequested = TRUE
    BY <1>0, <1>1 DEF Actors, Stop
  <2> HIDE DEF a
  <2>2. /\ actor' = Turn(a)
        /\ caller[c] = "idle" /\ caller' = [caller EXCEPT ![c] = "asked"]
        /\ UNCHANGED <<processes, doomed, events, treeEmpty, faults>>
        /\ timer' \in BOOLEAN
    BY <1>1 DEF Stop, a
  <2>3. TypeOK'
    BY <2>1, <2>2, TurnFacts DEF Inv, TypeOK, Actors, processes
  <2>4. StopLeavesNothing' /\ ConfirmationIsHonest'
    BY <2>1, <2>2, TurnFacts
    DEF Inv, TypeOK, StopLeavesNothing, ConfirmationIsHonest, TreeIsEmpty,
        processes
  <2>5. RepliesAreHeld'
    BY <2>1, <2>2, TurnFacts DEF Inv, TypeOK, RepliesAreHeld
  <2>6. Bookkeeping'
    BY <2>1, <2>2, TurnFacts DEF Inv, Bookkeeping, processes
  <2> QED BY <2>3, <2>4, <2>5, <2>6 DEF Inv
<1>2. ASSUME NEW c \in Callers, Stop(c), actor.published PROVE Inv'
  BY <1>0, <1>2, ZenonT(120)
  DEF Stop, Inv, TypeOK, StopLeavesNothing, ConfirmationIsHonest,
      RepliesAreHeld, Bookkeeping, TreeIsEmpty, processes
<1>3. ASSUME NEW c \in Callers, StopTooLate(c) PROVE Inv'
  BY <1>0, <1>3
  DEF StopTooLate, Inv, TypeOK, StopLeavesNothing, ConfirmationIsHonest,
      RepliesAreHeld, Bookkeeping, TreeIsEmpty, processes
<1>4. ASSUME NEW refused \in BOOLEAN, RuntimeFails(refused) PROVE Inv'
  <2> DEFINE a == [actor EXCEPT !.runtimeFailed = TRUE]
  <2>1. a \in Actors /\ a.step = "select" /\ a.replies = actor.replies
          /\ a.published = actor.published /\ a.pendingExit = actor.pendingExit
          /\ a.stopRequested = actor.stopRequested
    BY <1>0, <1>4 DEF Actors, RuntimeFails
  <2> HIDE DEF a
  <2>2. actor' = Turn(a)
    BY <1>4 DEF RuntimeFails, a
  <2>3. doomed' \in BOOLEAN /\ faults' \in 0..MaxFaults
    BY <1>4, TerminateTypes DEF RuntimeFails, Inv
  <2> QED BY <1>4, <2>1, <2>2, <2>3, TurnKeeps
          DEF RuntimeFails, Inv, Bookkeeping, processes
<1>5. ASSUME NEW refused \in BOOLEAN, HandlesDropped(refused) PROVE Inv'
  <2>1. doomed' \in BOOLEAN /\ faults' \in 0..MaxFaults
    BY <1>5, TerminateTypes DEF HandlesDropped, NoSignal, Inv, TypeOK
  <2> QED BY <1>0, <1>5, <2>1
          DEF HandlesDropped, Inv, TypeOK, StopLeavesNothing,
              ConfirmationIsHonest, RepliesAreHeld, Bookkeeping, TreeIsEmpty,
              processes
<1>6. CASE Serve
  BY <1>0, <1>6, TurnKeeps DEF Serve, Inv, TypeOK, Bookkeeping, processes
<1>7. CASE InspectProcessTree
  <2>1. /\ Turn(actor) \in Actors
        /\ Turn(actor).replies = actor.replies
        /\ Turn(actor).pendingExit = actor.pendingExit
        /\ Turn(actor).stopRequested = actor.stopRequested
        /\ Turn(actor).step \in {"select", "kill"}
        /\ Turn(actor).step = "kill" => actor.pendingExit
        /\ Turn(actor).published => actor.published \/ actor.pendingExit
        /\ actor.stopRequested => Turn(actor).published = actor.published
    BY <1>0, <1>7, TurnFacts DEF InspectProcessTree
  <2> QED BY <1>7, <2>1
          DEF InspectProcessTree, Inv, TypeOK, Actors, StopLeavesNothing,
              ConfirmationIsHonest, RepliesAreHeld, Bookkeeping, TreeIsEmpty,
              processes
<1> QED BY <1>1, <1>2, <1>3, <1>4, <1>5, <1>6, <1>7

(* terminate_process_tree: success is reported for an empty tree only.     *)
LEMMA ReapsKeep == Inv /\ (Reaps \/ ReapFails) => Inv'
<1> USE DEF Inv, TypeOK, StopLeavesNothing, ConfirmationIsHonest,
       RepliesAreHeld, Bookkeeping, TreeIsEmpty, processes
<1>1. ASSUME Inv, Kill PROVE Inv'
  <2>1. doomed' \in BOOLEAN /\ faults' \in 0..MaxFaults
    BY <1>1, TerminateTypes DEF Kill
  <2> QED BY <1>1, <2>1 DEF Kill
<1>2. ASSUME Inv, Reaped PROVE Inv'
  BY <1>2 DEF Reaped, Answer
<1>3. ASSUME Inv, ReapFails PROVE Inv'
  <2>1. faults' \in 0..MaxFaults
    BY <1>3, ActorAssumption DEF ReapFails
  <2>2. TypeOK'
    BY <1>3, <2>1 DEF ReapFails, Answer
  <2>3. RepliesAreHeld'
    BY <1>3 DEF ReapFails, Answer
  <2> QED BY <1>3, <2>2, <2>3 DEF ReapFails, Answer
<1> QED BY <1>1, <1>2, <1>3 DEF Reaps

(* The inductive invariant holds in every state: the death of the child    *)
(* precedes its announcement, and replies are held until they are sent.    *)
THEOREM Invariance == Spec => []Inv
<1>1. ASSUME Inv, [Next]_vars PROVE Inv'
  <2>1. CASE UNCHANGED vars
    BY <1>1, <2>1 DEF vars, Inv, TypeOK, StopLeavesNothing,
       ConfirmationIsHonest, RepliesAreHeld, Bookkeeping, TreeIsEmpty
  <2> QED BY <1>1, <2>1, ProcessesKeep, HandlesKeep, CommandsKeep, ReapsKeep
          DEF Next
<1> QED BY <1>1, InitEstablishes, PTL DEF Spec

(* A successful stop, and an actor that ended, leave no process of the     *)
(* tree behind, however many callers stop it and kills are refused.        *)
THEOREM StopIsThorough == Spec => []StopLeavesNothing
<1>1. Inv => StopLeavesNothing
  BY DEF Inv
<1> QED BY <1>1, Invariance, PTL

(* Neither the exit nor the empty tree is announced before it is true.     *)
THEOREM AnnouncementsAreTrue == Spec => []ConfirmationIsHonest
<1>1. Inv => ConfirmationIsHonest
  BY DEF Inv
<1> QED BY <1>1, Invariance, PTL

(* stop_replies holds exactly the callers that wait.                       *)
THEOREM NoReplyIsLost == Spec => []RepliesAreHeld
<1>1. Inv => RepliesAreHeld
  BY DEF Inv
<1> QED BY <1>1, Invariance, PTL

----------------------------------------------------------------------------
(* The output of a Session on its way to one client (TerminalStream).      *)
(* The invariant splits what is on its way: the events from before the     *)
(* latest attach request, the reply to it, and the frames of its           *)
(* forwarder.  It foretells the terminals the client goes through as it    *)
(* draws the last of these, from any terminal that the first can leave.    *)

(* What a client draws, what the actor broadcasts and what is sent.        *)
Terminals == [shown : SUBSET Nat, last : Nat, revision : Nat]

Updates == [kind : {"output", "resized"}, sequence : Nat, revision : Nat]

Frames == [kind : {"output", "snapshot"}, sequence : Nat, revision : Nat]
          \cup [kind : {"attached"}, sequence : Nat, revision : Nat,
                restored : BOOLEAN]

(* The counters after the i-th update of a log U.                          *)
After(U, i) == IF i = 0 THEN [sequence |-> 0, revision |-> 0] ELSE U[i]

(* Every update counts one of the counters on.                             *)
LogCounts(U) ==
    /\ U \in Seq(Updates)
    /\ \A i \in 0..Len(U) : After(U, i).sequence \in Nat /\ After(U, i).revision \in Nat
    /\ \A i \in 0..Len(U) : After(U, i).sequence + After(U, i).revision = i
    /\ \A i, j \in 0..Len(U) : i <= j =>
          /\ After(U, i).sequence <= After(U, j).sequence
          /\ After(U, i).revision <= After(U, j).revision
    /\ \A i \in 1..Len(U) :
          IF U[i].kind = "output"
          THEN U[i].sequence = After(U, i - 1).sequence + 1
          ELSE U[i].revision = After(U, i - 1).revision + 1

(* A frame that is not a chunk carries the counters of one moment.         *)
FrameFits(f, U) ==
    /\ f \in Frames
    /\ f.sequence <= After(U, Len(U)).sequence
    /\ f.kind # "output" =>
         /\ Moment(f) \in 0..Len(U)
         /\ f.sequence = After(U, Moment(f)).sequence
         /\ f.revision = After(U, Moment(f)).revision

(* The terminals the client goes through as it draws the frames F.         *)
Chain(T, t, F) ==
    /\ T \in Seq(Terminals)
    /\ Len(T) = Len(F) + 1
    /\ T[1] = t
    /\ \A j \in 1..Len(F) : T[j + 1] = Shows(T[j], F[j])

(* The dropped updates that the first j frames do not make up for.         *)
Left(S, F, j) ==
    {i \in S : \A k \in 1..j : MakesUp(F[k]) => i > Moment(F[k])}

(* A dropped update is the chunk n.                                        *)
Explains(U, S, n) == \E i \in S : U[i].kind = "output" /\ U[i].sequence = n

(* Below the last chunk shown, a hole is explained.                        *)
Sound(t, U, S) == \A n \in 1..t.last : n \in t.shown \/ Explains(U, S, n)

(* A terminal is not ahead of the log.                                     *)
Within(t, U) ==
    t.last <= After(U, Len(U)).sequence /\ t.revision <= After(U, Len(U)).revision

(* From t on, the client goes through the terminals T as it draws F: none  *)
(* is ahead of the log and no hole of theirs is unexplained.               *)
Foretold(T, U, F, t, S) ==
    /\ Chain(T, t, F)
    /\ \A j \in 1..(Len(F) + 1) : Within(T[j], U)
    /\ \A j \in 1..(Len(F) + 1) : Sound(T[j], U, Left(S, F, j - 1))

(* The terminal as it was after the first p updates.                       *)
Whole(U, p) ==
    [shown |-> 1..After(U, p).sequence, last |-> After(U, p).sequence,
     revision |-> After(U, p).revision]

(* A terminal is ahead of the forwarder, which has taken c updates, only   *)
(* through a snapshot, and then it has no hole.                            *)
AheadIsWhole(t, U, c) ==
    t.last > After(U, c).sequence \/ t.revision > After(U, c).revision =>
        \E p \in (c + 1)..Len(U) : t = Whole(U, p)

(* What makes up for updates that the forwarder has yet to take is shown   *)
(* in the end.                                                             *)
ReachesSnapshots(t, F, c) ==
    \A k \in 1..Len(F) : MakesUp(F[k]) /\ Moment(F[k]) > c =>
        F[k].sequence <= t.last /\ F[k].revision <= t.revision

(* What the forwarder has taken is shown in the end, or explained.         *)
Covers(t, U, S, c) ==
    /\ \A n \in (t.last + 1)..After(U, c).sequence : Explains(U, S, n)
    /\ t.revision >= After(U, c).revision \/ \E i \in S : U[i].kind = "resized"

(* From t on, the frames F lead to a terminal that stands for everything   *)
(* the forwarder has taken, unless a snapshot is to follow.                *)
Leads(t, F, U, S, c, step) ==
    \E T \in Seq(Terminals) :
        /\ Foretold(T, U, F, t, S)
        /\ AheadIsWhole(T[Len(F) + 1], U, c)
        /\ ReachesSnapshots(T[Len(F) + 1], F, c)
        /\ step \in {"attaching", "live"} =>
             Covers(T[Len(F) + 1], U, Left(S, F, Len(F)), c)

(* An attachment starts from the counters of the log, with or without what *)
(* they stand for.                                                         *)
Bases == [last : Nat, revision : Nat, restored : BOOLEAN]

ReplyOf(b) == [kind |-> "attached", sequence |-> b.last, revision |-> b.revision,
               restored |-> b.restored]

(* A chunk that was drawn on a blank terminal too early is why n is not    *)
(* shown.                                                                  *)
Torn(X, n) == \E chunk \in X : n < chunk

(* What the reply of an attachment and the events before it can leave: the *)
(* terminal of the reply, with some of the chunks already.                 *)
Fresh(b, X) ==
    {t \in Terminals :
        /\ t.last <= b.last
        /\ b.restored => t.last = b.last
        /\ t.revision = b.revision
        /\ \A n \in 1..t.last : n \in t.shown \/ Torn(X, n)}

(* The events E are from before the attachment b, of which c updates are   *)
(* taken by now.                                                           *)
Stale(E, b, S, X, c) ==
    /\ \A k \in 1..Len(E) :
          /\ E[k].kind \in {"output", "snapshot"}
          /\ E[k].sequence <= b.last
          /\ E[k].kind = "snapshot" => E[k].revision <= b.revision
          /\ E[k].kind = "output" /\ ~b.restored => E[k].sequence \in X
    /\ b.last + b.revision <= c
    /\ \A i \in S : i > b.last + b.revision

(* The terminal u is the terminal t, but for chunks that were torn.        *)
Like(t, u, X) ==
    /\ t.last = u.last /\ t.revision = u.revision
    /\ \A n \in t.shown : n \in u.shown \/ Torn(X, n)

(* With E and the reply R still to come, the terminal u is on the way to   *)
(* one of the terminals V.                                                 *)
Awaits(E, R, V, b, u, S, X, c) ==
    \/ E = <<>> /\ R = <<>> /\ \E t \in V : Like(t, u, X)
    \/ /\ Fresh(b, {}) \subseteq V
       /\ Stale(E, b, S, X, c)
       /\ \/ R = <<>> /\ u \in Fresh(b, X)
          \/ R = <<ReplyOf(b)>>

(* No reply is among the frames F.                                         *)
NoReply(F) == \A k \in 1..Len(F) : F[k].kind # "attached"

(* Everything that will still reach the client.                            *)
OnTheWay == inbox \o (queue \o forwarder.frames)

(* It is the events E, the reply R and the frames F.                       *)
Parted(way, E, R, F, V, b) ==
    /\ E \in Seq(Frames) /\ F \in Seq(Frames) /\ b \in Bases
    /\ R \in {<<>>, <<ReplyOf(b)>>}
    /\ way = E \o (R \o F)
    /\ NoReply(F)
    /\ V \subseteq Terminals

(* The types; frames wait only while attaching or live.                    *)
StreamTypeOK ==
    /\ cursor \in 0..Len(updates)
    /\ forwarder \in [step : {"none", "attaching", "live", "checkpoint"},
                      frames : Seq(Frames), resyncPending : BOOLEAN]
    /\ forwarder.step \in {"none", "checkpoint"} => forwarder.frames = <<>>
    /\ queue \in Seq(Frames)
    /\ inbox \in Seq(Frames) /\ NoReply(inbox)
    /\ terminal \in Terminals
    /\ silent \subseteq 1..Len(updates)

(* Every frame on its way fits the log.                                    *)
FramesFit == \A j \in 1..Len(OnTheWay) : FrameFits(OnTheWay[j], updates)

(* From every terminal the attachment can start from, the frames of the    *)
(* forwarder lead on.                                                      *)
Foreseen(E, R, F, V, b) ==
    /\ Parted(OnTheWay, E, R, F, V, b)
    /\ \A t \in V : Leads(t, F, updates, silent, cursor, forwarder.step)
    /\ Awaits(E, R, V, b, terminal, silent, torn, cursor)

(* The inductive invariant of the stream.                                  *)
StreamInv ==
    /\ StreamTypeOK
    /\ LogCounts(updates)
    /\ FramesFit
    /\ forwarder.step # "none" => \E E, R, F, V, b : Foreseen(E, R, F, V, b)

----------------------------------------------------------------------------
(* What a terminal shows after a frame, kind by kind.                      *)
LEMMA ShowsCases ==
    ASSUME NEW t \in Terminals, NEW f \in Frames
    PROVE  /\ Shows(t, f) \in Terminals
           /\ f.kind \in {"output", "snapshot", "attached"}
           /\ f.sequence \in Nat /\ f.revision \in Nat
           /\ f.kind = "output" =>
                /\ ~MakesUp(f)
                /\ f.sequence > t.last =>
                     /\ Shows(t, f).shown = t.shown \cup {f.sequence}
                     /\ Shows(t, f).last = f.sequence
                     /\ Shows(t, f).revision = t.revision
                /\ ~(f.sequence > t.last) => Shows(t, f) = t
           /\ f.kind = "snapshot" =>
                /\ MakesUp(f)
                /\ f.sequence >= t.last /\ f.revision >= t.revision =>
                     Shows(t, f) = [shown |-> 1..f.sequence, last |-> f.sequence,
                                    revision |-> f.revision]
                /\ ~(f.sequence >= t.last /\ f.revision >= t.revision) => Shows(t, f) = t
           /\ f.kind = "attached" =>
                /\ ~MakesUp(f)
                /\ f.restored =>
                     Shows(t, f) = [shown |-> 1..f.sequence, last |-> f.sequence,
                                    revision |-> f.revision]
                /\ ~f.restored =>
                     Shows(t, f) = [shown |-> {}, last |-> 0, revision |-> f.revision]
<1>1. /\ f.kind \in {"output", "snapshot", "attached"}
      /\ f.sequence \in Nat /\ f.revision \in Nat
      /\ f.kind = "attached" => f.restored \in BOOLEAN
  BY DEF Frames
<1>2. t.shown \in SUBSET Nat /\ t.last \in Nat /\ t.revision \in Nat
      /\ t = [shown |-> t.shown, last |-> t.last, revision |-> t.revision]
  BY DEF Terminals
<1>3. Restored(f) = [shown |-> 1..f.sequence, last |-> f.sequence,
                        revision |-> f.revision]
  BY DEF Restored
<1>4. Restored(f) \in Terminals
  <2>1. 1..f.sequence \subseteq Nat
    BY <1>1
  <2> QED BY <1>1, <1>3, <2>1 DEF Terminals
<1>5. CASE f.kind = "output"
  <2>1. Shows(t, f) = IF f.sequence > t.last
                      THEN [t EXCEPT !.shown = t.shown \cup {f.sequence},
                                     !.last = f.sequence]
                      ELSE t
    BY <1>5 DEF Shows
  <2>2. ~MakesUp(f)
    BY <1>5 DEF MakesUp
  <2>3. CASE f.sequence > t.last
    <3>1. Shows(t, f) = [shown |-> t.shown \cup {f.sequence}, last |-> f.sequence,
                         revision |-> t.revision]
      BY <2>1, <2>3 DEF Terminals
    <3>2. Shows(t, f) \in Terminals
      BY <1>1, <1>2, <3>1 DEF Terminals
    <3> QED BY <1>1, <1>5, <2>2, <2>3, <3>1, <3>2
  <2>4. CASE ~(f.sequence > t.last)
    BY <1>1, <1>5, <2>1, <2>2, <2>4
  <2> QED BY <2>3, <2>4
<1>6. CASE f.kind = "snapshot"
  <2>1. Shows(t, f) = IF f.sequence >= t.last /\ f.revision >= t.revision
                      THEN Restored(f) ELSE t
    BY <1>6 DEF Shows
  <2> QED BY <1>1, <1>2, <1>3, <1>4, <1>6, <2>1 DEF MakesUp
<1>7. CASE f.kind = "attached"
  <2>1. Shows(t, f) = IF f.restored THEN Restored(f)
                      ELSE [NoTerminal EXCEPT !.revision = f.revision]
    BY <1>7 DEF Shows
  <2>2. ~MakesUp(f)
    BY <1>7 DEF MakesUp
  <2>3. CASE f.restored
    BY <1>1, <1>3, <1>4, <1>7, <2>1, <2>2, <2>3
  <2>4. CASE ~f.restored
    <3>1. Shows(t, f) = [shown |-> {}, last |-> 0, revision |-> f.revision]
      BY <2>1, <2>4 DEF NoTerminal
    <3>2. Shows(t, f) \in Terminals
      BY <1>1, <3>1 DEF Terminals
    <3> QED BY <1>1, <1>7, <2>2, <2>4, <3>1, <3>2
  <2> QED BY <2>3, <2>4
<1> QED BY <1>1, <1>5, <1>6, <1>7

----------------------------------------------------------------------------
(* More silent drops.                                                      *)
LEMMA ForetoldMoreSilent ==
    ASSUME NEW T, NEW U, NEW F, NEW t, NEW S, NEW R, S \subseteq R,
           Foretold(T, U, F, t, S)
    PROVE  Foretold(T, U, F, t, R)
<1>1. \A j : Left(S, F, j) \subseteq Left(R, F, j)
  BY DEF Left
<1>2. \A j \in 1..(Len(F) + 1) : Sound(T[j], U, Left(R, F, j - 1))
  BY <1>1 DEF Foretold, Sound, Explains
<1> QED BY <1>2 DEF Foretold

(* The silent drops that a frame leaves.                                   *)
Unmade(S, f) == IF MakesUp(f) THEN {i \in S : i > Moment(f)} ELSE S

(* The first frame, the frames after it and the drops it leaves.           *)
Reads(F, S, f, G, R) ==
    F # <<>> /\ f = Head(F) /\ G = Tail(F) /\ R = Unmade(S, f)

(* The client draws the first frame.                                       *)
LEMMA ForetoldTail ==
    ASSUME NEW T, NEW U, NEW t, NEW S, NEW F \in Seq(Frames),
           Foretold(T, U, F, t, S), NEW f, NEW G, NEW R, Reads(F, S, f, G, R)
    PROVE  \E P \in Seq(Terminals) :
              /\ Foretold(P, U, G, Shows(t, f), R)
              /\ P[Len(G) + 1] = T[Len(F) + 1]
              /\ Left(R, G, Len(G)) = Left(S, F, Len(F))
<1> DEFINE P == Tail(T)
<1>0. F # <<>> /\ f = Head(F) /\ G = Tail(F) /\ R = Unmade(S, f)
  BY DEF Reads
<1>1. /\ G \in Seq(Frames) /\ Len(F) \in Nat \ {0} /\ Len(G) = Len(F) - 1 /\ f = F[1]
      /\ \A j \in 1..Len(G) : G[j] = F[j + 1]
  BY <1>0
<1>2. T \in Seq(Terminals) /\ Len(T) = Len(F) + 1 /\ T[1] = t
      /\ \A j \in 1..Len(F) : T[j + 1] = Shows(T[j], F[j])
  BY DEF Foretold, Chain
<1>3. P \in Seq(Terminals) /\ Len(P) = Len(G) + 1
      /\ \A j \in 1..(Len(G) + 1) : P[j] = T[j + 1]
  BY <1>1, <1>2
<1>4. \A j \in 0..Len(G) : Left(R, G, j) = Left(S, F, j + 1)
  <2> TAKE j \in 0..Len(G)
  <2>1. \A k \in 1..j : G[k] = F[k + 1]
    BY <1>1
  <2>2. ASSUME NEW i \in S, i \in R, \A k \in 1..j : MakesUp(G[k]) => i > Moment(G[k]),
               NEW k \in 1..(j + 1), MakesUp(F[k])
        PROVE  i > Moment(F[k])
    <3>1. CASE k = 1
      BY <1>0, <1>1, <2>2, <3>1 DEF Unmade
    <3>2. CASE k # 1
      <4>1. k - 1 \in 1..j /\ G[k - 1] = F[k]
        BY <1>1, <2>1, <3>2
      <4> QED BY <2>2, <4>1
    <3> QED BY <3>1, <3>2
  <2>3. ASSUME NEW i \in S, \A k \in 1..(j + 1) : MakesUp(F[k]) => i > Moment(F[k])
        PROVE  i \in R /\ \A k \in 1..j : MakesUp(G[k]) => i > Moment(G[k])
    <3>1. 1 \in 1..(j + 1) /\ \A k \in 1..j : k + 1 \in 1..(j + 1)
      BY <1>1
    <3>2. i \in R
      BY <1>0, <1>1, <2>3, <3>1 DEF Unmade
    <3> QED BY <2>1, <2>3, <3>1, <3>2
  <2>4. R \subseteq S
    BY <1>0 DEF Unmade
  <2>5. ASSUME NEW i \in Left(R, G, j)
        PROVE  i \in Left(S, F, j + 1)
    <3>1. i \in R /\ i \in S /\ \A k \in 1..j : MakesUp(G[k]) => i > Moment(G[k])
      BY <2>4, <2>5 DEF Left
    <3>2. \A k \in 1..(j + 1) : MakesUp(F[k]) => i > Moment(F[k])
      BY <2>2, <3>1
    <3> QED BY <3>1, <3>2 DEF Left
  <2>6. ASSUME NEW i \in Left(S, F, j + 1)
        PROVE  i \in Left(R, G, j)
    <3>1. i \in S /\ \A k \in 1..(j + 1) : MakesUp(F[k]) => i > Moment(F[k])
      BY <2>6 DEF Left
    <3> QED BY <2>3, <3>1 DEF Left
  <2> QED BY <2>5, <2>6
<1>5. Chain(P, Shows(t, f), G)
  <2>1. P[1] = Shows(t, f)
    BY <1>1, <1>2, <1>3
  <2>2. \A j \in 1..Len(G) : P[j + 1] = Shows(P[j], G[j])
    <3> TAKE j \in 1..Len(G)
    <3>1. P[j] = T[j + 1] /\ P[j + 1] = T[j + 1 + 1] /\ G[j] = F[j + 1] /\ j + 1 \in 1..Len(F)
      BY <1>1, <1>3
    <3> QED BY <1>2, <3>1
  <2> HIDE DEF P
  <2> QED BY <1>3, <2>1, <2>2 DEF Chain
<1>6. /\ \A j \in 1..(Len(F) + 1) : Within(T[j], U)
      /\ \A j \in 1..(Len(F) + 1) : Sound(T[j], U, Left(S, F, j - 1))
  BY DEF Foretold
<1> HIDE DEF P
<1>7. \A j \in 1..(Len(G) + 1) : /\ j + 1 \in 1..(Len(F) + 1) /\ j - 1 \in 0..Len(G)
                                 /\ (j + 1) - 1 = (j - 1) + 1
  BY <1>1
<1>8. \A j \in 1..(Len(G) + 1) : Within(P[j], U) /\ Sound(P[j], U, Left(R, G, j - 1))
  <2> TAKE j \in 1..(Len(G) + 1)
  <2>1. Left(R, G, j - 1) = Left(S, F, (j + 1) - 1)
    BY <1>4, <1>7
  <2>2. P[j] = T[j + 1] /\ j + 1 \in 1..(Len(F) + 1)
    BY <1>3, <1>7
  <2> QED BY <1>6, <2>1, <2>2
<1>10. Foretold(P, U, G, Shows(t, f), R)
  BY <1>5, <1>8 DEF Foretold
<1>11. Len(G) + 1 \in 1..(Len(G) + 1) /\ Len(G) + 1 = Len(F) /\ Len(G) \in 0..Len(G)
  BY <1>1
<1>12. P[Len(G) + 1] = T[Len(F) + 1] /\ Left(R, G, Len(G)) = Left(S, F, Len(F))
  BY <1>3, <1>4, <1>11
<1> QED BY <1>3, <1>10, <1>12 DEF P

(* One further frame.                                                      *)
LEMMA ForetoldOne ==
    ASSUME NEW T \in Seq(Terminals), NEW U, NEW t, NEW S, NEW F \in Seq(Frames),
           NEW f \in Frames,
           Foretold(T, U, F, t, S),
           NEW last, last = T[Len(F) + 1],
           Within(Shows(last, f), U),
           Sound(Shows(last, f), U, Left(S, F \o <<f>>, Len(F) + 1))
    PROVE  \E J \in Seq(Terminals) :
              /\ Foretold(J, U, F \o <<f>>, t, S)
              /\ J[Len(F \o <<f>>) + 1] = Shows(last, f)
<1> DEFINE n == Len(F)
           v == Shows(last, f)
           H == F \o <<f>>
           J == Append(T, v)
<1>1. n \in Nat /\ Len(T) = n + 1 /\ last \in Terminals /\ T[1] = t
      /\ \A j \in 1..n : T[j + 1] = Shows(T[j], F[j])
  BY DEF Foretold, Chain
<1>2. /\ H \in Seq(Frames) /\ Len(H) = n + 1 /\ H[n + 1] = f
      /\ \A k \in 1..n : H[k] = F[k]
  OBVIOUS
<1>3. v \in Terminals
  BY <1>1, ShowsCases
<1> HIDE DEF v, n, H
<1>4. /\ J \in Seq(Terminals) /\ Len(J) = n + 2 /\ J[n + 2] = v
      /\ \A j \in 1..(n + 1) : J[j] = T[j]
  BY <1>1, <1>3
<1> HIDE DEF J
<1>5. Chain(J, t, H)
  <2>1. ASSUME NEW j \in 1..(n + 1)
        PROVE  J[j + 1] = Shows(J[j], H[j])
    <3>1. CASE j \in 1..n
      <4>1. j + 1 \in 1..(n + 1)
        BY <1>1, <3>1
      <4> QED BY <1>1, <1>2, <1>4, <3>1, <4>1
    <3>2. CASE j = n + 1
      <4>1. J[j] = last /\ j + 1 = n + 2
        BY <1>1, <1>4, <3>2 DEF n
      <4> QED BY <1>2, <1>4, <3>2, <4>1 DEF v
    <3> QED BY <1>1, <3>1, <3>2
  <2>2. J[1] = t
    BY <1>1, <1>4
  <2>3. Len(J) = Len(H) + 1
    BY <1>1, <1>2, <1>4
  <2> QED BY <1>2, <1>4, <2>1, <2>2, <2>3 DEF Chain
<1>6. ASSUME NEW j \in 1..(n + 2)
      PROVE  Within(J[j], U) /\ Sound(J[j], U, Left(S, H, j - 1))
  <2>1. CASE j \in 1..(n + 1)
    <3>1. \A k \in 1..(j - 1) : k \in 1..n /\ H[k] = F[k]
      BY <1>1, <1>2, <2>1
    <3>2. Left(S, H, j - 1) = Left(S, F, j - 1)
      BY <3>1 DEF Left
    <3> QED BY <1>4, <2>1, <3>2 DEF Foretold, n
  <2>2. CASE j = n + 2
    <3>1. j - 1 = n + 1
      BY <1>1, <2>2
    <3> QED BY <1>4, <2>2, <3>1 DEF v, n, H
  <2> QED BY <1>1, <2>1, <2>2
<1>7. Foretold(J, U, H, t, S)
  <2>1. Len(H) + 1 = n + 2
    BY <1>1, <1>2
  <2> QED BY <1>5, <1>6, <2>1 DEF Foretold
<1>8. J[Len(H) + 1] = v
  <2>1. Len(H) + 1 = n + 2
    BY <1>1, <1>2
  <2> QED BY <1>4, <2>1
<1> QED BY <1>4, <1>7, <1>8 DEF v, H

----------------------------------------------------------------------------
(* A further update.                                                       *)
LEMMA LogGrows ==
    ASSUME NEW U, LogCounts(U), NEW u \in Updates,
           IF u.kind = "output"
           THEN /\ u.sequence = After(U, Len(U)).sequence + 1
                /\ u.revision = After(U, Len(U)).revision
           ELSE /\ u.sequence = After(U, Len(U)).sequence
                /\ u.revision = After(U, Len(U)).revision + 1
    PROVE  LET W == Append(U, u) IN
           /\ LogCounts(W)
           /\ Len(W) = Len(U) + 1
           /\ \A i \in 1..Len(U) : W[i] = U[i]
           /\ \A i \in 0..Len(U) : After(W, i) = After(U, i)
           /\ After(W, Len(W)) = u
<1> DEFINE W == Append(U, u)
           n == Len(U)
<1>1. U \in Seq(Updates) /\ n \in Nat
  BY DEF LogCounts
<1>2. W \in Seq(Updates) /\ Len(W) = n + 1 /\ (\A i \in 1..n : W[i] = U[i]) /\ W[n + 1] = u
  BY <1>1
<1>3. \A i \in 0..n : After(W, i) = After(U, i)
  BY <1>1, <1>2 DEF After
<1>4. After(W, n + 1) = u
  BY <1>1, <1>2 DEF After
<1>5. /\ \A i \in 0..n : After(U, i).sequence \in Nat /\ After(U, i).revision \in Nat
      /\ \A i \in 0..n : After(U, i).sequence + After(U, i).revision = i
      /\ \A i, j \in 0..n : i <= j =>
          /\ After(U, i).sequence <= After(U, j).sequence
          /\ After(U, i).revision <= After(U, j).revision
      /\ \A i \in 1..n :
          IF U[i].kind = "output"
          THEN U[i].sequence = After(U, i - 1).sequence + 1
          ELSE U[i].revision = After(U, i - 1).revision + 1
  BY DEF LogCounts
<1>6. u.sequence \in Nat /\ u.revision \in Nat
  BY DEF Updates
<1>7. n \in 0..n /\ \A i \in 0..(n + 1) : i \in 0..n \/ i = n + 1
  BY <1>1
<1>8. /\ u.sequence + u.revision = n + 1
      /\ \A i \in 0..n : After(U, i).sequence <= u.sequence /\ After(U, i).revision <= u.revision
  <2>1. \A i \in 0..n : i <= n
    BY <1>1
  <2>2. \A i \in 0..n : /\ After(U, i).sequence <= After(U, n).sequence
                        /\ After(U, i).revision <= After(U, n).revision
    BY <1>5, <1>7, <2>1
  <2>3. After(U, n).sequence + After(U, n).revision = n
    BY <1>5, <1>7
  <2>4. CASE u.kind = "output"
    BY <1>1, <1>5, <1>6, <1>7, <2>2, <2>3, <2>4
  <2>5. CASE u.kind # "output"
    BY <1>1, <1>5, <1>6, <1>7, <2>2, <2>3, <2>5
  <2> QED BY <2>4, <2>5
<1> HIDE DEF W
<1>9. LogCounts(W)
  <2>1. \A i \in 0..Len(W) : After(W, i).sequence \in Nat /\ After(W, i).revision \in Nat
    BY <1>2, <1>3, <1>4, <1>5, <1>6, <1>7
  <2>2. \A i \in 0..Len(W) : After(W, i).sequence + After(W, i).revision = i
    BY <1>2, <1>3, <1>4, <1>5, <1>7, <1>8
  <2>3. \A i, j \in 0..Len(W) : i <= j =>
          /\ After(W, i).sequence <= After(W, j).sequence
          /\ After(W, i).revision <= After(W, j).revision
    <3> TAKE i, j \in 0..Len(W)
    <3> HAVE i <= j
    <3>1. CASE j \in 0..n
      <4>1. i \in 0..n
        BY <1>1, <1>2, <3>1
      <4> QED BY <1>3, <1>5, <3>1, <4>1
    <3>2. CASE j = n + 1
      <4>1. CASE i \in 0..n
        BY <1>3, <1>4, <1>8, <3>2, <4>1
      <4>2. CASE i = n + 1
        BY <1>4, <1>6, <3>2, <4>2
      <4> QED BY <1>2, <1>7, <4>1, <4>2
    <3> QED BY <1>2, <1>7, <3>1, <3>2
  <2>4. \A i \in 1..Len(W) :
          IF W[i].kind = "output"
          THEN W[i].sequence = After(W, i - 1).sequence + 1
          ELSE W[i].revision = After(W, i - 1).revision + 1
    <3> TAKE i \in 1..Len(W)
    <3>1. CASE i \in 1..n
      <4>1. i - 1 \in 0..n
        BY <1>1, <3>1
      <4> QED BY <1>2, <1>3, <1>5, <3>1, <4>1
    <3>2. CASE i = n + 1
      <4>1. i - 1 = n /\ W[i] = u /\ After(W, i - 1) = After(U, n)
        BY <1>1, <1>2, <1>3, <1>7, <3>2
      <4> QED BY <4>1
    <3> QED BY <1>1, <1>2, <3>1, <3>2
  <2> QED BY <1>2, <2>1, <2>2, <2>3, <2>4 DEF LogCounts
<1> QED BY <1>2, <1>3, <1>4, <1>9 DEF W

(* What held of a log holds of one that continues it.                      *)
LEMMA HoldsOfLongerLog ==
    ASSUME NEW U, LogCounts(U), NEW W, LogCounts(W), Len(W) = Len(U) + 1,
           \A i \in 1..Len(U) : W[i] = U[i],
           \A i \in 0..Len(U) : After(W, i) = After(U, i)
    PROVE  /\ \A f : FrameFits(f, U) => FrameFits(f, W)
           /\ \A t \in Terminals : Within(t, U) => Within(t, W)
           /\ \A t \in Terminals, S \in SUBSET (1..Len(U)) : Sound(t, U, S) => Sound(t, W, S)
           /\ \A t, c : c \in 0..Len(U) /\ AheadIsWhole(t, U, c) => AheadIsWhole(t, W, c)
           /\ \A t, c : \A S \in SUBSET (1..Len(U)) :
                 c \in 0..Len(U) /\ Covers(t, U, S, c) => Covers(t, W, S, c)
<1> DEFINE n == Len(U)
<1>1. n \in Nat /\ n \in 0..n /\ Len(W) \in 0..Len(W)
  BY DEF LogCounts
<1>2. /\ After(U, n).sequence \in Nat /\ After(U, n).revision \in Nat
      /\ After(W, n + 1).sequence \in Nat /\ After(W, n + 1).revision \in Nat
      /\ After(U, n).sequence <= After(W, n + 1).sequence
      /\ After(U, n).revision <= After(W, n + 1).revision
  <2>1. n \in 0..Len(W) /\ n <= Len(W)
    BY <1>1
  <2>2. After(W, n) = After(U, n)
    BY <1>1
  <2> QED BY <1>1, <2>1, <2>2 DEF LogCounts
<1> HIDE DEF n
<1>3. ASSUME NEW f, FrameFits(f, U)
      PROVE  FrameFits(f, W)
  <2>1. f \in Frames /\ f.sequence \in Nat /\ f.revision \in Nat
    BY <1>3 DEF FrameFits, Frames
  <2>2. f.sequence <= After(W, Len(W)).sequence
    BY <1>2, <1>3, <2>1 DEF FrameFits, n
  <2>3. f.kind # "output" =>
         /\ Moment(f) \in 0..Len(W)
         /\ f.sequence = After(W, Moment(f)).sequence
         /\ f.revision = After(W, Moment(f)).revision
    <3> HAVE f.kind # "output"
    <3>1. Moment(f) \in 0..n
      BY <1>3 DEF FrameFits, n
    <3>2. Moment(f) \in 0..Len(W)
      BY <1>1, <3>1 DEF n
    <3> QED BY <1>3, <3>1, <3>2 DEF FrameFits, n
  <2> QED BY <1>3, <2>1, <2>2, <2>3 DEF FrameFits
<1>4. ASSUME NEW t \in Terminals, Within(t, U)
      PROVE  Within(t, W)
  <2>1. t.last \in Nat /\ t.revision \in Nat
    BY DEF Terminals
  <2> QED BY <1>2, <1>4, <2>1 DEF Within, n
<1>5. ASSUME NEW S \in SUBSET (1..Len(U)), NEW k, Explains(U, S, k)
      PROVE  Explains(W, S, k)
  BY <1>5 DEF Explains
<1>6. ASSUME NEW t, NEW c \in 0..Len(U), AheadIsWhole(t, U, c)
      PROVE  AheadIsWhole(t, W, c)
  <2>1. ASSUME NEW p \in (c + 1)..Len(U)
        PROVE  p \in (c + 1)..Len(W) /\ Whole(W, p) = Whole(U, p)
    <3>1. p \in 0..Len(U) /\ p \in (c + 1)..Len(W)
      BY <1>1, <2>1 DEF n
    <3> QED BY <3>1 DEF Whole
  <2> QED BY <1>6, <2>1 DEF AheadIsWhole
<1>7. ASSUME NEW t, NEW c \in 0..Len(U), NEW S \in SUBSET (1..Len(U)), Covers(t, U, S, c)
      PROVE  Covers(t, W, S, c)
  <2>1. \A k \in (t.last + 1)..After(W, c).sequence : Explains(W, S, k)
    BY <1>5, <1>7 DEF Covers
  <2>2. (\E i \in S : U[i].kind = "resized") => \E i \in S : W[i].kind = "resized"
    OBVIOUS
  <2> QED BY <1>7, <2>1, <2>2 DEF Covers
<1>8. ASSUME NEW t \in Terminals, NEW S \in SUBSET (1..Len(U)), Sound(t, U, S)
      PROVE  Sound(t, W, S)
  BY <1>5, <1>8 DEF Sound
<1> QED BY <1>3, <1>4, <1>6, <1>7, <1>8

----------------------------------------------------------------------------
(* What the forwarder does, seen by the terminal that draws it all.        *)

(* More updates taken: whoever is still ahead was ahead.                   *)
LEMMA StillAhead ==
    ASSUME NEW U, LogCounts(U), NEW t \in Terminals, NEW c \in 0..Len(U), NEW d \in c..Len(U),
           AheadIsWhole(t, U, c)
    PROVE  AheadIsWhole(t, U, d)
<1>1. Len(U) \in Nat
  BY DEF LogCounts
<1>2. d \in 0..Len(U) /\ c <= d
  BY <1>1
<1>3. /\ After(U, c).sequence <= After(U, d).sequence
      /\ After(U, c).revision <= After(U, d).revision
      /\ After(U, c).sequence \in Nat /\ After(U, d).sequence \in Nat
      /\ After(U, c).revision \in Nat /\ After(U, d).revision \in Nat
  BY <1>2 DEF LogCounts
<1>4. t.last \in Nat /\ t.revision \in Nat
  BY DEF Terminals
<1>5. SUFFICES ASSUME t.last > After(U, d).sequence \/ t.revision > After(U, d).revision
               PROVE  \E p \in (d + 1)..Len(U) : t = Whole(U, p)
  BY DEF AheadIsWhole
<1>6. t.last > After(U, c).sequence \/ t.revision > After(U, c).revision
  BY <1>3, <1>4, <1>5
<1>7. PICK p \in (c + 1)..Len(U) : t = Whole(U, p)
  BY <1>6 DEF AheadIsWhole
<1>8. p \in 0..Len(U) /\ t.last = After(U, p).sequence /\ t.revision = After(U, p).revision
  BY <1>1, <1>7 DEF Whole
<1>9. p > d
  <2>1. CASE p <= d
    <3>1. /\ After(U, p).sequence <= After(U, d).sequence
          /\ After(U, p).revision <= After(U, d).revision
      BY <1>2, <1>8, <2>1 DEF LogCounts
    <3>2. After(U, p).sequence \in Nat /\ After(U, p).revision \in Nat
      BY <1>8 DEF LogCounts
    <3> QED BY <1>3, <1>5, <1>8, <3>1, <3>2
  <2> QED BY <1>1, <1>2, <1>8, <2>1
<1>10. p \in (d + 1)..Len(U)
  BY <1>1, <1>2, <1>7, <1>9
<1> QED BY <1>7, <1>10

(* A chunk is forwarded.                                                   *)
LEMMA ChunkForwarded ==
    ASSUME NEW U, LogCounts(U), NEW c \in 0..(Len(U) - 1), U[c + 1].kind = "output",
           NEW t \in Terminals, NEW S \in SUBSET (1..Len(U)), NEW f \in Frames,
           f.kind = "output", f.sequence = U[c + 1].sequence,
           Within(t, U), Sound(t, U, S), AheadIsWhole(t, U, c), Covers(t, U, S, c)
    PROVE  LET v == Shows(t, f) IN
           /\ ~MakesUp(f) /\ FrameFits(f, U)
           /\ Within(v, U) /\ Sound(v, U, S) /\ AheadIsWhole(v, U, c + 1)
           /\ Covers(v, U, S, c + 1)
           /\ t.last <= v.last /\ t.revision <= v.revision
<1> DEFINE v == Shows(t, f)
<1>1. /\ Len(U) \in Nat /\ c + 1 \in 1..Len(U) /\ c \in 0..Len(U) /\ c + 1 \in 0..Len(U)
      /\ c + 1 \in c..Len(U) /\ Len(U) \in 0..Len(U) /\ (c + 1) - 1 = c
  BY DEF LogCounts
<1>2. After(U, c + 1) = U[c + 1]
  BY <1>1 DEF After
<1>3. /\ After(U, c).sequence \in Nat /\ After(U, c).revision \in Nat
      /\ After(U, c + 1).sequence \in Nat /\ After(U, c + 1).revision \in Nat
      /\ After(U, Len(U)).sequence \in Nat /\ After(U, Len(U)).revision \in Nat
      /\ After(U, c + 1).sequence <= After(U, Len(U)).sequence
      /\ After(U, c).revision <= After(U, Len(U)).revision
      /\ After(U, c).sequence + After(U, c).revision = c
      /\ After(U, c + 1).sequence + After(U, c + 1).revision = c + 1
      /\ After(U, c + 1).sequence = After(U, c).sequence + 1
  <2>1. \A i \in 0..Len(U) : i <= Len(U)
    BY <1>1
  <2>2. U[c + 1].sequence = After(U, c).sequence + 1
    BY <1>1 DEF LogCounts
  <2> QED BY <1>1, <1>2, <2>1, <2>2 DEF LogCounts
<1>4. After(U, c + 1).revision = After(U, c).revision
  BY <1>3
<1>5. t.last \in Nat /\ t.revision \in Nat /\ t.shown \in SUBSET Nat
  BY DEF Terminals
<1>6. f.sequence = After(U, c).sequence + 1 /\ f.sequence = After(U, c + 1).sequence
  BY <1>2, <1>3
<1>7. ~MakesUp(f)
  BY ShowsCases
<1>8. FrameFits(f, U)
  BY <1>3, <1>6 DEF FrameFits
<1>9. AheadIsWhole(t, U, c + 1)
  BY <1>1, StillAhead
<1>10. CASE ~(f.sequence > t.last)
  <2>1. v = t
    BY <1>10, ShowsCases
  <2>2. Covers(t, U, S, c + 1)
    BY <1>3, <1>4, <1>5, <1>6, <1>10, SMTT(60) DEF Covers
  <2> QED BY <1>5, <1>7, <1>8, <1>9, <2>1, <2>2
<1>11. CASE f.sequence > t.last
  <2>1. v.shown = t.shown \cup {f.sequence} /\ v.last = f.sequence /\ v.revision = t.revision
    BY <1>11, ShowsCases
  <2>2. Sound(v, U, S)
    <3> SUFFICES ASSUME NEW n \in 1..f.sequence
                 PROVE  n \in t.shown \cup {f.sequence} \/ Explains(U, S, n)
      BY <2>1 DEF Sound
    <3>1. n \in 1..t.last \/ n \in (t.last + 1)..After(U, c).sequence \/ n = f.sequence
      BY <1>3, <1>5, <1>6, <1>11, SMTT(60)
    <3> QED BY <3>1 DEF Sound, Covers
  <2>3. Within(v, U)
    BY <1>3, <1>6, <2>1 DEF Within
  <2>4. Covers(v, U, S, c + 1)
    BY <1>3, <1>4, <1>6, <2>1 DEF Covers
  <2>5. AheadIsWhole(v, U, c + 1)
    <3>1. SUFFICES ASSUME v.last > After(U, c + 1).sequence \/ v.revision > After(U, c + 1).revision
                   PROVE  FALSE
      BY DEF AheadIsWhole
    <3>2. t.revision > After(U, c).revision
      BY <1>3, <1>4, <1>6, <2>1, <3>1
    <3>3. PICK p \in (c + 1)..Len(U) : t = Whole(U, p)
      BY <3>2 DEF AheadIsWhole
    <3>4. p \in 0..Len(U) /\ c + 1 <= p /\ t.last = After(U, p).sequence
      BY <1>1, <3>3 DEF Whole
    <3>5. After(U, c + 1).sequence <= After(U, p).sequence /\ After(U, p).sequence \in Nat
      BY <1>1, <3>4 DEF LogCounts
    <3> QED BY <1>3, <1>6, <1>11, <3>4, <3>5
  <2>6. t.last <= v.last /\ t.revision <= v.revision
    BY <1>3, <1>5, <1>6, <1>11, <2>1
  <2> QED BY <1>7, <1>8, <2>2, <2>3, <2>4, <2>5, <2>6
<1> QED BY <1>10, <1>11

(* A snapshot of the moment d is forwarded when e updates are taken: the   *)
(* terminal shows it, or was ahead of it.                                  *)
LEMMA SnapshotForwarded ==
    ASSUME NEW U, LogCounts(U), NEW c \in 0..Len(U), NEW d \in c..Len(U), NEW e \in c..d,
           NEW t \in Terminals, NEW S \in SUBSET (1..Len(U)), NEW f \in Frames,
           f.kind = "snapshot", f.sequence = After(U, d).sequence,
           f.revision = After(U, d).revision,
           Within(t, U), AheadIsWhole(t, U, c)
    PROVE  LET v == Shows(t, f) IN
           /\ MakesUp(f) /\ FrameFits(f, U)
           /\ Within(v, U) /\ Sound(v, U, S) /\ AheadIsWhole(v, U, e) /\ Covers(v, U, S, e)
           /\ t.last <= v.last /\ t.revision <= v.revision
           /\ f.sequence <= v.last /\ f.revision <= v.revision
<1> DEFINE v == Shows(t, f)
<1>1. /\ Len(U) \in Nat /\ d \in 0..Len(U) /\ Len(U) \in 0..Len(U)
      /\ e \in 0..Len(U) /\ e <= d /\ d <= Len(U) /\ e \in c..Len(U)
      /\ e # d => d \in (e + 1)..Len(U)
  BY DEF LogCounts
<1>2. /\ After(U, d).sequence \in Nat /\ After(U, d).revision \in Nat
      /\ After(U, e).sequence \in Nat /\ After(U, e).revision \in Nat
      /\ After(U, Len(U)).sequence \in Nat /\ After(U, Len(U)).revision \in Nat
      /\ After(U, d).sequence <= After(U, Len(U)).sequence
      /\ After(U, d).revision <= After(U, Len(U)).revision
      /\ After(U, e).sequence <= After(U, d).sequence
      /\ After(U, e).revision <= After(U, d).revision
      /\ After(U, d).sequence + After(U, d).revision = d
  BY <1>1 DEF LogCounts
<1>3. t.last \in Nat /\ t.revision \in Nat
  BY DEF Terminals
<1>4. Moment(f) = d
  BY <1>2 DEF Moment
<1>5. MakesUp(f) /\ FrameFits(f, U)
  <2>1. MakesUp(f)
    BY ShowsCases
  <2> QED BY <1>1, <1>2, <1>4, <2>1 DEF FrameFits
<1>6. AheadIsWhole(t, U, d) /\ AheadIsWhole(t, U, e)
  BY <1>1, StillAhead
<1>7. CASE f.sequence >= t.last /\ f.revision >= t.revision
  <2>1. v = [shown |-> 1..f.sequence, last |-> f.sequence, revision |-> f.revision]
    BY <1>7, ShowsCases
  <2>2. v.shown = 1..f.sequence /\ v.last = f.sequence /\ v.revision = f.revision
        /\ v = Whole(U, d)
    BY <2>1 DEF Whole
  <2> HIDE DEF v
  <2>3. AheadIsWhole(v, U, e)
    <3>1. CASE e = d
      BY <1>2, <2>2, <3>1 DEF AheadIsWhole
    <3>2. CASE e # d
      BY <1>1, <2>2, <3>2 DEF AheadIsWhole
    <3> QED BY <3>1, <3>2
  <2>4. Within(v, U) /\ Sound(v, U, S) /\ Covers(v, U, S, e)
    BY <1>2, <2>2 DEF Within, Sound, Covers
  <2> QED BY <1>2, <1>3, <1>5, <1>7, <2>2, <2>3, <2>4 DEF v
<1>8. CASE ~(f.sequence >= t.last /\ f.revision >= t.revision)
  <2>1. v = t
    BY <1>8, ShowsCases
  <2>2. t.last > After(U, d).sequence \/ t.revision > After(U, d).revision
    BY <1>2, <1>3, <1>8
  <2>3. PICK p \in (d + 1)..Len(U) : t = Whole(U, p)
    BY <1>6, <2>2 DEF AheadIsWhole
  <2>4. p \in 0..Len(U) /\ d <= p /\ t.shown = 1..t.last
        /\ t.last = After(U, p).sequence /\ t.revision = After(U, p).revision
    BY <1>1, <2>3 DEF Whole
  <2>5. After(U, d).sequence <= t.last /\ After(U, d).revision <= t.revision
    BY <1>1, <2>4 DEF LogCounts
  <2>6. After(U, e).sequence <= t.last /\ After(U, e).revision <= t.revision
    <3>1. \A a, b, z \in Nat : a <= b /\ b <= z => a <= z
      OBVIOUS
    <3> QED BY <1>2, <1>3, <2>5, <3>1
  <2>7. Sound(t, U, S) /\ Covers(t, U, S, e)
    BY <1>2, <1>3, <2>4, <2>6 DEF Sound, Covers
  <2> QED BY <1>3, <1>5, <1>6, <2>1, <2>5, <2>7
<1> QED BY <1>7, <1>8

(* An update is dropped while a resynchronization is pending.              *)
LEMMA DropExplained ==
    ASSUME NEW U, LogCounts(U), NEW c \in 0..(Len(U) - 1),
           NEW t \in Terminals, NEW S \in SUBSET (1..Len(U)), NEW F \in Seq(Frames),
           \A j \in 1..Len(F) : FrameFits(F[j], U),
           ReachesSnapshots(t, F, c), Covers(t, U, Left(S, F, Len(F)), c)
    PROVE  Covers(t, U, Left(S \cup {c + 1}, F, Len(F)), c + 1)
<1> DEFINE R == Left(S, F, Len(F))
           Q == Left(S \cup {c + 1}, F, Len(F))
<1>1. /\ Len(U) \in Nat /\ c + 1 \in 1..Len(U) /\ c \in 0..Len(U) /\ c + 1 \in 0..Len(U)
      /\ (c + 1) - 1 = c /\ U \in Seq(Updates)
  BY DEF LogCounts
<1>2. After(U, c + 1) = U[c + 1] /\ U[c + 1].kind \in {"output", "resized"}
  <2>1. U[c + 1] \in Updates
    BY <1>1
  <2> QED BY <1>1, <2>1 DEF After, Updates
<1>3. /\ After(U, c).sequence \in Nat /\ After(U, c).revision \in Nat
      /\ After(U, c + 1).sequence \in Nat /\ After(U, c + 1).revision \in Nat
      /\ After(U, c).sequence + After(U, c).revision = c
      /\ After(U, c + 1).sequence + After(U, c + 1).revision = c + 1
      /\ IF U[c + 1].kind = "output"
         THEN After(U, c + 1).sequence = After(U, c).sequence + 1
         ELSE After(U, c + 1).revision = After(U, c).revision + 1
  BY <1>1, <1>2 DEF LogCounts
<1>4. t.last \in Nat /\ t.revision \in Nat
  BY DEF Terminals
<1>5. R \subseteq Q
  BY DEF Left
<1>6. c + 1 \in Q \/ (t.last >= After(U, c + 1).sequence /\ t.revision >= After(U, c + 1).revision)
  <2>1. CASE \A k \in 1..Len(F) : MakesUp(F[k]) => c + 1 > Moment(F[k])
    BY <2>1 DEF Left
  <2>2. ASSUME NEW k \in 1..Len(F), MakesUp(F[k]), ~(c + 1 > Moment(F[k]))
        PROVE  t.last >= After(U, c + 1).sequence /\ t.revision >= After(U, c + 1).revision
    <3>1. F[k] \in Frames /\ FrameFits(F[k], U)
      OBVIOUS
    <3>2. F[k].kind # "output"
      BY <2>2 DEF MakesUp
    <3>3. /\ Moment(F[k]) \in 0..Len(U) /\ F[k].sequence = After(U, Moment(F[k])).sequence
          /\ F[k].revision = After(U, Moment(F[k])).revision
      BY <3>1, <3>2 DEF FrameFits
    <3>4. c + 1 <= Moment(F[k]) /\ Moment(F[k]) > c
      BY <1>1, <2>2, <3>3
    <3>5. After(U, c + 1).sequence <= F[k].sequence /\ After(U, c + 1).revision <= F[k].revision
      BY <1>1, <3>3, <3>4 DEF LogCounts
    <3>6. F[k].sequence <= t.last /\ F[k].revision <= t.revision
      BY <2>2, <3>4 DEF ReachesSnapshots
    <3>7. F[k].sequence \in Nat /\ F[k].revision \in Nat
      BY <3>1 DEF Frames
    <3> DEFINE a == After(U, c + 1).sequence
               b == After(U, c + 1).revision
               x == F[k].sequence
               y == F[k].revision
    <3>8. a \in Nat /\ b \in Nat /\ x \in Nat /\ y \in Nat /\ a <= x /\ b <= y
          /\ x <= t.last /\ y <= t.revision
      BY <1>3, <3>5, <3>6, <3>7
    <3> HIDE DEF a, b, x, y
    <3>9. t.last >= a /\ t.revision >= b
      BY <1>4, <3>8
    <3> QED BY <3>9 DEF a, b
  <2> QED BY <2>1, <2>2
<1>7. /\ \A n \in (t.last + 1)..After(U, c).sequence : Explains(U, R, n)
      /\ t.revision >= After(U, c).revision \/ \E i \in R : U[i].kind = "resized"
  BY DEF Covers
<1> HIDE DEF R, Q
<1>8. \A n : Explains(U, R, n) => Explains(U, Q, n)
  BY <1>5 DEF Explains
<1>9. ASSUME NEW n \in (t.last + 1)..After(U, c + 1).sequence
      PROVE  Explains(U, Q, n)
  <2>1. CASE n \in (t.last + 1)..After(U, c).sequence
    BY <1>7, <1>8, <2>1
  <2>2. CASE n \notin (t.last + 1)..After(U, c).sequence
    <3>1. n \in Int /\ t.last < n /\ n <= After(U, c + 1).sequence
          /\ ~(n <= After(U, c).sequence)
      BY <1>3, <1>4, <2>2
    <3>2. U[c + 1].kind = "output"
      BY <1>3, <3>1
    <3>3. n = U[c + 1].sequence /\ t.last < After(U, c + 1).sequence
      BY <1>2, <1>3, <1>4, <3>1, <3>2
    <3>4. c + 1 \in Q
      BY <1>3, <1>4, <1>6, <3>3, SMTT(30)
    <3> QED BY <3>2, <3>3, <3>4 DEF Explains
  <2> QED BY <2>1, <2>2
<1>10. t.revision >= After(U, c + 1).revision \/ \E i \in Q : U[i].kind = "resized"
  <2>1. CASE U[c + 1].kind = "output"
    BY <1>3, <1>4, <1>5, <1>7, <2>1
  <2>2. CASE U[c + 1].kind = "resized"
    BY <1>6, <2>2
  <2> QED BY <1>2, <2>1, <2>2
<1>11. Covers(t, U, Q, c + 1)
  BY <1>9, <1>10 DEF Covers
<1> QED BY <1>11 DEF Q

(* Where the terminal reached what made up for updates, it still has.      *)
LEMMA StillReaches ==
    ASSUME NEW U, NEW t, NEW v, NEW F \in Seq(Frames), NEW c \in Nat, NEW d \in Nat, c <= d,
           NEW f \in Frames,
           t \in Terminals, v \in Terminals,
           t.last <= v.last, t.revision <= v.revision,
           ReachesSnapshots(t, F, c),
           MakesUp(f) /\ Moment(f) > d => f.sequence <= v.last /\ f.revision <= v.revision
    PROVE  ReachesSnapshots(v, F \o <<f>>, d)
<1> DEFINE H == F \o <<f>>
<1> SUFFICES ASSUME NEW k \in 1..Len(H), MakesUp(H[k]), Moment(H[k]) > d
             PROVE  H[k].sequence <= v.last /\ H[k].revision <= v.revision
  BY DEF ReachesSnapshots
<1>1. (k \in 1..Len(F) /\ H[k] = F[k] /\ F[k] \in Frames) \/ H[k] = f
  OBVIOUS
<1> HIDE DEF H
<1>2. CASE k \in 1..Len(F) /\ H[k] = F[k] /\ F[k] \in Frames
  <2>1. Moment(F[k]) \in Nat /\ F[k].sequence \in Nat /\ F[k].revision \in Nat
    BY <1>2 DEF Frames, Moment
  <2>2. F[k].sequence <= t.last /\ F[k].revision <= t.revision
    BY <1>2, <2>1 DEF ReachesSnapshots
  <2>3. t.last \in Nat /\ t.revision \in Nat /\ v.last \in Nat /\ v.revision \in Nat
    BY DEF Terminals
  <2> QED BY <1>2, <2>1, <2>2, <2>3, SMTT(60)
<1> QED BY <1>1, <1>2

(* With c updates taken, the frame f is the next chunk, or a snapshot of   *)
(* the moment d, by which e updates are taken.                             *)
Forwards(T, U, F, S, f, c, d, e) ==
    /\ c \in 0..Len(U) /\ d \in c..Len(U) /\ e \in c..d
    /\ AheadIsWhole(T[Len(F) + 1], U, c)
    /\ ReachesSnapshots(T[Len(F) + 1], F, c)
    /\ \/ /\ d = c + 1 /\ e = d /\ U[c + 1].kind = "output"
          /\ f.kind = "output" /\ f.sequence = U[c + 1].sequence
          /\ Covers(T[Len(F) + 1], U, Left(S, F, Len(F)), c)
       \/ /\ f.kind = "snapshot" /\ f.sequence = After(U, d).sequence
          /\ f.revision = After(U, d).revision

(* A frame is forwarded, seen by the terminal that reads everything on     *)
(* its way: the next chunk, or a snapshot of the moment d.                 *)
LEMMA OneForwarded ==
    ASSUME NEW U, LogCounts(U), NEW F \in Seq(Frames), NEW t \in Terminals,
           NEW S \in SUBSET (1..Len(U)),
           NEW T \in Seq(Terminals), Foretold(T, U, F, t, S),
           NEW f \in Frames, NEW c, NEW d, NEW e, Forwards(T, U, F, S, f, c, d, e)
    PROVE  FrameFits(f, U) /\ Leads(t, F \o <<f>>, U, S, e, "live")
<1> DEFINE n == Len(F)
           last == T[n + 1]
           v == Shows(last, f)
           H == F \o <<f>>
           Q == Left(S, F, n)
           R == Left(S, H, n + 1)
<1>0. /\ c \in 0..Len(U) /\ d \in c..Len(U) /\ e \in c..d
      /\ AheadIsWhole(last, U, c) /\ ReachesSnapshots(last, F, c)
      /\ \/ /\ d = c + 1 /\ e = d /\ U[c + 1].kind = "output"
            /\ f.kind = "output" /\ f.sequence = U[c + 1].sequence
            /\ Covers(last, U, Q, c)
         \/ /\ f.kind = "snapshot" /\ f.sequence = After(U, d).sequence
            /\ f.revision = After(U, d).revision
  BY DEF Forwards
<1>1. n \in Nat /\ Len(T) = n + 1
  BY DEF Foretold, Chain
<1>2. last \in Terminals
  BY <1>1
<1>3. Within(last, U) /\ Sound(last, U, Q)
  <2>1. n + 1 \in 1..(n + 1) /\ (n + 1) - 1 = n
    BY <1>1
  <2> HIDE DEF n
  <2> QED BY <2>1 DEF Foretold, n
<1>4. H \in Seq(Frames) /\ Len(H) = n + 1 /\ (\A k \in 1..n : H[k] = F[k]) /\ H[n + 1] = f
  OBVIOUS
<1>5. Q \in SUBSET (1..Len(U)) /\ R \in SUBSET (1..Len(U))
  BY DEF Left
<1> HIDE DEF H
<1>6. ~MakesUp(f) => R = Q
  <2>1. \A k \in 1..(n + 1) : k \in 1..n \/ k = n + 1
    BY <1>1
  <2>2. \A k \in 1..n : k \in 1..(n + 1)
    BY <1>1
  <2> HIDE DEF n
  <2> QED BY <1>4, <2>1, <2>2 DEF Left
<1>7. /\ Len(U) \in Nat /\ c \in Nat /\ e \in Nat /\ c <= e
      /\ d = c + 1 => c \in 0..(Len(U) - 1)
  BY <1>0 DEF LogCounts
<1>8. /\ FrameFits(f, U)
      /\ Within(v, U) /\ Sound(v, U, R) /\ AheadIsWhole(v, U, e) /\ Covers(v, U, R, e)
      /\ last.last <= v.last /\ last.revision <= v.revision
      /\ MakesUp(f) => f.sequence <= v.last /\ f.revision <= v.revision
  <2>1. CASE /\ d = c + 1 /\ e = d /\ U[c + 1].kind = "output"
             /\ f.kind = "output" /\ f.sequence = U[c + 1].sequence
             /\ Covers(last, U, Q, c)
    <3>1. c \in 0..(Len(U) - 1)
      BY <1>7, <2>1
    <3>2. /\ U[c + 1].kind = "output" /\ f.kind = "output" /\ f.sequence = U[c + 1].sequence
          /\ Covers(last, U, Q, c) /\ AheadIsWhole(last, U, c)
      BY <1>0, <2>1
    <3> HIDE DEF last, Q, R
    <3>3. /\ ~MakesUp(f) /\ FrameFits(f, U)
          /\ Within(v, U) /\ Sound(v, U, Q) /\ AheadIsWhole(v, U, c + 1)
          /\ Covers(v, U, Q, c + 1)
          /\ last.last <= v.last /\ last.revision <= v.revision
      BY <1>2, <1>3, <1>5, <3>1, <3>2, ChunkForwarded
    <3> HIDE DEF v
    <3> QED BY <1>6, <2>1, <3>3
  <2>2. CASE /\ f.kind = "snapshot" /\ f.sequence = After(U, d).sequence
             /\ f.revision = After(U, d).revision
    <3>1. AheadIsWhole(last, U, c) /\ c \in 0..Len(U) /\ d \in c..Len(U) /\ e \in c..d
      BY <1>0
    <3> HIDE DEF last, Q, R
    <3>2. /\ MakesUp(f) /\ FrameFits(f, U)
          /\ Within(v, U) /\ Sound(v, U, R) /\ AheadIsWhole(v, U, e) /\ Covers(v, U, R, e)
          /\ last.last <= v.last /\ last.revision <= v.revision
          /\ f.sequence <= v.last /\ f.revision <= v.revision
      BY <1>2, <1>3, <1>5, <2>2, <3>1, SnapshotForwarded
    <3> HIDE DEF v
    <3> QED BY <3>2
  <2> QED BY <1>0, <2>1, <2>2
<1>9. v \in Terminals
  <2> HIDE DEF last
  <2> QED BY <1>2, ShowsCases
<1>10. ReachesSnapshots(v, H, e)
  <2>1. ReachesSnapshots(last, F, c)
    BY <1>0
  <2> HIDE DEF v, last
  <2>2. ReachesSnapshots(v, F \o <<f>>, e)
    BY <1>2, <1>7, <1>8, <1>9, <2>1, StillReaches
  <2> QED BY <2>2 DEF H
<1>11. PICK J \in Seq(Terminals) : Foretold(J, U, H, t, S) /\ J[Len(H) + 1] = v
  <2>1. last = T[Len(F) + 1] /\ Within(Shows(last, f), U)
        /\ Sound(Shows(last, f), U, Left(S, F \o <<f>>, Len(F) + 1))
        /\ last.last <= Shows(last, f).last
    BY <1>8 DEF H
  <2> HIDE DEF last
  <2>2. \E J \in Seq(Terminals) :
              /\ Foretold(J, U, F \o <<f>>, t, S)
              /\ J[Len(F \o <<f>>) + 1] = Shows(last, f)
    BY <2>1, ForetoldOne
  <2> QED BY <2>2 DEF H
<1> HIDE DEF v
<1>12. /\ Foretold(J, U, H, t, S) /\ AheadIsWhole(J[Len(H) + 1], U, e)
       /\ ReachesSnapshots(J[Len(H) + 1], H, e)
       /\ Covers(J[Len(H) + 1], U, Left(S, H, Len(H)), e)
  BY <1>4, <1>8, <1>10, <1>11
<1> QED BY <1>8, <1>12 DEF Leads, H

(* A terminal w that shows the first i chunks too.                         *)
Replayed(w, i) ==
    [shown |-> w.shown \cup {m \in 1..i : m > w.last},
     last |-> IF i > w.last THEN i ELSE w.last,
     revision |-> w.revision]

(* One more chunk of a replay.                                             *)
LEMMA ReplayStep ==
    ASSUME NEW w \in Terminals, NEW i \in Nat
    PROVE  /\ Replayed(w, 0) = w
           /\ Replayed(w, i) \in Terminals
           /\ OutputFrame(i + 1) \in Frames
           /\ Shows(Replayed(w, i), OutputFrame(i + 1)) = Replayed(w, i + 1)
<1>1. w.shown \in SUBSET Nat /\ w.last \in Nat /\ w.revision \in Nat
      /\ w = [shown |-> w.shown, last |-> w.last, revision |-> w.revision]
  BY DEF Terminals
<1>2. \A k \in Nat : Replayed(w, k) \in Terminals
  <2> TAKE k \in Nat
  <2>1. {m \in 1..k : m > w.last} \subseteq Nat
    OBVIOUS
  <2>2. (IF k > w.last THEN k ELSE w.last) \in Nat
    BY <1>1
  <2> QED BY <1>1, <2>1, <2>2 DEF Replayed, Terminals
<1>3. Replayed(w, 0) = w
  <2>1. {m \in 1..0 : m > w.last} = {}
    OBVIOUS
  <2>2. (IF 0 > w.last THEN 0 ELSE w.last) = w.last
    BY <1>1
  <2> QED BY <1>1, <2>1, <2>2 DEF Replayed
<1> DEFINE f == OutputFrame(i + 1)
           x == Replayed(w, i)
           y == Replayed(w, i + 1)
           n == i + 1
<1>4. f \in Frames /\ f.kind = "output" /\ f.sequence = n /\ n \in Nat
  BY DEF OutputFrame, Frames
<1>5. /\ x.shown = w.shown \cup {m \in 1..i : m > w.last}
      /\ x.last = IF i > w.last THEN i ELSE w.last
      /\ x.revision = w.revision
      /\ y.shown = w.shown \cup {m \in 1..(i + 1) : m > w.last}
      /\ y.last = IF i + 1 > w.last THEN i + 1 ELSE w.last
      /\ y.revision = w.revision
  BY DEF Replayed
<1>6. x \in Terminals /\ y \in Terminals
  BY <1>2
<1>7. i + 1 = n
  OBVIOUS
<1> HIDE DEF f, x, y
<1>8. CASE n > w.last
  <2>1. n > x.last
    BY <1>1, <1>5, <1>8
  <2>2. /\ Shows(x, f).shown = x.shown \cup {n} /\ Shows(x, f).last = n
        /\ Shows(x, f).revision = x.revision /\ Shows(x, f) \in Terminals
    BY <1>4, <1>6, <2>1, ShowsCases
  <2>3. y.shown = x.shown \cup {n}
    <3>1. {m \in 1..n : m > w.last} = {m \in 1..i : m > w.last} \cup {n}
      BY <1>1, <1>8
    <3> QED BY <1>5, <1>7, <3>1
  <2>4. y.last = n
    BY <1>5, <1>7, <1>8
  <2>5. Shows(x, f) = y
    BY <1>5, <1>6, <2>2, <2>3, <2>4 DEF Terminals
  <2> QED BY <1>2, <1>3, <1>4, <2>5 DEF f, x, y
<1>9. CASE ~(n > w.last)
  <2>1. ~(n > x.last)
    BY <1>1, <1>5, <1>9
  <2>2. Shows(x, f) = x
    BY <1>4, <1>6, <2>1, ShowsCases
  <2>3. y.shown = x.shown
    <3>1. /\ {m \in 1..n : m > w.last} = {}
          /\ {m \in 1..i : m > w.last} = {}
      BY <1>1, <1>9
    <3> QED BY <1>5, <1>7, <3>1
  <2>4. y.last = x.last
    BY <1>1, <1>5, <1>7, <1>9
  <2>5. x = y
    BY <1>5, <1>6, <2>3, <2>4 DEF Terminals
  <2> QED BY <1>2, <1>3, <1>4, <2>2, <2>5 DEF f, x, y
<1> QED BY <1>8, <1>9

----------------------------------------------------------------------------
(* What is drawn around a reply.                                           *)

(* Terminals alike show the next event alike.                              *)
LEMMA LikeShows ==
    ASSUME NEW t \in Terminals, NEW u \in Terminals, NEW X, Like(t, u, X),
           NEW f \in Frames, f.kind # "attached"
    PROVE  Like(Shows(t, f), Shows(u, f), X)
<1>1. t.last = u.last /\ t.revision = u.revision
      /\ \A n \in t.shown : n \in u.shown \/ Torn(X, n)
  BY DEF Like
<1>2. f.sequence \in Nat /\ f.revision \in Nat /\ t.last \in Nat /\ t.revision \in Nat
  BY DEF Frames, Terminals
<1>3. CASE f.kind = "output" /\ f.sequence > t.last
  <2>1. /\ Shows(t, f).shown = t.shown \cup {f.sequence}
        /\ Shows(t, f).last = f.sequence
        /\ Shows(t, f).revision = t.revision
        /\ Shows(u, f).shown = u.shown \cup {f.sequence}
        /\ Shows(u, f).last = f.sequence
        /\ Shows(u, f).revision = u.revision
    BY <1>1, <1>3, ShowsCases
  <2> QED BY <1>1, <2>1 DEF Like
<1>4. CASE f.kind = "output" /\ ~(f.sequence > t.last)
  <2>1. Shows(t, f) = t /\ Shows(u, f) = u
    BY <1>1, <1>4, ShowsCases
  <2> QED BY <2>1
<1>5. CASE f.kind = "snapshot" /\ f.sequence >= t.last /\ f.revision >= t.revision
  <2>1. Shows(t, f) = Shows(u, f)
    BY <1>1, <1>5, ShowsCases
  <2> QED BY <2>1 DEF Like
<1>6. CASE f.kind = "snapshot" /\ ~(f.sequence >= t.last /\ f.revision >= t.revision)
  <2>1. Shows(t, f) = t /\ Shows(u, f) = u
    BY <1>1, <1>6, ShowsCases
  <2> QED BY <2>1
<1> QED BY <1>3, <1>4, <1>5, <1>6, ShowsCases

(* A terminal that is left when the last event from before is drawn is     *)
(* like one without a hole.                                                *)
LEMMA FreshSettles ==
    ASSUME NEW b \in Bases, NEW X, NEW u \in Fresh(b, X)
    PROVE  \E t \in Fresh(b, {}) : Like(t, u, X)
<1> DEFINE holes == {n \in 1..u.last : Torn(X, n)}
           t == [shown |-> u.shown \cup holes, last |-> u.last,
                 revision |-> u.revision]
<1>1. u \in Terminals /\ u.shown \in SUBSET Nat /\ u.last \in Nat /\ u.revision \in Nat
  BY DEF Fresh, Terminals
<1>2. /\ u.last <= b.last
      /\ b.restored => u.last = b.last
      /\ u.revision = b.revision
      /\ \A n \in 1..u.last : n \in u.shown \/ Torn(X, n)
  BY DEF Fresh
<1>3. holes \subseteq Nat /\ \A n \in holes : Torn(X, n)
  OBVIOUS
<1>4. \A n \in 1..u.last : n \in u.shown \cup holes
  BY <1>2
<1> HIDE DEF holes
<1>5. /\ t \in Terminals /\ t.shown = u.shown \cup holes /\ t.last = u.last
      /\ t.revision = u.revision
  BY <1>1, <1>3 DEF Terminals
<1> HIDE DEF t
<1>6. t \in Fresh(b, {})
  BY <1>2, <1>4, <1>5 DEF Fresh
<1>7. Like(t, u, X)
  BY <1>3, <1>5 DEF Like
<1> QED BY <1>6, <1>7

(* An event from before the attachment leaves such a terminal such a one,  *)
(* and makes up for nothing that was dropped since.                        *)
LEMMA FreshStays ==
    ASSUME NEW b \in Bases, NEW X, NEW S, NEW f \in Frames,
           f.kind \in {"output", "snapshot"}, f.sequence <= b.last,
           f.kind = "snapshot" => f.revision <= b.revision,
           f.kind = "output" /\ ~b.restored => f.sequence \in X,
           S \subseteq Nat, \A i \in S : i > b.last + b.revision
    PROVE  /\ \A u \in Fresh(b, X) : Shows(u, f) \in Fresh(b, X)
           /\ Unmade(S, f) = S
<1>1. /\ f.sequence \in Nat /\ f.revision \in Nat
      /\ b.last \in Nat /\ b.revision \in Nat /\ b.restored \in BOOLEAN
  BY DEF Frames, Bases
<1>2. Unmade(S, f) = S
  <2>1. CASE f.kind = "output"
    BY <2>1 DEF Unmade, MakesUp
  <2>2. CASE f.kind = "snapshot"
    <3>1. f.sequence + f.revision <= b.last + b.revision
      BY <1>1, <2>2
    <3>2. \A i \in S : i > f.sequence + f.revision
      BY <1>1, <3>1
    <3> QED BY <3>2 DEF Unmade, Moment
  <2> QED BY <2>1, <2>2
<1>3. ASSUME NEW u \in Fresh(b, X)
      PROVE  Shows(u, f) \in Fresh(b, X)
  <2>1. u \in Terminals /\ u.shown \in SUBSET Nat /\ u.last \in Nat /\ u.revision \in Nat
    BY DEF Fresh, Terminals
  <2>2. /\ u.last <= b.last
        /\ b.restored => u.last = b.last
        /\ u.revision = b.revision
        /\ \A n \in 1..u.last : n \in u.shown \/ Torn(X, n)
    BY DEF Fresh
  <2> DEFINE v == Shows(u, f)
  <2>3. v \in Terminals
    BY <2>1, ShowsCases
  <2>4. CASE v = u
    BY <2>4
  <2>5. CASE f.kind = "output" /\ f.sequence > u.last
    <3>1. /\ v.shown = u.shown \cup {f.sequence} /\ v.last = f.sequence
          /\ v.revision = u.revision
      BY <2>1, <2>5, ShowsCases
    <3>2. ~b.restored /\ f.sequence \in X
      BY <1>1, <2>1, <2>2, <2>5
    <3> HIDE DEF v
    <3>3. ASSUME NEW n \in 1..f.sequence
          PROVE  n \in v.shown \/ Torn(X, n)
      <4>1. CASE n = f.sequence
        BY <3>1, <4>1
      <4>2. CASE n < f.sequence
        BY <3>2, <4>2 DEF Torn
      <4> QED BY <1>1, <4>1, <4>2
    <3>4. v \in Fresh(b, X)
      BY <2>2, <2>3, <3>1, <3>2, <3>3 DEF Fresh
    <3> QED BY <3>4 DEF v
  <2>6. CASE f.kind = "snapshot" /\ f.sequence >= u.last /\ f.revision >= u.revision
    <3>1. v = [shown |-> 1..f.sequence, last |-> f.sequence, revision |-> f.revision]
      BY <2>1, <2>6, ShowsCases
    <3>2. v.shown = 1..f.sequence /\ v.last = f.sequence /\ v.revision = f.revision
      BY <3>1
    <3>3. f.revision = b.revision /\ (b.restored => f.sequence = b.last)
      BY <1>1, <2>2, <2>6
    <3> HIDE DEF v
    <3>4. \A n \in 1..v.last : n \in v.shown
      BY <3>2
    <3>5. v \in Fresh(b, X)
      BY <2>3, <3>2, <3>3, <3>4 DEF Fresh
    <3> QED BY <3>5 DEF v
  <2>7. CASE f.kind = "output" /\ ~(f.sequence > u.last)
    BY <2>1, <2>4, <2>7, ShowsCases
  <2>8. CASE f.kind = "snapshot" /\ ~(f.sequence >= u.last /\ f.revision >= u.revision)
    BY <2>1, <2>4, <2>8, ShowsCases
  <2> QED BY <2>5, <2>6, <2>7, <2>8
<1> QED BY <1>2, <1>3

(* So does the reply, whatever the terminal was.                           *)
LEMMA AnswerIsFresh ==
    ASSUME NEW b \in Bases, NEW X, NEW u \in Terminals
    PROVE  ReplyOf(b) \in Frames /\ Shows(u, ReplyOf(b)) \in Fresh(b, X)
<1> DEFINE f == ReplyOf(b)
           v == Shows(u, f)
<1>1. b.last \in Nat /\ b.revision \in Nat /\ b.restored \in BOOLEAN
  BY DEF Bases
<1>2. /\ f \in Frames /\ f.kind = "attached" /\ f.sequence = b.last
      /\ f.revision = b.revision /\ f.restored = b.restored
  BY <1>1 DEF ReplyOf, Frames
<1> HIDE DEF f
<1>3. /\ v \in Terminals
      /\ b.restored => v = [shown |-> 1..b.last, last |-> b.last, revision |-> b.revision]
      /\ ~b.restored => v = [shown |-> {}, last |-> 0, revision |-> b.revision]
  BY <1>2, ShowsCases
<1>4. /\ b.restored => v.shown = 1..b.last /\ v.last = b.last /\ v.revision = b.revision
      /\ ~b.restored => v.last = 0 /\ v.revision = b.revision
  BY <1>3
<1> HIDE DEF v
<1>5. v.last <= b.last /\ \A n \in 1..v.last : n \in v.shown
  BY <1>1, <1>4
<1>6. v \in Fresh(b, X)
  BY <1>1, <1>3, <1>4, <1>5 DEF Fresh
<1> QED BY <1>2, <1>6 DEF f, v

(* Nothing, or the chunks from the first one on, leads such a terminal to  *)
(* the counters of the log.                                                *)
LEMMA ReplayLeads ==
    ASSUME NEW U, LogCounts(U), NEW b \in Bases,
           b.last = After(U, Len(U)).sequence, b.revision = After(U, Len(U)).revision,
           NEW F \in Seq(Frames), b.restored => F = <<>>,
           ~b.restored => Len(F) = b.last /\ \A i \in 1..b.last : F[i] = OutputFrame(i),
           NEW t \in Fresh(b, {})
    PROVE  Leads(t, F, U, {}, Len(U), "attaching")
<1> DEFINE n == Len(F)
           T == [j \in 1..(n + 1) |-> Replayed(t, j - 1)]
<1>1. /\ n \in Nat /\ b.last \in Nat /\ b.revision \in Nat /\ b.restored \in BOOLEAN
      /\ b.restored => n = 0
      /\ ~b.restored => n = b.last
  BY DEF Bases
<1>2. /\ t \in Terminals /\ t.last \in Nat /\ t.last <= b.last /\ t.revision = b.revision
      /\ b.restored => t.last = b.last
      /\ \A k \in 1..t.last : k \in t.shown
  BY DEF Fresh, Terminals, Torn
<1>3. \A i \in 1..n : F[i] = OutputFrame(i)
  BY <1>1
<1> HIDE DEF n
<1>4. \A j \in 1..(n + 1) : j - 1 \in Nat /\ j - 1 <= n
  BY <1>1
<1>5. \A j \in 1..(n + 1) : T[j] = Replayed(t, j - 1)
  OBVIOUS
<1>6. T \in Seq(Terminals) /\ Len(T) = n + 1
  <2>1. \A j \in 1..(n + 1) : Replayed(t, j - 1) \in Terminals
    BY <1>2, <1>4, ReplayStep
  <2>2. T \in [1..(n + 1) -> Terminals] /\ n + 1 \in Nat
    BY <1>1, <2>1
  <2> HIDE DEF T
  <2>3. T \in Seq(Terminals)
    BY <2>2, SeqDef
  <2>4. Len(T) \in Nat /\ DOMAIN T = 1..Len(T)
    BY <2>3, LenProperties
  <2> QED BY <1>1, <2>2, <2>3, <2>4
<1> HIDE DEF T
<1>7. T[1] = t
  <2>1. 1 \in 1..(n + 1) /\ 1 - 1 = 0
    BY <1>1
  <2>2. T[1] = Replayed(t, 0)
    BY <1>5, <2>1
  <2> QED BY <1>2, <2>2, ReplayStep
<1>8. \A j \in 1..n : T[j + 1] = Shows(T[j], F[j])
  <2> TAKE j \in 1..n
  <2>1. /\ j \in 1..(n + 1) /\ j + 1 \in 1..(n + 1) /\ j - 1 \in Nat
        /\ (j + 1) - 1 = (j - 1) + 1 /\ j = (j - 1) + 1
    BY <1>1
  <2>2. T[j] = Replayed(t, j - 1) /\ T[j + 1] = Replayed(t, (j - 1) + 1)
    BY <1>5, <2>1
  <2>3. F[j] = OutputFrame((j - 1) + 1)
    BY <1>3, <2>1
  <2>4. Shows(Replayed(t, j - 1), OutputFrame((j - 1) + 1)) = Replayed(t, (j - 1) + 1)
    BY <1>2, <2>1, ReplayStep
  <2> QED BY <2>2, <2>3, <2>4
<1>9. Chain(T, t, F)
  BY <1>6, <1>7, <1>8 DEF Chain, n
<1>10. ASSUME NEW j \in 1..(n + 1)
       PROVE  /\ T[j].last = IF j - 1 > t.last THEN j - 1 ELSE t.last
              /\ T[j].revision = b.revision
              /\ Within(T[j], U)
              /\ \A S : Sound(T[j], U, S)
  <2>1. /\ T[j].last = IF j - 1 > t.last THEN j - 1 ELSE t.last
        /\ T[j].revision = b.revision
        /\ T[j].shown = t.shown \cup {m \in 1..(j - 1) : m > t.last}
    <3>1. \A i : /\ Replayed(t, i).last = IF i > t.last THEN i ELSE t.last
                 /\ Replayed(t, i).revision = t.revision
                 /\ Replayed(t, i).shown = t.shown \cup {m \in 1..i : m > t.last}
      BY DEF Replayed
    <3> QED BY <1>2, <1>5, <3>1
  <2>2. Within(T[j], U)
    <3>1. T[j].last <= b.last
      BY <1>1, <1>2, <1>4, <2>1
    <3> QED BY <1>1, <2>1, <3>1 DEF Within
  <2>3. \A S : Sound(T[j], U, S)
    <3>1. ASSUME NEW m \in 1..T[j].last
          PROVE  m \in T[j].shown
      <4>1. m \in 1..t.last \/ (m \in 1..(j - 1) /\ m > t.last)
        BY <1>2, <1>4, <2>1
      <4> QED BY <1>2, <2>1, <4>1
    <3> QED BY <3>1 DEF Sound
  <2> QED BY <2>1, <2>2, <2>3
<1>11. Foretold(T, U, F, t, {})
  BY <1>9, <1>10 DEF Foretold, n
<1> DEFINE v == T[n + 1]
<1>12. v.last = b.last /\ v.revision = b.revision
  <2>1. n + 1 \in 1..(n + 1) /\ (n + 1) - 1 = n
    BY <1>1
  <2>2. v.last = (IF n > t.last THEN n ELSE t.last) /\ v.revision = b.revision
    BY <1>10, <2>1
  <2> QED BY <1>1, <1>2, <2>2
<1> HIDE DEF v
<1>13. AheadIsWhole(v, U, Len(U)) /\ Covers(v, U, Left({}, F, n), Len(U))
  BY <1>1, <1>12 DEF AheadIsWhole, Covers
<1>14. ReachesSnapshots(v, F, Len(U))
  <2>1. \A k \in 1..n : ~MakesUp(F[k])
    <3>1. \A k : OutputFrame(k).kind = "output"
      BY DEF OutputFrame
    <3> QED BY <1>3, <3>1 DEF MakesUp
  <2> QED BY <2>1 DEF ReachesSnapshots, n
<1> QED BY <1>6, <1>11, <1>13, <1>14 DEF Leads, v, n

----------------------------------------------------------------------------
(* What leads on still does when the log grows, a frame follows, or more   *)
(* updates are taken.                                                      *)

(* The model's names for the counters.                                     *)
LEMMA Counters ==
    /\ \A i : At(i) = After(updates, i)
    /\ LatestSequence = After(updates, Len(updates)).sequence
    /\ TerminalRevision = After(updates, Len(updates)).revision
BY DEF At, After, LatestSequence, TerminalRevision

(* Output or a resize.                                                     *)
LEMMA LogContinues ==
    ASSUME LogCounts(updates),
           \/ updates' = Append(updates, [kind |-> "output",
                                          sequence |-> LatestSequence + 1,
                                          revision |-> TerminalRevision])
           \/ updates' = Resized
    PROVE  /\ LogCounts(updates')
           /\ Len(updates') = Len(updates) + 1
           /\ \A i \in 1..Len(updates) : updates'[i] = updates[i]
           /\ \A i \in 0..Len(updates) : After(updates', i) = After(updates, i)
           /\ updates' = Resized =>
                /\ After(updates', Len(updates')).sequence = LatestSequence
                /\ After(updates', Len(updates')).revision = TerminalRevision + 1
<1> DEFINE L == After(updates, Len(updates)).sequence
           R == After(updates, Len(updates)).revision
           a == [kind |-> "output", sequence |-> L + 1, revision |-> R]
           b == [kind |-> "resized", sequence |-> L, revision |-> R + 1]
<1>1. L \in Nat /\ R \in Nat
  <2>1. Len(updates) \in 0..Len(updates)
    BY DEF LogCounts
  <2> QED BY <2>1 DEF LogCounts
<1>2. a \in Updates /\ b \in Updates
  BY <1>1 DEF Updates
<1>3. LatestSequence = L /\ TerminalRevision = R
  BY Counters
<1>4. PICK u \in {a, b} : updates' = Append(updates, u)
                           /\ (updates' = Resized => u = b)
  <2>1. Resized = Append(updates, b)
    BY <1>3 DEF Resized
  <2>2. Append(updates, a) # Append(updates, b)
    <3>1. updates \in Seq(Updates)
      BY DEF LogCounts
    <3>2. Append(updates, a)[Len(updates) + 1] = a /\ Append(updates, b)[Len(updates) + 1] = b
      BY <1>2, <3>1
    <3>3. a # b
      OBVIOUS
    <3> HIDE DEF a, b
    <3> QED BY <3>2, <3>3
  <2>3. CASE updates' = Append(updates, a)
    BY <2>1, <2>2, <2>3
  <2>4. CASE updates' = Append(updates, b)
    BY <2>4
  <2> QED BY <1>3, <2>1, <2>3, <2>4
<1>5. u \in Updates /\ (u = b => u.sequence = L /\ u.revision = R + 1)
  BY <1>2
<1>6. IF u.kind = "output"
      THEN u.sequence = L + 1 /\ u.revision = R
      ELSE u.sequence = L /\ u.revision = R + 1
  OBVIOUS
<1> HIDE DEF a, b
<1>7. LET W == Append(updates, u) IN
           /\ LogCounts(W)
           /\ Len(W) = Len(updates) + 1
           /\ \A i \in 1..Len(updates) : W[i] = updates[i]
           /\ \A i \in 0..Len(updates) : After(W, i) = After(updates, i)
           /\ After(W, Len(W)) = u
  BY <1>5, <1>6, LogGrows
<1> QED BY <1>3, <1>4, <1>5, <1>7

(* What a longer log leaves of a foretold view.                            *)
LEMMA ForetoldGrows ==
    ASSUME NEW U, LogCounts(U), NEW W, LogCounts(W), Len(W) = Len(U) + 1,
           \A i \in 1..Len(U) : W[i] = U[i],
           \A i \in 0..Len(U) : After(W, i) = After(U, i),
           NEW T, NEW F, NEW t, NEW S \in SUBSET (1..Len(U)), Len(F) \in Nat,
           Foretold(T, U, F, t, S)
    PROVE  Foretold(T, W, F, t, S)
<1>1. Len(T) = Len(F) + 1 /\ T \in Seq(Terminals)
  BY DEF Foretold, Chain
<1>2. \A j \in 1..(Len(F) + 1) : T[j] \in Terminals
  BY <1>1
<1>3. \A j : Left(S, F, j) \in SUBSET (1..Len(U))
  BY DEF Left
<1>4. \A j \in 1..(Len(F) + 1) : Within(T[j], W) /\ Sound(T[j], W, Left(S, F, j - 1))
  BY <1>2, <1>3, HoldsOfLongerLog DEF Foretold
<1> QED BY <1>4 DEF Foretold

(* Output or a resize.                                                     *)
LEMMA LeadsOn ==
    ASSUME NEW U, LogCounts(U), NEW W, LogCounts(W), Len(W) = Len(U) + 1,
           \A i \in 1..Len(U) : W[i] = U[i],
           \A i \in 0..Len(U) : After(W, i) = After(U, i),
           NEW F \in Seq(Frames), NEW t, NEW S \in SUBSET (1..Len(U)),
           NEW c \in 0..Len(U), NEW step, Leads(t, F, U, S, c, step)
    PROVE  Leads(t, F, W, S, c, step)
<1>1. PICK T \in Seq(Terminals) :
        /\ Foretold(T, U, F, t, S)
        /\ AheadIsWhole(T[Len(F) + 1], U, c)
        /\ ReachesSnapshots(T[Len(F) + 1], F, c)
        /\ step \in {"attaching", "live"} =>
             Covers(T[Len(F) + 1], U, Left(S, F, Len(F)), c)
  BY DEF Leads
<1>2. Len(F) \in Nat
  OBVIOUS
<1>3. Foretold(T, W, F, t, S)
  BY <1>1, <1>2, ForetoldGrows
<1>4. Left(S, F, Len(F)) \in SUBSET (1..Len(U))
  BY DEF Left
<1>5. AheadIsWhole(T[Len(F) + 1], W, c)
  BY <1>1, HoldsOfLongerLog
<1>6. step \in {"attaching", "live"} =>
        Covers(T[Len(F) + 1], W, Left(S, F, Len(F)), c)
  BY <1>1, <1>4, HoldsOfLongerLog
<1> QED BY <1>1, <1>3, <1>5, <1>6 DEF Leads

(* With c updates taken, the frame f is the next chunk, or a snapshot of   *)
(* the moment d, by which e updates are taken.                             *)
Follows(f, U, c, d, e, step) ==
    /\ c \in 0..Len(U) /\ d \in c..Len(U) /\ e \in c..d
    /\ \/ /\ step = "live" /\ d = c + 1 /\ e = d /\ U[c + 1].kind = "output"
          /\ f.kind = "output" /\ f.sequence = U[c + 1].sequence
       \/ /\ f.kind = "snapshot" /\ f.sequence = After(U, d).sequence
          /\ f.revision = After(U, d).revision

(* A chunk, or a snapshot.                                                 *)
LEMMA LeadsForward ==
    ASSUME NEW U, LogCounts(U), NEW F \in Seq(Frames), NEW t \in Terminals,
           NEW S \in SUBSET (1..Len(U)), NEW c, NEW step, Leads(t, F, U, S, c, step),
           NEW f \in Frames, NEW d, NEW e, Follows(f, U, c, d, e, step)
    PROVE  FrameFits(f, U) /\ Leads(t, F \o <<f>>, U, S, e, "live")
<1>1. PICK T \in Seq(Terminals) :
        /\ Foretold(T, U, F, t, S)
        /\ AheadIsWhole(T[Len(F) + 1], U, c)
        /\ ReachesSnapshots(T[Len(F) + 1], F, c)
        /\ step \in {"attaching", "live"} =>
             Covers(T[Len(F) + 1], U, Left(S, F, Len(F)), c)
  BY DEF Leads
<1>2. Forwards(T, U, F, S, f, c, d, e)
  <2>1. c \in 0..Len(U) /\ d \in c..Len(U) /\ e \in c..d
    BY DEF Follows
  <2>2. CASE /\ step = "live" /\ d = c + 1 /\ e = d /\ U[c + 1].kind = "output"
             /\ f.kind = "output" /\ f.sequence = U[c + 1].sequence
    BY <1>1, <2>1, <2>2 DEF Forwards
  <2>3. CASE /\ f.kind = "snapshot" /\ f.sequence = After(U, d).sequence
             /\ f.revision = After(U, d).revision
    BY <1>1, <2>1, <2>3 DEF Forwards
  <2> QED BY <2>2, <2>3 DEF Follows
<1> QED BY <1>1, <1>2, OneForwarded

(* Updates for which a snapshot is to follow.                              *)
LEMMA LeadsOvertaken ==
    ASSUME NEW U, LogCounts(U), NEW F \in Seq(Frames), NEW t \in Terminals,
           NEW S, NEW c \in 0..Len(U), NEW step, Leads(t, F, U, S, c, step),
           NEW d \in c..Len(U)
    PROVE  Leads(t, F, U, S, d, "checkpoint")
<1>1. PICK T \in Seq(Terminals) :
        /\ Foretold(T, U, F, t, S)
        /\ AheadIsWhole(T[Len(F) + 1], U, c)
        /\ ReachesSnapshots(T[Len(F) + 1], F, c)
  BY DEF Leads
<1> DEFINE last == T[Len(F) + 1]
<1>2. last \in Terminals
  <2>1. Len(T) = Len(F) + 1 /\ Len(F) \in Nat
    BY <1>1 DEF Foretold, Chain
  <2> QED BY <2>1
<1>3. AheadIsWhole(last, U, d)
  BY <1>1, <1>2, StillAhead
<1>4. ReachesSnapshots(last, F, d)
  <2>1. c \in Nat /\ d \in Nat /\ c <= d
    BY DEF LogCounts
  <2>2. ASSUME NEW k \in 1..Len(F), MakesUp(F[k]), Moment(F[k]) > d
        PROVE  Moment(F[k]) > c
    <3>1. F[k] \in Frames
      OBVIOUS
    <3>2. F[k].sequence \in Nat /\ F[k].revision \in Nat
      BY <3>1 DEF Frames
    <3>3. Moment(F[k]) \in Nat
      BY <3>2 DEF Moment
    <3> QED BY <2>1, <2>2, <3>3
  <2> QED BY <1>1, <2>2 DEF ReachesSnapshots
<1> QED BY <1>1, <1>3, <1>4 DEF Leads

(* An update that is dropped silently.                                     *)
LEMMA LeadsDrop ==
    ASSUME NEW U, LogCounts(U), NEW F \in Seq(Frames), NEW t \in Terminals,
           \A j \in 1..Len(F) : FrameFits(F[j], U),
           NEW S \in SUBSET (1..Len(U)), NEW c \in 0..(Len(U) - 1),
           Leads(t, F, U, S, c, "live")
    PROVE  Leads(t, F, U, S \cup {c + 1}, c + 1, "live")
<1>1. PICK T \in Seq(Terminals) :
        /\ Foretold(T, U, F, t, S)
        /\ AheadIsWhole(T[Len(F) + 1], U, c)
        /\ ReachesSnapshots(T[Len(F) + 1], F, c)
        /\ Covers(T[Len(F) + 1], U, Left(S, F, Len(F)), c)
  BY DEF Leads
<1> DEFINE last == T[Len(F) + 1]
           R == S \cup {c + 1}
<1>2. last \in Terminals
  <2>1. Len(T) = Len(F) + 1 /\ Len(F) \in Nat
    BY <1>1 DEF Foretold, Chain
  <2> QED BY <2>1
<1>3. /\ c \in Nat /\ c \in 0..Len(U) /\ c + 1 \in c..Len(U) /\ Len(U) \in Nat
      /\ c + 1 \in Nat /\ c <= c + 1
  BY DEF LogCounts
<1>4. Foretold(T, U, F, t, R)
  BY <1>1, ForetoldMoreSilent
<1>5. AheadIsWhole(last, U, c + 1)
  BY <1>1, <1>2, <1>3, StillAhead
<1>6. Covers(last, U, Left(R, F, Len(F)), c + 1)
  BY <1>1, <1>2, DropExplained
<1>7. ReachesSnapshots(last, F, c + 1)
  <2>2. ASSUME NEW k \in 1..Len(F), MakesUp(F[k]), Moment(F[k]) > c + 1
        PROVE  Moment(F[k]) > c
    <3>1. F[k] \in Frames
      OBVIOUS
    <3>2. F[k].sequence \in Nat /\ F[k].revision \in Nat
      BY <3>1 DEF Frames
    <3>3. Moment(F[k]) \in Nat
      BY <3>2 DEF Moment
    <3> QED BY <1>3, <2>2, <3>3
  <2> QED BY <1>1, <2>2 DEF ReachesSnapshots
<1> HIDE DEF last, R
<1>8. Leads(t, F, U, R, c + 1, "live")
  BY <1>1, <1>4, <1>5, <1>6, <1>7 DEF Leads, last
<1> QED BY <1>8 DEF R

(* The client draws the first frame.                                       *)
LEMMA LeadsTail ==
    ASSUME NEW U, NEW F \in Seq(Frames), NEW t, NEW S, NEW c, NEW step,
           Leads(t, F, U, S, c, step), NEW f, NEW G, NEW R, Reads(F, S, f, G, R)
    PROVE  Leads(Shows(t, f), G, U, R, c, step)
<1>1. PICK T \in Seq(Terminals) :
        /\ Foretold(T, U, F, t, S)
        /\ AheadIsWhole(T[Len(F) + 1], U, c)
        /\ ReachesSnapshots(T[Len(F) + 1], F, c)
        /\ step \in {"attaching", "live"} =>
             Covers(T[Len(F) + 1], U, Left(S, F, Len(F)), c)
  BY DEF Leads
<1>2. PICK P \in Seq(Terminals) :
        /\ Foretold(P, U, G, Shows(t, f), R)
        /\ P[Len(G) + 1] = T[Len(F) + 1]
        /\ Left(R, G, Len(G)) = Left(S, F, Len(F))
  BY <1>1, ForetoldTail
<1>3. ReachesSnapshots(P[Len(G) + 1], G, c)
  <2>1. F # <<>> /\ G = Tail(F)
    BY DEF Reads
  <2>2. \A k \in 1..Len(G) : k + 1 \in 1..Len(F) /\ G[k] = F[k + 1]
    BY <2>1
  <2> QED BY <1>1, <1>2, <2>2 DEF ReachesSnapshots
<1> QED BY <1>1, <1>2, <1>3 DEF Leads

----------------------------------------------------------------------------
(* The steps.                                                              *)

(* Before the first attachment there is nothing on the way.                *)
LEMMA StreamStarts == StreamInit => StreamInv
<1> SUFFICES ASSUME StreamInit PROVE StreamInv
  OBVIOUS
<1> USE DEF StreamInit
<1>1. terminal \in Terminals
  BY DEF NoTerminal, Terminals
<1>2. OnTheWay = <<>> /\ Len(OnTheWay) = 0
  BY DEF OnTheWay, NoForwarder
<1>3. LogCounts(updates)
  BY DEF LogCounts, After
<1>4. StreamTypeOK
  BY <1>1 DEF StreamTypeOK, NoForwarder, NoReply
<1>5. FramesFit
  BY <1>2 DEF FramesFit
<1>6. forwarder.step = "none"
  BY DEF NoForwarder
<1> QED BY <1>3, <1>4, <1>5, <1>6 DEF StreamInv

(* What the invariant says of the state, part by part.                     *)
LEMMA StreamFacts ==
    ASSUME StreamInv
    PROVE  /\ LogCounts(updates) /\ Len(updates) \in Nat
           /\ cursor \in 0..Len(updates) /\ cursor \in Nat
           /\ forwarder.frames \in Seq(Frames) /\ queue \in Seq(Frames)
           /\ inbox \in Seq(Frames) /\ NoReply(inbox)
           /\ OnTheWay \in Seq(Frames) /\ Len(OnTheWay) \in Nat
           /\ \A j \in 1..Len(OnTheWay) : FrameFits(OnTheWay[j], updates)
           /\ terminal \in Terminals
           /\ silent \in SUBSET (1..Len(updates))
<1>1. /\ LogCounts(updates) /\ Len(updates) \in Nat
      /\ cursor \in 0..Len(updates) /\ cursor \in Nat
      /\ forwarder.frames \in Seq(Frames) /\ queue \in Seq(Frames)
      /\ inbox \in Seq(Frames) /\ NoReply(inbox)
      /\ \A j \in 1..Len(OnTheWay) : FrameFits(OnTheWay[j], updates)
      /\ terminal \in Terminals
      /\ silent \in SUBSET (1..Len(updates))
  BY DEF StreamInv, StreamTypeOK, LogCounts, FramesFit
<1>2. OnTheWay \in Seq(Frames) /\ Len(OnTheWay) \in Nat
  <2>1. queue \o forwarder.frames \in Seq(Frames)
    BY <1>1
  <2> QED BY <1>1, <2>1 DEF OnTheWay
<1> QED BY <1>1, <1>2

(* Frames after frames after frames.                                       *)
LEMMA FramesJoined ==
    ASSUME NEW A \in Seq(Frames), NEW B \in Seq(Frames), NEW C \in Seq(Frames)
    PROVE  A \o B \in Seq(Frames) /\ (A \o B) \o C = A \o (B \o C)
<1>1. (A \o B) \o C = A \o (B \o C)
  BY ConcatAssociative
<1> QED BY <1>1

(* The reply, if it is still to come.                                      *)
LEMMA ReplyPart ==
    ASSUME NEW b \in Bases, NEW R \in {<<>>, <<ReplyOf(b)>>}
    PROVE  R \in Seq(Frames) /\ ReplyOf(b) \in Frames
<1> DEFINE f == ReplyOf(b)
<1>1. b.last \in Nat /\ b.revision \in Nat /\ b.restored \in BOOLEAN
  BY DEF Bases
<1>2. f \in Frames
  BY <1>1 DEF ReplyOf, Frames
<1> HIDE DEF f
<1>3. <<f>> \in Seq(Frames) /\ <<>> \in Seq(Frames)
  BY <1>2
<1>4. R = <<>> \/ R = <<f>>
  BY DEF f
<1>5. R \in Seq(Frames)
  BY <1>3, <1>4
<1> QED BY <1>2, <1>5 DEF f

(* The frames of the forwarder fit the log when all on the way do.         *)
LEMMA PartFits ==
    ASSUME NEW way, NEW E, NEW R, NEW F, NEW V, NEW b, Parted(way, E, R, F, V, b),
           NEW U, \A j \in 1..Len(way) : FrameFits(way[j], U)
    PROVE  \A j \in 1..Len(F) : FrameFits(F[j], U)
<1>1. /\ E \in Seq(Frames) /\ F \in Seq(Frames) /\ R \in Seq(Frames)
      /\ way = E \o (R \o F)
  BY ReplyPart DEF Parted
<1> TAKE j \in 1..Len(F)
<1> DEFINE H == R \o F
<1>2. /\ H \in Seq(Frames) /\ Len(R) \in Nat /\ Len(R) + j \in 1..Len(H)
      /\ H[Len(R) + j] = F[j]
  BY <1>1
<1>3. way = E \o H
  BY <1>1
<1> HIDE DEF H
<1>4. /\ Len(E) + (Len(R) + j) \in 1..Len(way)
      /\ way[Len(E) + (Len(R) + j)] = H[Len(R) + j]
  BY <1>1, <1>2, <1>3
<1> QED BY <1>2, <1>4

(* What is on its way may get longer by Y, and updates may be taken or     *)
(* dropped, if the frames of the forwarder and then Y still lead on.       *)
LEMMA Moves ==
    ASSUME StreamInv, StreamTypeOK', LogCounts(updates'), FramesFit',
           forwarder'.step # "none" => forwarder.step # "none",
           NEW Y \in Seq(Frames), NoReply(Y), OnTheWay' = OnTheWay \o Y,
           terminal' = terminal, torn' = torn, cursor <= cursor',
           \A i \in silent' : i \in silent \/ i > cursor,
           \A F \in Seq(Frames), t \in Terminals :
             /\ \A j \in 1..Len(F) : FrameFits(F[j], updates)
             /\ Leads(t, F, updates, silent, cursor, forwarder.step)
             => Leads(t, F \o Y, updates', silent', cursor', forwarder'.step)
    PROVE  StreamInv'
<1> SUFFICES ASSUME forwarder'.step # "none"
             PROVE  \E E, R, F, V, b : Foreseen(E, R, F, V, b)'
  BY DEF StreamInv
<1>1. PICK E, R, F, V, b : Foreseen(E, R, F, V, b)
  BY DEF StreamInv
<1>2. /\ Parted(OnTheWay, E, R, F, V, b)
      /\ \A t \in V : Leads(t, F, updates, silent, cursor, forwarder.step)
      /\ Awaits(E, R, V, b, terminal, silent, torn, cursor)
  BY <1>1 DEF Foreseen
<1>3. /\ E \in Seq(Frames) /\ F \in Seq(Frames) /\ b \in Bases
      /\ R \in {<<>>, <<ReplyOf(b)>>} /\ OnTheWay = E \o (R \o F)
      /\ NoReply(F) /\ V \subseteq Terminals
  BY <1>2 DEF Parted
<1>4. R \in Seq(Frames)
  BY <1>3, ReplyPart
<1> DEFINE G == F \o Y
<1>5. G \in Seq(Frames)
  BY <1>3
<1>6. NoReply(G)
  <2>1. \A k \in 1..Len(G) :
          \/ k \in 1..Len(F) /\ G[k] = F[k]
          \/ k - Len(F) \in 1..Len(Y) /\ G[k] = Y[k - Len(F)]
    BY <1>3
  <2> HIDE DEF G
  <2> QED BY <1>3, <2>1 DEF NoReply
<1>7. OnTheWay' = E \o (R \o G)
  <2>1. R \o F \in Seq(Frames)
    BY <1>3, <1>4
  <2>2. (E \o (R \o F)) \o Y = E \o ((R \o F) \o Y)
    <3> DEFINE B == R \o F
    <3>1. E \in Seq(Frames) /\ B \in Seq(Frames)
      BY <1>3, <2>1
    <3> HIDE DEF B
    <3>2. (E \o B) \o Y = E \o (B \o Y)
      BY <3>1, FramesJoined
    <3> QED BY <3>2 DEF B
  <2>3. (R \o F) \o Y = R \o (F \o Y)
    BY <1>3, <1>4, FramesJoined
  <2> QED BY <1>3, <2>2, <2>3
<1>8. \A t \in V : Leads(t, G, updates', silent', cursor', forwarder'.step)
  <2>1. \A j \in 1..Len(F) : FrameFits(F[j], updates)
    BY <1>2, PartFits, StreamFacts
  <2> QED BY <1>2, <1>3, <2>1
<1>9. Awaits(E, R, V, b, terminal, silent', torn, cursor')
  <2>1. Stale(E, b, silent, torn, cursor) => Stale(E, b, silent', torn, cursor')
    <3> SUFFICES ASSUME Stale(E, b, silent, torn, cursor)
                 PROVE  /\ b.last + b.revision <= cursor'
                        /\ \A i \in silent' : i > b.last + b.revision
      BY DEF Stale
    <3>1. /\ b.last + b.revision \in Nat /\ cursor \in Nat /\ cursor' \in Nat
          /\ silent' \subseteq Nat
      <4>1. b.last \in Nat /\ b.revision \in Nat
        BY <1>3 DEF Bases
      <4>2. Len(updates') \in Nat
        BY DEF LogCounts
      <4>3. cursor' \in 0..Len(updates') /\ silent' \subseteq 1..Len(updates')
        BY DEF StreamTypeOK
      <4>4. cursor \in Nat
        BY StreamFacts
      <4> QED BY <4>1, <4>2, <4>3, <4>4
    <3>2. b.last + b.revision <= cursor /\ \A i \in silent : i > b.last + b.revision
      BY DEF Stale
    <3> QED BY <3>1, <3>2
  <2> QED BY <1>2, <2>1 DEF Awaits
<1> HIDE DEF G
<1>10. Parted(OnTheWay', E, R, G, V, b)
  BY <1>3, <1>5, <1>6, <1>7 DEF Parted
<1>11. Foreseen(E, R, G, V, b)'
  BY <1>8, <1>9, <1>10 DEF Foreseen
<1> QED BY <1>11

(* Nothing more is on its way.                                             *)
LEMMA MovesNothing ==
    ASSUME StreamInv, StreamTypeOK', LogCounts(updates'), FramesFit',
           forwarder'.step # "none" => forwarder.step # "none",
           OnTheWay' = OnTheWay,
           terminal' = terminal, torn' = torn, cursor <= cursor',
           \A i \in silent' : i \in silent \/ i > cursor,
           \A F \in Seq(Frames), t \in Terminals :
             /\ \A j \in 1..Len(F) : FrameFits(F[j], updates)
             /\ Leads(t, F, updates, silent, cursor, forwarder.step)
             => Leads(t, F, updates', silent', cursor', forwarder'.step)
    PROVE  StreamInv'
<1> DEFINE Y == <<>>
<1>1. Y \in Seq(Frames) /\ NoReply(Y)
  BY DEF NoReply
<1>2. \A F \in Seq(Frames) : F \o Y = F
  OBVIOUS
<1>3. OnTheWay' = OnTheWay \o Y
  BY <1>2, StreamFacts
<1>4. \A F \in Seq(Frames), t \in Terminals :
        /\ \A j \in 1..Len(F) : FrameFits(F[j], updates)
        /\ Leads(t, F, updates, silent, cursor, forwarder.step)
        => Leads(t, F \o Y, updates', silent', cursor', forwarder'.step)
  BY <1>2
<1> HIDE DEF Y
<1> QED BY <1>1, <1>3, <1>4, Moves

(* Output or a resize, as a step of the invariant.                         *)
LEMMA LogStep ==
    ASSUME StreamInv, Output \/ ResizeTerminal
    PROVE  StreamInv'
<1>1. /\ LogCounts(updates') /\ Len(updates') = Len(updates) + 1
      /\ \A i \in 1..Len(updates) : updates'[i] = updates[i]
      /\ \A i \in 0..Len(updates) : After(updates', i) = After(updates, i)
  BY StreamFacts, LogContinues DEF Output, ResizeTerminal
<1>2. UNCHANGED <<cursor, forwarder, queue, inbox, terminal, silent, torn>>
  BY DEF Output, ResizeTerminal, historyVars
<1>3. OnTheWay' = OnTheWay
  BY <1>2 DEF OnTheWay
<1>4. Len(updates) \in Nat /\ Len(OnTheWay) \in Nat /\ LogCounts(updates)
      /\ silent \in SUBSET (1..Len(updates)) /\ cursor \in 0..Len(updates)
      /\ cursor \in Nat
  BY StreamFacts
<1>5. 0..Len(updates) \subseteq 0..Len(updates') /\ 1..Len(updates) \subseteq 1..Len(updates')
  BY <1>1, <1>4
<1>6. StreamTypeOK'
  BY <1>2, <1>4, <1>5 DEF StreamTypeOK, StreamInv
<1>7. FramesFit'
  <2>1. \A f : FrameFits(f, updates) => FrameFits(f, updates')
    BY <1>1, <1>4, HoldsOfLongerLog
  <2> QED BY <1>3, <2>1 DEF StreamInv, FramesFit
<1>8. \A F \in Seq(Frames), t \in Terminals :
        Leads(t, F, updates, silent, cursor, forwarder.step)
        => Leads(t, F, updates', silent, cursor, forwarder.step)
  BY <1>1, <1>4, LeadsOn
<1> QED BY <1>1, <1>2, <1>3, <1>4, <1>6, <1>7, <1>8, MovesNothing

(* The forwarder ends, with the frames it held, and possibly the queues.   *)
LEMMA ForwarderEnds ==
    ASSUME StreamInv, forwarder' = NoForwarder,
           \/ UNCHANGED <<inbox, queue>>
           \/ inbox' = <<>> /\ queue' = <<>>,
           UNCHANGED <<updates, terminal, silent, cursor>>
    PROVE  StreamInv'
<1>1. /\ inbox \in Seq(Frames) /\ queue \in Seq(Frames) /\ forwarder.frames \in Seq(Frames)
      /\ NoReply(inbox) /\ \A j \in 1..Len(OnTheWay) : FrameFits(OnTheWay[j], updates)
  BY StreamFacts
<1>2. /\ inbox' \in Seq(Frames) /\ queue' \in Seq(Frames) /\ NoReply(inbox')
  <2>1. <<>> \in Seq(Frames) /\ NoReply(<<>>)
    BY DEF NoReply
  <2> QED BY <1>1, <2>1
<1>3. OnTheWay' = inbox' \o queue'
  <2>1. queue' \o <<>> = queue'
    BY <1>2
  <2> QED BY <2>1 DEF OnTheWay, NoForwarder
<1>4. \A j \in 1..Len(OnTheWay') : FrameFits(OnTheWay'[j], updates)
  <2>1. CASE UNCHANGED <<inbox, queue>>
    <3> DEFINE X == inbox \o queue
    <3>1. X \in Seq(Frames) /\ OnTheWay = X \o forwarder.frames
      BY <1>1, FramesJoined DEF OnTheWay
    <3>2. OnTheWay' = X
      BY <1>3, <2>1
    <3> HIDE DEF X
    <3>3. \A j \in 1..Len(X) : j \in 1..Len(OnTheWay) /\ OnTheWay[j] = X[j]
      BY <1>1, <3>1
    <3> QED BY <1>1, <3>2, <3>3
  <2>2. CASE inbox' = <<>> /\ queue' = <<>>
    <3>1. Len(OnTheWay') = 0
      BY <1>3, <2>2
    <3> QED BY <3>1
  <2> QED BY <2>1, <2>2
<1>5. FramesFit'
  BY <1>4 DEF FramesFit
<1>6. StreamTypeOK'
  BY <1>2 DEF StreamInv, StreamTypeOK, NoForwarder
<1>7. forwarder'.step = "none"
  BY DEF NoForwarder
<1>8. LogCounts(updates)'
  BY DEF StreamInv
<1> QED BY <1>5, <1>6, <1>7, <1>8 DEF StreamInv

(* DetachSession.                                                          *)
LEMMA DetachStep == ASSUME StreamInv, Detach PROVE StreamInv'
BY ForwarderEnds DEF Detach, historyVars

(* The write deadline of an attach or of a forwarder passes.               *)
LEMMA TimeoutStep ==
    ASSUME StreamInv, NEW closed \in BOOLEAN, WriteTimesOut(closed) PROVE StreamInv'
BY ForwarderEnds DEF WriteTimesOut, historyVars

(* The first frame of some, and the others.                                *)
LEMMA FirstFrame ==
    ASSUME NEW Q \in Seq(Frames), Q # <<>>
    PROVE  /\ Head(Q) \in Frames /\ Tail(Q) \in Seq(Frames)
           /\ Q = <<Head(Q)>> \o Tail(Q) /\ <<Head(Q)>> \in Seq(Frames)
           /\ Len(Q) \in Nat \ {0} /\ Len(Tail(Q)) = Len(Q) - 1
           /\ Len(Q) = 1 => Tail(Q) = <<>>
<1>1. /\ Head(Q) \in Frames /\ Tail(Q) \in Seq(Frames) /\ Len(Q) \in Nat \ {0}
      /\ Len(Tail(Q)) = Len(Q) - 1 /\ <<Head(Q)>> \in Seq(Frames)
  OBVIOUS
<1>2. Q = <<Head(Q)>> \o Tail(Q)
  OBVIOUS
<1>3. Len(Q) = 1 => Tail(Q) = <<>>
  <2> DEFINE r == Tail(Q)
  <2>1. r \in Seq(Frames) /\ (Len(Q) = 1 => Len(r) = 0)
    BY <1>1
  <2> HIDE DEF r
  <2>2. Len(Q) = 1 => r = <<>>
    BY <2>1, EmptySeq
  <2> QED BY <2>2 DEF r
<1> QED BY <1>1, <1>2, <1>3

(* A frame of an attach, or a checkpoint, enters the queue.                *)
LEMMA SendFrameStep == ASSUME StreamInv, SendFrame PROVE StreamInv'
<1> USE DEF SendFrame
<1> DEFINE h == Head(forwarder.frames)
           G == Tail(forwarder.frames)
<1>1. /\ forwarder.frames \in Seq(Frames) /\ queue \in Seq(Frames)
      /\ forwarder.frames # <<>> /\ cursor \in Nat
  BY StreamFacts
<1>2. /\ h \in Frames /\ G \in Seq(Frames) /\ <<h>> \in Seq(Frames)
      /\ forwarder.frames = <<h>> \o G
      /\ Len(forwarder.frames) = 1 => G = <<>>
  BY <1>1, FirstFrame
<1>3. queue' = queue \o <<h>> /\ queue' \in Seq(Frames)
  BY <1>1, <1>2
<1>4. forwarder.step \in {"attaching", "live"}
  BY <1>1 DEF StreamInv, StreamTypeOK
<1>5. /\ forwarder'.frames = G
      /\ forwarder'.step \in {"attaching", "live"}
      /\ forwarder' \in [step : {"none", "attaching", "live", "checkpoint"},
                         frames : Seq(Frames), resyncPending : BOOLEAN]
  BY <1>2, <1>4 DEF StreamInv, StreamTypeOK
<1>6. UNCHANGED <<updates, cursor, inbox, terminal, silent, torn>>
  BY DEF historyVars
<1> HIDE DEF h, G, SendFrame
<1>7. OnTheWay' = OnTheWay
  <2>1. (queue \o <<h>>) \o G = queue \o (<<h>> \o G)
    BY <1>1, <1>2, FramesJoined
  <2> QED BY <1>2, <1>3, <1>5, <1>6, <2>1 DEF OnTheWay
<1>8. StreamTypeOK'
  BY <1>3, <1>4, <1>5, <1>6 DEF StreamInv, StreamTypeOK
<1>9. FramesFit' /\ LogCounts(updates')
  BY <1>6, <1>7 DEF StreamInv, FramesFit
<1>10. \A F \in Seq(Frames), t \in Terminals :
         Leads(t, F, updates, silent, cursor, forwarder.step)
         => Leads(t, F, updates, silent, cursor, forwarder'.step)
  BY <1>4, <1>5 DEF Leads
<1> QED BY <1>1, <1>4, <1>6, <1>7, <1>8, <1>9, <1>10, MovesNothing

(* A frame that follows fits the log.                                      *)
LEMMA FollowsFits ==
    ASSUME NEW U, LogCounts(U), NEW f \in Frames, NEW c, NEW d, NEW e, NEW step,
           Follows(f, U, c, d, e, step)
    PROVE  FrameFits(f, U)
<1>1. Len(U) \in Nat /\ Len(U) \in 0..Len(U) /\ d \in 0..Len(U)
  <2>1. Len(U) \in Nat
    BY DEF LogCounts
  <2>2. c \in 0..Len(U) /\ d \in c..Len(U)
    BY DEF Follows
  <2> QED BY <2>1, <2>2
<1>2. /\ After(U, d).sequence <= After(U, Len(U)).sequence
      /\ After(U, d).sequence + After(U, d).revision = d
  <2>1. d <= Len(U)
    BY <1>1
  <2> QED BY <1>1, <2>1 DEF LogCounts
<1>3. CASE f.kind = "output" /\ d = c + 1 /\ f.sequence = U[c + 1].sequence
  <2>1. c + 1 # 0
    BY <1>1 DEF Follows
  <2>2. After(U, d) = U[c + 1]
    BY <1>3, <2>1 DEF After
  <2> QED BY <1>2, <1>3, <2>2 DEF FrameFits
<1>4. CASE /\ f.kind = "snapshot" /\ f.sequence = After(U, d).sequence
           /\ f.revision = After(U, d).revision
  <2>1. Moment(f) = d
    BY <1>2, <1>4 DEF Moment
  <2> QED BY <1>1, <1>2, <1>4, <2>1 DEF FrameFits
<1> QED BY <1>3, <1>4 DEF Follows

(* A frame is forwarded: the next chunk, or a snapshot.                    *)
LEMMA ForwardStep ==
    ASSUME StreamInv, StreamTypeOK', NEW f \in Frames, NEW d,
           f.kind # "attached", Follows(f, updates, cursor, d, cursor', forwarder.step),
           forwarder.step # "none", forwarder'.step = "live",
           OnTheWay' = OnTheWay \o <<f>>, UNCHANGED <<updates, terminal, silent, torn>>
    PROVE  StreamInv'
<1> DEFINE Y == <<f>>
<1>1. /\ LogCounts(updates) /\ OnTheWay \in Seq(Frames)
      /\ \A j \in 1..Len(OnTheWay) : FrameFits(OnTheWay[j], updates)
      /\ silent \in SUBSET (1..Len(updates)) /\ Len(updates) \in Nat
  BY StreamFacts
<1>2. Y \in Seq(Frames) /\ NoReply(Y)
  BY DEF NoReply
<1>3. FramesFit'
  <2>1. FrameFits(f, updates)
    BY <1>1, FollowsFits
  <2>2. \A j \in 1..Len(OnTheWay \o Y) :
          \/ j \in 1..Len(OnTheWay) /\ (OnTheWay \o Y)[j] = OnTheWay[j]
          \/ (OnTheWay \o Y)[j] = f
    BY <1>1
  <2> QED BY <1>1, <2>1, <2>2 DEF FramesFit
<1>4. cursor <= cursor'
  BY <1>1 DEF Follows
<1>5. \A F \in Seq(Frames), t \in Terminals :
        Leads(t, F, updates, silent, cursor, forwarder.step)
        => Leads(t, F \o Y, updates, silent, cursor', "live")
  BY <1>1, LeadsForward
<1> HIDE DEF Y
<1>6. OnTheWay' = OnTheWay \o Y
  BY DEF Y
<1> QED BY <1>1, <1>2, <1>3, <1>4, <1>5, <1>6, Moves

(* The next update fits the queue.                                         *)
LEMMA ForwardUpdateStep == ASSUME StreamInv, ForwardUpdate PROVE StreamInv'
<1> USE DEF ForwardUpdate
<1> DEFINE u == updates[cursor + 1]
           f == IF u.kind = "output" THEN OutputFrame(u.sequence)
                ELSE [u EXCEPT !.kind = "snapshot"]
<1>1. /\ LogCounts(updates) /\ Len(updates) \in Nat /\ cursor \in Nat
      /\ cursor \in 0..Len(updates) /\ cursor + 1 \in 1..Len(updates)
      /\ cursor + 1 \in cursor..Len(updates) /\ cursor + 1 \in cursor..(cursor + 1)
      /\ cursor + 1 \in 0..Len(updates) /\ cursor' = cursor + 1
  BY StreamFacts DEF Receives
<1>2. u \in Updates
  BY <1>1 DEF LogCounts
<1>3. /\ f \in Frames /\ f.sequence = u.sequence
      /\ u.kind = "output" => f.kind = "output"
      /\ u.kind # "output" => f.kind = "snapshot" /\ f.revision = u.revision
  BY <1>2 DEF Updates, Frames, OutputFrame
<1>4. /\ forwarder.step = "live" /\ forwarder'.step = "live"
      /\ forwarder'.frames = <<>> /\ forwarder.frames = <<>>
      /\ forwarder' \in [step : {"none", "attaching", "live", "checkpoint"},
                         frames : Seq(Frames), resyncPending : BOOLEAN]
  BY DEF Receives, StreamInv, StreamTypeOK
<1>5. UNCHANGED <<updates, inbox, terminal, silent, torn>> /\ queue' = Append(queue, f)
  BY DEF historyVars
<1>6. inbox \in Seq(Frames) /\ queue \in Seq(Frames) /\ OnTheWay \in Seq(Frames)
  BY StreamFacts
<1>7. After(updates, cursor + 1) = u
  BY <1>1 DEF After
<1> HIDE DEF ForwardUpdate, f
<1>8. f.kind # "attached" /\ Follows(f, updates, cursor, cursor + 1, cursor + 1, "live")
  BY <1>1, <1>3, <1>7 DEF Follows
<1>9. OnTheWay' = OnTheWay \o <<f>> /\ queue' \in Seq(Frames)
  <2>1. queue' = queue \o <<f>> /\ queue' \in Seq(Frames) /\ <<f>> \in Seq(Frames)
    BY <1>3, <1>5, <1>6, AppendIsConcat
  <2>2. queue \o <<>> = queue /\ queue' \o <<>> = queue'
    BY <1>6, <2>1
  <2>3. OnTheWay = inbox \o queue /\ OnTheWay' = inbox \o (queue \o <<f>>)
    BY <1>4, <1>5, <2>1, <2>2 DEF OnTheWay
  <2>4. (inbox \o queue) \o <<f>> = inbox \o (queue \o <<f>>)
    BY <1>6, <2>1, FramesJoined
  <2> QED BY <2>1, <2>3, <2>4
<1>10. StreamTypeOK'
  BY <1>1, <1>4, <1>5, <1>9 DEF StreamInv, StreamTypeOK
<1> QED BY <1>1, <1>3, <1>4, <1>5, <1>8, <1>9, <1>10, ForwardStep

(* A snapshot of the terminal as it is by now goes out.                    *)
LEMMA CheckpointStep == ASSUME StreamInv, Checkpoint PROVE StreamInv'
<1> USE DEF Checkpoint
<1> DEFINE f == SnapshotFrame
<1>1. /\ LogCounts(updates) /\ Len(updates) \in Nat /\ cursor \in 0..Len(updates)
      /\ Len(updates) \in cursor..Len(updates) /\ Len(updates) \in 0..Len(updates)
      /\ cursor \in cursor..Len(updates) /\ cursor' = cursor
      /\ inbox \in Seq(Frames) /\ queue \in Seq(Frames)
      /\ forwarder.frames = <<>> /\ forwarder.step # "none"
  BY StreamFacts DEF StreamInv, StreamTypeOK
<1>2. /\ f.sequence = After(updates, Len(updates)).sequence
      /\ f.revision = After(updates, Len(updates)).revision
      /\ f.kind = "snapshot" /\ f.kind # "attached"
  BY Counters DEF SnapshotFrame
<1>3. f \in Frames
  <2>1. After(updates, Len(updates)).sequence \in Nat /\ After(updates, Len(updates)).revision \in Nat
    BY <1>1 DEF LogCounts
  <2> QED BY <2>1, Counters DEF SnapshotFrame, Frames
<1> HIDE DEF f
<1>4. /\ forwarder'.step = "live" /\ forwarder'.frames = <<f>>
      /\ <<f>> \in Seq(Frames)
      /\ forwarder' \in [step : {"none", "attaching", "live", "checkpoint"},
                         frames : Seq(Frames), resyncPending : BOOLEAN]
  <2>1. <<f>> \in Seq(Frames)
    BY <1>3
  <2>2. forwarder' = [forwarder EXCEPT !.step = "live", !.frames = <<f>>]
    BY DEF f
  <2> QED BY <2>1, <2>2 DEF StreamInv, StreamTypeOK
<1>5. UNCHANGED <<updates, inbox, queue, terminal, silent, torn>>
  BY DEF historyVars
<1> HIDE DEF Checkpoint
<1>6. OnTheWay' = OnTheWay \o <<f>>
  <2>1. queue \o <<>> = queue
    BY <1>1
  <2>2. OnTheWay = inbox \o queue /\ OnTheWay' = inbox \o (queue \o <<f>>)
    BY <1>1, <1>4, <1>5, <2>1 DEF OnTheWay
  <2> QED BY <1>1, <1>4, <2>2, FramesJoined
<1>7. Follows(f, updates, cursor, Len(updates), cursor', forwarder.step)
  BY <1>1, <1>2 DEF Follows
<1>8. StreamTypeOK'
  BY <1>1, <1>4, <1>5 DEF StreamInv, StreamTypeOK
<1> QED BY <1>1, <1>2, <1>3, <1>4, <1>5, <1>6, <1>7, <1>8, ForwardStep

(* Further updates are taken while a snapshot is to follow, or for lag.    *)
LEMMA OvertakenStep ==
    ASSUME StreamInv, cursor' \in cursor..Len(updates), forwarder.step = "live",
           forwarder.frames = <<>>, forwarder'.step = "checkpoint",
           forwarder'.frames = <<>>,
           forwarder' \in [step : {"none", "attaching", "live", "checkpoint"},
                           frames : Seq(Frames), resyncPending : BOOLEAN],
           UNCHANGED <<updates, inbox, queue, terminal, silent, torn>>
    PROVE  StreamInv'
<1>1. /\ LogCounts(updates) /\ Len(updates) \in Nat /\ cursor \in 0..Len(updates)
      /\ cursor' \in 0..Len(updates) /\ OnTheWay' = OnTheWay
      /\ cursor <= cursor' /\ silent \in SUBSET (1..Len(updates))
  BY StreamFacts DEF OnTheWay
<1>2. FramesFit' /\ LogCounts(updates')
  BY <1>1 DEF StreamInv, FramesFit
<1>3. StreamTypeOK'
  BY <1>1 DEF StreamInv, StreamTypeOK
<1>4. \A F \in Seq(Frames), t \in Terminals :
        Leads(t, F, updates, silent, cursor, forwarder.step)
        => Leads(t, F, updates, silent, cursor', "checkpoint")
  BY <1>1, LeadsOvertaken
<1> QED BY <1>1, <1>2, <1>3, <1>4, MovesNothing

(* The first update that does not fit.                                     *)
LEMMA DropAndResyncStep == ASSUME StreamInv, DropAndResync PROVE StreamInv'
<1>1. cursor' \in cursor..Len(updates)
  BY StreamFacts DEF DropAndResync, Receives
<1>2. /\ forwarder' = [forwarder EXCEPT !.resyncPending = TRUE, !.step = "checkpoint"]
      /\ forwarder.step = "live" /\ forwarder.frames = <<>>
      /\ UNCHANGED <<updates, inbox, queue, terminal, silent, torn>>
  BY DEF DropAndResync, Receives, historyVars
<1>3. /\ forwarder'.step = "checkpoint" /\ forwarder'.frames = <<>>
      /\ forwarder' \in [step : {"none", "attaching", "live", "checkpoint"},
                           frames : Seq(Frames), resyncPending : BOOLEAN]
  BY <1>2 DEF StreamInv, StreamTypeOK
<1> QED BY <1>1, <1>2, <1>3, OvertakenStep

(* The broadcast overtook the forwarder.                                   *)
LEMMA LagStep == ASSUME StreamInv, Lag PROVE StreamInv'
<1>1. cursor' \in cursor..Len(updates)
  BY StreamFacts, StreamAssumption DEF Lag, Lagged
<1>2. /\ forwarder' = [forwarder EXCEPT !.step = "checkpoint"]
      /\ forwarder.step = "live" /\ forwarder.frames = <<>>
      /\ UNCHANGED <<updates, inbox, queue, terminal, silent, torn>>
  BY DEF Lag, Receives, historyVars
<1>3. /\ forwarder'.step = "checkpoint" /\ forwarder'.frames = <<>>
      /\ forwarder' \in [step : {"none", "attaching", "live", "checkpoint"},
                           frames : Seq(Frames), resyncPending : BOOLEAN]
  BY <1>2 DEF StreamInv, StreamTypeOK
<1> QED BY <1>1, <1>2, <1>3, OvertakenStep

(* A further update that does not fit, while a snapshot is to follow.      *)
LEMMA DropSilentlyStep == ASSUME StreamInv, DropSilently PROVE StreamInv'
<1>1. /\ cursor' = cursor + 1 /\ silent' = silent \cup {cursor + 1}
      /\ forwarder.step = "live" /\ cursor < Len(updates)
      /\ UNCHANGED <<updates, forwarder, inbox, queue, terminal, torn>>
  BY DEF DropSilently, Receives
<1>2. /\ LogCounts(updates) /\ Len(updates) \in Nat /\ cursor \in Nat
      /\ cursor \in 0..(Len(updates) - 1) /\ cursor + 1 \in 1..Len(updates)
      /\ cursor + 1 \in 0..Len(updates) /\ silent \in SUBSET (1..Len(updates))
  BY <1>1, StreamFacts
<1>3. OnTheWay' = OnTheWay
  BY <1>1 DEF OnTheWay
<1>4. FramesFit' /\ LogCounts(updates')
  BY <1>1, <1>3 DEF StreamInv, FramesFit
<1>5. StreamTypeOK'
  BY <1>1, <1>2 DEF StreamInv, StreamTypeOK
<1>6. \A F \in Seq(Frames), t \in Terminals :
        /\ \A j \in 1..Len(F) : FrameFits(F[j], updates)
        /\ Leads(t, F, updates, silent, cursor, "live")
        => Leads(t, F, updates, silent \cup {cursor + 1}, cursor + 1, "live")
  BY <1>2, LeadsDrop
<1>7. cursor <= cursor' /\ \A i \in silent' : i \in silent \/ i > cursor
  BY <1>1, <1>2
<1> QED BY <1>1, <1>3, <1>4, <1>5, <1>6, <1>7, MovesNothing

(* An event enters the queue of events.                                    *)
LEMMA ReceiveEventStep == ASSUME StreamInv, ReceiveEvent PROVE StreamInv'
<1> DEFINE h == Head(queue)
           G == Tail(queue)
<1>1. /\ queue # <<>> /\ h.kind # "attached" /\ inbox' = Append(inbox, h) /\ queue' = G
      /\ UNCHANGED <<updates, cursor, forwarder, terminal, silent, torn>>
  BY DEF ReceiveEvent, historyVars
<1>2. /\ inbox \in Seq(Frames) /\ NoReply(inbox) /\ queue \in Seq(Frames)
      /\ forwarder.frames \in Seq(Frames) /\ cursor \in Nat
  BY StreamFacts
<1>3. /\ h \in Frames /\ <<h>> \in Seq(Frames) /\ G \in Seq(Frames)
      /\ queue = <<h>> \o G
  BY <1>1, <1>2, FirstFrame
<1> HIDE DEF h, G
<1>4. inbox' = inbox \o <<h>> /\ inbox' \in Seq(Frames)
  BY <1>1, <1>2, <1>3, AppendIsConcat
<1>5. NoReply(inbox')
  <2>1. \A k \in 1..Len(inbox') : (k \in 1..Len(inbox) /\ inbox'[k] = inbox[k]) \/ inbox'[k] = h
    BY <1>1, <1>2, <1>3
  <2> QED BY <1>1, <1>2, <2>1 DEF NoReply
<1>6. OnTheWay' = OnTheWay
  <2> DEFINE P == forwarder.frames
             X == G \o P
  <2>1. P \in Seq(Frames)
    BY <1>2
  <2> HIDE DEF P
  <2>2. X \in Seq(Frames) /\ (<<h>> \o G) \o P = <<h>> \o X
    BY <1>3, <2>1, FramesJoined
  <2> HIDE DEF X
  <2>3. (inbox \o <<h>>) \o X = inbox \o (<<h>> \o X)
    BY <1>2, <1>3, <2>2, FramesJoined
  <2>4. OnTheWay = inbox \o (<<h>> \o X)
    BY <1>3, <2>2 DEF OnTheWay, P
  <2>5. OnTheWay' = (inbox \o <<h>>) \o X
    BY <1>1, <1>4 DEF OnTheWay, P, X
  <2> QED BY <2>3, <2>4, <2>5
<1>7. FramesFit' /\ LogCounts(updates')
  BY <1>1, <1>6 DEF StreamInv, FramesFit
<1>8. StreamTypeOK'
  BY <1>1, <1>3, <1>4, <1>5 DEF StreamInv, StreamTypeOK
<1> QED BY <1>1, <1>2, <1>6, <1>7, <1>8, MovesNothing

(* No reply is among frames that are parts of others, or joined.           *)
LEMMA NoReplies ==
    ASSUME NEW A \in Seq(Frames), NEW B \in Seq(Frames)
    PROVE  /\ NoReply(A) /\ NoReply(B) => NoReply(A \o B)
           /\ A # <<>> /\ NoReply(A) => NoReply(Tail(A)) /\ Head(A).kind # "attached"
<1>1. ASSUME NoReply(A), NoReply(B)
      PROVE  NoReply(A \o B)
  <2>1. \A k \in 1..Len(A \o B) :
          \/ k \in 1..Len(A) /\ (A \o B)[k] = A[k]
          \/ k - Len(A) \in 1..Len(B) /\ (A \o B)[k] = B[k - Len(A)]
    OBVIOUS
  <2> QED BY <1>1, <2>1 DEF NoReply
<1>2. ASSUME A # <<>>, NoReply(A)
      PROVE  NoReply(Tail(A)) /\ Head(A).kind # "attached"
  <2>1. /\ Head(A) = A[1] /\ 1 \in 1..Len(A)
        /\ \A k \in 1..Len(Tail(A)) : Tail(A)[k] = A[k + 1] /\ k + 1 \in 1..Len(A)
    BY <1>2
  <2> QED BY <1>2, <2>1 DEF NoReply
<1> QED BY <1>1, <1>2

(* The first of frames joined.                                             *)
LEMMA FirstOfTwo ==
    ASSUME NEW Q \in Seq(Frames), Q # <<>>, NEW P \in Seq(Frames)
    PROVE  /\ Q \o P # <<>> /\ Head(Q \o P) = Head(Q) /\ Tail(Q \o P) = Tail(Q) \o P
OBVIOUS

(* The events I and then Q, which starts with a reply, and P are the       *)
(* events E, the only reply g and F.                                       *)
Replies(I, Q, P, E, g, F) ==
    /\ I \in Seq(Frames) /\ Q \in Seq(Frames) /\ P \in Seq(Frames)
    /\ E \in Seq(Frames) /\ g \in Frames /\ F \in Seq(Frames)
    /\ Q # <<>> /\ Head(Q).kind = "attached"
    /\ NoReply(I) /\ NoReply(E) /\ NoReply(F)
    /\ I \o (Q \o P) = E \o (<<g>> \o F)

(* What comes after the first of Q.                                        *)
Onward(Q, P) == Tail(Q) \o P

(* Then the reply comes next.                                              *)
LEMMA ReplyIsNext ==
    ASSUME NEW I, NEW Q, NEW P, NEW E, NEW g, NEW F, Replies(I, Q, P, E, g, F)
    PROVE  Head(Q) = g /\ I = E /\ Onward(Q, P) = F
<1> DEFINE h == Head(Q)
           B == Tail(Q) \o P
           C == <<g>> \o F
           A == <<h>> \o B
<1>0. /\ I \in Seq(Frames) /\ Q \in Seq(Frames) /\ P \in Seq(Frames)
      /\ E \in Seq(Frames) /\ g \in Frames /\ F \in Seq(Frames)
      /\ Q # <<>> /\ Head(Q).kind = "attached"
      /\ NoReply(I) /\ NoReply(E) /\ NoReply(F)
      /\ I \o (Q \o P) = E \o (<<g>> \o F)
  BY DEF Replies
<1>1. /\ h \in Frames /\ <<h>> \in Seq(Frames) /\ Tail(Q) \in Seq(Frames)
      /\ Q = <<h>> \o Tail(Q) /\ <<g>> \in Seq(Frames) /\ h.kind = "attached"
  BY <1>0, FirstFrame
<1>2. /\ B \in Seq(Frames) /\ C \in Seq(Frames) /\ A \in Seq(Frames)
      /\ Q \o P = A
  BY <1>0, <1>1, FramesJoined
<1>3. /\ Len(A) = Len(B) + 1 /\ A[1] = h
      /\ \A k \in 1..Len(B) : A[k + 1] = B[k]
  <2> HIDE DEF h, B
  <2>1. h \in Frames /\ B \in Seq(Frames)
    BY <1>1, <1>2
  <2> QED BY <2>1
<1>4. /\ Len(C) = Len(F) + 1 /\ C[1] = g
      /\ \A k \in 1..Len(F) : C[k + 1] = F[k]
  BY <1>0, <1>1
<1> HIDE DEF A, B, C, h
<1> DEFINE way == I \o A
<1>5. way = E \o C
  BY <1>0, <1>2 DEF C
<1>6. /\ Len(I) \in Nat /\ Len(E) \in Nat /\ Len(B) \in Nat /\ Len(F) \in Nat
      /\ Len(way) = Len(I) + (Len(B) + 1) /\ Len(way) = Len(E) + (Len(F) + 1)
  <2>1. Len(I) \in Nat /\ Len(E) \in Nat /\ Len(B) \in Nat /\ Len(F) \in Nat
    BY <1>0, <1>2
  <2>2. Len(I \o A) = Len(I) + Len(A)
    BY <1>0, <1>2
  <2>3. Len(E \o C) = Len(E) + Len(C)
    BY <1>0, <1>2
  <2> HIDE DEF way
  <2>4. Len(way) = Len(I) + (Len(B) + 1)
    BY <1>3, <2>2 DEF way
  <2>5. Len(way) = Len(E) + (Len(F) + 1)
    BY <1>4, <1>5, <2>3
  <2> QED BY <2>1, <2>4, <2>5
<1>7. /\ \A k \in 1..Len(I) : way[k] = I[k]
      /\ \A k \in 1..Len(A) : way[Len(I) + k] = A[k]
  BY <1>0, <1>2
<1>8. /\ \A k \in 1..Len(E) : way[k] = E[k]
      /\ \A k \in 1..Len(C) : way[Len(E) + k] = C[k]
  BY <1>0, <1>2, <1>5, SMTT(30)
<1> HIDE DEF way
<1>9. /\ way[Len(I) + 1] = h
      /\ \A k \in 1..Len(B) : way[Len(I) + (k + 1)] = B[k]
  <2>1. 1 \in 1..Len(A) /\ \A k \in 1..Len(B) : k + 1 \in 1..Len(A)
    BY <1>3, <1>6
  <2> QED BY <1>3, <1>7, <2>1
<1>10. /\ way[Len(E) + 1] = g
       /\ \A k \in 1..Len(F) : way[Len(E) + (k + 1)] = F[k]
  <2>1. 1 \in 1..Len(C) /\ \A k \in 1..Len(F) : k + 1 \in 1..Len(C)
    BY <1>4, <1>6
  <2> QED BY <1>4, <1>8, <2>1
<1>11. Len(I) = Len(E)
  <2>1. ~(Len(I) + 1 \in 1..Len(E))
    BY <1>0, <1>1, <1>8, <1>9 DEF NoReply
  <2>2. ~(Len(I) - Len(E) \in 1..Len(F))
    <3> SUFFICES ASSUME Len(I) - Len(E) \in 1..Len(F)
                 PROVE  FALSE
      OBVIOUS
    <3>1. Len(E) + ((Len(I) - Len(E)) + 1) = Len(I) + 1
      BY <1>6
    <3>2. way[Len(I) + 1] = F[Len(I) - Len(E)]
      BY <1>10, <3>1
    <3> QED BY <1>0, <1>1, <1>9, <3>2 DEF NoReply
  <2> QED BY <1>6, <2>1, <2>2
<1>12. h = g
  BY <1>9, <1>10, <1>11
<1>13. I = E
  BY <1>0, <1>7, <1>8, <1>11, SeqEqual
<1>14. B = F
  <2>1. Len(B) = Len(F) /\ \A k \in 1..Len(B) : B[k] = F[k]
    BY <1>6, <1>9, <1>10, <1>11
  <2> QED BY <1>0, <1>2, <2>1, SeqEqual
<1> QED BY <1>12, <1>13, <1>14 DEF B, h, Onward

(* The client takes the reply, past the events it has not drawn.           *)
LEMMA TakeAttachedStep == ASSUME StreamInv, TakeAttached PROVE StreamInv'
<1> DEFINE h == Head(queue)
           G == Tail(queue)
           P == forwarder.frames
<1>1. /\ queue # <<>> /\ h.kind = "attached" /\ terminal' = Shows(terminal, h) /\ queue' = G
      /\ UNCHANGED <<updates, cursor, forwarder, inbox, silent, torn>>
  BY DEF TakeAttached, historyVars
<1>2. /\ inbox \in Seq(Frames) /\ NoReply(inbox) /\ queue \in Seq(Frames)
      /\ P \in Seq(Frames) /\ terminal \in Terminals
      /\ \A j \in 1..Len(OnTheWay) : FrameFits(OnTheWay[j], updates)
      /\ OnTheWay = inbox \o (queue \o P)
  BY StreamFacts DEF OnTheWay
<1>3. h \in Frames /\ G \in Seq(Frames) /\ queue = <<h>> \o G /\ <<h>> \in Seq(Frames)
  BY <1>1, <1>2, FirstFrame
<1>4. OnTheWay' = inbox \o (G \o P)
  BY <1>1 DEF OnTheWay
<1> HIDE DEF h, P
<1>5. FramesFit'
  <2> DEFINE B == G \o P
             A == <<h>> \o B
  <2>1. B \in Seq(Frames) /\ A \in Seq(Frames) /\ queue \o P = A
    BY <1>2, <1>3, FramesJoined
  <2>2. /\ Len(A) = Len(B) + 1 /\ Len(B) \in Nat
        /\ \A k \in 1..Len(B) : k + 1 \in 1..Len(A) /\ A[k + 1] = B[k]
    <3> HIDE DEF B
    <3> QED BY <1>3, <2>1
  <2> HIDE DEF A, B
  <2>3. OnTheWay = inbox \o A /\ OnTheWay' = inbox \o B
    BY <1>2, <1>4, <2>1 DEF B
  <2>4. ASSUME NEW j \in 1..Len(OnTheWay')
        PROVE  \E k \in 1..Len(OnTheWay) : OnTheWay'[j] = OnTheWay[k]
    <3>1. CASE j \in 1..Len(inbox)
      <4>1. j \in 1..Len(OnTheWay) /\ OnTheWay'[j] = OnTheWay[j]
        BY <1>2, <2>1, <2>3, <3>1
      <4> QED BY <4>1
    <3>2. CASE j \notin 1..Len(inbox)
      <4> DEFINE i == j - Len(inbox)
      <4>1. i \in 1..Len(B) /\ OnTheWay'[j] = B[i]
        BY <1>2, <2>1, <2>3, <3>2
      <4> HIDE DEF i
      <4>2. /\ Len(inbox) + (i + 1) \in 1..Len(OnTheWay)
            /\ OnTheWay[Len(inbox) + (i + 1)] = A[i + 1]
        BY <1>2, <2>1, <2>2, <2>3, <4>1
      <4> QED BY <2>2, <4>1, <4>2
    <3> QED BY <3>1, <3>2
  <2> QED BY <1>1, <1>2, <2>4 DEF FramesFit
<1>6. StreamTypeOK'
  <2>1. terminal' \in Terminals
    BY <1>1, <1>2, <1>3, ShowsCases
  <2> HIDE DEF G
  <2> QED BY <1>1, <1>3, <2>1 DEF StreamInv, StreamTypeOK
<1>7. LogCounts(updates')
  BY <1>1 DEF StreamInv
<1> SUFFICES ASSUME forwarder'.step # "none"
             PROVE  \E E, R, F, V, b : Foreseen(E, R, F, V, b)'
  BY <1>5, <1>6, <1>7 DEF StreamInv
<1>8. PICK E, R, F, V, b : Foreseen(E, R, F, V, b)
  BY <1>1 DEF StreamInv
<1>9. /\ Parted(OnTheWay, E, R, F, V, b)
      /\ \A t \in V : Leads(t, F, updates, silent, cursor, forwarder.step)
      /\ Awaits(E, R, V, b, terminal, silent, torn, cursor)
  BY <1>8 DEF Foreseen
<1>10. /\ E \in Seq(Frames) /\ F \in Seq(Frames) /\ b \in Bases
       /\ R \in {<<>>, <<ReplyOf(b)>>} /\ OnTheWay = E \o (R \o F)
       /\ NoReply(F) /\ V \subseteq Terminals
  BY <1>9 DEF Parted
<1>11. NoReply(E)
  <2>1. CASE E = <<>>
    BY <2>1 DEF NoReply
  <2>2. CASE Stale(E, b, silent, torn, cursor)
    BY <2>2 DEF Stale, NoReply
  <2> QED BY <1>9, <2>1, <2>2 DEF Awaits
<1>12. R # <<>>
  <2> SUFFICES ASSUME R = <<>>
               PROVE  FALSE
    OBVIOUS
  <2>1. R \o F = F
    BY <1>10
  <2>2. NoReply(OnTheWay)
    BY <1>10, <1>11, <2>1, NoReplies
  <2>3. /\ Len(inbox) + 1 \in 1..Len(OnTheWay)
        /\ OnTheWay[Len(inbox) + 1] = h
    <3> DEFINE A == queue \o P
    <3>1. A \in Seq(Frames) /\ A # <<>> /\ Head(A) = h
      BY <1>1, <1>2, FirstOfTwo DEF h
    <3> HIDE DEF A
    <3>2. OnTheWay = inbox \o A
      BY <1>2 DEF A
    <3>3. Len(A) \in Nat \ {0} /\ A[1] = h
      BY <3>1
    <3> QED BY <1>2, <3>1, <3>2, <3>3
  <2> QED BY <1>1, <2>2, <2>3 DEF NoReply
<1>13. /\ R = <<ReplyOf(b)>> /\ ReplyOf(b) \in Frames
       /\ Fresh(b, {}) \subseteq V /\ Stale(E, b, silent, torn, cursor)
  BY <1>9, <1>10, <1>12, ReplyPart DEF Awaits
<1>14. h = ReplyOf(b) /\ OnTheWay' = E \o F
  <2>1. inbox \o (queue \o P) = E \o (<<ReplyOf(b)>> \o F)
    BY <1>2, <1>10, <1>13
  <2>2. Head(queue).kind = "attached" /\ queue # <<>>
    BY <1>1 DEF h
  <2>3. Head(queue) = ReplyOf(b) /\ inbox \o (Tail(queue) \o P) = E \o F
    <3> DEFINE I == inbox
               Q == queue
               g == ReplyOf(b)
    <3>1. Replies(I, Q, P, E, g, F)
      BY <1>2, <1>10, <1>11, <1>13, <2>1, <2>2 DEF Replies
    <3> HIDE DEF I, Q, g
    <3>2. Head(Q) = g /\ I = E /\ Onward(Q, P) = F
      BY <3>1, ReplyIsNext
    <3> QED BY <3>2 DEF I, Q, g, Onward
  <2> QED BY <1>4, <2>3 DEF h
<1>15. terminal' \in Fresh(b, torn)
  BY <1>1, <1>2, <1>10, <1>14, AnswerIsFresh
<1>16. Parted(OnTheWay', E, <<>>, F, V, b)
  <2>1. <<>> \o F = F
    BY <1>10
  <2> QED BY <1>10, <1>14, <2>1 DEF Parted
<1>17. Awaits(E, <<>>, V, b, terminal', silent, torn, cursor)
  BY <1>13, <1>15 DEF Awaits
<1>18. Foreseen(E, <<>>, F, V, b)'
  BY <1>1, <1>9, <1>16, <1>17 DEF Foreseen
<1> QED BY <1>18

(* The client draws the next event.                                        *)
LEMMA DrawEventStep == ASSUME StreamInv, DrawEvent PROVE StreamInv'
<1> DEFINE f == Head(inbox)
           P == queue \o forwarder.frames
<1>1. /\ inbox # <<>> /\ ~AwaitsReply /\ terminal' = Shows(terminal, f)
      /\ inbox' = Tail(inbox) /\ silent' = Unmade(silent, f)
      /\ UNCHANGED <<updates, cursor, forwarder, queue, torn>>
  BY DEF DrawEvent, Unmade
<1>2. /\ inbox \in Seq(Frames) /\ NoReply(inbox) /\ queue \in Seq(Frames)
      /\ forwarder.frames \in Seq(Frames) /\ P \in Seq(Frames) /\ terminal \in Terminals
      /\ \A j \in 1..Len(OnTheWay) : FrameFits(OnTheWay[j], updates)
      /\ OnTheWay = inbox \o P /\ OnTheWay \in Seq(Frames)
      /\ silent \in SUBSET (1..Len(updates)) /\ LogCounts(updates)
  BY StreamFacts, FramesJoined DEF OnTheWay
<1>3. /\ f \in Frames /\ f.kind # "attached" /\ Tail(inbox) \in Seq(Frames)
      /\ NoReply(Tail(inbox))
  BY <1>1, <1>2, NoReplies
<1>4. NoReply(OnTheWay)
  <2>1. NoReply(queue) /\ NoReply(forwarder.frames)
    BY <1>1, <1>2 DEF AwaitsReply, NoReply
  <2>2. NoReply(P)
    BY <1>2, <2>1, NoReplies
  <2> HIDE DEF P
  <2> QED BY <1>2, <2>2, NoReplies
<1>5. OnTheWay' = Tail(inbox) \o P
  BY <1>1 DEF OnTheWay
<1> HIDE DEF P
<1>6. OnTheWay # <<>> /\ Head(OnTheWay) = f /\ OnTheWay' = Tail(OnTheWay)
  BY <1>1, <1>2, <1>5, FirstOfTwo
<1> HIDE DEF f
<1>7. FramesFit'
  <2>1. \A j \in 1..Len(Tail(OnTheWay)) :
          j + 1 \in 1..Len(OnTheWay) /\ Tail(OnTheWay)[j] = OnTheWay[j + 1]
    BY <1>2, <1>6
  <2> QED BY <1>1, <1>2, <1>6, <2>1 DEF FramesFit
<1>8. StreamTypeOK'
  <2>1. terminal' \in Terminals
    BY <1>1, <1>2, <1>3, ShowsCases
  <2>2. silent' \subseteq 1..Len(updates)
    BY <1>1, <1>2 DEF Unmade
  <2> QED BY <1>1, <1>3, <2>1, <2>2 DEF StreamInv, StreamTypeOK
<1>9. LogCounts(updates')
  BY <1>1, <1>2
<1> SUFFICES ASSUME forwarder'.step # "none"
             PROVE  \E E, R, F, V, b : Foreseen(E, R, F, V, b)'
  BY <1>7, <1>8, <1>9 DEF StreamInv
<1>10. PICK E, R, F, V, b : Foreseen(E, R, F, V, b)
  BY <1>1 DEF StreamInv
<1>11. /\ Parted(OnTheWay, E, R, F, V, b)
       /\ \A t \in V : Leads(t, F, updates, silent, cursor, forwarder.step)
       /\ Awaits(E, R, V, b, terminal, silent, torn, cursor)
  BY <1>10 DEF Foreseen
<1>12. /\ E \in Seq(Frames) /\ F \in Seq(Frames) /\ b \in Bases
       /\ R \in {<<>>, <<ReplyOf(b)>>} /\ OnTheWay = E \o (R \o F)
       /\ NoReply(F) /\ V \subseteq Terminals
  BY <1>11 DEF Parted
<1>13. R = <<>>
  <2> SUFFICES ASSUME R = <<ReplyOf(b)>>
               PROVE  FALSE
    BY <1>12
  <2> DEFINE A == R \o F
  <2>1. ReplyOf(b) \in Frames /\ ReplyOf(b).kind = "attached"
    BY <1>12, ReplyPart DEF ReplyOf
  <2>2. A \in Seq(Frames) /\ Len(A) = Len(F) + 1 /\ A[1] = ReplyOf(b)
    <3> DEFINE g == ReplyOf(b)
    <3>1. g \in Frames /\ A = <<g>> \o F
      BY <2>1
    <3> HIDE DEF g, A
    <3>2. A \in Seq(Frames) /\ Len(A) = Len(F) + 1 /\ A[1] = g
      BY <1>12, <3>1
    <3> QED BY <3>2 DEF g
  <2> HIDE DEF A
  <2>3. OnTheWay = E \o A
    BY <1>12 DEF A
  <2>4. Len(E) + 1 \in 1..Len(OnTheWay) /\ OnTheWay[Len(E) + 1] = A[1]
    BY <1>12, <2>2, <2>3
  <2> QED BY <1>4, <2>1, <2>2, <2>4 DEF NoReply
<1>14. OnTheWay = E \o F
  <2>1. <<>> \o F = F
    BY <1>12
  <2> QED BY <1>12, <1>13, <2>1
<1>15. CASE E # <<>>
  <2> DEFINE K == Tail(E)
  <2>1. /\ Fresh(b, {}) \subseteq V /\ Stale(E, b, silent, torn, cursor)
        /\ terminal \in Fresh(b, torn)
    BY <1>11, <1>13, <1>15 DEF Awaits
  <2>2. /\ f = Head(E) /\ OnTheWay' = K \o F
    BY <1>6, <1>12, <1>14, <1>15, FirstOfTwo
  <2>3. /\ f = E[1] /\ 1 \in 1..Len(E) /\ K \in Seq(Frames)
        /\ \A k \in 1..Len(K) : K[k] = E[k + 1] /\ k + 1 \in 1..Len(E)
    BY <1>12, <1>15, <2>2
  <2>4. Shows(terminal, f) \in Fresh(b, torn) /\ Unmade(silent, f) = silent
    <3>1. /\ f.kind \in {"output", "snapshot"} /\ f.sequence <= b.last
          /\ f.kind = "snapshot" => f.revision <= b.revision
          /\ f.kind = "output" /\ ~b.restored => f.sequence \in torn
          /\ \A i \in silent : i > b.last + b.revision
      BY <2>1, <2>3 DEF Stale
    <3>2. silent \subseteq Nat
      BY <1>2 DEF LogCounts
    <3> QED BY <1>3, <1>12, <2>1, <3>1, <3>2, FreshStays
  <2> HIDE DEF K
  <2>5. Stale(K, b, silent, torn, cursor)
    BY <2>1, <2>3 DEF Stale
  <2>6. Awaits(K, <<>>, V, b, terminal', silent, torn, cursor)
    BY <1>1, <2>1, <2>4, <2>5 DEF Awaits
  <2>7. Parted(OnTheWay', K, <<>>, F, V, b)
    <3>1. <<>> \o F = F
      BY <1>12
    <3> QED BY <1>12, <2>2, <2>3, <3>1 DEF Parted
  <2>8. silent' = silent
    BY <1>1, <2>4
  <2>9. Foreseen(K, <<>>, F, V, b)'
    BY <1>1, <1>11, <2>6, <2>7, <2>8 DEF Foreseen
  <2> QED BY <2>9
<1>16. CASE E = <<>>
  <2> DEFINE G == Tail(F)
  <2>1. PICK t \in V : Like(t, terminal, torn)
    <3>1. CASE \E t \in V : Like(t, terminal, torn)
      BY <3>1
    <3>2. CASE terminal \in Fresh(b, torn) /\ Fresh(b, {}) \subseteq V
      BY <1>12, <3>2, FreshSettles
    <3> QED BY <1>11, <1>13, <3>1, <3>2 DEF Awaits
  <2>2. OnTheWay = F
    <3>1. <<>> \o F = F
      BY <1>12
    <3> QED BY <1>14, <1>16, <3>1
  <2>3. F # <<>> /\ f = Head(F) /\ G \in Seq(Frames) /\ NoReply(G)
    BY <1>6, <1>12, <2>2, FirstFrame, NoReplies
  <2>4. OnTheWay' = G
    BY <1>6, <2>2
  <2> PICK v : v = Shows(t, f)
    OBVIOUS
  <2> DEFINE W == {v}
  <2>5. Leads(v, G, updates, silent', cursor, forwarder.step)
    <3>1. Reads(F, silent, f, G, silent')
      BY <1>1, <2>3 DEF Reads
    <3> HIDE DEF G
    <3> QED BY <1>11, <1>12, <3>1, LeadsTail
  <2>6. v \in Terminals /\ Like(v, terminal', torn)
    BY <1>1, <1>2, <1>3, <1>12, <2>1, LikeShows, ShowsCases
  <2> HIDE DEF G
  <2>7. Awaits(<<>>, <<>>, W, b, terminal', silent', torn, cursor)
    BY <2>6 DEF Awaits
  <2>8. Parted(OnTheWay', <<>>, <<>>, G, W, b)
    <3>1. <<>> \o (<<>> \o G) = G /\ <<>> \in Seq(Frames)
      BY <2>3
    <3> QED BY <1>12, <2>3, <2>4, <2>6, <3>1 DEF Parted
  <2>9. \A w \in W : Leads(w, G, updates, silent', cursor, forwarder.step)
    BY <2>5
  <2> HIDE DEF W
  <2>10. Foreseen(<<>>, <<>>, G, W, b)'
    BY <1>1, <2>7, <2>8, <2>9 DEF Foreseen
  <2> QED BY <2>10
<1> QED BY <1>15, <1>16

(* Chunks, from the first one on.                                          *)
LEMMA ReplayFrames ==
    ASSUME NEW n \in Nat, NEW X, X = [i \in 1..n |-> OutputFrame(i)]
    PROVE  /\ X \in Seq(Frames) /\ Len(X) = n /\ NoReply(X)
           /\ \A i \in 1..n : X[i] = OutputFrame(i) /\ X[i].kind = "output"
                              /\ X[i].sequence = i
<1>1. \A i \in 1..n : /\ OutputFrame(i) \in Frames /\ OutputFrame(i).kind = "output"
                      /\ OutputFrame(i).sequence = i
  BY DEF OutputFrame, Frames
<1>2. X \in [1..n -> Frames]
  BY <1>1
<1>3. X \in Seq(Frames) /\ Len(X) = n
  BY <1>2, SeqDef, LenProperties
<1>4. \A i \in 1..n : X[i] = OutputFrame(i)
  OBVIOUS
<1> QED BY <1>1, <1>3, <1>4 DEF NoReply

(* The client attaches again: what it has not drawn is from before.        *)
LEMMA AttachStep ==
    ASSUME StreamInv, NEW from \in Boundaries, NEW resizes \in BOOLEAN,
           Attach(from, resizes)
    PROVE  StreamInv'
<1> DEFINE U == updates
           L == LatestSequence
<1>1. /\ LogCounts(U) /\ Len(U) \in Nat /\ L = After(U, Len(U)).sequence
      /\ TerminalRevision = After(U, Len(U)).revision
      /\ inbox \in Seq(Frames) /\ NoReply(inbox) /\ queue \in Seq(Frames)
      /\ forwarder.frames \in Seq(Frames) /\ terminal \in Terminals
      /\ \A j \in 1..Len(OnTheWay) : FrameFits(OnTheWay[j], U)
  BY StreamFacts, Counters
<1>2. PICK W, m, g, X, N :
        /\ W = updates' /\ m = Len(W) /\ N = torn'
        /\ g = AttachedFrame(from, resizes) /\ X = Replay(from)
  OBVIOUS
<1>3. /\ ~AwaitsReply
      /\ updates' = IF resizes THEN Resized ELSE updates
      /\ cursor' = Len(updates') /\ silent' = {}
      /\ forwarder' = [step |-> "attaching", frames |-> <<g>> \o X,
                       resyncPending |-> FALSE]
      /\ torn' = IF OutputGap(from) THEN {} ELSE Undrawn
      /\ UNCHANGED <<inbox, queue, terminal>>
  BY <1>2 DEF Attach, NoForwarder
<1>4. /\ LogCounts(W) /\ m \in Nat /\ After(W, m).sequence = L
      /\ After(W, m).revision = IF resizes THEN TerminalRevision + 1 ELSE TerminalRevision
      /\ \A f : FrameFits(f, U) => FrameFits(f, W)
  <2>1. CASE resizes
    <3>1. /\ LogCounts(W) /\ Len(W) = Len(U) + 1 /\ m = Len(W)
          /\ \A i \in 1..Len(U) : W[i] = U[i]
          /\ \A i \in 0..Len(U) : After(W, i) = After(U, i)
          /\ After(W, Len(W)).sequence = L
          /\ After(W, Len(W)).revision = TerminalRevision + 1
      BY <1>1, <1>2, <1>3, <2>1, LogContinues
    <3> HIDE DEF U, L
    <3>2. \A f : FrameFits(f, U) => FrameFits(f, W)
      BY <1>1, <3>1, HoldsOfLongerLog
    <3> QED BY <1>1, <2>1, <3>1, <3>2
  <2>2. CASE ~resizes
    BY <1>1, <1>2, <1>3, <2>2
  <2> QED BY <2>1, <2>2
<1>5. /\ L \in Nat /\ After(W, m).revision \in Nat /\ m \in 0..m
      /\ After(W, m).sequence + After(W, m).revision = m
      /\ TerminalRevision \in Nat /\ TerminalRevision <= After(W, m).revision
  <2>1. m \in 0..m /\ Len(U) \in 0..Len(U)
    BY <1>1, <1>4
  <2> HIDE DEF U
  <2>2. /\ After(W, m).sequence \in Nat /\ After(W, m).revision \in Nat
        /\ After(W, m).sequence + After(W, m).revision = m
    BY <1>2, <1>4, <2>1 DEF LogCounts
  <2>3. After(U, Len(U)).revision \in Nat
    BY <1>1, <2>1 DEF LogCounts
  <2> QED BY <1>1, <1>4, <2>1, <2>2, <2>3
<1>6. PICK b \in Bases : /\ b.last = L /\ b.revision = After(W, m).revision
                         /\ b.restored = OutputGap(from)
  <2> DEFINE b == [last |-> L, revision |-> After(W, m).revision,
                   restored |-> OutputGap(from)]
  <2>1. OutputGap(from) \in BOOLEAN
    BY DEF OutputGap
  <2> HIDE DEF L
  <2>2. b \in Bases
    BY <1>5, <2>1 DEF Bases
  <2> QED BY <2>2
<1>7. g = ReplyOf(b) /\ g \in Frames /\ <<g>> \in Seq(Frames)
  <2>1. g = ReplyOf(b)
    BY <1>2, <1>4, <1>6 DEF AttachedFrame, ReplyOf
  <2>2. g \in Frames
    BY <2>1, ReplyPart
  <2> QED BY <2>1, <2>2
<1>8. /\ X \in Seq(Frames) /\ NoReply(X)
      /\ b.restored => X = <<>>
      /\ ~b.restored =>
           /\ Len(X) = b.last
           /\ \A i \in 1..b.last : /\ X[i] = OutputFrame(i) /\ X[i].kind = "output"
                                   /\ X[i].sequence = i
  <2>1. CASE OutputGap(from)
    BY <1>2, <1>6, <2>1 DEF Replay, NoReply
  <2>2. CASE ~OutputGap(from)
    <3>1. from = 0
      BY <1>5, <2>2 DEF OutputGap, Boundaries
    <3>2. X = [i \in 1..(L - 0) |-> OutputFrame(0 + i)]
      BY <1>2, <2>2, <3>1 DEF Replay
    <3> HIDE DEF L
    <3>3. X = [i \in 1..L |-> OutputFrame(i)]
      BY <1>5, <3>2
    <3> QED BY <1>5, <1>6, <2>2, <3>3, ReplayFrames
  <2> QED BY <2>1, <2>2
<1> DEFINE E == inbox \o queue
           G == <<g>> \o X
<1>9. NoReply(E) /\ E \in Seq(Frames)
  <2>1. NoReply(queue)
    BY <1>1, <1>3 DEF AwaitsReply, NoReply
  <2> QED BY <1>1, <2>1, NoReplies
<1>10. G \in Seq(Frames) /\ OnTheWay' = E \o G
  <2>1. G \in Seq(Frames)
    BY <1>7, <1>8
  <2>2. forwarder'.frames = G /\ inbox' = inbox /\ queue' = queue
    BY <1>3
  <2> HIDE DEF G
  <2>3. OnTheWay' = inbox \o (queue \o G)
    BY <2>2 DEF OnTheWay
  <2> QED BY <1>1, <2>1, <2>3, FramesJoined, SMTT(30)
<1>11. \A k \in 1..Len(E) : FrameFits(E[k], U)
  <2>1. OnTheWay = E \o forwarder.frames
    BY <1>1, FramesJoined DEF OnTheWay
  <2> HIDE DEF E, U
  <2>2. \A k \in 1..Len(E) : k \in 1..Len(OnTheWay) /\ OnTheWay[k] = E[k]
    BY <1>1, <1>9, <2>1
  <2> QED BY <1>1, <2>2
<1>12. \A k \in 1..Len(E) : E[k].kind = "output" => E[k].sequence \in Undrawn
  BY <1>9 DEF Undrawn
<1>13. N = IF OutputGap(from) THEN {} ELSE Undrawn
  BY <1>2, <1>3
<1> PICK K : K = E
  OBVIOUS
<1>14. K \in Seq(Frames) /\ NoReply(K) /\ \A k \in 1..Len(K) : FrameFits(K[k], U)
  BY <1>9, <1>11
<1>15. OnTheWay' = K \o G
  BY <1>10
<1>16. \A k \in 1..Len(K) : K[k].kind = "output" /\ ~b.restored => K[k].sequence \in N
  BY <1>6, <1>12, <1>13
<1> HIDE DEF E
<1>17. Stale(K, b, {}, N, m)
  <2> SUFFICES ASSUME NEW k \in 1..Len(K)
               PROVE  /\ K[k].kind \in {"output", "snapshot"}
                      /\ K[k].sequence <= b.last
                      /\ K[k].kind = "snapshot" => K[k].revision <= b.revision
                      /\ K[k].kind = "output" /\ ~b.restored => K[k].sequence \in N
    <3>1. b.last + b.revision <= m
      BY <1>4, <1>5, <1>6
    <3> QED BY <3>1 DEF Stale
  <2>1. K[k] \in Frames /\ K[k].kind # "attached"
    BY <1>14 DEF NoReply
  <2>2. K[k].kind \in {"output", "snapshot"}
    BY <2>1 DEF Frames
  <2>3. FrameFits(K[k], U)
    BY <1>14
  <2>4. K[k].sequence <= b.last
    BY <1>1, <1>6, <2>3 DEF FrameFits
  <2>5. K[k].kind = "snapshot" => K[k].revision <= b.revision
    <3> SUFFICES ASSUME K[k].kind = "snapshot"
                 PROVE  K[k].revision <= b.revision
      OBVIOUS
    <3> DEFINE p == Moment(K[k])
    <3>1. p \in 0..Len(U) /\ K[k].revision = After(U, p).revision
      BY <2>3 DEF FrameFits
    <3> HIDE DEF p, U
    <3>2. After(U, p).revision <= After(U, Len(U)).revision /\ After(U, p).revision \in Nat
      <4>1. Len(U) \in 0..Len(U) /\ p <= Len(U)
        BY <1>1, <3>1
      <4> QED BY <1>1, <3>1, <4>1 DEF LogCounts
    <3> QED BY <1>1, <1>5, <1>6, <3>1, <3>2
  <2>6. K[k].kind = "output" /\ ~b.restored => K[k].sequence \in N
    BY <1>16
  <2> QED BY <2>2, <2>4, <2>5, <2>6
<1>18. FramesFit'
  <2>1. FrameFits(g, W)
    <3>1. g.sequence = L /\ g.revision = After(W, m).revision /\ g.kind = "attached"
      BY <1>6, <1>7 DEF ReplyOf
    <3>2. Moment(g) = m
      BY <1>4, <1>5, <3>1 DEF Moment
    <3> HIDE DEF L
    <3> QED BY <1>2, <1>4, <1>5, <1>7, <3>1, <3>2 DEF FrameFits
  <2>2. \A i \in 1..Len(X) : FrameFits(X[i], W)
    <3> TAKE i \in 1..Len(X)
    <3>1. X[i] \in Frames /\ X[i].kind = "output" /\ X[i].sequence <= b.last
      <4>1. ~b.restored
        BY <1>8
      <4> QED BY <1>5, <1>6, <1>8, <4>1
    <3> QED BY <1>2, <1>4, <1>6, <3>1 DEF FrameFits
  <2> HIDE DEF U
  <2>3. \A k \in 1..Len(K) : FrameFits(K[k], W)
    BY <1>4, <1>14
  <2>4. \A k \in 1..Len(G) : G[k] = g \/ \E i \in 1..Len(X) : G[k] = X[i]
    <3> TAKE k \in 1..Len(G)
    <3>1. CASE k = 1
      BY <1>7, <1>8, <3>1
    <3>2. CASE k # 1
      <4>1. k - 1 \in 1..Len(X) /\ G[k] = X[k - 1]
        BY <1>7, <1>8, <3>2
      <4> QED BY <4>1
    <3> QED BY <3>1, <3>2
  <2>5. \A k \in 1..Len(G) : FrameFits(G[k], W)
    BY <2>1, <2>2, <2>4
  <2> HIDE DEF G
  <2>6. \A k \in 1..Len(K \o G) :
          \/ k \in 1..Len(K) /\ (K \o G)[k] = K[k]
          \/ k - Len(K) \in 1..Len(G) /\ (K \o G)[k] = G[k - Len(K)]
    BY <1>10, <1>14
  <2> QED BY <1>2, <1>15, <2>3, <2>5, <2>6 DEF FramesFit
<1>19. StreamTypeOK'
  <2>1. forwarder' = [step |-> "attaching", frames |-> G, resyncPending |-> FALSE]
    BY <1>3
  <2> HIDE DEF G
  <2>2. /\ forwarder' \in [step : {"none", "attaching", "live", "checkpoint"},
                            frames : Seq(Frames), resyncPending : BOOLEAN]
        /\ forwarder'.step = "attaching"
    BY <1>10, <2>1
  <2>3. cursor' \in 0..Len(updates') /\ silent' \subseteq 1..Len(updates')
    BY <1>2, <1>3, <1>5
  <2>4. inbox' \in Seq(Frames) /\ NoReply(inbox)' /\ queue' \in Seq(Frames)
        /\ terminal' \in Terminals
    BY <1>1, <1>3
  <2> QED BY <2>2, <2>3, <2>4 DEF StreamTypeOK
<1> DEFINE V == Fresh(b, {})
<1>20. Parted(OnTheWay', K, <<ReplyOf(b)>>, X, V, b)
  <2>1. V \subseteq Terminals
    BY DEF Fresh
  <2> QED BY <1>7, <1>8, <1>14, <1>15, <2>1 DEF Parted
<1>21. \A t \in V : Leads(t, X, W, {}, m, "attaching")
  <2>1. /\ b.last = After(W, Len(W)).sequence /\ b.revision = After(W, Len(W)).revision
        /\ m = Len(W)
    BY <1>2, <1>4, <1>6
  <2> QED BY <1>4, <1>8, <2>1, ReplayLeads
<1>22. Awaits(K, <<ReplyOf(b)>>, V, b, terminal, {}, N, m)
  BY <1>17 DEF Awaits
<1> HIDE DEF V, U, L, G
<1>23. /\ cursor' = m /\ silent' = {} /\ torn' = N /\ terminal' = terminal
       /\ updates' = W /\ forwarder'.step = "attaching"
  BY <1>2, <1>3
<1>24. Foreseen(K, <<ReplyOf(b)>>, X, V, b)'
  BY <1>20, <1>21, <1>22, <1>23 DEF Foreseen
<1>25. LogCounts(updates')
  BY <1>4, <1>23
<1> QED BY <1>18, <1>19, <1>24, <1>25 DEF StreamInv

(* Every step keeps what the client is foretold.                           *)
LEMMA StreamStep == StreamInv /\ [StreamNext]_streamVars => StreamInv'
<1> SUFFICES ASSUME StreamInv, [StreamNext]_streamVars
             PROVE  StreamInv'
  OBVIOUS
<1>1. CASE Output \/ ResizeTerminal
  BY <1>1, LogStep
<1>2. ASSUME NEW from \in Boundaries, NEW resizes \in BOOLEAN, Attach(from, resizes)
      PROVE  StreamInv'
  BY <1>2, AttachStep
<1>3. CASE Detach
  BY <1>3, DetachStep
<1>4. CASE SendFrame
  BY <1>4, SendFrameStep
<1>5. ASSUME NEW closed \in BOOLEAN, WriteTimesOut(closed)
      PROVE  StreamInv'
  BY <1>5, TimeoutStep
<1>6. CASE ForwardUpdate
  BY <1>6, ForwardUpdateStep
<1>7. CASE DropAndResync
  BY <1>7, DropAndResyncStep
<1>8. CASE DropSilently
  BY <1>8, DropSilentlyStep
<1>9. CASE Lag
  BY <1>9, LagStep
<1>10. CASE Checkpoint
  BY <1>10, CheckpointStep
<1>11. CASE ReceiveEvent
  BY <1>11, ReceiveEventStep
<1>12. CASE TakeAttached
  BY <1>12, TakeAttachedStep
<1>13. CASE DrawEvent
  BY <1>13, DrawEventStep
<1>14. CASE UNCHANGED streamVars
  <2>1. UNCHANGED <<updates, cursor, forwarder, queue, inbox, terminal, silent, torn>>
    BY <1>14 DEF streamVars, historyVars
  <2>2. OnTheWay' = OnTheWay
    BY <2>1 DEF OnTheWay
  <2>3. StreamTypeOK' /\ FramesFit' /\ LogCounts(updates')
    BY <2>1, <2>2 DEF StreamInv, StreamTypeOK, FramesFit
  <2>4. cursor \in Nat
    BY StreamFacts
  <2> QED BY <2>1, <2>2, <2>3, <2>4, MovesNothing
<1> QED BY <1>1, <1>2, <1>3, <1>4, <1>5, <1>6, <1>7, <1>8, <1>9, <1>10, <1>11, <1>12,
           <1>13, <1>14 DEF StreamNext

(* Whatever is on its way to a client, whichever updates were dropped on   *)
(* the way and whichever events a reply overtook, the terminal the client  *)
(* ends with is foretold: it stands for what the forwarder took, except    *)
(* for explained holes.                                                    *)
THEOREM StreamInvariance == StreamSpec => []StreamInv
BY StreamStarts, StreamStep, PTL DEF StreamSpec

(* Nothing of nothing.                                                     *)
LEMMA NothingOfThree ==
    ASSUME NEW A \in Seq(Frames), NEW B \in Seq(Frames), NEW C \in Seq(Frames),
           Len(A \o (B \o C)) = 0
    PROVE  Len(B) = 0 /\ Len(C) = 0
<1> DEFINE D == B \o C
<1>1. D \in Seq(Frames) /\ Len(D) = Len(B) + Len(C)
  OBVIOUS
<1> HIDE DEF D
<1>2. Len(A \o D) = Len(A) + Len(D)
  BY <1>1
<1>3. Len(A \o D) = 0
  BY DEF D
<1>4. Len(A) \in Nat /\ Len(B) \in Nat /\ Len(C) \in Nat
  OBVIOUS
<1> QED BY <1>1, <1>2, <1>3, <1>4

(* A terminal UI or command line to which nothing is on its way misses     *)
(* output only where an update was dropped while a resynchronization was   *)
(* pending, or below a chunk that the reply of an attachment overtook and  *)
(* that was then drawn on the blank terminal; it misses a resize only by   *)
(* such a drop: send_attachment, the forwarder and the client together.    *)
THEOREM NothingIsMissed == StreamSpec => []MissingIsExplained
<1>1. StreamInv => MissingIsExplained
  <2> SUFFICES ASSUME StreamInv, Settled
               PROVE  /\ \A n \in Missing : Torn(torn, n) \/ Explains(updates, silent, n)
                      /\ terminal.revision = TerminalRevision
                           \/ \E i \in silent : updates[i].kind = "resized"
    BY DEF MissingIsExplained, Explains, Torn
  <2>1. /\ Len(OnTheWay) = 0 /\ forwarder.step = "live" /\ cursor = Len(updates)
    BY DEF Settled, OnTheWay
  <2>2. PICK E, R, F, V, b : Foreseen(E, R, F, V, b)
    BY <2>1 DEF StreamInv
  <2>3. /\ Parted(OnTheWay, E, R, F, V, b)
        /\ \A t \in V : Leads(t, F, updates, silent, cursor, forwarder.step)
        /\ Awaits(E, R, V, b, terminal, silent, torn, cursor)
    BY <2>2 DEF Foreseen
  <2>4. /\ E \in Seq(Frames) /\ F \in Seq(Frames) /\ b \in Bases /\ R \in Seq(Frames)
        /\ OnTheWay = E \o (R \o F) /\ V \subseteq Terminals
    BY <2>3, ReplyPart DEF Parted
  <2>5. Len(R) = 0 /\ Len(F) = 0
    BY <2>1, <2>4, NothingOfThree
  <2>6. PICK t \in V : Like(t, terminal, torn)
    <3>1. CASE \E t \in V : Like(t, terminal, torn)
      BY <3>1
    <3>2. CASE terminal \in Fresh(b, torn) /\ Fresh(b, {}) \subseteq V
      BY <2>4, <3>2, FreshSettles
    <3>3. R # <<ReplyOf(b)>>
      <4> DEFINE f == ReplyOf(b)
      <4>1. Len(<<f>>) = 1
        OBVIOUS
      <4> QED BY <2>5, <4>1
    <3> QED BY <2>3, <3>1, <3>2, <3>3 DEF Awaits
  <2>7. PICK T \in Seq(Terminals) :
          /\ Foretold(T, updates, F, t, silent)
          /\ Covers(T[Len(F) + 1], updates, Left(silent, F, Len(F)), cursor)
    BY <2>1, <2>3 DEF Leads
  <2>8. /\ Within(t, updates) /\ Sound(t, updates, silent)
        /\ Covers(t, updates, silent, Len(updates))
    <3>1. Left(silent, F, 0) = silent
      BY DEF Left
    <3>2. T[1] = t /\ 1 \in 1..(0 + 1) /\ 1 - 1 = 0
      BY <2>7 DEF Foretold, Chain
    <3>3. Within(T[1], updates) /\ Sound(T[1], updates, Left(silent, F, 1 - 1))
      BY <2>5, <2>7, <3>2 DEF Foretold
    <3>4. Covers(T[0 + 1], updates, Left(silent, F, 0), Len(updates))
      BY <2>1, <2>5, <2>7
    <3> QED BY <3>1, <3>2, <3>3, <3>4
  <2>9. /\ LatestSequence \in Nat /\ TerminalRevision \in Nat
        /\ LatestSequence = After(updates, Len(updates)).sequence
        /\ TerminalRevision = After(updates, Len(updates)).revision
    <3>1. Len(updates) \in 0..Len(updates)
      BY StreamFacts
    <3> QED BY <3>1, StreamFacts, Counters DEF LogCounts
  <2>10. t.last \in Nat /\ t.revision \in Nat
    BY <2>4 DEF Terminals
  <2>11. /\ t.last = terminal.last /\ t.revision = terminal.revision
         /\ \A n \in t.shown : n \in terminal.shown \/ Torn(torn, n)
    BY <2>6 DEF Like
  <2>12. ASSUME NEW n \in Missing
         PROVE  Torn(torn, n) \/ Explains(updates, silent, n)
    <3>1. n \in 1..LatestSequence /\ n \notin terminal.shown
      BY DEF Missing
    <3>2. n \in 1..t.last \/ n \in (t.last + 1)..LatestSequence
      BY <2>9, <2>10, <3>1
    <3> QED BY <2>8, <2>9, <2>11, <3>1, <3>2 DEF Sound, Covers
  <2>13. terminal.revision = TerminalRevision
           \/ \E i \in silent : updates[i].kind = "resized"
    BY <2>8, <2>9, <2>10, <2>11 DEF Within, Covers
  <2> QED BY <2>12, <2>13
<1> QED BY <1>1, StreamInvariance, PTL

----------------------------------------------------------------------------
(* The keys an application sends.                                          *)

(* Keys below others.                                                      *)
Lower(A, B) == \A a \in A, b \in B : a < b

(* Keys in the order in which they were typed.                             *)
Rising(keys) == \A i, j \in DOMAIN keys : i < j => keys[i] < keys[j]

(* Keys that were typed for Session s.                                     *)
TypedFor(T, keys, s) ==
    \A i \in DOMAIN keys : keys[i] \in DOMAIN T /\ T[keys[i]] = s

(* What is well formed by itself, and a queue of it in the order of the    *)
(* keys.                                                                   *)
GoodInput(T, c) == Rising(c.keys) /\ TypedFor(T, c.keys, c.session)

GoodQueue(T, q) ==
    /\ \A i \in DOMAIN q : GoodInput(T, q[i])
    /\ \A i, j \in DOMAIN q :
          i < j => Lower(Range(q[i].keys), Range(q[j].keys))

(* The keys of a batch that is still being made.                           *)
Held(w) == IF w.phase = "batching" THEN w.batch ELSE <<>>

(* The keys children have got.                                            *)
Received(d) == UNION {Range(d[s]) : s \in InputSessions}

(* The stages of the way, each behind the ones before it: what children    *)
(* have got, requests, batch, rest, deferred command, queue.               *)
Stages(D, L, H, R, F, C) ==
    /\ Lower(D, L) /\ Lower(D, H) /\ Lower(D, R) /\ Lower(D, F) /\ Lower(D, C)
    /\ Lower(L, H) /\ Lower(L, R) /\ Lower(L, F) /\ Lower(L, C)
    /\ Lower(H, R) /\ Lower(H, F) /\ Lower(H, C)
    /\ Lower(R, F) /\ Lower(R, C)
    /\ Lower(F, C)

(* The values of the way's parts.                                          *)
Requests == [session : InputSessions \cup {Nowhere}, keys : Seq(Nat)]

Senders == [phase : {"idle", "batching", "sending", "failed"},
            session : InputSessions \cup {Nowhere},
            batch : Seq(Nat), rest : Seq(Nat), last : BOOLEAN,
            deferred : Seq(Requests)]

Typists == [target : InputSessions \cup {Nowhere}, moves : Nat,
            typed : Seq(InputSessions \cup {Nowhere})]

Notices == [refused : SUBSET Nat, failed : SUBSET Nat, dropped : SUBSET Nat,
            errors : SUBSET (InputSessions \cup {Nowhere}), failures : Nat]

InputTypeOK ==
    /\ application \in {"desktop", "terminal"}
    /\ typist \in Typists
    /\ commands \in Seq(Requests)
    /\ sender \in Senders
    /\ line \in Seq(Requests)
    /\ delivered \in [InputSessions -> Seq(Nat)]
    /\ notices \in Notices

(* The pump knows one Session.                                             *)
OnePump ==
    application = "terminal" =>
        /\ notices.errors = {}
        /\ \A i \in DOMAIN commands : commands[i].session = typist.target
        /\ sender.phase = "batching" => sender.session = typist.target
        /\ sender.deferred = <<>>

(* A batch and the rest of it are in order and of one Session, and a batch *)
(* that is being made is not full.                                         *)
SenderFits(T, w) ==
    /\ w.phase = "idle" => w.batch = <<>>
    /\ w.phase = "batching" => Len(w.batch) < BatchKeys /\ w.rest = <<>>
    /\ Rising(Held(w)) /\ TypedFor(T, Held(w), w.session)
    /\ Rising(w.rest) /\ TypedFor(T, w.rest, w.session)

(* The way from the children back to the queue.                            *)
InStages(L, w, C, d) ==
    Stages(Received(d), KeysOf(L), Range(Held(w)), Range(w.rest),
           KeysOf(w.deferred), KeysOf(C))

AllFit(T, L, w, C, d) ==
    /\ GoodQueue(T, C)
    /\ GoodQueue(T, L)
    /\ GoodQueue(T, w.deferred)
    /\ SenderFits(T, w)
    /\ \A s \in InputSessions : Rising(d[s]) /\ TypedFor(T, d[s], s)
    /\ InStages(L, w, C, d)

InputInv ==
    /\ InputTypeOK
    /\ OnePump
    /\ AllFit(typist.typed, line, sender, commands, delivered)

----------------------------------------------------------------------------
(* Sequences of keys.                                                      *)

(* A chunk and what is left of some keys.                                  *)
LEMMA Chunks ==
    ASSUME NEW keys \in Seq(Nat), NEW n \in Nat
    PROVE  /\ Upto(keys, n) \in Seq(Nat)
           /\ Beyond(keys, n) \in Seq(Nat)
           /\ Len(Upto(keys, n)) = IF n < Len(keys) THEN n ELSE Len(keys)
           /\ Len(keys) <= n => Beyond(keys, n) = <<>> /\ Upto(keys, n) = keys
           /\ \A i \in DOMAIN Upto(keys, n) :
                 i \in DOMAIN keys /\ i <= n /\ Upto(keys, n)[i] = keys[i]
           /\ \A i \in DOMAIN Beyond(keys, n) :
                 n + i \in DOMAIN keys /\ Beyond(keys, n)[i] = keys[n + i]
<1> DEFINE m == Min({n, Len(keys)})
<1>1. m = IF n < Len(keys) THEN n ELSE Len(keys)
  BY DEF Min
<1>2. m \in 0 .. Len(keys) /\ m <= n
  BY <1>1
<1>0. Upto(keys, n) = SubSeq(keys, 1, m)
  BY DEF Upto
<1> HIDE DEF m
<1>3. /\ Upto(keys, n) \in Seq(Nat)
      /\ Len(Upto(keys, n)) = m
      /\ \A i \in 1 .. m : Upto(keys, n)[i] = keys[i]
  BY <1>0, <1>2
<1>4. /\ Beyond(keys, n) \in Seq(Nat)
      /\ Len(Beyond(keys, n)) = IF n < Len(keys) THEN Len(keys) - n ELSE 0
      /\ \A i \in 1 .. Len(Beyond(keys, n)) : Beyond(keys, n)[i] = keys[n + i]
  <2>1. /\ n + 1 \in Int /\ Len(keys) \in Int
        /\ \A i \in n + 1 .. Len(keys) : keys[i] \in Nat
    OBVIOUS
  <2>2. /\ Beyond(keys, n) \in Seq(Nat)
        /\ Len(Beyond(keys, n)) = IF n + 1 <= Len(keys)
                                  THEN Len(keys) - (n + 1) + 1 ELSE 0
        /\ \A i \in 1 .. Len(keys) - (n + 1) + 1 :
              Beyond(keys, n)[i] = keys[n + 1 + i - 1]
    BY <2>1, SubSeqProperties DEF Beyond
  <2>3. Len(Beyond(keys, n)) = IF n < Len(keys) THEN Len(keys) - n ELSE 0
    BY <2>1, <2>2
  <2>4. ASSUME NEW i \in 1 .. Len(Beyond(keys, n))
        PROVE  Beyond(keys, n)[i] = keys[n + i]
    <3>1. i \in 1 .. Len(keys) - (n + 1) + 1 /\ n + 1 + i - 1 = n + i
      BY <2>1, <2>3
    <3> QED BY <2>2, <3>1
  <2> QED BY <2>2, <2>3, <2>4
<1>5. ASSUME Len(keys) <= n
      PROVE  Beyond(keys, n) = <<>> /\ Upto(keys, n) = keys
  <2>1. m = Len(keys)
    BY <1>1, <1>5
  <2>2. Beyond(keys, n) = <<>>
    BY <1>4, <1>5
  <2> QED BY <2>1, <2>2, <1>3
<1>6. ASSUME NEW i \in DOMAIN Upto(keys, n)
      PROVE  i \in DOMAIN keys /\ i <= n /\ Upto(keys, n)[i] = keys[i]
  BY <1>2, <1>3
<1>7. ASSUME NEW i \in DOMAIN Beyond(keys, n)
      PROVE  n + i \in DOMAIN keys /\ Beyond(keys, n)[i] = keys[n + i]
  <2>1. i \in 1 .. Len(Beyond(keys, n))
    BY <1>4
  <2>2. n < Len(keys) /\ i \in 1 .. (Len(keys) - n)
    BY <1>4, <2>1
  <2>3. n + i \in 1 .. Len(keys)
    BY <2>2
  <2> QED BY <1>4, <2>1, <2>3, SMTT(60)
<1> QED BY <1>1, <1>3, <1>4, <1>5, <1>6, <1>7

(* They keep what their keys had.                                          *)
LEMMA ChunksFit ==
    ASSUME NEW keys \in Seq(Nat), NEW n \in Nat, NEW T, NEW s,
           Rising(keys), TypedFor(T, keys, s)
    PROVE  /\ Rising(Upto(keys, n)) /\ TypedFor(T, Upto(keys, n), s)
           /\ Rising(Beyond(keys, n)) /\ TypedFor(T, Beyond(keys, n), s)
           /\ Lower(Range(Upto(keys, n)), Range(Beyond(keys, n)))
           /\ Range(Upto(keys, n)) \subseteq Range(keys)
           /\ Range(Beyond(keys, n)) \subseteq Range(keys)
<1> DEFINE U == Upto(keys, n)
           B == Beyond(keys, n)
<1>1. /\ U \in Seq(Nat) /\ B \in Seq(Nat)
      /\ \A i \in DOMAIN U : i \in DOMAIN keys /\ i <= n /\ U[i] = keys[i]
      /\ \A i \in DOMAIN B : n + i \in DOMAIN keys /\ B[i] = keys[n + i]
  BY Chunks
<1>2. DOMAIN U \subseteq Nat \ {0} /\ DOMAIN B \subseteq Nat \ {0}
  BY <1>1
<1> HIDE DEF U, B
<1>3. Rising(U) /\ TypedFor(T, U, s)
  BY <1>1, <1>2 DEF Rising, TypedFor
<1>4. TypedFor(T, B, s)
  BY <1>1, <1>2 DEF TypedFor
<1>5. Rising(B)
  BY <1>1, <1>2 DEF Rising
<1>6. Lower(Range(U), Range(B))
  BY <1>1, <1>2 DEF Lower, Range, Rising
<1>7. Range(U) \subseteq Range(keys) /\ Range(B) \subseteq Range(keys)
  BY <1>1, <1>2 DEF Range
<1> QED BY <1>3, <1>4, <1>5, <1>6, <1>7 DEF U, B

(* Keys and others behind them.                                            *)
LEMMA Joined ==
    ASSUME NEW a \in Seq(Nat), NEW b \in Seq(Nat), NEW T, NEW s,
           Rising(a), Rising(b), TypedFor(T, a, s), TypedFor(T, b, s),
           Lower(Range(a), Range(b))
    PROVE  /\ a \o b \in Seq(Nat) /\ Rising(a \o b) /\ TypedFor(T, a \o b, s)
           /\ Range(a \o b) \subseteq Range(a) \cup Range(b)
<1> DEFINE c == a \o b
<1>1. /\ c \in Seq(Nat)
      /\ Len(c) = Len(a) + Len(b)
      /\ \A i \in 1 .. Len(a) : c[i] = a[i]
      /\ \A i \in (Len(a) + 1) .. Len(c) : c[i] = b[i - Len(a)]
  OBVIOUS
<1>2. \A i \in DOMAIN c : \/ i \in DOMAIN a /\ c[i] = a[i] /\ i <= Len(a)
                          \/ i > Len(a) /\ i - Len(a) \in DOMAIN b /\ c[i] = b[i - Len(a)]
  BY <1>1
<1>3. DOMAIN c \subseteq Nat /\ Len(a) \in Nat
  BY <1>1
<1> HIDE DEF c
<1>4. TypedFor(T, c, s)
  BY <1>2 DEF TypedFor
<1>5. Range(c) \subseteq Range(a) \cup Range(b)
  BY <1>2 DEF Range
<1>6. ASSUME NEW i \in DOMAIN c, NEW j \in DOMAIN c, i < j
      PROVE  c[i] < c[j]
  <2>1. CASE i <= Len(a) /\ j <= Len(a)
    BY <1>2, <1>3, <1>6, <2>1, SMTT(60) DEF Rising
  <2>2. CASE i > Len(a) /\ j > Len(a)
    <3>1. i - Len(a) < j - Len(a)
      BY <1>3, <1>6
    <3>2. /\ i - Len(a) \in DOMAIN b /\ c[i] = b[i - Len(a)]
          /\ j - Len(a) \in DOMAIN b /\ c[j] = b[j - Len(a)]
      BY <1>2, <1>3, <2>2
    <3> QED BY <3>1, <3>2 DEF Rising
  <2>3. CASE i <= Len(a) /\ j > Len(a)
    BY <1>2, <1>3, <2>3 DEF Lower, Range
  <2> QED BY <2>1, <2>2, <2>3, <1>3, <1>6
<1> QED BY <1>1, <1>4, <1>5, <1>6 DEF c, Rising

----------------------------------------------------------------------------
(* Queues of commands and of requests.                                     *)

(* Nothing is in order.                                                    *)
LEMMA NoKeys ==
    ASSUME NEW T, NEW s
    PROVE  /\ Rising(<<>>) /\ TypedFor(T, <<>>, s) /\ Range(<<>>) = {}
           /\ GoodQueue(T, <<>>) /\ KeysOf(<<>>) = {}
           /\ <<>> \in Seq(Nat) /\ <<>> \in Seq(Requests)
<1>1. DOMAIN <<>> = {}
  OBVIOUS
<1> QED BY <1>1 DEF Rising, TypedFor, Range, GoodQueue, KeysOf

(* The first of a queue and the ones behind it.                            *)
LEMMA QueueParts ==
    ASSUME NEW T, NEW q \in Seq(Requests), q # <<>>, GoodQueue(T, q)
    PROVE  /\ Head(q) \in Requests /\ GoodInput(T, Head(q))
           /\ Tail(q) \in Seq(Requests) /\ GoodQueue(T, Tail(q))
           /\ Range(Head(q).keys) \subseteq KeysOf(q)
           /\ KeysOf(Tail(q)) \subseteq KeysOf(q)
           /\ Lower(Range(Head(q).keys), KeysOf(Tail(q)))
           /\ Len(q) = 1 => Tail(q) = <<>>
<1> DEFINE t == Tail(q)
<1>1. /\ 1 \in DOMAIN q /\ Head(q) = q[1] /\ q[1] \in Requests
      /\ t \in Seq(Requests) /\ Len(t) = Len(q) - 1
  OBVIOUS
<1>2. \A i \in DOMAIN t : i + 1 \in DOMAIN q /\ 1 < i + 1 /\ t[i] = q[i + 1]
  OBVIOUS
<1>3. DOMAIN t \subseteq Nat
  BY <1>1
<1> HIDE DEF t
<1>0. Len(q) = 1 => t = <<>>
  BY <1>1, EmptySeq
<1>4. GoodInput(T, Head(q))
  BY <1>1 DEF GoodQueue
<1>5. \A i \in DOMAIN t : GoodInput(T, t[i])
  BY <1>2 DEF GoodQueue
<1>6. ASSUME NEW i \in DOMAIN t, NEW j \in DOMAIN t, i < j
      PROVE  Lower(Range(t[i].keys), Range(t[j].keys))
  <2>1. i + 1 < j + 1
    BY <1>3, <1>6
  <2> QED BY <1>2, <2>1 DEF GoodQueue
<1>7. Range(Head(q).keys) \subseteq KeysOf(q)
  BY <1>1 DEF KeysOf
<1>8. KeysOf(t) \subseteq KeysOf(q)
  BY <1>2 DEF KeysOf
<1>9. \A j \in DOMAIN t : Lower(Range(Head(q).keys), Range(t[j].keys))
  BY <1>1, <1>2 DEF GoodQueue
<1>10. Lower(Range(Head(q).keys), KeysOf(t))
  BY <1>9 DEF Lower, KeysOf
<1> QED BY <1>0, <1>1, <1>4, <1>5, <1>6, <1>7, <1>8, <1>10 DEF t, GoodQueue

(* What is behind the others may be queued.                                *)
LEMMA QueueAppend ==
    ASSUME NEW T, NEW q \in Seq(Requests), NEW c \in Requests,
           GoodQueue(T, q), GoodInput(T, c), Lower(KeysOf(q), Range(c.keys))
    PROVE  /\ Append(q, c) \in Seq(Requests) /\ GoodQueue(T, Append(q, c))
           /\ KeysOf(Append(q, c)) \subseteq KeysOf(q) \cup Range(c.keys)
<1> DEFINE a == Append(q, c)
           n == Len(q)
<1>1. /\ a \in Seq(Requests) /\ Len(a) = n + 1 /\ n \in Nat
      /\ a[n + 1] = c /\ \A i \in 1 .. n : a[i] = q[i]
  OBVIOUS
<1>2. DOMAIN q = 1 .. n
  OBVIOUS
<1>3. \A i \in DOMAIN a : \/ i \in DOMAIN q /\ a[i] = q[i] /\ i <= n
                          \/ i = n + 1 /\ a[i] = c
  BY <1>1, <1>2
<1>4. DOMAIN a \subseteq Nat
  BY <1>1
<1> HIDE DEF a, n
<1>5. \A i \in DOMAIN a : GoodInput(T, a[i])
  BY <1>3 DEF GoodQueue
<1>6. \A i \in DOMAIN q : Lower(Range(q[i].keys), Range(c.keys))
  BY DEF KeysOf, Lower
<1>7. ASSUME NEW i \in DOMAIN a, NEW j \in DOMAIN a, i < j
      PROVE  Lower(Range(a[i].keys), Range(a[j].keys))
  <2>1. CASE j = n + 1
    <3>1. i \in DOMAIN q /\ a[i] = q[i] /\ a[j] = c
      BY <1>1, <1>3, <1>4, <1>7, <2>1
    <3> QED BY <1>6, <3>1
  <2>2. CASE j # n + 1
    <3>1. i \in DOMAIN q /\ a[i] = q[i] /\ j \in DOMAIN q /\ a[j] = q[j]
      BY <1>1, <1>3, <1>4, <1>7, <2>2
    <3> QED BY <1>7, <3>1 DEF GoodQueue
  <2> QED BY <2>1, <2>2
<1>8. KeysOf(a) \subseteq KeysOf(q) \cup Range(c.keys)
  BY <1>3 DEF KeysOf
<1> QED BY <1>1, <1>5, <1>7, <1>8 DEF a, GoodQueue

(* A queue of one.                                                         *)
LEMMA QueueOfOne ==
    ASSUME NEW T, NEW c \in Requests, GoodInput(T, c)
    PROVE  /\ <<c>> \in Seq(Requests) /\ GoodQueue(T, <<c>>)
           /\ KeysOf(<<c>>) = Range(c.keys)
<1>1. DOMAIN <<c>> = {1} /\ <<c>>[1] = c /\ <<c>> \in Seq(Requests)
  OBVIOUS
<1> DEFINE q == <<c>>
<1> HIDE DEF q
<1>2. DOMAIN q = {1} /\ q[1] = c
  BY <1>1 DEF q
<1>3. GoodQueue(T, q) /\ KeysOf(q) = Range(c.keys)
  BY <1>2 DEF GoodQueue, KeysOf
<1> QED BY <1>1, <1>3 DEF q

(* Every key of a queue was typed.                                         *)
LEMMA QueuedWasTyped ==
    ASSUME NEW T, NEW q, GoodQueue(T, q)
    PROVE  KeysOf(q) \subseteq DOMAIN T
  BY DEF GoodQueue, GoodInput, TypedFor, KeysOf, Range

----------------------------------------------------------------------------
(* The stages.                                                             *)

(* A stage may lose keys.                                                  *)
LEMMA StagesShrink ==
    ASSUME NEW D, NEW L, NEW H, NEW R, NEW F, NEW C,
           NEW E, NEW M, NEW I, NEW S, NEW G, NEW B,
           Stages(D, L, H, R, F, C),
           E \subseteq D, M \subseteq L, I \subseteq H, S \subseteq R,
           G \subseteq F, B \subseteq C
    PROVE  Stages(E, M, I, S, G, B)
  BY DEF Stages, Lower

(* The keys a batch is made of become its input.                           *)
LEMMA StagesTake ==
    ASSUME NEW D, NEW L, NEW H, NEW R, NEW F, NEW C, NEW K, NEW B,
           Stages(D, L, H, R, F, C), K \cup B \subseteq F \cup C, Lower(K, B)
    PROVE  Stages(D, L, H, K, {}, B)
  BY DEF Stages, Lower

(* A batch that is sent is a request.                                      *)
LEMMA StagesSend ==
    ASSUME NEW D, NEW L, NEW H, NEW R, NEW F, NEW C, NEW M,
           Stages(D, L, H, R, F, C), M \subseteq L \cup H
    PROVE  Stages(D, M, {}, R, F, C)
  BY DEF Stages, Lower

(* So is a chunk of what is left, or it is the next batch.                 *)
LEMMA StagesChunk ==
    ASSUME NEW D, NEW L, NEW H, NEW R, NEW F, NEW C, NEW U, NEW S,
           Stages(D, L, H, R, F, C), Lower(U, S), U \cup S \subseteq R
    PROVE  /\ Stages(D, L, H \cup U, S, F, C)
           /\ H = {} => Stages(D, L \cup U, {}, S, F, C)
  BY DEF Stages, Lower

(* The oldest request is written.                                          *)
LEMMA StagesWrite ==
    ASSUME NEW D, NEW L, NEW H, NEW R, NEW F, NEW C, NEW E, NEW M, NEW W,
           Stages(D, L, H, R, F, C), Lower(W, M), W \cup M \subseteq L,
           E \subseteq D \cup W
    PROVE  Stages(E, M, H, R, F, C)
  BY DEF Stages, Lower

(* New keys are behind everything.                                         *)
LEMMA StagesType ==
    ASSUME NEW D, NEW L, NEW H, NEW R, NEW F, NEW C, NEW N, NEW B, NEW m \in Nat,
           Stages(D, L, H, R, F, C),
           D \cup L \cup H \cup R \cup F \cup C \subseteq 1 .. m,
           \A k \in N : k \in Nat /\ k > m,
           B \subseteq C \cup N
    PROVE  Stages(D, L, H, R, F, B)
<1>1. \A A : A \subseteq 1 .. m => Lower(A, N)
  BY DEF Lower
<1> QED BY <1>1 DEF Stages, Lower

----------------------------------------------------------------------------
(* The sender.                                                             *)

(* A batch takes what fits of some input, and is sent when it is full.     *)
LEMMA FillStep ==
    ASSUME NEW T, NEW s \in InputSessions \cup {Nowhere},
           NEW b \in Seq(Nat), NEW input \in Seq(Nat), NEW D, NEW C,
           line \in Seq(Requests), GoodQueue(T, line), Len(b) < BatchKeys,
           Rising(b), TypedFor(T, b, s), Rising(input), TypedFor(T, input, s),
           Stages(D, KeysOf(line), Range(b), Range(input), {}, C),
           Fill(s, b, input)
    PROVE  /\ sender' \in Senders /\ SenderFits(T, sender')
           /\ sender'.deferred = <<>> /\ sender'.session = s
           /\ line' \in Seq(Requests) /\ GoodQueue(T, line')
           /\ Stages(D, KeysOf(line'), Range(Held(sender')),
                     Range(sender'.rest), KeysOf(sender'.deferred), C)
<1> DEFINE room == BatchKeys - Len(b)
           U == Upto(input, room)
           S == Beyond(input, room)
           all == b \o U
           full == Len(all) = BatchKeys
<1>1. BatchKeys \in Nat /\ Len(b) \in Nat /\ Len(input) \in Nat /\ room \in Nat
  BY InputAssumption
<1>2. /\ sender' = [Idle EXCEPT !.phase = IF full THEN "sending" ELSE "batching",
                               !.session = s, !.batch = all, !.rest = S]
      /\ IF full THEN line' = Append(line, [session |-> s, keys |-> all])
                 ELSE line' = line
  BY DEF Fill, Send
<1>3. /\ U \in Seq(Nat) /\ S \in Seq(Nat)
      /\ Len(U) = IF room < Len(input) THEN room ELSE Len(input)
      /\ Len(input) <= room => S = <<>>
  BY <1>1, Chunks
<1>4. /\ Rising(U) /\ TypedFor(T, U, s) /\ Rising(S) /\ TypedFor(T, S, s)
      /\ Lower(Range(U), Range(S))
      /\ Range(U) \subseteq Range(input) /\ Range(S) \subseteq Range(input)
  BY <1>1, ChunksFit
<1> HIDE DEF room, U, S
<1>5. Lower(Range(b), Range(U))
  BY <1>4 DEF Stages, Lower
<1>6. /\ all \in Seq(Nat) /\ Rising(all) /\ TypedFor(T, all, s)
      /\ Range(all) \subseteq Range(b) \cup Range(U)
  BY <1>3, <1>4, <1>5, Joined
<1>7. Len(all) = Len(b) + Len(U)
  BY <1>3, ConcatProperties
<1>8. Len(all) <= BatchKeys /\ (~full => S = <<>>)
  BY <1>1, <1>3, <1>7 DEF room
<1> HIDE DEF all
<1>9. /\ sender'.phase = IF full THEN "sending" ELSE "batching"
      /\ sender'.session = s /\ sender'.batch = all /\ sender'.rest = S
      /\ sender'.deferred = <<>> /\ sender' \in Senders
  BY <1>2, <1>3, <1>6, NoKeys DEF Idle, Senders
<1>10. SenderFits(T, sender')
  <2>1. CASE full
    BY <2>1, <1>4, <1>9, NoKeys DEF SenderFits, Held
  <2>2. CASE ~full
    <3>1. Len(all) < BatchKeys
      BY <1>1, <1>6, <1>8, <2>2
    <3> QED BY <2>2, <3>1, <1>4, <1>6, <1>8, <1>9 DEF SenderFits, Held
  <2> QED BY <2>1, <2>2
<1>11. KeysOf(sender'.deferred) = {}
  BY <1>9, NoKeys
<1>12. Stages(D, KeysOf(line), Range(all), Range(S), {}, C)
  <2>1. Stages(D, KeysOf(line), Range(b) \cup Range(U), Range(S), {}, C)
    BY <1>4, StagesChunk
  <2> QED BY <2>1, <1>6, StagesShrink
<1>13. CASE full
  <2> DEFINE c == [session |-> s, keys |-> all]
  <2>1. c \in Requests /\ c.keys = all /\ c.session = s
    BY <1>6 DEF Requests
  <2>2. GoodInput(T, c)
    BY <2>1, <1>6 DEF GoodInput
  <2>3. Lower(KeysOf(line), Range(c.keys))
    BY <2>1, <1>12 DEF Stages
  <2>4. line' = Append(line, c)
    BY <1>2, <1>13
  <2> HIDE DEF c
  <2>5. /\ line' \in Seq(Requests) /\ GoodQueue(T, line')
        /\ KeysOf(line') \subseteq KeysOf(line) \cup Range(all)
    BY <2>1, <2>2, <2>3, <2>4, QueueAppend
  <2>6. Range(Held(sender')) = {}
    BY <1>9, <1>13, NoKeys DEF Held
  <2>7. Stages(D, KeysOf(line'), {}, Range(S), {}, C)
    BY <2>5, <1>12, StagesSend
  <2> QED BY <2>5, <2>6, <2>7, <1>9, <1>10, <1>11
<1>14. CASE ~full
  <2>1. line' = line /\ Held(sender') = all
    BY <1>2, <1>9, <1>14 DEF Held
  <2> QED BY <2>1, <1>9, <1>10, <1>11, <1>12, <1>14
<1> QED BY <1>13, <1>14

(* A batch is sent and the loop left.                                      *)
LEMMA FlushStep ==
    ASSUME NEW T, NEW deferred \in Seq(Requests), NEW D, NEW C,
           sender \in Senders, sender.phase = "batching", SenderFits(T, sender),
           line \in Seq(Requests), GoodQueue(T, line),
           Stages(D, KeysOf(line), Range(sender.batch), Range(sender.rest),
                  KeysOf(deferred), C),
           Flush(deferred)
    PROVE  /\ sender' \in Senders /\ SenderFits(T, sender')
           /\ sender'.deferred = deferred /\ sender'.phase # "batching"
           /\ line' \in Seq(Requests) /\ GoodQueue(T, line')
           /\ Stages(D, KeysOf(line'), Range(Held(sender')),
                     Range(sender'.rest), KeysOf(sender'.deferred), C)
<1>0. /\ Rising(sender.batch) /\ TypedFor(T, sender.batch, sender.session)
      /\ Rising(sender.rest) /\ TypedFor(T, sender.rest, sender.session)
  BY DEF SenderFits, Held
<1>1. CASE sender.batch = <<>>
  <2>1. sender' = [Idle EXCEPT !.deferred = deferred] /\ line' = line
    BY <1>1 DEF Flush
  <2>2. /\ sender'.phase = "idle" /\ sender'.batch = <<>>
        /\ sender'.rest = <<>> /\ sender'.deferred = deferred
        /\ sender' \in Senders
    BY <2>1, NoKeys DEF Idle, Senders
  <2>3. SenderFits(T, sender') /\ Held(sender') = <<>>
    BY <2>2, NoKeys DEF SenderFits, Held
  <2>4. Stages(D, KeysOf(line'), {}, {}, KeysOf(deferred), C)
    BY <2>1, StagesShrink
  <2> QED BY <2>1, <2>2, <2>3, <2>4, NoKeys
<1>2. CASE sender.batch # <<>>
  <2> DEFINE c == [session |-> sender.session, keys |-> sender.batch]
  <2>1. /\ sender' = [sender EXCEPT !.phase = "sending", !.last = TRUE,
                                  !.deferred = deferred]
        /\ line' = Append(line, c)
    BY <1>2 DEF Flush, Send
  <2>2. /\ sender'.phase = "sending" /\ sender'.rest = sender.rest
        /\ sender'.session = sender.session
        /\ sender'.deferred = deferred /\ sender' \in Senders
    BY <2>1 DEF Senders
  <2>3. SenderFits(T, sender') /\ Held(sender') = <<>>
    BY <2>2, <1>0, NoKeys DEF SenderFits, Held
  <2>4. c \in Requests /\ c.keys = sender.batch /\ c.session = sender.session
    BY DEF Requests, Senders
  <2>5. GoodInput(T, c) /\ Lower(KeysOf(line), Range(c.keys))
    BY <2>4, <1>0 DEF GoodInput, Stages
  <2> HIDE DEF c
  <2>6. /\ line' \in Seq(Requests) /\ GoodQueue(T, line')
        /\ KeysOf(line') \subseteq KeysOf(line) \cup Range(sender.batch)
    BY <2>1, <2>4, <2>5, QueueAppend
  <2>7. Stages(D, KeysOf(line'), {}, Range(sender.rest), KeysOf(deferred), C)
    BY <2>6, StagesSend
  <2> QED BY <2>2, <2>3, <2>6, <2>7, NoKeys
<1> QED BY <1>1, <1>2

----------------------------------------------------------------------------
(* The steps of the sender.                                                *)

(* The first command starts a batch.                                       *)
LEMMA TakeCommandKeeps ==
    InputInv /\ TakeCommand => InputInv'
<1> SUFFICES ASSUME InputInv, TakeCommand PROVE InputInv'
  OBVIOUS
<1> DEFINE T == typist.typed
           D == Received(delivered)
           q == sender.deferred \o commands
           first == IF sender.deferred = <<>> THEN commands ELSE sender.deferred
<1>1. /\ InputTypeOK /\ OnePump /\ GoodQueue(T, commands) /\ GoodQueue(T, line)
      /\ GoodQueue(T, sender.deferred) /\ SenderFits(T, sender)
      /\ \A s \in InputSessions : Rising(delivered[s]) /\ TypedFor(T, delivered[s], s)
      /\ Stages(D, KeysOf(line), Range(Held(sender)), Range(sender.rest),
                KeysOf(sender.deferred), KeysOf(commands))
  BY DEF InputInv, AllFit, InStages
<1>2. /\ application = "desktop" /\ sender.phase = "idle" /\ q # <<>>
      /\ IF Head(q) = Boundary THEN sender' = Idle /\ line' = line
         ELSE Fill(Head(q).session, <<>>, Head(q).keys)
      /\ commands' = IF sender.deferred = <<>> THEN Tail(commands) ELSE commands
      /\ UNCHANGED <<application, typist, delivered, notices>>
  BY DEF TakeCommand
<1>3. sender.deferred \in Seq(Requests) /\ commands \in Seq(Requests)
  BY <1>1 DEF InputTypeOK, Senders
<1>4. first \in Seq(Requests) /\ first # <<>> /\ Head(q) = Head(first)
  <2>1. CASE sender.deferred = <<>>
    BY <1>2, <1>3, <2>1
  <2>2. CASE sender.deferred # <<>>
    BY <1>3, <2>2
  <2> QED BY <2>1, <2>2
<1> DEFINE c == Head(first)
<1>5. /\ c \in Requests /\ GoodInput(T, c) /\ GoodQueue(T, Tail(first))
      /\ Tail(first) \in Seq(Requests)
      /\ Range(c.keys) \subseteq KeysOf(first)
      /\ KeysOf(Tail(first)) \subseteq KeysOf(first)
      /\ Lower(Range(c.keys), KeysOf(Tail(first)))
  <2>1. GoodQueue(T, first)
    BY <1>1
  <2> HIDE DEF first, T
  <2> QED BY <1>4, <2>1, QueueParts
<1>6. /\ commands' \in Seq(Requests) /\ GoodQueue(T, commands')
      /\ KeysOf(commands') \subseteq KeysOf(commands)
      /\ Lower(Range(c.keys), KeysOf(commands'))
      /\ Range(c.keys) \subseteq KeysOf(sender.deferred) \cup KeysOf(commands)
  <2>1. CASE sender.deferred = <<>>
    BY <1>2, <1>5, <2>1
  <2>2. CASE sender.deferred # <<>>
    <3>1. Lower(KeysOf(sender.deferred), KeysOf(commands))
      BY <1>1 DEF Stages
    <3>2. Lower(Range(c.keys), KeysOf(commands))
      BY <3>1, <1>5, <2>2 DEF Lower
    <3> QED BY <1>1, <1>2, <1>3, <1>5, <2>2, <3>2
  <2> QED BY <2>1, <2>2
<1>7. Stages(D, KeysOf(line), {}, Range(c.keys), {}, KeysOf(commands'))
  <2>1. Stages(D, KeysOf(line), {}, Range(sender.rest),
               KeysOf(sender.deferred), KeysOf(commands))
    BY <1>1, StagesShrink
  <2> HIDE DEF c, D
  <2> QED BY <2>1, <1>6, StagesTake
<1>8. /\ sender' \in Senders /\ SenderFits(T, sender')
      /\ sender'.deferred = <<>>
      /\ line' \in Seq(Requests) /\ GoodQueue(T, line')
      /\ Stages(D, KeysOf(line'), Range(Held(sender')), Range(sender'.rest),
                KeysOf(sender'.deferred), KeysOf(commands'))
  <2>1. CASE Head(q) = Boundary
    <3>1. sender' = Idle /\ line' = line
      BY <1>2, <2>1
    <3>2. /\ sender'.phase = "idle" /\ sender'.batch = <<>>
          /\ sender'.rest = <<>> /\ sender'.deferred = <<>>
          /\ sender' \in Senders
      BY <3>1, NoKeys DEF Idle, Senders
    <3>3. SenderFits(T, sender') /\ Held(sender') = <<>>
      BY <3>2, NoKeys DEF SenderFits, Held
    <3>4. Stages(D, KeysOf(line), {}, {}, {}, KeysOf(commands'))
      BY <1>7, StagesShrink
    <3> QED BY <1>1, <3>1, <3>2, <3>3, <3>4, NoKeys DEF InputTypeOK
  <2>2. CASE Head(q) # Boundary
    <3>1. Fill(c.session, <<>>, c.keys)
      BY <1>2, <1>4, <2>2
    <3>2. /\ c.session \in InputSessions \cup {Nowhere} /\ c.keys \in Seq(Nat)
          /\ Rising(c.keys) /\ TypedFor(T, c.keys, c.session)
      BY <1>5 DEF Requests, GoodInput
    <3>3. line \in Seq(Requests) /\ Len(<<>>) < BatchKeys
      BY <1>1, InputAssumption DEF InputTypeOK
    <3>4. /\ <<>> \in Seq(Nat) /\ Rising(<<>>) /\ Range(<<>>) = {}
          /\ TypedFor(T, <<>>, c.session)
      BY NoKeys
    <3> HIDE DEF c, T, D
    <3>5. Stages(D, KeysOf(line), Range(<<>>), Range(c.keys), {}, KeysOf(commands'))
      BY <1>7, <3>4
    <3> QED BY <1>1, <3>1, <3>2, <3>3, <3>4, <3>5, FillStep
  <2> QED BY <2>1, <2>2
<1>9. InputTypeOK'
  BY <1>1, <1>2, <1>6, <1>8 DEF InputTypeOK
<1>10. OnePump'
  BY <1>2 DEF OnePump
<1>11. AllFit(T, line', sender', commands', delivered)
  BY <1>1, <1>6, <1>8, NoKeys DEF AllFit, InStages
<1> QED BY <1>2, <1>9, <1>10, <1>11 DEF InputInv

(* More input joins the batch.                                             *)
LEMMA JoinFits ==
    ASSUME InputInv, sender.phase \in {"idle", "batching"}, commands # <<>>,
           sender.phase = "batching" => Head(commands).session = sender.session,
           commands' = Tail(commands),
           Fill(Head(commands).session, sender.batch, Head(commands).keys),
           UNCHANGED <<application, typist, delivered, notices>>
    PROVE  /\ InputTypeOK'
           /\ AllFit(typist.typed, line', sender', commands', delivered)
           /\ sender'.deferred = <<>>
           /\ sender'.session = Head(commands).session
<1> DEFINE T == typist.typed
           D == Received(delivered)
           c == Head(commands)
           b == sender.batch
<1>1. /\ InputTypeOK /\ GoodQueue(T, commands) /\ GoodQueue(T, line)
      /\ SenderFits(T, sender)
      /\ \A s \in InputSessions : Rising(delivered[s]) /\ TypedFor(T, delivered[s], s)
      /\ Stages(D, KeysOf(line), Range(Held(sender)), Range(sender.rest),
                KeysOf(sender.deferred), KeysOf(commands))
  BY DEF InputInv, AllFit, InStages
<1>2. /\ commands \in Seq(Requests) /\ line \in Seq(Requests)
      /\ b \in Seq(Nat) /\ BatchKeys \in Nat \ {0}
  BY <1>1, InputAssumption DEF InputTypeOK, Senders
<1>3. /\ c \in Requests /\ GoodInput(T, c) /\ GoodQueue(T, commands')
      /\ commands' \in Seq(Requests)
      /\ Range(c.keys) \subseteq KeysOf(commands)
      /\ KeysOf(commands') \subseteq KeysOf(commands)
      /\ Lower(Range(c.keys), KeysOf(commands'))
  BY <1>1, <1>2, QueueParts
<1>4. /\ Len(b) < BatchKeys /\ Rising(b) /\ TypedFor(T, b, c.session)
      /\ Held(sender) = b
  <2>1. CASE sender.phase = "idle"
    BY <1>1, <1>2, <2>1, NoKeys DEF SenderFits, Held
  <2>2. CASE sender.phase = "batching"
    BY <1>1, <2>2 DEF SenderFits, Held
  <2> QED BY <2>1, <2>2
<1>5. /\ c.session \in InputSessions \cup {Nowhere} /\ c.keys \in Seq(Nat)
      /\ Rising(c.keys) /\ TypedFor(T, c.keys, c.session)
  BY <1>3 DEF Requests, GoodInput
<1>6. Stages(D, KeysOf(line), Range(b), Range(c.keys), {}, KeysOf(commands'))
  <2>1. Stages(D, KeysOf(line), Range(b), Range(sender.rest),
               KeysOf(sender.deferred), KeysOf(commands))
    BY <1>1, <1>4
  <2> HIDE DEF c, D, b
  <2> QED BY <2>1, <1>3, StagesTake
<1>7. Fill(c.session, b, c.keys)
  OBVIOUS
<1> HIDE DEF T, D, c, b
<1>8. /\ sender' \in Senders /\ SenderFits(T, sender')
      /\ sender'.deferred = <<>> /\ sender'.session = c.session
      /\ line' \in Seq(Requests) /\ GoodQueue(T, line')
      /\ Stages(D, KeysOf(line'), Range(Held(sender')), Range(sender'.rest),
                KeysOf(sender'.deferred), KeysOf(commands'))
  BY <1>1, <1>2, <1>4, <1>5, <1>6, <1>7, FillStep
<1>9. InputTypeOK'
  BY <1>1, <1>3, <1>8 DEF InputTypeOK
<1>10. AllFit(T, line', sender', commands', delivered)
  BY <1>1, <1>3, <1>8, NoKeys DEF AllFit, InStages, D
<1> QED BY <1>8, <1>9, <1>10 DEF T, c

(* The batch ends, by itself or by a command.                              *)
LEMMA EndFits ==
    ASSUME InputInv, sender.phase = "batching",
           NEW deferred, Flush(deferred),
           \/ deferred = <<>> /\ commands' = commands
           \/ /\ commands # <<>> /\ deferred = <<Head(commands)>>
              /\ commands' = Tail(commands),
           UNCHANGED <<application, typist, delivered, notices>>
    PROVE  /\ InputTypeOK'
           /\ AllFit(typist.typed, line', sender', commands', delivered)
           /\ sender'.deferred = deferred
           /\ sender'.phase # "batching"
<1> DEFINE T == typist.typed
           D == Received(delivered)
<1>1. /\ InputTypeOK /\ GoodQueue(T, commands) /\ GoodQueue(T, line)
      /\ SenderFits(T, sender)
      /\ \A s \in InputSessions : Rising(delivered[s]) /\ TypedFor(T, delivered[s], s)
      /\ Stages(D, KeysOf(line), Range(Held(sender)), Range(sender.rest),
                KeysOf(sender.deferred), KeysOf(commands))
  BY DEF InputInv, AllFit, InStages
<1>2. /\ commands \in Seq(Requests) /\ line \in Seq(Requests)
      /\ sender \in Senders /\ Held(sender) = sender.batch
  BY <1>1 DEF InputTypeOK, Held
<1>3. /\ deferred \in Seq(Requests) /\ GoodQueue(T, deferred)
      /\ commands' \in Seq(Requests) /\ GoodQueue(T, commands')
      /\ Stages(D, KeysOf(line), Range(sender.batch), Range(sender.rest),
                KeysOf(deferred), KeysOf(commands'))
  <2>1. CASE deferred = <<>> /\ commands' = commands
    <3>1. Stages(D, KeysOf(line), Range(sender.batch), Range(sender.rest),
                 {}, KeysOf(commands))
      BY <1>1, <1>2, StagesShrink
    <3> QED BY <1>1, <1>2, <2>1, <3>1, NoKeys
  <2>2. CASE /\ commands # <<>> /\ deferred = <<Head(commands)>>
             /\ commands' = Tail(commands)
    <3> DEFINE c == Head(commands)
    <3>1. /\ c \in Requests /\ GoodInput(T, c) /\ GoodQueue(T, commands')
          /\ commands' \in Seq(Requests)
          /\ Range(c.keys) \subseteq KeysOf(commands)
          /\ KeysOf(commands') \subseteq KeysOf(commands)
          /\ Lower(Range(c.keys), KeysOf(commands'))
      BY <1>1, <1>2, <2>2, QueueParts
    <3>2. /\ deferred \in Seq(Requests) /\ GoodQueue(T, deferred)
          /\ KeysOf(deferred) = Range(c.keys)
      BY <2>2, <3>1, QueueOfOne
    <3>3. Stages(D, KeysOf(line), Range(sender.batch), Range(sender.rest),
                 KeysOf(sender.deferred), KeysOf(commands))
      BY <1>1, <1>2
    <3> HIDE DEF c, D
    <3>4. Stages(D, KeysOf(line), Range(sender.batch), Range(sender.rest),
                 Range(c.keys), KeysOf(commands'))
      BY <3>1, <3>3 DEF Stages, Lower
    <3> QED BY <3>1, <3>2, <3>4
  <2> QED BY <2>1, <2>2
<1> HIDE DEF T, D
<1>4. /\ sender' \in Senders /\ SenderFits(T, sender')
      /\ sender'.deferred = deferred /\ sender'.phase # "batching"
      /\ line' \in Seq(Requests) /\ GoodQueue(T, line')
      /\ Stages(D, KeysOf(line'), Range(Held(sender')), Range(sender'.rest),
                KeysOf(sender'.deferred), KeysOf(commands'))
  BY <1>1, <1>2, <1>3, FlushStep
<1>5. InputTypeOK'
  BY <1>1, <1>3, <1>4 DEF InputTypeOK
<1>6. AllFit(T, line', sender', commands', delivered)
  BY <1>1, <1>3, <1>4 DEF AllFit, InStages, D
<1> QED BY <1>4, <1>5, <1>6 DEF T

(* The desktop's batch.                                                    *)
LEMMA CoalesceKeeps ==
    InputInv /\ Coalesce => InputInv'
<1> SUFFICES ASSUME InputInv, Coalesce PROVE InputInv'
  OBVIOUS
<1>1. /\ application = "desktop" /\ sender.phase = "batching"
      /\ UNCHANGED <<application, typist, delivered, notices>>
  BY DEF Coalesce
<1>2. OnePump'
  BY <1>1 DEF OnePump
<1>3. /\ InputTypeOK'
      /\ AllFit(typist.typed, line', sender', commands', delivered)
  <2>1. CASE /\ commands # <<>> /\ commands' = Tail(commands)
             /\ Head(commands).session = sender.session
             /\ Fill(sender.session, sender.batch, Head(commands).keys)
    <3>1. Fill(Head(commands).session, sender.batch, Head(commands).keys)
      BY <2>1
    <3> QED BY <1>1, <2>1, <3>1, JoinFits
  <2>2. CASE /\ commands # <<>> /\ commands' = Tail(commands)
             /\ Flush(<<Head(commands)>>)
    BY <1>1, <2>2, EndFits
  <2>3. CASE Flush(<<>>) /\ commands' = commands
    BY <1>1, <2>3, EndFits
  <2> QED BY <2>1, <2>2, <2>3 DEF Coalesce
<1> QED BY <1>1, <1>2, <1>3 DEF InputInv

(* The pump's.                                                             *)
LEMMA TakeQueuedKeeps ==
    InputInv /\ TakeQueued => InputInv'
<1> SUFFICES ASSUME InputInv, TakeQueued PROVE InputInv'
  OBVIOUS
<1>1. /\ application = "terminal" /\ sender.phase \in {"idle", "batching"}
      /\ UNCHANGED <<application, typist, delivered, notices>>
  BY DEF TakeQueued
<1>2. /\ notices.errors = {}
      /\ \A i \in DOMAIN commands : commands[i].session = typist.target
      /\ sender.phase = "batching" => sender.session = typist.target
  BY <1>1 DEF InputInv, OnePump
<1>3. commands \in Seq(Requests)
  BY DEF InputInv, InputTypeOK
<1>4. CASE /\ commands # <<>> /\ commands' = Tail(commands)
           /\ Fill(Head(commands).session, sender.batch, Head(commands).keys)
  <2>1. Head(commands).session = typist.target
    BY <1>2, <1>3, <1>4
  <2>2. /\ InputTypeOK'
        /\ AllFit(typist.typed, line', sender', commands', delivered)
        /\ sender'.deferred = <<>> /\ sender'.session = typist.target
    BY <1>1, <1>2, <1>4, <2>1, JoinFits
  <2>3. \A i \in DOMAIN commands' : commands'[i].session = typist.target
    BY <1>2, <1>3, <1>4
  <2> QED BY <1>1, <1>2, <2>2, <2>3 DEF InputInv, OnePump
<1>5. CASE commands = <<>> /\ sender.phase = "batching" /\ Flush(<<>>) /\ commands' = commands
  <2>1. /\ InputTypeOK'
        /\ AllFit(typist.typed, line', sender', commands', delivered)
        /\ sender'.deferred = <<>> /\ sender'.phase # "batching"
    BY <1>1, <1>5, EndFits
  <2> QED BY <1>1, <1>2, <1>5, <2>1 DEF InputInv, OnePump
<1> QED BY <1>4, <1>5 DEF TakeQueued

----------------------------------------------------------------------------
(* The daemon, and what becomes of a request.                              *)

(* The sender goes on after its last request: d is what is written by now. *)
LEMMA ProceedFits ==
    ASSUME NEW T, NEW D, NEW C, sender \in Senders, sender.phase = "sending",
           SenderFits(T, sender), GoodQueue(T, sender.deferred),
           Stages(D, {}, Range(Held(sender)), Range(sender.rest),
                  KeysOf(sender.deferred), C),
           Proceed
    PROVE  /\ sender' \in Senders /\ SenderFits(T, sender')
           /\ GoodQueue(T, sender'.deferred)
           /\ line' \in Seq(Requests) /\ GoodQueue(T, line')
           /\ Stages(D, KeysOf(line'), Range(Held(sender')), Range(sender'.rest),
                     KeysOf(sender'.deferred), C)
           /\ sender.deferred = <<>> => sender'.deferred = <<>>
           /\ application = "terminal" => sender'.phase # "batching"
<1> DEFINE s == sender.session
           rest == sender.rest
           U == Upto(rest, BatchKeys)
           S == Beyond(rest, BatchKeys)
           F == KeysOf(sender.deferred)
           c == [session |-> s, keys |-> U]
<1>1. /\ BatchKeys \in Nat /\ rest \in Seq(Nat) /\ s \in InputSessions \cup {Nowhere}
      /\ Rising(rest) /\ TypedFor(T, rest, s)
  BY InputAssumption DEF Senders, SenderFits
<1>2. /\ U \in Seq(Nat) /\ S \in Seq(Nat)
      /\ Len(U) = IF BatchKeys < Len(rest) THEN BatchKeys ELSE Len(rest)
      /\ Len(rest) <= BatchKeys => S = <<>>
  BY <1>1, Chunks
<1>3. /\ Rising(U) /\ TypedFor(T, U, s) /\ Rising(S) /\ TypedFor(T, S, s)
      /\ Lower(Range(U), Range(S))
      /\ Range(U) \subseteq Range(rest) /\ Range(S) \subseteq Range(rest)
  BY <1>1, ChunksFit
<1>4. Stages(D, {}, {}, Range(rest), F, C)
  BY StagesShrink
<1>5. /\ Stages(D, Range(U), {}, Range(S), F, C)
      /\ Stages(D, {}, Range(U), Range(S), F, C)
  BY <1>3, <1>4 DEF Stages, Lower
<1>6. c \in Requests /\ c.keys = U /\ GoodInput(T, c)
  BY <1>1, <1>2, <1>3 DEF Requests, GoodInput
<1>7. <<c>> \in Seq(Requests) /\ GoodQueue(T, <<c>>) /\ KeysOf(<<c>>) = Range(U)
  <2> HIDE DEF c
  <2> QED BY <1>6, QueueOfOne
<1>8. sender.deferred \in Seq(Requests)
  BY DEF Senders
<1> HIDE DEF U, S, F
<1>9. CASE /\ sender' = [Idle EXCEPT !.deferred = sender.deferred]
           /\ line' = <<>>
  <2>1. /\ sender'.phase = "idle" /\ sender'.batch = <<>> /\ sender'.rest = <<>>
        /\ sender'.deferred = sender.deferred /\ sender' \in Senders
    BY <1>8, <1>9, NoKeys DEF Idle, Senders
  <2>2. SenderFits(T, sender') /\ Held(sender') = <<>>
    BY <2>1, NoKeys DEF SenderFits, Held
  <2>3. Stages(D, {}, {}, {}, F, C)
    BY <1>4, StagesShrink
  <2> QED BY <1>9, <2>1, <2>2, <2>3, NoKeys DEF F
<1>10. CASE /\ sender' = [sender EXCEPT !.phase = "sending", !.batch = U, !.rest = S]
            /\ line' = <<c>>
  <2>1. /\ sender'.phase = "sending" /\ sender'.session = s /\ sender'.rest = S
        /\ sender'.deferred = sender.deferred /\ sender' \in Senders
    BY <1>2, <1>10 DEF Senders
  <2>2. SenderFits(T, sender') /\ Held(sender') = <<>>
    BY <2>1, <1>3, NoKeys DEF SenderFits, Held
  <2> HIDE DEF c
  <2> QED BY <1>5, <1>7, <1>10, <2>1, <2>2, NoKeys DEF F
<1>11. CASE /\ application # "terminal" /\ Len(rest) < BatchKeys
            /\ sender' = [sender EXCEPT !.phase = "batching", !.batch = U, !.rest = S]
            /\ line' = <<>>
  <2>1. /\ sender'.phase = "batching" /\ sender'.session = s /\ sender'.rest = S
        /\ sender'.batch = U
        /\ sender'.deferred = sender.deferred /\ sender' \in Senders
    BY <1>2, <1>11 DEF Senders
  <2>2. S = <<>> /\ Len(U) < BatchKeys
    BY <1>1, <1>2, <1>11
  <2>3. SenderFits(T, sender') /\ Held(sender') = U
    BY <2>1, <2>2, <1>3, NoKeys DEF SenderFits, Held
  <2> QED BY <1>5, <1>11, <2>1, <2>3, NoKeys DEF F
<1>13. CASE application = "desktop"
  <2>1. CASE sender.last
    BY <1>9, <1>13, <2>1 DEF Proceed
  <2>2. CASE ~sender.last
    <3>1. CASE Len(rest) >= BatchKeys
      BY <1>10, <1>13, <2>2, <3>1 DEF Proceed, U, S
    <3>2. CASE ~(Len(rest) >= BatchKeys)
      <4>1. Len(rest) < BatchKeys
        BY <1>1, <3>2
      <4> QED BY <1>11, <1>13, <2>2, <3>2, <4>1 DEF Proceed, U, S
    <3> QED BY <3>1, <3>2
  <2> QED BY <2>1, <2>2
<1>14. CASE application # "desktop"
  <2>1. CASE rest = <<>>
    <3>1. sender' = Idle /\ line' = <<>>
      BY <1>14, <2>1 DEF Proceed
    <3>2. /\ sender'.phase = "idle" /\ sender'.batch = <<>> /\ sender'.rest = <<>>
          /\ sender'.deferred = <<>> /\ sender' \in Senders
      BY <3>1, NoKeys DEF Idle, Senders
    <3>3. SenderFits(T, sender') /\ Held(sender') = <<>>
      BY <3>2, NoKeys DEF SenderFits, Held
    <3>4. Stages(D, {}, {}, {}, {}, C)
      BY <1>4, StagesShrink
    <3> QED BY <3>1, <3>2, <3>3, <3>4, NoKeys
  <2>2. CASE rest # <<>>
    <3>1. /\ sender' = [sender EXCEPT !.batch = U, !.rest = S]
          /\ line' = <<c>>
      BY <1>14, <2>2 DEF Proceed, U, S
    <3>2. sender' = [sender EXCEPT !.phase = "sending", !.batch = U, !.rest = S]
      BY <3>1 DEF Senders
    <3> QED BY <1>10, <3>1, <3>2
  <2> QED BY <2>1, <2>2
<1> QED BY <1>13, <1>14

(* The sender learns that its request failed, and has nothing left of it.  *)
LEMMA FailFits ==
    ASSUME InputTypeOK, Fail
    PROVE  /\ sender' \in Senders
           /\ \A T : SenderFits(T, sender')
           /\ Held(sender') = <<>> /\ sender'.rest = <<>>
           /\ sender'.phase # "batching"
           /\ sender'.deferred \in {sender.deferred, <<>>}
           /\ application = "terminal" => sender'.deferred = <<>>
           /\ commands' \in {commands, <<>>}
           /\ notices' \in Notices
           /\ application = "terminal" => notices'.errors = notices.errors
<1>1. /\ application \in {"desktop", "terminal"} /\ sender \in Senders
      /\ commands \in Seq(Requests) /\ notices \in Notices
  BY DEF InputTypeOK
<1>2. sender.deferred \in Seq(Requests) /\ <<>> \in Seq(Requests) /\ <<>> \in Seq(Nat)
  BY <1>1, NoKeys DEF Senders
<1>3. /\ sender' \in Senders /\ sender'.phase \in {"idle", "failed"}
      /\ sender'.batch = <<>> /\ sender'.rest = <<>>
      /\ sender'.deferred \in {sender.deferred, <<>>}
      /\ application = "terminal" => sender'.deferred = <<>>
      /\ commands' \in {commands, <<>>}
  BY <1>1, <1>2, ZenonT(120) DEF Fail, Idle, Senders
<1>4. Held(sender') = <<>>
  BY <1>3 DEF Held
<1>5. ASSUME NEW T PROVE SenderFits(T, sender')
  BY <1>3, <1>4, NoKeys DEF SenderFits
<1>6. KeysOf(commands) \subseteq Nat
  <2>1. ASSUME NEW i \in DOMAIN commands
        PROVE  commands[i].keys \in Seq(Nat)
    <3>1. commands[i] \in Requests
      BY <1>1
    <3> QED BY <3>1 DEF Requests
  <2> QED BY <2>1 DEF KeysOf, Range
<1>7. Range(sender.batch) \subseteq Nat /\ Range(sender.rest) \subseteq Nat
  <2>1. sender.batch \in Seq(Nat) /\ sender.rest \in Seq(Nat)
    BY <1>1 DEF Senders
  <2> QED BY <2>1 DEF Range
<1>8. sender.session \in InputSessions \cup {Nowhere}
  BY <1>1 DEF Senders
<1>9. /\ notices' \in Notices
      /\ application = "terminal" => notices'.errors = notices.errors
  <2> DEFINE A == Range(sender.batch)
             B == Range(sender.rest) \cup
                  IF application = "terminal" THEN KeysOf(commands) ELSE {}
             E == IF application = "desktop" THEN notices.errors \cup {sender.session}
                  ELSE notices.errors
  <2>1. notices' = [notices EXCEPT !.failed = @ \cup A, !.refused = @ \cup B,
                                   !.errors = E, !.failures = @ + 1]
    BY <1>1 DEF Fail, Notices
  <2>2. A \subseteq Nat /\ B \subseteq Nat
    BY <1>6, <1>7
  <2>3. E \subseteq InputSessions \cup {Nowhere} /\ (application = "terminal" => E = notices.errors)
    BY <1>1, <1>8 DEF Notices
  <2> HIDE DEF A, B, E
  <2>4. /\ notices.refused \subseteq Nat /\ notices.failed \subseteq Nat
        /\ notices.dropped \subseteq Nat /\ notices.failures \in Nat
    BY <1>1 DEF Notices
  <2>5. notices' = [refused |-> notices.refused \cup B, failed |-> notices.failed \cup A,
                    dropped |-> notices.dropped, errors |-> E,
                    failures |-> notices.failures + 1]
    BY <1>1, <2>1 DEF Notices
  <2>6. notices'.errors = E
    BY <2>5
  <2>7. /\ notices.refused \cup B \in SUBSET Nat /\ notices.failed \cup A \in SUBSET Nat
        /\ notices.dropped \in SUBSET Nat
        /\ E \in SUBSET (InputSessions \cup {Nowhere})
    BY <2>2, <2>3, <2>4, Zenon
  <2>8. notices.failures + 1 \in Nat
    BY <2>4
  <2>9. notices' \in Notices
    BY <2>5, <2>7, <2>8 DEF Notices
  <2> QED BY <2>3, <2>6, <2>9
<1> QED BY <1>3, <1>4, <1>5, <1>9

(* What a failure leaves fits.                                             *)
LEMMA FailureFits ==
    ASSUME NEW T, NEW D, NEW L, NEW w, NEW C,
           GoodQueue(T, sender.deferred), GoodQueue(T, commands),
           w.deferred \in {sender.deferred, <<>>}, C \in {commands, <<>>},
           Held(w) = <<>>, w.rest = <<>>,
           Stages(D, L, Range(Held(sender)), Range(sender.rest),
                  KeysOf(sender.deferred), KeysOf(commands))
    PROVE  /\ GoodQueue(T, w.deferred) /\ GoodQueue(T, C)
           /\ Stages(D, L, Range(Held(w)), Range(w.rest), KeysOf(w.deferred), KeysOf(C))
<1>1. /\ Range(Held(w)) = {} /\ Range(w.rest) = {}
      /\ KeysOf(w.deferred) \subseteq KeysOf(sender.deferred)
      /\ KeysOf(C) \subseteq KeysOf(commands)
  BY NoKeys
<1>2. Stages(D, L, Range(Held(w)), Range(w.rest), KeysOf(w.deferred), KeysOf(C))
  BY <1>1, StagesShrink
<1> QED BY <1>2, NoKeys

(* The oldest request is written.                                          *)
LEMMA WrittenFits ==
    ASSUME InputInv, line # <<>>
    PROVE  /\ Written \in [InputSessions -> Seq(Nat)]
           /\ \A s \in InputSessions : /\ Rising(Written[s])
                                       /\ TypedFor(typist.typed, Written[s], s)
           /\ Received(Written) \subseteq Received(delivered) \cup Range(Head(line).keys)
<1> DEFINE T == typist.typed
           c == Head(line)
           W == Written
<1>1. /\ line \in Seq(Requests) /\ delivered \in [InputSessions -> Seq(Nat)]
      /\ GoodQueue(T, line) /\ Lower(Received(delivered), KeysOf(line))
      /\ \A s \in InputSessions : Rising(delivered[s]) /\ TypedFor(T, delivered[s], s)
  BY DEF InputInv, InputTypeOK, AllFit, InStages, Stages
<1>2. /\ c \in Requests /\ GoodInput(T, c) /\ Range(c.keys) \subseteq KeysOf(line)
  BY <1>1, QueueParts
<1>3. c.keys \in Seq(Nat) /\ Rising(c.keys) /\ TypedFor(T, c.keys, c.session)
  BY <1>2 DEF Requests, GoodInput
<1>4. \A s \in InputSessions :
         W[s] = IF s = c.session THEN delivered[s] \o c.keys ELSE delivered[s]
  BY <1>1 DEF Written
<1>5. DOMAIN W = InputSessions /\ W = [s \in InputSessions |-> W[s]]
  BY <1>1 DEF Written
<1> HIDE DEF T, W, c
<1>6. ASSUME NEW s \in InputSessions
      PROVE  /\ W[s] \in Seq(Nat) /\ Rising(W[s]) /\ TypedFor(T, W[s], s)
             /\ Range(W[s]) \subseteq Range(delivered[s]) \cup Range(c.keys)
  <2>1. CASE s # c.session
    BY <1>1, <1>4, <2>1
  <2>2. CASE s = c.session
    <3>1. Lower(Range(delivered[s]), Range(c.keys))
      BY <1>1, <1>2 DEF Lower, Received
    <3>2. delivered[s] \in Seq(Nat)
      BY <1>1
    <3>3. TypedFor(T, c.keys, s) /\ W[s] = delivered[s] \o c.keys
      BY <1>3, <1>4, <2>2
    <3> QED BY <1>1, <1>3, <3>1, <3>2, <3>3, Joined
  <2> QED BY <2>1, <2>2
<1>7. Received(W) \subseteq Received(delivered) \cup Range(c.keys)
  BY <1>6 DEF Received
<1> QED BY <1>5, <1>6, <1>7 DEF T, W, c

(* The daemon serves a request, or refuses it, or its connection fails.    *)
LEMMA ServeInputKeeps ==
    InputInv /\ ServeInput => InputInv'
<1> SUFFICES ASSUME InputInv, ServeInput PROVE InputInv'
  OBVIOUS
<1> DEFINE T == typist.typed
           D == Received(delivered')
           c == Head(line)
<1>1. /\ InputTypeOK /\ OnePump /\ GoodQueue(T, commands) /\ GoodQueue(T, line)
      /\ GoodQueue(T, sender.deferred) /\ SenderFits(T, sender)
      /\ \A s \in InputSessions : Rising(delivered[s]) /\ TypedFor(T, delivered[s], s)
      /\ Stages(Received(delivered), KeysOf(line), Range(Held(sender)),
                Range(sender.rest), KeysOf(sender.deferred), KeysOf(commands))
  BY DEF InputInv, AllFit, InStages
<1>2. /\ line # <<>> /\ line \in Seq(Requests) /\ sender \in Senders
      /\ UNCHANGED <<application, typist>>
  BY <1>1 DEF ServeInput, InputTypeOK
<1>3. /\ Tail(line) \in Seq(Requests) /\ GoodQueue(T, Tail(line))
      /\ Range(c.keys) \subseteq KeysOf(line)
      /\ KeysOf(Tail(line)) \subseteq KeysOf(line)
      /\ Lower(Range(c.keys), KeysOf(Tail(line)))
      /\ Len(line) = 1 => Tail(line) = <<>>
  BY <1>1, <1>2, QueueParts
<1>4. /\ delivered' \in [InputSessions -> Seq(Nat)]
      /\ \A s \in InputSessions : Rising(delivered'[s]) /\ TypedFor(T, delivered'[s], s)
      /\ Received(delivered') \subseteq Received(delivered) \cup Range(c.keys)
  <2>1. CASE delivered' = Written
    BY <1>2, <2>1, WrittenFits
  <2>2. CASE delivered' = delivered
    BY <1>1, <2>2 DEF InputTypeOK
  <2> QED BY <2>1, <2>2 DEF ServeInput
<1> HIDE DEF c, T, D
<1>5. Stages(D, KeysOf(Tail(line)), Range(Held(sender)), Range(sender.rest),
             KeysOf(sender.deferred), KeysOf(commands))
  BY <1>1, <1>3, <1>4, StagesWrite DEF D
<1>6. CASE Awaited /\ Proceed /\ UNCHANGED <<commands, notices>>
  <2>1. sender.phase = "sending" /\ Tail(line) = <<>>
    BY <1>3, <1>6 DEF Awaited
  <2>2. Stages(D, {}, Range(Held(sender)), Range(sender.rest),
               KeysOf(sender.deferred), KeysOf(commands))
    BY <1>5, <2>1, NoKeys
  <2>3. /\ sender' \in Senders /\ SenderFits(T, sender')
        /\ GoodQueue(T, sender'.deferred)
        /\ line' \in Seq(Requests) /\ GoodQueue(T, line')
        /\ Stages(D, KeysOf(line'), Range(Held(sender')), Range(sender'.rest),
                  KeysOf(sender'.deferred), KeysOf(commands))
        /\ sender.deferred = <<>> => sender'.deferred = <<>>
        /\ application = "terminal" => sender'.phase # "batching"
    BY <1>1, <1>2, <1>6, <2>1, <2>2, ProceedFits
  <2>4. InputTypeOK'
    BY <1>1, <1>2, <1>4, <1>6, <2>3 DEF InputTypeOK
  <2>5. OnePump'
    BY <1>1, <1>2, <1>6, <2>3 DEF OnePump
  <2>6. AllFit(T, line', sender', commands', delivered')
    BY <1>1, <1>4, <1>6, <2>3 DEF AllFit, InStages, D
  <2> QED BY <1>2, <2>4, <2>5, <2>6 DEF InputInv, T
<1>7. CASE Fail /\ line' = Tail(line)
  <2>1. /\ sender' \in Senders /\ SenderFits(T, sender')
        /\ Held(sender') = <<>> /\ sender'.rest = <<>>
        /\ sender'.phase # "batching"
        /\ sender'.deferred \in {sender.deferred, <<>>}
        /\ application = "terminal" => sender'.deferred = <<>>
        /\ commands' \in {commands, <<>>}
        /\ notices' \in Notices
        /\ application = "terminal" => notices'.errors = notices.errors
    BY <1>1, <1>7, FailFits
  <2>2. /\ GoodQueue(T, sender'.deferred) /\ GoodQueue(T, commands')
        /\ Stages(D, KeysOf(line'), Range(Held(sender')), Range(sender'.rest),
                  KeysOf(sender'.deferred), KeysOf(commands'))
    BY <1>1, <1>5, <1>7, <2>1, FailureFits
  <2>3. InputTypeOK'
    BY <1>1, <1>2, <1>3, <1>4, <1>7, <2>1, NoKeys DEF InputTypeOK
  <2>4. OnePump'
    BY <1>1, <1>2, <2>1 DEF OnePump
  <2>5. AllFit(T, line', sender', commands', delivered')
    BY <1>3, <1>4, <1>7, <2>1, <2>2 DEF AllFit, InStages, D
  <2> QED BY <1>2, <2>3, <2>4, <2>5 DEF InputInv, T
<1>8. CASE line' = Tail(line) /\ UNCHANGED <<commands, sender, notices>>
  <2>1. InputTypeOK'
    BY <1>1, <1>2, <1>3, <1>4, <1>8 DEF InputTypeOK
  <2>2. OnePump'
    BY <1>1, <1>2, <1>8 DEF OnePump
  <2>3. AllFit(T, line', sender', commands', delivered')
    BY <1>1, <1>3, <1>4, <1>5, <1>8 DEF AllFit, InStages, D
  <2> QED BY <1>2, <2>1, <2>2, <2>3 DEF InputInv, T
<1>9. Awaited /\ Fail /\ line' = <<>> => line' = Tail(line)
  BY <1>3 DEF Awaited
<1> QED BY <1>6, <1>7, <1>8, <1>9 DEF ServeInput

(* The pump waits no longer.                                               *)
LEMMA TimeOutKeeps ==
    InputInv /\ TimeOut => InputInv'
<1> SUFFICES ASSUME InputInv, TimeOut PROVE InputInv'
  OBVIOUS
<1> DEFINE T == typist.typed
<1>1. /\ InputTypeOK /\ OnePump /\ GoodQueue(T, commands) /\ GoodQueue(T, line)
      /\ GoodQueue(T, sender.deferred)
      /\ \A s \in InputSessions : Rising(delivered[s]) /\ TypedFor(T, delivered[s], s)
      /\ Stages(Received(delivered), KeysOf(line), Range(Held(sender)),
                Range(sender.rest), KeysOf(sender.deferred), KeysOf(commands))
  BY DEF InputInv, AllFit, InStages
<1>2. /\ Fail /\ UNCHANGED <<application, typist, line, delivered>>
  BY DEF TimeOut
<1>3. /\ sender' \in Senders /\ SenderFits(T, sender')
      /\ Held(sender') = <<>> /\ sender'.rest = <<>>
      /\ sender'.phase # "batching"
      /\ sender'.deferred \in {sender.deferred, <<>>}
      /\ application = "terminal" => sender'.deferred = <<>>
      /\ commands' \in {commands, <<>>}
      /\ notices' \in Notices
      /\ application = "terminal" => notices'.errors = notices.errors
  BY <1>1, <1>2, FailFits
<1> HIDE DEF T
<1>4. /\ GoodQueue(T, sender'.deferred) /\ GoodQueue(T, commands')
      /\ Stages(Received(delivered), KeysOf(line), Range(Held(sender')),
                Range(sender'.rest), KeysOf(sender'.deferred), KeysOf(commands'))
  BY <1>1, <1>3, FailureFits
<1>5. InputTypeOK'
  BY <1>1, <1>2, <1>3, NoKeys DEF InputTypeOK
<1>6. OnePump'
  BY <1>1, <1>2, <1>3 DEF OnePump
<1>7. AllFit(T, line', sender', commands', delivered')
  BY <1>1, <1>2, <1>3, <1>4 DEF AllFit, InStages
<1> QED BY <1>2, <1>5, <1>6, <1>7 DEF InputInv, T

----------------------------------------------------------------------------
(* The user.                                                               *)

(* More keys are typed, and what fitted those before fits all.             *)
LEMMA MoreTyped ==
    ASSUME NEW T, NEW V, NEW L, NEW w, NEW C, NEW d,
           AllFit(T, L, w, C, d),
           \A k \in DOMAIN T : k \in DOMAIN V /\ V[k] = T[k]
    PROVE  AllFit(V, L, w, C, d)
<1>1. \A keys, s : TypedFor(T, keys, s) => TypedFor(V, keys, s)
  BY DEF TypedFor
<1>2. \A q : GoodQueue(T, q) => GoodQueue(V, q)
  BY <1>1 DEF GoodQueue, GoodInput
<1>3. SenderFits(V, w)
  BY <1>1 DEF AllFit, SenderFits
<1> QED BY <1>1, <1>2, <1>3 DEF AllFit

(* Every key on the way was typed.                                         *)
LEMMA AllWasTyped ==
    ASSUME NEW T, NEW L, NEW w, NEW C, NEW d, AllFit(T, L, w, C, d)
    PROVE  Received(d) \cup KeysOf(L) \cup Range(Held(w)) \cup Range(w.rest)
             \cup KeysOf(w.deferred) \cup KeysOf(C) \subseteq DOMAIN T
<1>1. \A keys, s : TypedFor(T, keys, s) => Range(keys) \subseteq DOMAIN T
  BY DEF TypedFor, Range
<1>2. /\ KeysOf(L) \subseteq DOMAIN T /\ KeysOf(C) \subseteq DOMAIN T
      /\ KeysOf(w.deferred) \subseteq DOMAIN T
  BY QueuedWasTyped DEF AllFit
<1>3. Range(Held(w)) \subseteq DOMAIN T /\ Range(w.rest) \subseteq DOMAIN T
  BY <1>1 DEF AllFit, SenderFits
<1>4. Received(d) \subseteq DOMAIN T
  BY <1>1 DEF AllFit, Received
<1> QED BY <1>2, <1>3, <1>4

(* Typing and pasting.                                                     *)
LEMMA TypeKeeps ==
    ASSUME InputInv, NEW n \in 1 .. 3, Type(n)
    PROVE  InputInv'
<1> DEFINE T == typist.typed
           m == Len(T)
           s == typist.target
           more == [i \in 1 .. n |-> s]
           V == T \o more
           keys == [i \in 1 .. n |-> m + 1 + i - 1]
           c == [session |-> s, keys |-> keys]
<1>1. /\ InputTypeOK /\ OnePump /\ AllFit(T, line, sender, commands, delivered)
  BY DEF InputInv
<1>2. /\ typist \in Typists /\ T \in Seq(InputSessions \cup {Nowhere}) /\ m \in Nat
      /\ s \in InputSessions \cup {Nowhere} /\ commands \in Seq(Requests)
      /\ notices \in Notices
  BY <1>1 DEF InputTypeOK, Typists
<1>3. /\ more \in Seq(InputSessions \cup {Nowhere}) /\ Len(more) = n
      /\ \A i \in 1 .. n : more[i] = s
  BY <1>2
<1>4. /\ V \in Seq(InputSessions \cup {Nowhere}) /\ Len(V) = m + n
      /\ \A k \in 1 .. m : V[k] = T[k]
      /\ \A k \in (m + 1) .. (m + n) : V[k] = s
  <2> HIDE DEF more, T
  <2>1. /\ V \in Seq(InputSessions \cup {Nowhere}) /\ Len(V) = m + n
        /\ \A k \in 1 .. m : V[k] = T[k]
        /\ \A k \in (m + 1) .. (m + n) : V[k] = more[k - m]
    BY <1>2, <1>3, ConcatProperties
  <2> QED BY <1>2, <1>3, <2>1
<1>5. /\ keys \in Seq(Nat) /\ DOMAIN keys = 1 .. n
      /\ \A i \in 1 .. n : keys[i] = m + i
  BY <1>2
<1>6. /\ UNCHANGED <<application, sender, line, delivered>>
      /\ \/ /\ commands' = Append(commands, c)
            /\ typist' = [typist EXCEPT !.typed = V]
            /\ notices' = notices
         \/ /\ notices' = [notices EXCEPT !.refused = @ \cup Range(keys)]
            /\ typist' = [typist EXCEPT !.typed = V,
                              !.target = IF application = "desktop" THEN Nowhere ELSE @]
            /\ commands' = commands
  BY <1>2 DEF Type, Typists
<1>7. DOMAIN T = 1 .. m /\ DOMAIN V = 1 .. (m + n)
  BY <1>2, <1>4
<1> HIDE DEF V, keys, T, m, more
<1>8. AllFit(V, line, sender, commands, delivered)
  BY <1>1, <1>2, <1>4, <1>7, MoreTyped
<1>9. Rising(keys) /\ TypedFor(V, keys, s) /\ \A k \in Range(keys) : k \in Nat /\ k > m
  <2>1. Rising(keys)
    BY <1>2, <1>5 DEF Rising
  <2>2. \A i \in 1 .. n : m + i \in (m + 1) .. (m + n)
    BY <1>2
  <2>3. TypedFor(V, keys, s)
    <3>1. ASSUME NEW i \in 1 .. n
          PROVE  keys[i] \in DOMAIN V /\ V[keys[i]] = s
      <4>1. keys[i] = m + i /\ m + i \in (m + 1) .. (m + n)
        BY <1>5, <2>2
      <4>2. m + i \in 1 .. (m + n)
        BY <1>2, <4>1
      <4> QED BY <1>4, <1>7, <4>1, <4>2
    <3> QED BY <1>5, <3>1 DEF TypedFor
  <2>4. \A k \in Range(keys) : k \in Nat /\ k > m
    BY <1>2, <1>5 DEF Range
  <2> QED BY <2>1, <2>3, <2>4
<1>10. typist' \in Typists /\ typist'.typed = V /\ typist'.target \in {s, Nowhere}
       /\ (application = "terminal" => typist'.target = s)
  BY <1>2, <1>4, <1>6 DEF Typists
<1>11. CASE commands' = Append(commands, c) /\ notices' = notices
  <2>1. c \in Requests /\ c.keys = keys /\ c.session = s /\ GoodInput(V, c)
    BY <1>2, <1>5, <1>9 DEF Requests, GoodInput
  <2>2. Received(delivered) \cup KeysOf(line) \cup Range(Held(sender)) \cup Range(sender.rest)
             \cup KeysOf(sender.deferred) \cup KeysOf(commands) \subseteq 1 .. m
    BY <1>1, <1>7, AllWasTyped
  <2>3. Lower(KeysOf(commands), Range(c.keys))
    BY <1>2, <1>9, <2>1, <2>2 DEF Lower
  <2> HIDE DEF c
  <2>4. /\ commands' \in Seq(Requests) /\ GoodQueue(V, commands')
        /\ KeysOf(commands') \subseteq KeysOf(commands) \cup Range(keys)
    BY <1>2, <1>8, <1>11, <2>1, <2>3, QueueAppend DEF AllFit
  <2>5. InStages(line, sender, commands', delivered)
    BY <1>2, <1>8, <1>9, <2>2, <2>4, StagesType DEF AllFit, InStages
  <2>6. AllFit(V, line, sender, commands', delivered)
    BY <1>8, <2>4, <2>5 DEF AllFit
  <2>7. application = "terminal" =>
          \A i \in DOMAIN commands' : commands'[i].session = s
    <3>1. ASSUME application = "terminal", NEW i \in DOMAIN commands'
          PROVE  commands'[i].session = s
      <4>1. \/ i \in DOMAIN commands /\ commands'[i] = commands[i]
            \/ commands'[i] = c
        BY <1>2, <1>11, <2>1
      <4> QED BY <1>1, <2>1, <3>1, <4>1 DEF OnePump
    <3> QED BY <3>1
  <2>8. InputTypeOK'
    BY <1>1, <1>6, <1>10, <1>11, <2>4 DEF InputTypeOK
  <2>9. OnePump'
    BY <1>1, <1>6, <1>10, <1>11, <2>7 DEF OnePump
  <2> QED BY <1>6, <1>10, <2>6, <2>8, <2>9 DEF InputInv
<1>12. CASE /\ notices' = [notices EXCEPT !.refused = @ \cup Range(keys)]
            /\ commands' = commands
  <2>1. Range(keys) \subseteq Nat
    BY <1>9
  <2>2. notices' \in Notices /\ notices'.errors = notices.errors
    BY <1>2, <1>12, <2>1 DEF Notices
  <2>3. InputTypeOK'
    BY <1>1, <1>6, <1>10, <1>12, <2>2 DEF InputTypeOK
  <2>4. OnePump'
    BY <1>1, <1>6, <1>10, <1>12, <2>2 DEF OnePump
  <2> QED BY <1>6, <1>8, <1>10, <1>12, <2>3, <2>4 DEF InputInv
<1> QED BY <1>6, <1>11, <1>12

(* The keyboard moves.                                                     *)
LEMMA MoveTypes ==
    ASSUME InputTypeOK, NEW target \in InputSessions \cup {Nowhere}, Move(target)
    PROVE  typist' \in Typists /\ typist'.typed = typist.typed
<1>1. /\ typist \in Typists /\ typist.moves \in Nat
      /\ typist.typed \in Seq(InputSessions \cup {Nowhere})
  BY DEF InputTypeOK, Typists
<1>2. typist' = [target |-> target, moves |-> typist.moves + 1,
                 typed |-> typist.typed]
  BY <1>1 DEF Move, Typists
<1>3. typist.moves + 1 \in Nat
  BY <1>1
<1> QED BY <1>1, <1>2, <1>3 DEF Typists

(* The desktop leaves a terminal.                                          *)
LEMMA FocusKeeps ==
    ASSUME InputInv, NEW target \in InputSessions \cup {Nowhere}, FocusDesktop(target)
    PROVE  InputInv'
<1> DEFINE T == typist.typed
<1>1. InputTypeOK /\ OnePump /\ AllFit(T, line, sender, commands, delivered)
  BY DEF InputInv
<1>2. /\ application = "desktop" /\ typist' \in Typists /\ typist'.typed = T
      /\ UNCHANGED <<application, sender, line, delivered, notices>>
      /\ commands' = Append(commands, Boundary) \/ commands' = commands
  BY <1>1, MoveTypes DEF FocusDesktop
<1>3. OnePump'
  BY <1>2 DEF OnePump
<1>4. commands' \in Seq(Requests) /\ AllFit(T, line, sender, commands', delivered)
  <2>1. CASE commands' = commands
    BY <1>1, <2>1 DEF InputTypeOK
  <2>2. CASE commands' = Append(commands, Boundary)
    <3>1. Boundary \in Requests /\ Boundary.keys = <<>> /\ GoodInput(T, Boundary)
      BY NoKeys DEF Boundary, Requests, GoodInput
    <3>2. Lower(KeysOf(commands), Range(Boundary.keys))
      BY <3>1, NoKeys DEF Lower
    <3>3. /\ commands' \in Seq(Requests) /\ GoodQueue(T, commands')
          /\ KeysOf(commands') \subseteq KeysOf(commands) \cup Range(Boundary.keys)
      BY <1>1, <2>2, <3>1, <3>2, QueueAppend DEF InputTypeOK, AllFit
    <3>4. KeysOf(commands') \subseteq KeysOf(commands)
      BY <3>1, <3>3, NoKeys
    <3>5. InStages(line, sender, commands', delivered)
      BY <1>1, <3>4, StagesShrink DEF AllFit, InStages
    <3> QED BY <1>1, <3>3, <3>5 DEF AllFit
  <2> QED BY <1>2, <2>1, <2>2
<1>5. InputTypeOK'
  BY <1>1, <1>2, <1>4 DEF InputTypeOK
<1> QED BY <1>2, <1>3, <1>4, <1>5 DEF InputInv

(* The terminal UI attaches, or leaves with the pump.                      *)
LEMMA AttachTerminalKeeps ==
    ASSUME InputInv, NEW target \in InputSessions \cup {Nowhere}, AttachTerminal(target)
    PROVE  InputInv'
<1> DEFINE T == typist.typed
           gone == KeysOf(commands) \cup Range(sender.batch \o sender.rest)
<1>1. InputTypeOK /\ OnePump /\ AllFit(T, line, sender, commands, delivered)
  BY DEF InputInv
<1>2. /\ typist' \in Typists /\ typist'.typed = T
      /\ commands' = <<>> /\ sender' = Idle
      /\ UNCHANGED <<application, line, delivered>>
      /\ notices' = [notices EXCEPT !.dropped = @ \cup gone]
  BY <1>1, MoveTypes DEF AttachTerminal
<1>3. gone \subseteq Nat
  <2>1. KeysOf(commands) \subseteq Nat
    <3>1. KeysOf(commands) \subseteq DOMAIN T /\ DOMAIN T \subseteq Nat
      BY <1>1, QueuedWasTyped DEF AllFit, InputTypeOK, Typists
    <3> QED BY <3>1
  <2>2. sender.batch \o sender.rest \in Seq(Nat)
    BY <1>1 DEF InputTypeOK, Senders
  <2>3. \A keys \in Seq(Nat) : Range(keys) \subseteq Nat
    BY DEF Range
  <2>4. Range(sender.batch \o sender.rest) \subseteq Nat
    BY <2>2, <2>3
  <2> QED BY <2>1, <2>4
<1>4. notices' \in Notices /\ notices'.errors = notices.errors
  <2> HIDE DEF gone
  <2> QED BY <1>1, <1>2, <1>3 DEF InputTypeOK, Notices
<1>5. /\ sender'.phase = "idle" /\ sender'.batch = <<>> /\ sender'.rest = <<>>
      /\ sender'.deferred = <<>> /\ sender' \in Senders
  BY <1>2, NoKeys DEF Idle, Senders
<1>6. SenderFits(T, sender') /\ Held(sender') = <<>>
  BY <1>5, NoKeys DEF SenderFits, Held
<1>7. InputTypeOK'
  BY <1>1, <1>2, <1>4, <1>5, NoKeys DEF InputTypeOK
<1>8. OnePump'
  <2>1. DOMAIN commands' = {}
    BY <1>2
  <2> QED BY <1>1, <1>2, <1>4, <1>5, <2>1 DEF OnePump
<1>9. InStages(line, sender', commands', delivered)
  <2>1. Stages(Received(delivered), KeysOf(line), {}, {}, {}, {})
    BY <1>1, StagesShrink DEF AllFit, InStages
  <2> QED BY <1>2, <1>5, <1>6, <2>1, NoKeys DEF InStages
<1>10. AllFit(T, line', sender', commands', delivered')
  BY <1>1, <1>2, <1>5, <1>6, <1>9, NoKeys DEF AllFit, InStages
<1> QED BY <1>2, <1>7, <1>8, <1>10 DEF InputInv

(* The desktop handles a report.                                           *)
LEMMA HandleErrorKeeps ==
    ASSUME InputInv, NEW s \in InputSessions, HandleError(s)
    PROVE  InputInv'
<1>1. InputTypeOK /\ OnePump
  BY DEF InputInv
<1>2. /\ s \in notices.errors /\ notices' = [notices EXCEPT !.errors = @ \ {s}]
      /\ typist' = [typist EXCEPT !.target = IF @ = s THEN Nowhere ELSE @]
      /\ UNCHANGED <<application, commands, sender, line, delivered>>
  BY DEF HandleError
<1>3. application = "desktop"
  BY <1>1, <1>2 DEF OnePump, InputTypeOK
<1>4. /\ notices' \in Notices
      /\ typist' \in Typists /\ typist'.typed = typist.typed
  BY <1>1, <1>2 DEF InputTypeOK, Notices, Typists
<1>5. InputTypeOK'
  BY <1>1, <1>2, <1>4 DEF InputTypeOK
<1>6. OnePump'
  BY <1>2, <1>3 DEF OnePump
<1> QED BY <1>2, <1>4, <1>5, <1>6 DEF InputInv, AllFit

----------------------------------------------------------------------------
(* At the start nothing was typed.                                         *)
LEMMA InputStarts ==
    InputInit => InputInv
<1> SUFFICES ASSUME InputInit PROVE InputInv
  OBVIOUS
<1>1. /\ typist.typed = <<>> /\ commands = <<>> /\ line = <<>> /\ sender = Idle
      /\ delivered = [s \in InputSessions |-> <<>>]
      /\ notices.errors = {}
  BY DEF InputInit
<1>2. /\ sender.phase = "idle" /\ sender.batch = <<>> /\ sender.rest = <<>>
      /\ sender.deferred = <<>> /\ sender \in Senders
  BY <1>1, NoKeys DEF Idle, Senders
<1>3. InputTypeOK
  <2>1. <<>> \in Seq(InputSessions \cup {Nowhere})
    OBVIOUS
  <2>2. notices \in Notices /\ typist \in Typists
    BY <2>1 DEF InputInit, Notices, Typists
  <2> QED BY <1>1, <1>2, <2>2, NoKeys DEF InputTypeOK, InputInit
<1>4. OnePump
  <2>1. DOMAIN commands = {}
    BY <1>1
  <2> QED BY <1>1, <1>2, <2>1 DEF OnePump
<1>5. SenderFits(typist.typed, sender) /\ Held(sender) = <<>>
  BY <1>2, NoKeys DEF SenderFits, Held
<1>6. InStages(line, sender, commands, delivered)
  <2>1. Received(delivered) = {}
    BY <1>1, NoKeys DEF Received
  <2> QED BY <1>1, <1>2, <1>5, <2>1, NoKeys DEF InStages, Stages, Lower
<1>7. AllFit(typist.typed, line, sender, commands, delivered)
  BY <1>1, <1>2, <1>5, <1>6, NoKeys DEF AllFit
<1> QED BY <1>3, <1>4, <1>7 DEF InputInv

(* The invariant is inductive.                                             *)
THEOREM InputInvariance == InputSpec => []InputInv
<1>1. ASSUME InputInv, [InputNext]_inputVars
      PROVE  InputInv'
  <2>1. ASSUME NEW n \in 1 .. 3, Type(n) PROVE InputInv'
    BY <1>1, <2>1, TypeKeeps
  <2>2. ASSUME NEW target \in InputSessions \cup {Nowhere},
               FocusDesktop(target) \/ AttachTerminal(target)
        PROVE  InputInv'
    BY <1>1, <2>2, FocusKeeps, AttachTerminalKeeps
  <2>3. CASE TakeCommand
    BY <1>1, <2>3, TakeCommandKeeps
  <2>4. CASE Coalesce
    BY <1>1, <2>4, CoalesceKeeps
  <2>5. CASE TakeQueued
    BY <1>1, <2>5, TakeQueuedKeeps
  <2>6. CASE ServeInput
    BY <1>1, <2>6, ServeInputKeeps
  <2>7. CASE TimeOut
    BY <1>1, <2>7, TimeOutKeeps
  <2>8. ASSUME NEW s \in InputSessions, HandleError(s) PROVE InputInv'
    BY <1>1, <2>8, HandleErrorKeeps
  <2>9. CASE UNCHANGED inputVars
    BY <1>1, <2>9 DEF inputVars, InputInv, InputTypeOK, OnePump, AllFit, InStages
  <2> QED BY <1>1, <2>1, <2>2, <2>3, <2>4, <2>5, <2>6, <2>7, <2>8, <2>9 DEF InputNext
<1> QED BY <1>1, InputStarts, PTL DEF InputSpec

(* What reaches the child of a Session was typed for it, in that order and *)
(* once, however inputs are batched, split, refused or given up: for any   *)
(* capacities, number of keys, moves and failures.                         *)
THEOREM KeysArriveInOrder == InputSpec => []InputInOrder
<1>1. InputInv => InputInOrder
  BY DEF InputInv, AllFit, InputInOrder, Rising, TypedFor, Range
<1> QED BY <1>1, InputInvariance, PTL

----------------------------------------------------------------------------
(* The terminal of a client.                                               *)

(* What is on its way to the terminal UI: it always asks for a snapshot.   *)
Snapshots == [kind : {"attached"}, sequence : Nat, restored : {TRUE}]

Deliveries == [kind : {"chunk"}, sequence : Nat] \cup Snapshots

(* The chunks and the snapshots among some frames.                         *)
ChunksAt(w) == {i \in DOMAIN w : w[i].kind = "chunk"}
AnswersAt(w) == {i \in DOMAIN w : w[i].kind = "attached"}

(* Their sequences.                                                        *)
Carried(w) == {w[i].sequence : i \in ChunksAt(w)}
Answered(w) == {w[i].sequence : i \in AnswersAt(w)}

(* The chunks are in order, and there is one answer at most.               *)
WireFits(w) ==
    /\ \A i, j \in ChunksAt(w) : i < j => w[i].sequence < w[j].sequence
    /\ \A i, j \in AnswersAt(w) : i = j

(* The types of a client that is a terminal.                               *)
ClientTypeOK ==
    /\ latest \in Nat /\ latest <= MaxOutput
    /\ wire \in Seq(Deliveries)
    /\ local \in Seq(Nat)
    /\ lost \in BOOLEAN
    /\ requests \in Seq({MaxOutput + 1})
    /\ responses \in Seq(Snapshots)
    /\ loop \in {"idle", "waiting"}
    /\ view \in [shown : SUBSET Nat, last : Nat]

(* What is under way for one loss: a request, a snapshot on the wire or    *)
(* one at the update loop, which shows nothing meanwhile.                  *)
OneAttachment ==
    /\ loop = "idle" => requests = <<>> /\ Answered(wire) = {} /\ responses = <<>>
    /\ requests # <<>> =>
         Len(requests) = 1 /\ Answered(wire) = {} /\ responses = <<>>
    /\ responses # <<>> => Len(responses) = 1 /\ Answered(wire) = {}
    /\ \A n \in Answered(wire) \cup Answered(responses) :
          view.last <= n /\ n <= latest

(* Chunks come in turn, behind what is shown.                              *)
InTurn ==
    /\ WireFits(wire)
    /\ Rising(local)
    /\ Lower(Range(local), Carried(wire))
    /\ Range(local) \cup Carried(wire) \subseteq 1 .. latest
    /\ view.last <= latest
    /\ view.shown \subseteq 1 .. view.last

(* Where a chunk is: shown, behind all that is shown and on its way, or    *)
(* lost and to be made up for by a snapshot.                               *)
Accounted(n) ==
    \/ n \in view.shown
    \/ view.last < n /\ n \in Range(local) \cup Carried(wire)
    \/ lost
    \/ requests # <<>>
    \/ \E m \in Answered(wire) \cup Answered(responses) : n <= m

(* Every chunk of the Session is accounted for.                            *)
ClientInv ==
    client = "terminal" =>
        /\ ClientTypeOK
        /\ OneAttachment
        /\ InTurn
        /\ \A n \in 1 .. latest : Accounted(n)

----------------------------------------------------------------------------
(* A frame is taken from the wire.                                         *)
LEMMA FrameTaken ==
    ASSUME NEW w \in Seq(Deliveries), w # <<>>, WireFits(w)
    PROVE  /\ Tail(w) \in Seq(Deliveries) /\ WireFits(Tail(w))
           /\ Head(w) \in Deliveries
           /\ Head(w).kind = "chunk" =>
                /\ Carried(w) = {Head(w).sequence} \cup Carried(Tail(w))
                /\ Lower({Head(w).sequence}, Carried(Tail(w)))
                /\ Answered(Tail(w)) = Answered(w)
           /\ Head(w).kind = "attached" =>
                /\ Carried(Tail(w)) = Carried(w)
                /\ Answered(Tail(w)) = {}
                /\ Answered(w) = {Head(w).sequence}
<1> DEFINE t == Tail(w)
           n == Len(w)
<1>1. n \in Nat \ {0} /\ Len(t) = n - 1 /\ DOMAIN w = 1 .. n /\ DOMAIN t = 1 .. n - 1
  BY LenProperties, EmptySeq
<1>2. \A i \in 1 .. n - 1 : t[i] = w[i + 1]
  OBVIOUS
<1>3. t \in Seq(Deliveries) /\ Head(w) = w[1] /\ Head(w) \in Deliveries
  BY <1>1
<1> HIDE DEF t, n
<1>4. WireFits(t)
  <2>1. ASSUME NEW i \in ChunksAt(t), NEW j \in ChunksAt(t), i < j
        PROVE  t[i].sequence < t[j].sequence
    <3>1. /\ i + 1 \in ChunksAt(w) /\ j + 1 \in ChunksAt(w) /\ i + 1 < j + 1
          /\ t[i] = w[i + 1] /\ t[j] = w[j + 1]
      BY <1>1, <1>2, <2>1 DEF ChunksAt
    <3> QED BY <3>1 DEF WireFits
  <2>2. ASSUME NEW i \in AnswersAt(t), NEW j \in AnswersAt(t) PROVE i = j
    <3>1. i + 1 \in AnswersAt(w) /\ j + 1 \in AnswersAt(w) /\ i \in Nat /\ j \in Nat
      BY <1>1, <1>2, <2>2 DEF AnswersAt
    <3> QED BY <3>1 DEF WireFits
  <2> QED BY <2>1, <2>2 DEF WireFits
<1>5. \A i \in DOMAIN w : i = 1 \/ (i - 1 \in DOMAIN t /\ t[i - 1] = w[i])
  BY <1>1, <1>2
<1>6. \A i \in DOMAIN t : i + 1 \in DOMAIN w /\ i + 1 > 1 /\ t[i] = w[i + 1]
  BY <1>1, <1>2
<1>7. CASE Head(w).kind = "chunk"
  <2>1. Carried(w) = {Head(w).sequence} \cup Carried(t)
    <3>1. ASSUME NEW i \in ChunksAt(w) PROVE w[i].sequence \in {Head(w).sequence} \cup Carried(t)
      BY <1>3, <1>5, <3>1 DEF Carried, ChunksAt
    <3>2. ASSUME NEW i \in ChunksAt(t) PROVE t[i].sequence \in Carried(w)
      BY <1>6, <3>2 DEF Carried, ChunksAt
    <3>3. Head(w).sequence \in Carried(w)
      BY <1>1, <1>3, <1>7 DEF Carried, ChunksAt
    <3> QED BY <3>1, <3>2, <3>3 DEF Carried
  <2>2. Lower({Head(w).sequence}, Carried(t))
    <3>1. ASSUME NEW i \in ChunksAt(t) PROVE Head(w).sequence < t[i].sequence
      <4>1. 1 \in ChunksAt(w) /\ i + 1 \in ChunksAt(w) /\ 1 < i + 1 /\ t[i] = w[i + 1]
        BY <1>1, <1>3, <1>6, <1>7, <3>1 DEF ChunksAt
      <4> QED BY <1>3, <4>1 DEF WireFits
    <3> QED BY <3>1 DEF Lower, Carried
  <2>3. Answered(t) = Answered(w)
    <3>1. ASSUME NEW i \in AnswersAt(w) PROVE w[i].sequence \in Answered(t)
      BY <1>3, <1>5, <1>7, <3>1 DEF Answered, AnswersAt
    <3>2. ASSUME NEW i \in AnswersAt(t) PROVE t[i].sequence \in Answered(w)
      BY <1>6, <3>2 DEF Answered, AnswersAt
    <3> QED BY <3>1, <3>2 DEF Answered
  <2> QED BY <1>3, <1>4, <1>7, <2>1, <2>2, <2>3 DEF t
<1>8. CASE Head(w).kind = "attached"
  <2>1. Carried(t) = Carried(w)
    <3>1. ASSUME NEW i \in ChunksAt(w) PROVE w[i].sequence \in Carried(t)
      BY <1>3, <1>5, <1>8, <3>1 DEF Carried, ChunksAt
    <3>2. ASSUME NEW i \in ChunksAt(t) PROVE t[i].sequence \in Carried(w)
      BY <1>6, <3>2 DEF Carried, ChunksAt
    <3> QED BY <3>1, <3>2 DEF Carried
  <2>2. 1 \in AnswersAt(w)
    BY <1>1, <1>3, <1>8 DEF AnswersAt
  <2>3. AnswersAt(w) = {1}
    BY <2>2 DEF WireFits
  <2>4. AnswersAt(t) = {}
    BY <1>1, <1>6, <2>3 DEF AnswersAt
  <2> QED BY <1>3, <1>4, <1>8, <2>1, <2>3, <2>4 DEF Answered, t
<1> QED BY <1>3, <1>4, <1>7, <1>8 DEF Deliveries, Snapshots, t

(* A frame is sent.                                                        *)
LEMMA FrameSent ==
    ASSUME NEW w \in Seq(Deliveries), NEW f \in Deliveries, WireFits(w),
           f.kind = "chunk" => Lower(Carried(w), {f.sequence}),
           f.kind = "attached" => Answered(w) = {}
    PROVE  /\ Append(w, f) \in Seq(Deliveries) /\ WireFits(Append(w, f))
           /\ f.kind = "chunk" =>
                /\ Carried(Append(w, f)) = Carried(w) \cup {f.sequence}
                /\ Answered(Append(w, f)) = Answered(w)
           /\ f.kind = "attached" =>
                /\ Carried(Append(w, f)) = Carried(w)
                /\ Answered(Append(w, f)) = {f.sequence}
<1> DEFINE a == Append(w, f)
           n == Len(w)
<1>1. /\ a \in Seq(Deliveries) /\ n \in Nat
      /\ DOMAIN a = 1 .. n + 1 /\ DOMAIN w = 1 .. n
      /\ a[n + 1] = f /\ \A i \in 1 .. n : a[i] = w[i]
  BY LenProperties
<1> HIDE DEF a, n
<1>2. \A i \in DOMAIN a : \/ i \in DOMAIN w /\ a[i] = w[i]
                          \/ i = n + 1 /\ a[i] = f
  BY <1>1
<1>3. \A i \in DOMAIN w : i \in DOMAIN a /\ a[i] = w[i] /\ i < n + 1
  BY <1>1
<1>4. CASE f.kind = "chunk"
  <2>1. ChunksAt(a) = ChunksAt(w) \cup {n + 1} /\ AnswersAt(a) = AnswersAt(w)
    BY <1>1, <1>2, <1>3, <1>4 DEF ChunksAt, AnswersAt
  <2>2. /\ Carried(a) = Carried(w) \cup {f.sequence}
        /\ Answered(a) = Answered(w)
    BY <1>1, <1>3, <2>1 DEF Carried, Answered, ChunksAt, AnswersAt
  <2>3. \A i, j \in ChunksAt(a) : i < j => a[i].sequence < a[j].sequence
    <3>1. ASSUME NEW i \in ChunksAt(a), NEW j \in ChunksAt(a), i < j
          PROVE  a[i].sequence < a[j].sequence
      <4>1. i \in ChunksAt(w) /\ a[i] = w[i]
        BY <1>1, <1>3, <2>1, <3>1 DEF ChunksAt
      <4>2. CASE j = n + 1
        BY <1>1, <1>4, <4>1, <4>2 DEF Lower, Carried
      <4>3. CASE j \in ChunksAt(w)
        BY <1>3, <3>1, <4>1, <4>3 DEF WireFits, ChunksAt
      <4> QED BY <2>1, <4>2, <4>3
    <3> QED BY <3>1
  <2> QED BY <1>1, <1>4, <2>1, <2>2, <2>3 DEF WireFits, a
<1>5. CASE f.kind = "attached"
  <2>1. AnswersAt(w) = {}
    BY <1>5 DEF Answered
  <2>2. ChunksAt(a) = ChunksAt(w) /\ AnswersAt(a) = {n + 1}
    BY <1>1, <1>2, <1>3, <1>5, <2>1 DEF ChunksAt, AnswersAt
  <2>3. Carried(a) = Carried(w) /\ Answered(a) = {f.sequence}
    BY <1>1, <1>3, <2>2 DEF Carried, Answered, ChunksAt
  <2>4. \A i, j \in ChunksAt(a) : i < j => a[i].sequence < a[j].sequence
    BY <1>3, <2>2 DEF WireFits, ChunksAt
  <2> QED BY <1>1, <1>5, <2>2, <2>3, <2>4 DEF WireFits, a
<1> QED BY <1>4, <1>5 DEF Deliveries, Snapshots

(* A chunk is taken from the queue.                                        *)
LEMMA ChunkTaken ==
    ASSUME NEW q \in Seq(Nat), q # <<>>, Rising(q)
    PROVE  /\ Tail(q) \in Seq(Nat) /\ Rising(Tail(q))
           /\ Head(q) \in Nat
           /\ Range(q) = {Head(q)} \cup Range(Tail(q))
           /\ Lower({Head(q)}, Range(Tail(q)))
<1> DEFINE t == Tail(q)
           n == Len(q)
<1>1. n \in Nat \ {0} /\ DOMAIN q = 1 .. n /\ DOMAIN t = 1 .. n - 1
  BY LenProperties, EmptySeq
<1>2. t \in Seq(Nat) /\ Head(q) = q[1] /\ Head(q) \in Nat
  BY <1>1
<1>3. \A i \in 1 .. n - 1 : t[i] = q[i + 1]
  OBVIOUS
<1> HIDE DEF t, n
<1>4. \A i \in DOMAIN q : i = 1 \/ (i - 1 \in DOMAIN t /\ t[i - 1] = q[i])
  BY <1>1, <1>3
<1>5. \A i \in DOMAIN t : i + 1 \in DOMAIN q /\ 1 \in DOMAIN q /\ 1 < i + 1 /\ t[i] = q[i + 1]
  BY <1>1, <1>3
<1>6. Rising(t)
  <2>1. ASSUME NEW i \in DOMAIN t, NEW j \in DOMAIN t, i < j PROVE t[i] < t[j]
    <3>1. /\ i + 1 \in DOMAIN q /\ j + 1 \in DOMAIN q /\ i + 1 < j + 1
          /\ t[i] = q[i + 1] /\ t[j] = q[j + 1]
      BY <1>1, <1>3, <2>1, SMTT(60)
    <3> QED BY <3>1 DEF Rising
  <2> QED BY <2>1 DEF Rising
<1>7. Range(q) = {Head(q)} \cup Range(t)
  <2>1. ASSUME NEW i \in DOMAIN q PROVE q[i] \in {Head(q)} \cup Range(t)
    BY <1>2, <1>4, <2>1 DEF Range
  <2>2. ASSUME NEW i \in DOMAIN t PROVE t[i] \in Range(q)
    BY <1>5, <2>2 DEF Range
  <2>3. Head(q) \in Range(q)
    BY <1>1, <1>2 DEF Range
  <2>4. Range(q) = {q[i] : i \in DOMAIN q} /\ Range(t) = {t[i] : i \in DOMAIN t}
    BY DEF Range
  <2> QED BY <2>1, <2>2, <2>3, <2>4
<1>8. Lower({Head(q)}, Range(t))
  BY <1>2, <1>5 DEF Lower, Range, Rising
<1> QED BY <1>2, <1>6, <1>7, <1>8 DEF t

(* A chunk is newer than those it is put behind.                           *)
LEMMA ChunkPut ==
    ASSUME NEW q \in Seq(Nat), Rising(q), NEW c \in Nat, Lower(Range(q), {c})
    PROVE  /\ Append(q, c) \in Seq(Nat) /\ Rising(Append(q, c))
           /\ Range(Append(q, c)) = Range(q) \cup {c}
<1> DEFINE a == Append(q, c)
           n == Len(q)
<1>1. /\ a \in Seq(Nat) /\ n \in Nat
      /\ DOMAIN a = 1 .. n + 1 /\ DOMAIN q = 1 .. n
      /\ a[n + 1] = c /\ \A i \in 1 .. n : a[i] = q[i]
  BY LenProperties
<1> HIDE DEF a, n
<1>2. Rising(a)
  <2>1. ASSUME NEW i \in DOMAIN a, NEW j \in DOMAIN a, i < j PROVE a[i] < a[j]
    <3>1. i \in DOMAIN q /\ a[i] = q[i]
      BY <1>1, <2>1
    <3>2. CASE j = n + 1
      BY <1>1, <3>1, <3>2 DEF Lower, Range
    <3>3. CASE j \in DOMAIN q
      BY <1>1, <2>1, <3>1, <3>3 DEF Rising
    <3> QED BY <1>1, <3>2, <3>3
  <2> QED BY <2>1 DEF Rising
<1>3. Range(a) = Range(q) \cup {c}
  BY <1>1 DEF Range
<1> QED BY <1>1, <1>2, <1>3 DEF a

----------------------------------------------------------------------------
(* Snapshots carry sequences.                                              *)
LEMMA SnapshotsAreNumbered ==
    ASSUME NEW w, w \in Seq(Deliveries) \/ w \in Seq(Snapshots)
    PROVE  Answered(w) \subseteq Nat
<1>1. ASSUME NEW i \in DOMAIN w PROVE w[i] \in Deliveries
  <2>1. CASE w \in Seq(Deliveries)
    BY <1>1, <2>1, LenProperties
  <2>2. CASE w \in Seq(Snapshots)
    BY <1>1, <2>2, LenProperties DEF Deliveries
  <2> QED BY <2>1, <2>2
<1>2. \A f \in Deliveries : f.sequence \in Nat
  BY DEF Deliveries, Snapshots
<1> QED BY <1>1, <1>2 DEF Answered, AnswersAt

(* A client that has just attached has nothing to account for.             *)
LEMMA ClientStarts ==
    ASSUME LocalCapacity \in Nat \ {0}, MaxOutput \in Nat, ClientInit
    PROVE  ClientInv
<1>1. /\ <<>> \in Seq(Deliveries) /\ <<>> \in Seq(Nat) /\ <<>> \in Seq(Snapshots)
      /\ <<>> \in Seq({MaxOutput + 1}) /\ DOMAIN <<>> = {}
  OBVIOUS
<1>2. /\ Carried(<<>>) = {} /\ Answered(<<>>) = {} /\ Range(<<>>) = {}
      /\ WireFits(<<>>) /\ Rising(<<>>)
  BY <1>1 DEF Carried, Answered, ChunksAt, AnswersAt, WireFits, Rising, Range
<1>3. /\ latest = 0 /\ wire = <<>> /\ local = <<>> /\ lost = FALSE
      /\ requests = <<>> /\ responses = <<>> /\ loop = "idle"
      /\ view = [shown |-> {}, last |-> 0]
  BY DEF ClientInit
<1>4. view.shown = {} /\ view.last = 0 /\ 1 .. latest = {}
  BY <1>3
<1>5. ClientTypeOK
  <2>1. view \in [shown : SUBSET Nat, last : Nat]
    BY <1>3
  <2>2. /\ wire \in Seq(Deliveries) /\ local \in Seq(Nat)
        /\ requests \in Seq({MaxOutput + 1}) /\ responses \in Seq(Snapshots)
    BY <1>1, <1>3
  <2>3. latest \in Nat /\ latest <= MaxOutput
    BY <1>3
  <2>4. lost \in BOOLEAN
    BY <1>3
  <2>5. loop \in {"idle", "waiting"}
    BY <1>3
  <2> QED BY <2>1, <2>2, <2>3, <2>4, <2>5, Zenon DEF ClientTypeOK
<1>6. OneAttachment
  BY <1>2, <1>3 DEF OneAttachment
<1>7. InTurn
  BY <1>2, <1>3, <1>4 DEF InTurn, Lower
<1> QED BY <1>4, <1>5, <1>6, <1>7 DEF ClientInv

(* The daemon sends a chunk.                                               *)
LEMMA OutputKeeps ==
    ASSUME LocalCapacity \in Nat \ {0}, MaxOutput \in Nat,
           client = "terminal", ClientInv, SendOutput
    PROVE  ClientInv'
<1> DEFINE f == [kind |-> "chunk", sequence |-> latest + 1]
<1>1. /\ latest < MaxOutput /\ latest' = latest + 1
      /\ wire' = Append(wire, f)
      /\ UNCHANGED <<client, local, lost, requests, responses, loop, view>>
  BY DEF SendOutput, Chunk
<1>2. /\ ClientTypeOK /\ OneAttachment /\ InTurn
      /\ \A n \in 1 .. latest : Accounted(n)
  BY DEF ClientInv
<1>3. /\ latest \in Nat /\ wire \in Seq(Deliveries) /\ local \in Seq(Nat)
      /\ view.last \in Nat /\ view.shown \subseteq Nat
  BY <1>2 DEF ClientTypeOK
<1>4. f \in Deliveries /\ f.kind = "chunk" /\ f.sequence = latest + 1
  BY <1>3 DEF Deliveries
<1> HIDE DEF f
<1>5. Lower(Carried(wire), {f.sequence})
  BY <1>2, <1>3, <1>4 DEF InTurn, Lower
<1>6. /\ wire' \in Seq(Deliveries) /\ WireFits(wire')
      /\ Carried(wire') = Carried(wire) \cup {latest + 1}
      /\ Answered(wire') = Answered(wire)
  BY <1>1, <1>2, <1>3, <1>4, <1>5, FrameSent DEF InTurn
<1>7. ClientTypeOK'
  BY <1>1, <1>2, <1>3, <1>6 DEF ClientTypeOK
<1>8. OneAttachment'
  <2>1. \A n \in Answered(wire) \cup Answered(responses) :
            view.last <= n /\ n <= latest + 1
    <3>1. ASSUME NEW n \in Answered(wire) \cup Answered(responses)
          PROVE  view.last <= n /\ n <= latest + 1
      <4>1. n \in Nat
        BY <1>2, <3>1, SnapshotsAreNumbered DEF ClientTypeOK
      <4> QED BY <1>2, <1>3, <3>1, <4>1 DEF OneAttachment
    <3> QED BY <3>1
  <2> QED BY <1>1, <1>2, <1>6, <2>1 DEF OneAttachment
<1>9. InTurn'
  <2>1. Range(local) \cup Carried(wire') \subseteq 1 .. latest + 1
    BY <1>2, <1>3, <1>6 DEF InTurn
  <2>2. Lower(Range(local), Carried(wire'))
    BY <1>2, <1>3, <1>6 DEF InTurn, Lower
  <2>3. view.last <= latest + 1
    BY <1>2, <1>3 DEF InTurn
  <2> QED BY <1>1, <1>2, <1>6, <2>1, <2>2, <2>3 DEF InTurn
<1>10. ASSUME NEW n \in 1 .. latest' PROVE Accounted(n)'
  <2>1. CASE n \in 1 .. latest
    BY <1>1, <1>2, <1>6, <2>1 DEF Accounted
  <2>2. CASE n = latest + 1
    <3>1. view.last < n
      BY <1>2, <1>3, <2>2 DEF InTurn
    <3> QED BY <1>1, <1>6, <2>2, <3>1 DEF Accounted
  <2> QED BY <1>1, <1>3, <1>10, <2>1, <2>2
<1> QED BY <1>7, <1>8, <1>9, <1>10 DEF ClientInv

(* The daemon attaches the client again: with a snapshot, as it asks from  *)
(* beyond all output.                                                      *)
LEMMA AttachKeeps ==
    ASSUME LocalCapacity \in Nat \ {0}, MaxOutput \in Nat,
           client = "terminal", ClientInv, Reattach
    PROVE  ClientInv'
<1> DEFINE f == [kind |-> "attached", sequence |-> latest, restored |-> TRUE]
<1>2. /\ ClientTypeOK /\ OneAttachment /\ InTurn
      /\ \A n \in 1 .. latest : Accounted(n)
  BY DEF ClientInv
<1>3. /\ latest \in Nat /\ latest <= MaxOutput /\ wire \in Seq(Deliveries)
      /\ requests \in Seq({MaxOutput + 1})
      /\ view.last \in Nat /\ view.shown \subseteq Nat
  BY <1>2 DEF ClientTypeOK
<1>4. requests # <<>> /\ Len(requests) = 1 /\ Answered(wire) = {} /\ responses = <<>>
  BY <1>2 DEF Reattach, OneAttachment
<1>5. Head(requests) = MaxOutput + 1 /\ Tail(requests) = <<>>
  <2>1. requests[1] \in {MaxOutput + 1} /\ Head(requests) = requests[1]
    BY <1>3, <1>4
  <2>2. Tail(requests) \in Seq({MaxOutput + 1}) /\ Len(Tail(requests)) = 0
    BY <1>3, <1>4
  <2> QED BY <2>1, <2>2, EmptySeq
<1>6. Unreplayable(Head(requests)) = TRUE
  BY <1>3, <1>5 DEF Unreplayable
<1>7. /\ wire' = (wire \o <<f>>) \o <<>>
      /\ requests' = <<>>
      /\ UNCHANGED <<client, latest, local, lost, responses, loop, view>>
  BY <1>5, <1>6 DEF Reattach
<1>8. f \in Deliveries /\ f.kind = "attached" /\ f.sequence = latest
  BY <1>3 DEF Deliveries, Snapshots
<1> HIDE DEF f
<1>9. wire' = Append(wire, f)
  BY <1>3, <1>7, <1>8
<1>10. /\ wire' \in Seq(Deliveries) /\ WireFits(wire')
       /\ Carried(wire') = Carried(wire) /\ Answered(wire') = {latest}
  BY <1>2, <1>3, <1>4, <1>8, <1>9, FrameSent DEF InTurn
<1>11. ClientTypeOK'
  <2>1. <<>> \in Seq({MaxOutput + 1})
    OBVIOUS
  <2> QED BY <1>2, <1>7, <1>10, <2>1 DEF ClientTypeOK
<1>12. OneAttachment'
  <2>1. loop # "idle"
    BY <1>2, <1>4 DEF OneAttachment
  <2>2. Answered(<<>>) = {}
    BY DEF Answered, AnswersAt
  <2>3. view.last <= latest /\ latest <= latest
    BY <1>2, <1>3 DEF InTurn
  <2> QED BY <1>4, <1>7, <1>10, <2>1, <2>2, <2>3 DEF OneAttachment
<1>13. InTurn'
  BY <1>2, <1>7, <1>10 DEF InTurn
<1>14. ASSUME NEW n \in 1 .. latest' PROVE Accounted(n)'
  <2>1. n <= latest
    BY <1>3, <1>7, <1>14
  <2> QED BY <1>7, <1>10, <2>1 DEF Accounted
<1> QED BY <1>11, <1>12, <1>13, <1>14 DEF ClientInv

(* A chunk reaches the queue of the client, which may push out the oldest. *)
LEMMA ReceiveChunkKeeps ==
    ASSUME LocalCapacity \in Nat \ {0}, MaxOutput \in Nat,
           client = "terminal", ClientInv, ReceiveChunk
    PROVE  ClientInv'
<1> DEFINE c == Head(wire).sequence
<1>1. /\ wire # <<>> /\ Head(wire).kind = "chunk" /\ wire' = Tail(wire)
      /\ Queued(c)
      /\ UNCHANGED <<client, latest, requests, responses, loop, view>>
  BY DEF ReceiveChunk
<1>2. /\ ClientTypeOK /\ OneAttachment /\ InTurn
      /\ \A n \in 1 .. latest : Accounted(n)
  BY DEF ClientInv
<1>3. /\ latest \in Nat /\ wire \in Seq(Deliveries) /\ local \in Seq(Nat)
      /\ Rising(local) /\ WireFits(wire)
  BY <1>2 DEF ClientTypeOK, InTurn
<1>4. /\ wire' \in Seq(Deliveries) /\ WireFits(wire')
      /\ Carried(wire) = {c} \cup Carried(wire')
      /\ Lower({c}, Carried(wire'))
      /\ Answered(wire') = Answered(wire)
  BY <1>1, <1>3, FrameTaken
<1>5. c \in Nat
  BY <1>1, <1>3, FrameTaken DEF Deliveries, Snapshots
<1> HIDE DEF c
<1>6. Lower(Range(local), {c}) /\ Lower(Range(local), Carried(wire'))
  BY <1>2, <1>4 DEF InTurn, Lower
<1>7. \/ /\ local' = Append(local, c) /\ lost' = lost
      \/ /\ Len(local) >= LocalCapacity
         /\ local' = Append(Tail(local), c) /\ lost' = TRUE
  BY <1>1, LenProperties, <1>3 DEF Queued
<1>8. /\ local' \in Seq(Nat) /\ Rising(local')
      /\ Range(local') \subseteq Range(local) \cup {c}
      /\ lost' = TRUE \/ (lost' = lost /\ Range(local') = Range(local) \cup {c})
  <2>1. CASE local' = Append(local, c) /\ lost' = lost
    BY <1>3, <1>5, <1>6, <2>1, ChunkPut
  <2>2. CASE /\ Len(local) >= LocalCapacity
             /\ local' = Append(Tail(local), c) /\ lost' = TRUE
    <3>1. local # <<>>
      BY <1>3, <2>2, EmptySeq
    <3>2. /\ Tail(local) \in Seq(Nat) /\ Rising(Tail(local))
          /\ Range(local) = {Head(local)} \cup Range(Tail(local))
      BY <1>3, <3>1, ChunkTaken
    <3>3. Lower(Range(Tail(local)), {c})
      BY <1>6, <3>2 DEF Lower
    <3> QED BY <1>5, <2>2, <3>2, <3>3, ChunkPut
  <2> QED BY <1>7, <2>1, <2>2
<1>9. ClientTypeOK'
  BY <1>1, <1>2, <1>4, <1>8 DEF ClientTypeOK
<1>10. OneAttachment'
  BY <1>1, <1>2, <1>4 DEF OneAttachment
<1>11. InTurn'
  <2>1. Lower(Range(local'), Carried(wire'))
    BY <1>4, <1>6, <1>8 DEF Lower
  <2>2. Range(local') \cup Carried(wire') \subseteq 1 .. latest
    BY <1>2, <1>4, <1>8 DEF InTurn
  <2> QED BY <1>1, <1>2, <1>4, <1>8, <2>1, <2>2 DEF InTurn
<1>12. ASSUME NEW n \in 1 .. latest' PROVE Accounted(n)'
  <2>1. Accounted(n)
    BY <1>1, <1>2, <1>12
  <2>2. CASE lost' = TRUE
    BY <2>2 DEF Accounted
  <2>3. CASE lost' = lost /\ Range(local') = Range(local) \cup {c}
    <3>1. Range(local') \cup Carried(wire') = Range(local) \cup Carried(wire)
      BY <1>4, <2>3
    <3> QED BY <1>1, <1>4, <2>1, <2>3, <3>1 DEF Accounted
  <2> QED BY <1>8, <2>2, <2>3
<1> QED BY <1>9, <1>10, <1>11, <1>12 DEF ClientInv

(* A snapshot reaches the update loop.                                     *)
LEMMA ReceiveResponseKeeps ==
    ASSUME LocalCapacity \in Nat \ {0}, MaxOutput \in Nat,
           client = "terminal", ClientInv, ReceiveResponse
    PROVE  ClientInv'
<1> DEFINE r == Head(wire)
<1>1. /\ wire # <<>> /\ r.kind = "attached" /\ wire' = Tail(wire)
      /\ responses' = Append(responses, r)
      /\ UNCHANGED <<client, latest, local, lost, requests, loop, view>>
  BY DEF ReceiveResponse
<1>2. /\ ClientTypeOK /\ OneAttachment /\ InTurn
      /\ \A n \in 1 .. latest : Accounted(n)
  BY DEF ClientInv
<1>3. /\ latest \in Nat /\ wire \in Seq(Deliveries) /\ WireFits(wire)
  BY <1>2 DEF ClientTypeOK, InTurn
<1>4. /\ wire' \in Seq(Deliveries) /\ WireFits(wire')
      /\ Carried(wire') = Carried(wire)
      /\ Answered(wire') = {} /\ Answered(wire) = {r.sequence}
  BY <1>1, <1>3, FrameTaken
<1>5. r \in Snapshots
  BY <1>1, <1>3, FrameTaken DEF Deliveries, Snapshots
<1> HIDE DEF r
<1>6. responses = <<>> /\ requests = <<>> /\ loop # "idle"
  BY <1>2, <1>4 DEF OneAttachment
<1>7. responses' = <<r>>
  BY <1>1, <1>6
<1>8. /\ responses' \in Seq(Snapshots) /\ Len(responses') = 1
      /\ Answered(responses') = {r.sequence}
  <2>1. DOMAIN responses' = {1} /\ responses'[1] = r
    BY <1>7
  <2>2. AnswersAt(responses') = {1}
    BY <1>5, <2>1 DEF AnswersAt, Snapshots
  <2> QED BY <1>5, <1>7, <2>1, <2>2 DEF Answered
<1>9. Answered(wire') \cup Answered(responses') = Answered(wire)
  BY <1>4, <1>8
<1>10. ClientTypeOK'
  BY <1>1, <1>2, <1>4, <1>8 DEF ClientTypeOK
<1>11. OneAttachment'
  BY <1>1, <1>2, <1>4, <1>6, <1>8, <1>9 DEF OneAttachment
<1>12. InTurn'
  BY <1>1, <1>2, <1>4 DEF InTurn
<1>13. ASSUME NEW n \in 1 .. latest' PROVE Accounted(n)'
  <2>1. Answered(responses) = {}
    BY <1>6 DEF Answered, AnswersAt
  <2> QED BY <1>1, <1>2, <1>4, <1>9, <1>13, <2>1 DEF Accounted
<1> QED BY <1>10, <1>11, <1>12, <1>13 DEF ClientInv

(* The loss is noticed, and a snapshot asked for.                          *)
LEMMA NoticeLossKeeps ==
    ASSUME LocalCapacity \in Nat \ {0}, MaxOutput \in Nat,
           client = "terminal", ClientInv, NoticeLoss
    PROVE  ClientInv'
<1>1. /\ loop = "idle" /\ lost' = FALSE /\ loop' = "waiting"
      /\ requests' = Append(requests, MaxOutput + 1)
      /\ UNCHANGED <<client, latest, wire, local, responses, view>>
  BY DEF NoticeLoss, LossBoundary
<1>2. /\ ClientTypeOK /\ OneAttachment /\ InTurn
      /\ \A n \in 1 .. latest : Accounted(n)
  BY DEF ClientInv
<1>3. requests = <<>> /\ Answered(wire) = {} /\ responses = <<>>
  BY <1>1, <1>2 DEF OneAttachment
<1>4. /\ requests' = <<MaxOutput + 1>> /\ Len(requests') = 1
      /\ requests' \in Seq({MaxOutput + 1}) /\ requests' # <<>>
  BY <1>1, <1>3
<1>5. ClientTypeOK'
  BY <1>1, <1>2, <1>4 DEF ClientTypeOK
<1>6. OneAttachment'
  BY <1>1, <1>2, <1>3, <1>4 DEF OneAttachment
<1>7. InTurn'
  BY <1>1, <1>2 DEF InTurn
<1>8. \A n \in 1 .. latest' : Accounted(n)'
  BY <1>4 DEF Accounted
<1> QED BY <1>5, <1>6, <1>7, <1>8 DEF ClientInv

(* The snapshot is shown: it stands for all that is shown and for what was *)
(* lost.                                                                   *)
LEMMA HandleResponseKeeps ==
    ASSUME LocalCapacity \in Nat \ {0}, MaxOutput \in Nat,
           client = "terminal", ClientInv, HandleAttached
    PROVE  ClientInv'
<1> DEFINE r == Head(responses)
<1>1. /\ responses # <<>> /\ loop' = "idle" /\ responses' = Tail(responses)
      /\ view' = IF r.restored /\ r.sequence >= view.last
                 THEN [shown |-> 1 .. r.sequence, last |-> r.sequence] ELSE view
      /\ UNCHANGED <<client, latest, wire, local, lost, requests>>
  BY DEF HandleAttached, FromSnapshot
<1>2. /\ ClientTypeOK /\ OneAttachment /\ InTurn
      /\ \A n \in 1 .. latest : Accounted(n)
  BY DEF ClientInv
<1>3. /\ latest \in Nat /\ responses \in Seq(Snapshots) /\ wire \in Seq(Deliveries)
      /\ view.last \in Nat /\ view.shown \subseteq Nat
  BY <1>2 DEF ClientTypeOK
<1>4. Len(responses) = 1 /\ Answered(wire) = {} /\ requests = <<>>
  BY <1>1, <1>2 DEF OneAttachment
<1>5. r \in Snapshots /\ Answered(responses) = {r.sequence} /\ responses' = <<>>
  <2>1. DOMAIN responses = {1} /\ responses[1] \in Snapshots /\ r = responses[1]
    BY <1>3, <1>4
  <2>2. AnswersAt(responses) = {1}
    BY <2>1 DEF AnswersAt, Snapshots
  <2>3. responses # <<>>
    BY <1>1
  <2>4. Tail(responses) \in Seq(Snapshots) /\ Len(Tail(responses)) = 0
    BY <1>3, <1>4, <2>3
  <2> QED BY <1>1, <2>1, <2>2, <2>4, EmptySeq DEF Answered
<1> DEFINE m == r.sequence
<1>6. /\ m \in Nat /\ r.restored = TRUE
      /\ view.last <= m /\ m <= latest
  BY <1>2, <1>5 DEF Snapshots, OneAttachment
<1>7. view' = [shown |-> 1 .. m, last |-> m]
  BY <1>1, <1>3, <1>6
<1> HIDE DEF r, m
<1>8. Answered(<<>>) = {}
  BY DEF Answered, AnswersAt
<1>9. ClientTypeOK'
  <2>1. <<>> \in Seq(Snapshots)
    OBVIOUS
  <2>2. 1 .. m \in SUBSET Nat
    BY <1>6
  <2>3. view' \in [shown : SUBSET Nat, last : Nat]
    BY <1>6, <1>7, <2>2
  <2> QED BY <1>1, <1>2, <1>5, <2>1, <2>3 DEF ClientTypeOK
<1>10. OneAttachment'
  BY <1>1, <1>4, <1>5, <1>8 DEF OneAttachment
<1>11. InTurn'
  BY <1>1, <1>2, <1>6, <1>7 DEF InTurn
<1>12. ASSUME NEW n \in 1 .. latest' PROVE Accounted(n)'
  <2>1. n \in Nat /\ n >= 1 /\ Accounted(n)
    BY <1>1, <1>2, <1>3, <1>12
  <2>2. CASE n <= m
    BY <1>6, <1>7, <2>1, <2>2 DEF Accounted
  <2>3. CASE m < n
    <3>1. n \notin view.shown
      BY <1>2, <1>3, <1>6, <2>1, <2>3 DEF InTurn
    <3>2. ~ \E k \in Answered(wire) \cup Answered(responses) : n <= k
      BY <1>4, <1>5, <1>6, <2>1, <2>3 DEF m
    <3>3. lost \/ n \in Range(local) \cup Carried(wire)
      BY <1>4, <2>1, <3>1, <3>2 DEF Accounted
    <3> QED BY <1>1, <1>7, <2>3, <3>3 DEF Accounted
  <2> QED BY <1>6, <2>1, <2>2, <2>3
<1> QED BY <1>9, <1>10, <1>11, <1>12 DEF ClientInv

(* A chunk is drawn: those behind it are newer.                            *)
LEMMA HandleChunkKeeps ==
    ASSUME LocalCapacity \in Nat \ {0}, MaxOutput \in Nat,
           client = "terminal", ClientInv, HandleChunk
    PROVE  ClientInv'
<1> DEFINE c == Head(local)
<1>1. /\ local # <<>> /\ loop = "idle" /\ ~lost /\ loop' = "idle"
      /\ local' = Tail(local)
      /\ view' = IF c > view.last THEN [shown |-> view.shown \cup {c}, last |-> c]
                 ELSE view
      /\ UNCHANGED <<client, latest, wire, lost, requests, responses>>
  BY DEF HandleChunk, Draws
<1>2. /\ ClientTypeOK /\ OneAttachment /\ InTurn
      /\ \A n \in 1 .. latest : Accounted(n)
  BY DEF ClientInv
<1>3. /\ latest \in Nat /\ local \in Seq(Nat) /\ Rising(local)
      /\ view \in [shown : SUBSET Nat, last : Nat]
      /\ view.last \in Nat /\ view.shown \subseteq Nat
  BY <1>2 DEF ClientTypeOK, InTurn
<1>4. /\ local' \in Seq(Nat) /\ Rising(local') /\ c \in Nat
      /\ Range(local) = {c} \cup Range(local')
      /\ Lower({c}, Range(local'))
  BY <1>1, <1>3, ChunkTaken
<1> HIDE DEF c
<1>5. Lower({c}, Carried(wire)) /\ c \in 1 .. latest
  BY <1>2, <1>4 DEF InTurn, Lower
<1>6. requests = <<>> /\ Answered(wire) = {} /\ responses = <<>>
  BY <1>1, <1>2 DEF OneAttachment
<1>7. Answered(responses) = {}
  BY <1>6 DEF Answered, AnswersAt
<1>8. CASE c > view.last
  <2>1. view' = [shown |-> view.shown \cup {c}, last |-> c]
    BY <1>1, <1>8
  <2>2. view'.shown = view.shown \cup {c} /\ view'.last = c
    BY <2>1
  <2>3. ClientTypeOK'
    <3>1. view.shown \cup {c} \in SUBSET Nat
      BY <1>3, <1>4
    <3>2. view' \in [shown : SUBSET Nat, last : Nat]
      BY <1>4, <2>1, <3>1
    <3> QED BY <1>1, <1>2, <1>4, <3>2 DEF ClientTypeOK
  <2>4. OneAttachment'
    BY <1>1, <1>6, <1>7 DEF OneAttachment
  <2>5. InTurn'
    <3>1. Lower(Range(local'), Carried(wire))
      BY <1>2, <1>4 DEF InTurn, Lower
    <3>2. view.shown \cup {c} \subseteq 1 .. c
      BY <1>2, <1>3, <1>5, <1>8 DEF InTurn
    <3>3. Range(local') \cup Carried(wire) \subseteq 1 .. latest /\ c <= latest
      BY <1>2, <1>4, <1>5 DEF InTurn
    <3> QED BY <1>1, <1>2, <1>4, <2>2, <3>1, <3>2, <3>3 DEF InTurn
  <2>6. ASSUME NEW n \in 1 .. latest' PROVE Accounted(n)'
    <3>1. Accounted(n)
      BY <1>1, <1>2, <2>6
    <3>2. \/ n \in view.shown
          \/ n \in {c} \cup Range(local') \cup Carried(wire)
      BY <1>1, <1>4, <1>6, <1>7, <3>1 DEF Accounted
    <3>3. CASE n \in view.shown \cup {c}
      BY <2>2, <3>3 DEF Accounted
    <3>4. CASE n \in Range(local') \cup Carried(wire)
      <4>1. c < n
        BY <1>4, <1>5, <3>4 DEF Lower
      <4> QED BY <1>1, <2>2, <3>4, <4>1 DEF Accounted
    <3> QED BY <3>2, <3>3, <3>4
  <2> QED BY <2>3, <2>4, <2>5, <2>6 DEF ClientInv
<1>9. CASE ~ (c > view.last)
  <2>1. view' = view
    BY <1>1, <1>9
  <2>2. ClientTypeOK'
    BY <1>1, <1>2, <1>4, <2>1 DEF ClientTypeOK
  <2>3. OneAttachment'
    BY <1>1, <1>6, <1>7 DEF OneAttachment
  <2>4. InTurn'
    <3>1. Lower(Range(local'), Carried(wire))
      BY <1>2, <1>4 DEF InTurn, Lower
    <3> QED BY <1>1, <1>2, <1>4, <2>1, <3>1 DEF InTurn
  <2>5. ASSUME NEW n \in 1 .. latest' PROVE Accounted(n)'
    <3>1. Accounted(n)
      BY <1>1, <1>2, <2>5
    <3>2. \/ n \in view.shown
          \/ view.last < n /\ n \in {c} \cup Range(local') \cup Carried(wire)
      BY <1>1, <1>4, <1>6, <1>7, <3>1 DEF Accounted
    <3> QED BY <1>1, <1>9, <2>1, <3>2 DEF Accounted
  <2> QED BY <2>2, <2>3, <2>4, <2>5 DEF ClientInv
<1> QED BY <1>8, <1>9

(* Every step of a client keeps the invariant.                             *)
LEMMA ClientKeeps ==
    ASSUME LocalCapacity \in Nat \ {0}, MaxOutput \in Nat,
           ClientInv, [ClientNext]_clientVars
    PROVE  ClientInv'
<1>1. client' = client
  BY DEF ClientNext, clientVars, SendOutput, Reattach,
         ReceiveChunk, ReceiveResponse,
         NoticeLoss, WakeUp, HandleAttached,
         HandleChunk
<1>2. CASE client # "terminal"
  BY <1>1, <1>2 DEF ClientInv
<1>3. CASE client = "terminal"
  <2>1. CASE SendOutput
    BY <1>3, <2>1, OutputKeeps
  <2>2. CASE Reattach
    BY <1>3, <2>2, AttachKeeps
  <2>3. CASE ReceiveChunk
    BY <1>3, <2>3, ReceiveChunkKeeps
  <2>4. CASE ReceiveResponse
    BY <1>3, <2>4, ReceiveResponseKeeps
  <2>5. CASE NoticeLoss
    BY <1>3, <2>5, NoticeLossKeeps
  <2>6. CASE WakeUp
    BY <1>3, <2>6 DEF WakeUp
  <2>7. CASE HandleAttached
    BY <1>3, <2>7, HandleResponseKeeps
  <2>8. CASE HandleChunk
    BY <1>3, <2>8, HandleChunkKeeps
  <2>9. CASE UNCHANGED clientVars
    BY <2>9 DEF clientVars, ClientInv, ClientTypeOK, OneAttachment, InTurn,
                Accounted
  <2> QED BY <2>1, <2>2, <2>3, <2>4, <2>5, <2>6, <2>7, <2>8, <2>9
          DEF ClientNext
<1> QED BY <1>2, <1>3

(* A terminal UI that has come to rest has an account of every chunk, and  *)
(* nothing is left but that it is shown.                                   *)
LEMMA ClientIsExact ==
    ASSUME ClientInv PROVE TerminalViewIsExact
<1>1. SUFFICES ASSUME client = "terminal", ClientSettled
               PROVE  view.shown = 1 .. latest
  BY DEF TerminalViewIsExact, SettledViewIsExact
<1>2. /\ ClientTypeOK /\ InTurn /\ \A n \in 1 .. latest : Accounted(n)
  BY <1>1 DEF ClientInv
<1>3. /\ wire = <<>> /\ local = <<>> /\ requests = <<>> /\ responses = <<>>
      /\ ~lost
  BY <1>1 DEF ClientSettled
<1>4. /\ Carried(<<>>) = {} /\ Answered(<<>>) = {} /\ Range(<<>>) = {}
  BY DEF Carried, Answered, ChunksAt, AnswersAt, Range
<1>5. 1 .. latest \subseteq view.shown
  BY <1>2, <1>3, <1>4 DEF Accounted
<1>6. view.shown \subseteq 1 .. latest
  BY <1>2 DEF InTurn, ClientTypeOK
<1> QED BY <1>5, <1>6

(* The invariant of a client: it holds of every queue it may keep and of   *)
(* any output.                                                             *)
THEOREM ClientInvariance == ClientSpec => []ClientInv
<1>0. LocalCapacity \in Nat \ {0} /\ MaxOutput \in Nat
  BY ClientAssumption
<1>1. ClientInit => ClientInv
  BY <1>0, ClientStarts
<1>2. ClientInv /\ [ClientNext]_clientVars => ClientInv'
  BY <1>0, ClientKeeps
<1> QED BY <1>1, <1>2, PTL DEF ClientSpec

(* The terminal UI and the command line recover every loss in their own    *)
(* queue: what they show, when nothing is on its way, is every chunk.      *)
THEOREM TerminalShowsAll == ClientSpec => []TerminalViewIsExact
<1>1. ClientInv => TerminalViewIsExact
  BY ClientIsExact
<1> QED BY <1>1, ClientInvariance, PTL

=============================================================================
