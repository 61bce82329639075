--------------------------- MODULE TerminalStream ---------------------------
(***************************************************************************)
(* The output of one Session on its way to the terminal UI or the command  *)
(* line: the actor's scrollback and broadcast (session.rs), the            *)
(* attachment's forwarder and the bounded queue of the connection          *)
(* (daemon.rs), the client's event queue, which replies bypass             *)
(* (client.rs), and the terminal that is drawn.  A chunk is its sequence   *)
(* number; a snapshot stands for every chunk up to its sequence.           *)
(***************************************************************************)
EXTENDS Naturals, Sequences

CONSTANTS
    ScrollbackChunks,  \* what the scrollback retains
    LiveCapacity,      \* LIVE_OUTPUT_CAPACITY of the broadcast
    QueueCapacity,     \* frames the ClientSink holds
    MaxUpdates,        \* bound on the outputs and resizes of the Session
    MaxAttachments     \* bound on the attach requests of the client

ASSUME StreamAssumption ==
    /\ ScrollbackChunks \in Nat \ {0}
    /\ LiveCapacity \in Nat \ {0}
    /\ QueueCapacity \in Nat \ {0}
    /\ MaxUpdates \in Nat
    /\ MaxAttachments \in Nat

VARIABLES
    updates,      \* the TerminalEvents broadcast so far
    cursor,       \* how many of them the forwarder has taken
    forwarder,    \* its step, the frames it waits to send, resync_pending
    queue,        \* the ClientSink
    inbox,        \* the events the client has received and not drawn yet
    terminal,     \* the client's: chunks shown, last sequence, revision
    silent,       \* history: updates dropped silently, not made up for since
    torn,         \* history: the chunks a reply with a blank terminal overtook
    attachments   \* attach requests so far

historyVars == <<silent, torn, attachments>>

streamVars ==
    <<updates, cursor, forwarder, queue, inbox, terminal, historyVars>>

(* The counters of the scrollback and of the terminal after an update.     *)
At(i) == IF i = 0 THEN [sequence |-> 0, revision |-> 0] ELSE updates[i]

LatestSequence == At(Len(updates)).sequence

TerminalRevision == At(Len(updates)).revision

NoForwarder == [step |-> "none", frames |-> <<>>, resyncPending |-> FALSE]

NoTerminal == [shown |-> {}, last |-> 0, revision |-> 0]

StreamInit ==
    /\ updates = <<>>
    /\ cursor = 0
    /\ forwarder = NoForwarder
    /\ queue = <<>>
    /\ inbox = <<>>
    /\ terminal = NoTerminal
    /\ silent = {}
    /\ torn = {}
    /\ attachments = 0

----------------------------------------------------------------------------
(* The actor: output is numbered, kept and broadcast; a resize broadcasts  *)
(* a snapshot.                                                             *)
Output ==
    /\ Len(updates) < MaxUpdates
    /\ updates' = Append(updates, [kind |-> "output",
                                   sequence |-> LatestSequence + 1,
                                   revision |-> TerminalRevision])
    /\ UNCHANGED <<cursor, forwarder, queue, inbox, terminal, historyVars>>

Resized ==
    Append(updates, [kind |-> "resized", sequence |-> LatestSequence,
                     revision |-> TerminalRevision + 1])

ResizeTerminal ==
    /\ Len(updates) < MaxUpdates
    /\ updates' = Resized
    /\ UNCHANGED <<cursor, forwarder, queue, inbox, terminal, historyVars>>

(* Scrollback: the chunks still retained, and what went out at the front.  *)
LostThrough ==
    IF LatestSequence > ScrollbackChunks THEN LatestSequence - ScrollbackChunks
                                         ELSE 0

(* replay_after: whether the scrollback cannot continue from a sequence.   *)
OutputGap(from) == from > LatestSequence \/ from < LostThrough

----------------------------------------------------------------------------
(* AttachSession and send_attachment.                                      *)

OutputFrame(n) == [kind |-> "output", sequence |-> n, revision |-> 0]

SnapshotFrame ==
    [kind |-> "snapshot", sequence |-> LatestSequence,
     revision |-> TerminalRevision]

(* The client starts from nothing, or asks for a snapshot with a future    *)
(* boundary.                                                               *)
Boundaries == {0, LatestSequence + 1}

(* The Attached response: a snapshot, or a blank terminal.                 *)
AttachedFrame(from, resizes) ==
    [kind |-> "attached", sequence |-> LatestSequence,
     revision |-> IF resizes THEN TerminalRevision + 1 ELSE TerminalRevision,
     restored |-> OutputGap(from)]

Replay(from) ==
    IF OutputGap(from) THEN <<>>
    ELSE [i \in 1..(LatestSequence - from) |-> OutputFrame(from + i)]

(* The client waits for the response to an attach request; it draws        *)
(* nothing and asks nothing else meanwhile.                                *)
AwaitsReply ==
    \/ \E i \in DOMAIN queue : queue[i].kind = "attached"
    \/ \E i \in DOMAIN forwarder.frames : forwarder.frames[i].kind = "attached"

(* The chunks that are still to be drawn.                                  *)
Undrawn ==
    LET events == inbox \o queue
    IN  {events[i].sequence : i \in {k \in DOMAIN events :
                                        events[k].kind = "output"}}

(* The client's earlier forwarder is aborted; a controller resizes the     *)
(* terminal; replay and subscription are taken together.  The connection   *)
(* handles one request at a time, so the replay is sent before the next.   *)
(* What the client has not drawn by then it draws after the reply.         *)
Attach(from, resizes) ==
    /\ forwarder.step # "attaching"
    /\ ~AwaitsReply
    /\ attachments < MaxAttachments
    /\ attachments' = attachments + 1
    /\ resizes => Len(updates) < MaxUpdates
    /\ updates' = IF resizes THEN Resized ELSE updates
    /\ cursor' = Len(updates')
    /\ forwarder' = [NoForwarder EXCEPT
         !.step = "attaching",
         !.frames = <<AttachedFrame(from, resizes)>> \o Replay(from)]
    /\ silent' = {}
    /\ torn' = IF OutputGap(from) THEN {} ELSE Undrawn
    /\ UNCHANGED <<queue, inbox, terminal>>

(* DetachSession: what is queued already still arrives.                    *)
Detach ==
    /\ forwarder.step \in {"live", "checkpoint"}
    /\ forwarder' = NoForwarder
    /\ UNCHANGED <<updates, cursor, queue, inbox, terminal, historyVars>>

(* send_event waits for room.                                              *)
SendFrame ==
    /\ forwarder.frames # <<>>
    /\ Len(queue) < QueueCapacity
    /\ queue' = Append(queue, Head(forwarder.frames))
    /\ forwarder' = [forwarder EXCEPT
         !.frames = Tail(@),
         !.step = IF Len(forwarder.frames) = 1 THEN "live" ELSE @]
    /\ UNCHANGED <<updates, cursor, inbox, terminal, historyVars>>

(* The write deadline passes.  A forwarder closes the connection; a failed *)
(* attach ends it only if its error cannot be sent either.                 *)
WriteTimesOut(closed) ==
    /\ forwarder.frames # <<>>
    /\ Len(queue) = QueueCapacity
    /\ forwarder.step = "live" => closed
    /\ forwarder' = NoForwarder
    /\ queue' = IF closed THEN <<>> ELSE queue
    /\ inbox' = IF closed THEN <<>> ELSE inbox
    /\ UNCHANGED <<updates, cursor, terminal, historyVars>>

Receives ==
    /\ forwarder.step = "live"
    /\ forwarder.frames = <<>>
    /\ cursor < Len(updates)

Lagged == Len(updates) - cursor > LiveCapacity

(* try_send: the queue has room.                                           *)
ForwardUpdate ==
    /\ Receives /\ ~Lagged
    /\ Len(queue) < QueueCapacity
    /\ LET u == updates[cursor + 1] IN
         queue' = Append(queue,
                         IF u.kind = "output" THEN OutputFrame(u.sequence)
                         ELSE [u EXCEPT !.kind = "snapshot"])
    /\ cursor' = cursor + 1
    /\ forwarder' = [forwarder EXCEPT !.resyncPending = FALSE]
    /\ UNCHANGED <<updates, inbox, terminal, historyVars>>

(* Mutant: the update that does not fit is dropped and nothing follows.    *)
DropWithoutResync ==
    /\ Receives /\ ~Lagged
    /\ Len(queue) = QueueCapacity
    /\ ~forwarder.resyncPending
    /\ cursor' = cursor + 1
    /\ forwarder' = [forwarder EXCEPT !.resyncPending = TRUE]
    /\ UNCHANGED <<updates, queue, inbox, terminal, historyVars>>

(* The first update that does not fit is replaced by a snapshot.           *)
DropAndResync ==
    /\ Receives /\ ~Lagged
    /\ Len(queue) = QueueCapacity
    /\ ~forwarder.resyncPending
    /\ cursor' = cursor + 1
    /\ forwarder' = [forwarder EXCEPT !.resyncPending = TRUE,
                                      !.step = "checkpoint"]
    /\ UNCHANGED <<updates, queue, inbox, terminal, historyVars>>

(* A further one, before any update fitted again, is dropped.              *)
DropSilently ==
    /\ Receives /\ ~Lagged
    /\ Len(queue) = QueueCapacity
    /\ forwarder.resyncPending
    /\ cursor' = cursor + 1
    /\ silent' = silent \cup {cursor + 1}
    /\ UNCHANGED <<updates, forwarder, queue, inbox, terminal, torn,
                   attachments>>

(* The broadcast overtook the forwarder.                                   *)
Lag ==
    /\ Receives /\ Lagged
    /\ cursor' = Len(updates) - LiveCapacity
    /\ forwarder' = [forwarder EXCEPT !.step = "checkpoint"]
    /\ UNCHANGED <<updates, queue, inbox, terminal, historyVars>>

(* send_resync: the actor answers with its terminal as it is by now.       *)
Checkpoint ==
    /\ forwarder.step = "checkpoint"
    /\ forwarder' = [forwarder EXCEPT !.step = "live",
                                      !.frames = <<SnapshotFrame>>]
    /\ UNCHANGED <<updates, cursor, queue, inbox, terminal, historyVars>>

----------------------------------------------------------------------------
(* The client.                                                             *)

Restored(f) ==
    [shown |-> 1..f.sequence, last |-> f.sequence, revision |-> f.revision]

Shows(t, f) ==
    CASE f.kind = "output" ->
           IF f.sequence > t.last
           THEN [t EXCEPT !.shown = @ \cup {f.sequence}, !.last = f.sequence]
           ELSE t
      [] f.kind = "snapshot" ->
           IF f.sequence >= t.last /\ f.revision >= t.revision
           THEN Restored(f) ELSE t
      [] f.kind = "attached" ->
           IF f.restored THEN Restored(f)
           ELSE [NoTerminal EXCEPT !.revision = f.revision]

(* A snapshot makes up for every update before it.                         *)
MakesUp(f) == f.kind = "snapshot"

(* The number of updates that the counters of a frame stand for.           *)
Moment(f) == f.sequence + f.revision

(* The connection task takes the next frame: an event enters the queue of  *)
(* events.                                                                 *)
ReceiveEvent ==
    /\ queue # <<>>
    /\ Head(queue).kind # "attached"
    /\ inbox' = Append(inbox, Head(queue))
    /\ queue' = Tail(queue)
    /\ UNCHANGED <<updates, cursor, forwarder, terminal, historyVars>>

(* A response goes to the request that waits for it, past those events;    *)
(* the terminal is replaced before the next of them is drawn.              *)
TakeAttached ==
    /\ queue # <<>>
    /\ Head(queue).kind = "attached"
    /\ terminal' = Shows(terminal, Head(queue))
    /\ queue' = Tail(queue)
    /\ UNCHANGED <<updates, cursor, forwarder, inbox, historyVars>>

(* The next event is drawn.                                                *)
DrawEvent ==
    LET f == Head(inbox) IN
    /\ inbox # <<>>
    /\ ~AwaitsReply
    /\ terminal' = Shows(terminal, f)
    /\ inbox' = Tail(inbox)
    /\ silent' = IF MakesUp(f) THEN {i \in silent : i > Moment(f)} ELSE silent
    /\ UNCHANGED <<updates, cursor, forwarder, queue, torn, attachments>>

StreamNext ==
    \/ Output
    \/ ResizeTerminal
    \/ \E from \in Boundaries, resizes \in BOOLEAN : Attach(from, resizes)
    \/ Detach
    \/ SendFrame
    \/ \E closed \in BOOLEAN : WriteTimesOut(closed)
    \/ ForwardUpdate
    \/ DropAndResync
    \/ DropSilently
    \/ Lag
    \/ Checkpoint
    \/ ReceiveEvent
    \/ TakeAttached
    \/ DrawEvent

StreamSpec == StreamInit /\ [][StreamNext]_streamVars

----------------------------------------------------------------------------
(* An attached client to which nothing more is on its way.                 *)
Settled ==
    /\ forwarder.step = "live"
    /\ forwarder.frames = <<>>
    /\ cursor = Len(updates)
    /\ queue = <<>>
    /\ inbox = <<>>

(* The chunks the client should show and does not.                         *)
Missing == (1..LatestSequence) \ terminal.shown

(* A chunk is missed only where it was dropped while a resynchronization   *)
(* was pending, or where a reply with a blank terminal overtook a later    *)
(* chunk of the attachment before: drawn on the blank terminal, that one   *)
(* makes the replay of the chunks below it be ignored.  A resize is missed *)
(* only by such a drop.  Neither lag, nor the first drop, nor any other    *)
(* order of attaching, detaching and drawing leaves a hole.                *)
MissingIsExplained ==
    Settled =>
        /\ \A n \in Missing :
             \/ \E chunk \in torn : n < chunk
             \/ \E i \in silent : updates[i].kind = "output"
                                  /\ updates[i].sequence = n
        /\ terminal.revision = TerminalRevision
             \/ \E i \in silent : updates[i].kind = "resized"
=============================================================================
