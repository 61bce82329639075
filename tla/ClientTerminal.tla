--------------------------- MODULE ClientTerminal ---------------------------
(***************************************************************************)
(* The client's end of an attachment.  The connection delivers what the    *)
(* daemon sends in order (client.rs), but the client keeps output in a     *)
(* bounded queue of its own and takes responses past it.  When that queue  *)
(* loses output the client attaches again.  A "desktop" is the bridge and  *)
(* update loop of sylvops-desktop, a "terminal" the event loop of          *)
(* sylvops-tui and sylvops-cli.                                            *)
(***************************************************************************)
EXTENDS Naturals, Sequences

CONSTANTS
    Clients,           \* the kinds of client: "desktop", "terminal"
    ClientScrollback,  \* what the daemon's scrollback retains
    LocalCapacity,     \* chunks the client's queue holds
    MaxOutput,         \* bound on the chunks of the Session
    MaxReattachments   \* bound on the times the client attaches again

ASSUME ClientAssumption ==
    /\ Clients \subseteq {"desktop", "terminal"}
    /\ {ClientScrollback, LocalCapacity} \subseteq Nat \ {0}
    /\ {MaxOutput, MaxReattachments} \subseteq Nat

VARIABLES
    client,       \* the kind of client this is
    latest,       \* sequence of the last chunk of the Session
    wire,         \* chunks and Attached responses between daemon and client
    local,        \* the client's queue of chunks
    lost,         \* a loss the update loop has not taken notice of
    requests,     \* boundaries of AttachSession requests on their way
    responses,    \* Attached responses the update loop has not handled
    loop,         \* where the update loop is
    view,         \* what the client shows: chunks and last_sequence
    reattachments \* AttachSession requests so far

clientVars == <<client, latest, wire, local, lost, requests, responses, loop,
                view, reattachments>>

Chunk(n) == [kind |-> "chunk", sequence |-> n]

(* The client is attached and has shown all there is.                      *)
ClientInit ==
    /\ client \in Clients
    /\ latest = 0
    /\ wire = <<>>
    /\ local = <<>>
    /\ lost = FALSE
    /\ requests = <<>>
    /\ responses = <<>>
    /\ loop = "idle"
    /\ view = [shown |-> {}, last |-> 0]
    /\ reattachments = 0

----------------------------------------------------------------------------
(* The daemon: TerminalStream without its own losses.                      *)

SendOutput ==
    /\ latest < MaxOutput
    /\ latest' = latest + 1
    /\ wire' = Append(wire, Chunk(latest + 1))
    /\ UNCHANGED <<client, local, lost, requests, responses, loop, view,
                   reattachments>>

(* replay_after: snapshot or replay.                                       *)
Unreplayable(from) == from > latest \/ from + ClientScrollback < latest

Reattach ==
    /\ requests # <<>>
    /\ LET from == Head(requests) IN
         wire' = wire
           \o <<[kind |-> "attached", sequence |-> latest,
                 restored |-> Unreplayable(from)]>>
           \o (IF Unreplayable(from) THEN <<>>
               ELSE [i \in 1..(latest - from) |-> Chunk(from + i)])
    /\ requests' = Tail(requests)
    /\ UNCHANGED <<client, latest, local, lost, responses, loop, view,
                   reattachments>>

----------------------------------------------------------------------------
(* run_client: events to the local queue, responses to their requester.    *)

(* The desktop's bridge drops the chunk that finds no room; a broadcast    *)
(* receiver loses the oldest one.  Either way the loss is noted.           *)
Queued(n) ==
    IF Len(local) < LocalCapacity
    THEN local' = Append(local, n) /\ UNCHANGED lost
    ELSE /\ local' = IF client = "desktop" THEN local
                     ELSE Append(Tail(local), n)
         /\ lost' = TRUE

ReceiveChunk ==
    /\ wire # <<>>
    /\ Head(wire).kind = "chunk"
    /\ Queued(Head(wire).sequence)
    /\ wire' = Tail(wire)
    /\ UNCHANGED <<client, latest, requests, responses, loop, view,
                   reattachments>>

ReceiveResponse ==
    /\ wire # <<>>
    /\ Head(wire).kind = "attached"
    /\ responses' = Append(responses, Head(wire))
    /\ wire' = Tail(wire)
    /\ UNCHANGED <<client, latest, local, lost, requests, loop, view,
                   reattachments>>

----------------------------------------------------------------------------
(* The update loop.                                                        *)

(* Mutant: the terminal UI attaches from the last sequence it showed.      *)
BoundaryAtView == view.last

(* What the client asks for after a loss: the desktop continues from the   *)
(* last sequence it showed, the others ask for a snapshot.                 *)
LossBoundary == IF client = "desktop" THEN view.last ELSE MaxOutput + 1

(* The loss is noticed: by the desktop when it wakes up, by the others in  *)
(* place of the next event.  The desktop goes on to its events, the others *)
(* wait for the response.                                                  *)
NoticeLoss ==
    /\ loop = "idle"
    /\ lost
    /\ reattachments < MaxReattachments
    /\ reattachments' = reattachments + 1
    /\ lost' = FALSE
    /\ requests' = Append(requests, LossBoundary)
    /\ loop' = IF client = "desktop" THEN "draining" ELSE "waiting"
    /\ UNCHANGED <<client, latest, wire, local, responses, view>>

(* The desktop wakes up without a loss, or finds nothing to drain.  One    *)
(* event stands for a batch of MAX_EVENTS_PER_WAKE.                        *)
WakeUp ==
    /\ client = "desktop"
    /\ \/ loop = "idle" /\ ~lost /\ loop' = "draining"
       \/ /\ loop = "draining" /\ responses = <<>> /\ local = <<>>
          /\ loop' = "idle"
    /\ UNCHANGED <<client, latest, wire, local, lost, requests, responses,
                   view, reattachments>>

(* A snapshot stands for every chunk up to its sequence.                   *)
FromSnapshot(n) == [shown |-> 1..n, last |-> n]

(* Responses come first; the terminal UI accepts no older snapshot.        *)
HandleAttached ==
    /\ responses # <<>>
    /\ loop = IF client = "desktop" THEN "draining" ELSE "waiting"
    /\ LET r == Head(responses) IN
         view' = IF /\ r.restored
                    /\ client = "desktop" \/ r.sequence >= view.last
                 THEN FromSnapshot(r.sequence) ELSE view
    /\ responses' = Tail(responses)
    /\ loop' = "idle"
    /\ UNCHANGED <<client, latest, wire, local, lost, requests, reattachments>>

(* SessionOutput: only what is newer than the last sequence is drawn.      *)
Draws(n) ==
    IF n > view.last THEN [shown |-> view.shown \cup {n}, last |-> n] ELSE view

HandleChunk ==
    /\ local # <<>>
    /\ IF client = "desktop" THEN loop = "draining" /\ responses = <<>>
                             ELSE loop = "idle" /\ ~lost
    /\ view' = Draws(Head(local))
    /\ local' = Tail(local)
    /\ loop' = "idle"
    /\ UNCHANGED <<client, latest, wire, lost, requests, responses,
                   reattachments>>

ClientNext ==
    \/ SendOutput
    \/ Reattach
    \/ ReceiveChunk
    \/ ReceiveResponse
    \/ NoticeLoss
    \/ WakeUp
    \/ HandleAttached
    \/ HandleChunk

ClientSpec == ClientInit /\ [][ClientNext]_clientVars

----------------------------------------------------------------------------
(* Nothing is on its way to the client and no loss is left to notice.      *)
ClientSettled ==
    /\ wire = <<>> /\ local = <<>> /\ requests = <<>> /\ responses = <<>>
    /\ ~lost

(* After any loss in its own queue, a client that has come to rest shows   *)
(* every chunk of the Session.                                             *)
SettledViewIsExact == ClientSettled => view.shown = 1..latest

(* The terminal UI and the command line recover every loss: the snapshot   *)
(* they wait for stands for what was lost, and later chunks continue it.   *)
TerminalViewIsExact == client = "terminal" => SettledViewIsExact
=============================================================================
