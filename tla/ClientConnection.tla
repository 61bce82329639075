-------------------------- MODULE ClientConnection --------------------------
(* One authenticated connection: DaemonClient with its callers, reader and *)
(* writer at one end, serve_client with its sink at the other.  The client *)
(* multiplexes requests by their identity; the daemon serves them one at a *)
(* time, and forwards its events between them.  A socket and the channel   *)
(* that is filled from it are one bounded queue.                           *)
EXTENDS Naturals, Sequences, SequencesExt

CONSTANTS
    Requests,         \* request identities, each used once
    Attaches,         \* the requests that attach a Session
    Inputs,           \* the requests that write to one
    CommandCapacity,  \* CLIENT_COMMAND_CAPACITY, of the command queue
    WriterCapacity,   \* the same, of the queue of the client's writer
    WireCapacity,     \* frames in one direction of the connection
    SinkCapacity,     \* CLIENT_QUEUE_CAPACITY of the daemon
    MaxAnnounced,     \* events of the daemon in one behaviour
    MaxMishaps        \* faults in one behaviour

ASSUME ConnectionAssumption ==
    /\ Attaches \subseteq Requests
    /\ Inputs \subseteq Requests
    /\ {CommandCapacity, WriterCapacity, WireCapacity, SinkCapacity}
         \subseteq Nat \ {0}
    /\ {MaxAnnounced, MaxMishaps} \subseteq Nat

VARIABLES
    asker,    \* per request: "idle", "waiting", "answered", "failed", "gone"
    client,   \* run_client: its queues, the pending map and why it ended
    wire,     \* frames under way to the daemon (up) and to the client (down)
    server,   \* serve_client: the request it serves, its sink, its leases
    occurred  \* events announced and faults so far

connectionVars == <<asker, client, wire, server, occurred>>

NoRequest == "none"
Event == "event"

ConnectionInit ==
    /\ asker = [r \in Requests |-> "idle"]
    /\ client = [commands |-> <<>>, outgoing |-> <<>>, pending |-> {},
                 writing |-> TRUE, ended |-> "no"]
    /\ wire = [up |-> <<>>, down |-> <<>>, open |-> TRUE]
    /\ server = [serving |-> NoRequest, phase |-> "handling",
                 stalled |-> FALSE, sink |-> <<>>, leased |-> FALSE,
                 writing |-> TRUE, running |-> TRUE]
    /\ occurred = [events |-> 0, mishaps |-> 0]

Running == client.ended = "no"

Mishap == /\ occurred.mishaps < MaxMishaps
          /\ occurred' = [occurred EXCEPT !.mishaps = @ + 1]

(* What becomes of the callers of the requests rs when their reply, or the *)
(* sender of it, is dropped with an error.                                 *)
Failing(rs) ==
    [r \in Requests |->
        IF r \in rs /\ asker[r] = "waiting" THEN "failed" ELSE asker[r]]

----------------------------------------------------------------------------
(* The client.                                                             *)

Request(r) ==
    /\ asker[r] = "idle"
    /\ \/ /\ Running
          /\ Len(client.commands) < CommandCapacity
          /\ client' = [client EXCEPT !.commands = Append(@, r)]
          /\ asker' = [asker EXCEPT ![r] = "waiting"]
       \/ /\ client.ended \notin {"no", "released"}
          /\ asker' = [asker EXCEPT ![r] = "failed"]
          /\ UNCHANGED client
    /\ UNCHANGED <<wire, server, occurred>>

(* A caller stops waiting: a timeout around the request, or its task is    *)
(* aborted.                                                                *)
GiveUp(r) ==
    /\ asker[r] = "waiting"
    /\ Mishap
    /\ asker' = [asker EXCEPT ![r] = "gone"]
    /\ UNCHANGED <<client, wire, server>>

(* The loop never waits for its writer: a request that does not fit is     *)
(* refused.                                                                *)
TakeCommand ==
    /\ Running
    /\ client.commands # <<>>
    /\ LET r == Head(client.commands)
           taken == [client EXCEPT !.commands = Tail(@)]
       IN IF Len(client.outgoing) < WriterCapacity
          THEN /\ client' = [taken EXCEPT !.outgoing = Append(@, r),
                                          !.pending = @ \cup {r}]
               /\ UNCHANGED asker
          ELSE /\ client' = taken
               /\ asker' = Failing({r})
    /\ UNCHANGED <<wire, server, occurred>>

ClientWrites ==
    /\ Running
    /\ client.writing
    /\ client.outgoing # <<>>
    /\ IF wire.open
       THEN /\ Len(wire.up) < WireCapacity
            /\ wire' = [wire EXCEPT !.up = Append(@, Head(client.outgoing))]
            /\ client' = [client EXCEPT !.outgoing = Tail(@)]
       ELSE /\ client' = [client EXCEPT !.writing = FALSE]
            /\ UNCHANGED wire
    /\ UNCHANGED <<asker, server, occurred>>

(* CLIENT_WRITE_TIMEOUT.                                                   *)
ClientWriteTimesOut ==
    /\ Running
    /\ client.writing
    /\ client.outgoing # <<>>
    /\ Len(wire.up) = WireCapacity
    /\ Mishap
    /\ client' = [client EXCEPT !.writing = FALSE]
    /\ UNCHANGED <<asker, wire, server>>

(* The task returns: fail_pending, the commands still queued are dropped,  *)
(* the guards close the stream.                                            *)
EndClient(why) ==
    /\ asker' = Failing(client.pending \cup Range(client.commands))
    /\ client' = [client EXCEPT !.commands = <<>>, !.outgoing = <<>>,
                                !.pending = {}, !.writing = FALSE,
                                !.ended = why]
    /\ wire' = [wire EXCEPT !.open = FALSE, !.down = <<>>]

Dispatch ==
    /\ Running
    /\ wire.down # <<>>
    /\ LET frame == Head(wire.down)
           rest == [wire EXCEPT !.down = Tail(@)]
       IN CASE frame = Event ->
                 wire' = rest /\ UNCHANGED <<asker, client>>
            [] frame \in client.pending ->
                 /\ wire' = rest
                 /\ client' = [client EXCEPT !.pending = @ \ {frame}]
                 /\ asker' = [asker EXCEPT ![frame] =
                                 IF @ = "waiting" THEN "answered" ELSE @]
            [] OTHER -> EndClient("unknown correlation")
    /\ UNCHANGED <<server, occurred>>

(* The reader finds the end of the stream, or the writer has failed, or    *)
(* nobody holds the client any more.                                       *)
ClientStops ==
    /\ Running
    /\ \/ ~wire.open /\ wire.down = <<>> /\ EndClient("closed")
       \/ ~client.writing /\ EndClient("writer failed")
       \/ /\ \A r \in Requests : asker[r] # "waiting"
          /\ client.commands = <<>>
          /\ EndClient("released")
    /\ UNCHANGED <<server, occurred>>

----------------------------------------------------------------------------
(* The daemon.                                                             *)

TakeRequest ==
    /\ server.running
    /\ server.serving = NoRequest
    /\ wire.up # <<>>
    /\ wire' = [wire EXCEPT !.up = Tail(@)]
    /\ server' = [server EXCEPT !.serving = Head(wire.up)]
    /\ UNCHANGED <<asker, client, occurred>>

(* A write to a child that does not read waits until the child reads or    *)
(* dies, and its connection with it.                                       *)
ChildStalls ==
    /\ server.serving \in Inputs
    /\ ~server.stalled
    /\ Mishap
    /\ server' = [server EXCEPT !.stalled = TRUE]
    /\ UNCHANGED <<asker, client, wire>>

ChildReads ==
    /\ server.stalled
    /\ server' = [server EXCEPT !.stalled = FALSE]
    /\ UNCHANGED <<asker, client, wire, occurred>>

(* Mutant: an input that is refused is not answered.                       *)
RespondToSuccess ==
    /\ server.serving # NoRequest
    /\ server.phase # "replaying"
    /\ ~server.stalled
    /\ server.writing
    /\ Len(server.sink) < SinkCapacity
    /\ server' = [server EXCEPT
                    !.sink = IF server.serving \in Inputs THEN @
                             ELSE Append(@, server.serving),
                    !.phase = "handling",
                    !.serving = NoRequest]
    /\ UNCHANGED <<asker, client, wire, occurred>>

(* The handler has an answer, or an error, and its response fits in the    *)
(* sink.  That of an attachment goes on: it holds a lease of the Session,  *)
(* and sends the output that the client missed.                            *)
Respond ==
    /\ server.serving # NoRequest
    /\ server.phase # "replaying"
    /\ ~server.stalled
    /\ server.writing
    /\ Len(server.sink) < SinkCapacity
    /\ LET answered == [server EXCEPT !.sink = Append(@, server.serving)]
       IN \/ /\ server.serving \in Attaches
             /\ server.phase = "handling"
             /\ server' = [answered EXCEPT !.phase = "replaying",
                                           !.leased = TRUE]
          \/ /\ server' = [answered EXCEPT !.phase = "handling",
                                           !.serving = NoRequest]
    /\ UNCHANGED <<asker, client, wire, occurred>>

(* The rest of send_attachment, with something to replay or nothing.       *)
Replay ==
    /\ server.phase = "replaying"
    /\ server.writing
    /\ LET done == [server EXCEPT !.phase = "handling",
                                  !.serving = NoRequest]
       IN \/ server' = done
          \/ /\ Len(server.sink) < SinkCapacity
             /\ server' = [done EXCEPT !.sink = Append(@, Event)]
    /\ UNCHANGED <<asker, client, wire, occurred>>

(* The replay waits too long for the byte budget of the sink: the Session  *)
(* is detached and the error becomes a response of its own, the second.    *)
ReplayTimesOut ==
    /\ server.phase = "replaying"
    /\ server.sink # <<>>
    /\ Mishap
    /\ server' = [server EXCEPT !.phase = "failed", !.leased = FALSE]
    /\ UNCHANGED <<asker, client, wire>>

(* An event between two requests, or the output of an attached Session,    *)
(* which has a task of its own.                                            *)
Announce ==
    /\ server.running
    /\ server.serving = NoRequest \/ server.leased
    /\ server.writing
    /\ Len(server.sink) < SinkCapacity
    /\ occurred.events < MaxAnnounced
    /\ occurred' = [occurred EXCEPT !.events = @ + 1]
    /\ server' = [server EXCEPT !.sink = Append(@, Event)]
    /\ UNCHANGED <<asker, client, wire>>

(* The loop of serve_client is left: every attachment is detached.         *)
Leave == [server EXCEPT !.running = FALSE,
                        !.serving = NoRequest,
                        !.phase = "handling",
                        !.stalled = FALSE,
                        !.leased = FALSE]

(* The writer goes on after the loop is left, until its queue is empty;    *)
(* the stream is closed then.                                              *)
ServerWrites ==
    /\ server.sink # <<>>
    /\ IF wire.open
       THEN /\ Len(wire.down) < WireCapacity
            /\ wire' = [wire EXCEPT !.down = Append(@, Head(server.sink))]
            /\ server' = [server EXCEPT !.sink = Tail(@)]
       ELSE /\ server' = [server EXCEPT !.sink = <<>>, !.writing = FALSE]
            /\ UNCHANGED wire
    /\ UNCHANGED <<asker, client, occurred>>

(* The loop is left between two requests, at the end of the stream or at   *)
(* the shutdown of the daemon; or when the writer has failed, or a frame   *)
(* waits too long for the sink, which a handler finds when it responds.    *)
ServerStops ==
    /\ server.running
    /\ \/ /\ server.serving = NoRequest
          /\ \/ ~wire.open /\ wire.up = <<>> /\ UNCHANGED occurred
             \/ wire.open /\ Mishap
       \/ /\ ~server.stalled
          /\ \/ ~server.writing /\ UNCHANGED occurred
             \/ Len(server.sink) = SinkCapacity /\ Mishap
    /\ server' = Leave
    /\ UNCHANGED <<asker, client, wire>>

(* WRITE_TIMEOUT.                                                          *)
ServerTimesOut ==
    /\ Len(wire.down) = WireCapacity
    /\ server.sink # <<>>
    /\ Mishap
    /\ server' = [server EXCEPT !.sink = <<>>, !.writing = FALSE]
    /\ UNCHANGED <<asker, client, wire>>

ServerCloses ==
    /\ ~server.running
    /\ server.sink = <<>>
    /\ wire.open
    /\ wire' = [wire EXCEPT !.open = FALSE, !.up = <<>>]
    /\ UNCHANGED <<asker, client, server, occurred>>

ServerCrashes ==
    /\ wire.open
    /\ Mishap
    /\ server' = [Leave EXCEPT !.sink = <<>>, !.writing = FALSE]
    /\ wire' = [wire EXCEPT !.open = FALSE, !.up = <<>>]
    /\ UNCHANGED <<asker, client>>

----------------------------------------------------------------------------
ClientNext ==
    \/ \E r \in Requests : Request(r) \/ GiveUp(r)
    \/ TakeCommand \/ ClientWrites \/ ClientWriteTimesOut
    \/ Dispatch \/ ClientStops

ServerNext ==
    \/ TakeRequest \/ ChildStalls \/ ChildReads \/ Respond \/ Replay
    \/ ReplayTimesOut \/ Announce \/ ServerWrites \/ ServerStops
    \/ ServerTimesOut \/ ServerCloses \/ ServerCrashes

ConnectionNext == ClientNext \/ ServerNext

(* Every task is run when it can go on, and a handler comes to its end;    *)
(* nothing is assumed of timeouts, callers or faults.                      *)
ConnectionFairness ==
    /\ WF_connectionVars(TakeCommand)
    /\ WF_connectionVars(ClientWrites)
    /\ WF_connectionVars(Dispatch)
    /\ WF_connectionVars(~(wire.open /\ client.writing) /\ ClientStops)
    /\ WF_connectionVars(TakeRequest)
    /\ WF_connectionVars(Respond)
    /\ WF_connectionVars(Replay)
    /\ WF_connectionVars(ServerWrites)
    /\ WF_connectionVars(~(wire.open /\ server.writing) /\ ServerStops)
    /\ WF_connectionVars(ServerCloses)

ConnectionSpec ==
    ConnectionInit /\ [][ConnectionNext]_connectionVars /\ ConnectionFairness

----------------------------------------------------------------------------

(* A request that went out is answered, or its caller told of the end of   *)
(* the connection: no queue that is full, at either end, keeps both ends   *)
(* waiting.  Left out is a connection whose daemon writes to a child that  *)
(* does not read (run_client, serve_client).                               *)
RequestsAreAnswered ==
    \A r \in Requests :
        asker[r] = "waiting" ~> (asker[r] # "waiting" \/ server.stalled)
=============================================================================
