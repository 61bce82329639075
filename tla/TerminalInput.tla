--------------------------- MODULE TerminalInput ---------------------------
(* The way of a keystroke from a client to the child: the bounded command  *)
(* queue and the batches of the desktop's bridge, and the InputPump of the *)
(* terminal UI, up to the input of the Session.  Keys are numbered in the  *)
(* order they are typed in; the bytes of one key are one unit.  The daemon *)
(* serves the requests of one connection in their order.                   *)
EXTENDS Naturals, Sequences, FiniteSetsExt, SequencesExt

CONSTANTS
    InputSessions,  \* the Sessions that are typed into
    Nowhere,        \* no Session
    BatchKeys,      \* TERMINAL_INPUT_BATCH_BYTES, MAX_PTY_CHUNK_SIZE
    InputCapacity,  \* COMMAND_CAPACITY, INPUT_SLOTS
    MaxKeys,        \* keys typed in one behaviour
    MaxMoves,       \* changes of the terminal that has the keyboard
    MaxFailures     \* deliveries that fail in one behaviour

ASSUME InputAssumption ==
    /\ {BatchKeys, InputCapacity} \subseteq Nat \ {0}
    /\ {MaxKeys, MaxMoves, MaxFailures} \subseteq Nat

VARIABLES
    application,  \* "desktop" or "terminal"
    typist,       \* the terminal with the keyboard, the moves so far, and
                  \* the Session each key was typed for
    commands,     \* the command queue of the bridge, the channel of the pump
    sender,       \* the bridge's batch, the worker of the pump
    line,         \* requests that are under way to the daemon
    delivered,    \* per Session: the keys written to its child, in order
    notices       \* what the user was told, or not, of keys that are lost

inputVars ==
    <<application, typist, commands, sender, line, delivered, notices>>

Idle == [phase |-> "idle", session |-> Nowhere, batch |-> <<>>,
         rest |-> <<>>, last |-> FALSE, deferred |-> <<>>]

(* A request or a flush, which ends a batch.                               *)
Boundary == [session |-> Nowhere, keys |-> <<>>]

InputInit ==
    /\ application \in {"desktop", "terminal"}
    /\ typist = [target |-> Nowhere, moves |-> 0, typed |-> <<>>]
    /\ commands = <<>>
    /\ sender = Idle
    /\ line = <<>>
    /\ delivered = [s \in InputSessions |-> <<>>]
    /\ notices = [refused |-> {}, failed |-> {}, dropped |-> {},
                  errors |-> {}, failures |-> 0]

Upto(keys, n) == SubSeq(keys, 1, Min({n, Len(keys)}))
Beyond(keys, n) == SubSeq(keys, n + 1, Len(keys))

KeysOf(queue) == UNION {Range(queue[i].keys) : i \in DOMAIN queue}

----------------------------------------------------------------------------
(* The user.                                                               *)

(* A key or a paste: what does not fit in the queue is refused as a whole, *)
(* and the desktop takes the keyboard away.  A pump that failed has closed *)
(* its channel.                                                            *)
Type(n) ==
    /\ typist.target # Nowhere
    /\ Len(typist.typed) + n <= MaxKeys
    /\ LET first == Len(typist.typed) + 1
           keys == [i \in 1 .. n |-> first + i - 1]
           typed == [typist EXCEPT
                       !.typed = @ \o [i \in 1 .. n |-> typist.target]]
       IN IF Len(commands) < InputCapacity /\ sender.phase # "failed"
          THEN /\ commands' = Append(commands, [session |-> typist.target,
                                                keys |-> keys])
               /\ typist' = typed
               /\ UNCHANGED notices
          ELSE /\ notices' = [notices EXCEPT !.refused = @ \cup Range(keys)]
               /\ typist' = [typed EXCEPT
                               !.target = IF application = "desktop"
                                          THEN Nowhere ELSE @]
               /\ UNCHANGED commands
    /\ UNCHANGED <<application, sender, line, delivered>>

Move(target) ==
    /\ typist.target # target
    /\ typist.moves < MaxMoves
    /\ typist' = [typist EXCEPT !.target = target, !.moves = @ + 1]

(* The desktop leaves a terminal with a flush, when there is room for it.  *)
FocusDesktop(target) ==
    /\ application = "desktop"
    /\ Move(target)
    /\ commands' = IF typist.target # Nowhere /\ Len(commands) < InputCapacity
                   THEN Append(commands, Boundary) ELSE commands
    /\ UNCHANGED <<application, sender, line, delivered, notices>>

(* Leaving a terminal drops the pump with the keys that it holds; the      *)
(* request that it waits for is not recalled.                              *)
AttachTerminal(target) ==
    /\ application = "terminal"
    /\ typist.target = Nowhere \/ target = Nowhere
    /\ Move(target)
    /\ notices' = [notices EXCEPT
                     !.dropped = @ \cup KeysOf(commands)
                                   \cup Range(sender.batch \o sender.rest)]
    /\ commands' = <<>>
    /\ sender' = Idle
    /\ UNCHANGED <<application, line, delivered>>

----------------------------------------------------------------------------
(* The sender.                                                             *)

Send(s, keys) == line' = Append(line, [session |-> s, keys |-> keys])

(* One round of the loop: the batch takes what fits of the input; one that *)
(* is full is sent.                                                        *)
Fill(s, batch, input) ==
    LET room == BatchKeys - Len(batch)
        all == batch \o Upto(input, room)
        full == Len(all) = BatchKeys
    IN /\ sender' = [Idle EXCEPT
                       !.phase = IF full THEN "sending" ELSE "batching",
                       !.session = s,
                       !.batch = all,
                       !.rest = Beyond(input, room)]
       /\ IF full THEN Send(s, all) ELSE UNCHANGED line

(* The batch is sent and the loop left, with the command that ended it.    *)
Flush(deferred) ==
    IF sender.batch = <<>>
    THEN sender' = [Idle EXCEPT !.deferred = deferred] /\ UNCHANGED line
    ELSE /\ sender' = [sender EXCEPT !.phase = "sending", !.last = TRUE,
                                     !.deferred = deferred]
         /\ Send(sender.session, sender.batch)

(* The next command, which is the one that ended the last batch if any.    *)
TakeCommand ==
    /\ application = "desktop"
    /\ sender.phase = "idle"
    /\ sender.deferred \o commands # <<>>
    /\ LET command == Head(sender.deferred \o commands)
       IN IF command = Boundary
          THEN sender' = Idle /\ UNCHANGED line
          ELSE Fill(command.session, <<>>, command.keys)
    /\ commands' = IF sender.deferred = <<>> THEN Tail(commands) ELSE commands
    /\ UNCHANGED <<application, typist, delivered, notices>>

(* Mutant: a batch takes the input of whatever Session comes next.         *)
CoalesceAny ==
    /\ application = "desktop"
    /\ sender.phase = "batching"
    /\ \/ /\ commands # <<>>
          /\ commands' = Tail(commands)
          /\ IF Head(commands) # Boundary
             THEN Fill(sender.session, sender.batch, Head(commands).keys)
             ELSE Flush(<<Head(commands)>>)
       \/ /\ Flush(<<>>)
          /\ UNCHANGED commands
    /\ UNCHANGED <<application, typist, delivered, notices>>

(* What comes before the deadline: more input of the same Session joins    *)
(* the batch, anything else, or the deadline, ends it.                     *)
Coalesce ==
    /\ application = "desktop"
    /\ sender.phase = "batching"
    /\ \/ /\ commands # <<>>
          /\ commands' = Tail(commands)
          /\ IF Head(commands).session = sender.session
             THEN Fill(sender.session, sender.batch, Head(commands).keys)
             ELSE Flush(<<Head(commands)>>)
       \/ /\ Flush(<<>>)
          /\ UNCHANGED commands
    /\ UNCHANGED <<application, typist, delivered, notices>>

(* The pump adds what is queued to what it has until that makes a chunk,   *)
(* and sends it when the queue is empty.                                   *)
TakeQueued ==
    /\ application = "terminal"
    /\ sender.phase \in {"idle", "batching"}
    /\ \/ /\ commands # <<>>
          /\ commands' = Tail(commands)
          /\ Fill(Head(commands).session, sender.batch, Head(commands).keys)
       \/ /\ commands = <<>> /\ sender.phase = "batching"
          /\ Flush(<<>>)
          /\ UNCHANGED commands
    /\ UNCHANGED <<application, typist, delivered, notices>>

(* The request of the sender is the last one that is under way.            *)
Awaited == sender.phase = "sending" /\ Len(line) = 1

(* The sender goes on after its request was acknowledged.                  *)
Proceed ==
    LET s == sender.session
        rest == sender.rest
        chunk == Upto(rest, BatchKeys)
    IN IF application = "desktop"
       THEN \/ /\ sender.last
               /\ sender' = [Idle EXCEPT !.deferred = sender.deferred]
               /\ line' = <<>>
            \/ /\ ~sender.last
               /\ LET full == Len(rest) >= BatchKeys
                  IN /\ sender' = [sender EXCEPT
                                     !.phase = IF full THEN "sending"
                                               ELSE "batching",
                                     !.batch = chunk,
                                     !.rest = Beyond(rest, BatchKeys)]
                     /\ line' = IF full
                                THEN <<[session |-> s, keys |-> chunk]>>
                                ELSE <<>>
       ELSE IF rest = <<>>
            THEN sender' = Idle /\ line' = <<>>
            ELSE /\ sender' = [sender EXCEPT
                                 !.batch = chunk,
                                 !.rest = Beyond(rest, BatchKeys)]
                 /\ line' = <<[session |-> s, keys |-> chunk]>>

(* The sender learns that its request failed.  The desktop reports it and  *)
(* goes on with the next command; the pump ends, and cancels what it holds.*)
Fail ==
    /\ IF application = "desktop"
       THEN /\ sender' = [Idle EXCEPT !.deferred = sender.deferred]
            /\ UNCHANGED commands
       ELSE /\ sender' = [Idle EXCEPT !.phase = "failed"]
            /\ commands' = <<>>
    /\ notices' = [notices EXCEPT
                     !.failed = @ \cup Range(sender.batch),
                     !.refused = @ \cup Range(sender.rest)
                         \cup IF application = "terminal"
                              THEN KeysOf(commands) ELSE {},
                     !.errors = IF application = "desktop"
                                THEN @ \cup {sender.session} ELSE @,
                     !.failures = @ + 1]

----------------------------------------------------------------------------
(* The daemon, and what becomes of a request.                              *)

Written == [delivered EXCEPT ![Head(line).session] = @ \o Head(line).keys]

(* The daemon serves the oldest request: it is written and acknowledged,   *)
(* written while the connection fails, or refused.  Nobody may wait for    *)
(* the answer any more.                                                    *)
ServeInput ==
    /\ line # <<>>
    /\ \/ /\ delivered' = Written
          /\ IF Awaited
             THEN \/ Proceed /\ UNCHANGED <<commands, notices>>
                  \/ /\ notices.failures < MaxFailures
                     /\ Fail
                     /\ line' = <<>>
             ELSE line' = Tail(line) /\ UNCHANGED <<commands, sender, notices>>
       \/ /\ notices.failures < MaxFailures
          /\ line' = Tail(line)
          /\ IF Awaited THEN Fail ELSE UNCHANGED <<commands, sender, notices>>
          /\ UNCHANGED delivered
    /\ UNCHANGED <<application, typist>>

(* The pump waits ten seconds for an acknowledgement; the request remains  *)
(* under way.                                                              *)
TimeOut ==
    /\ application = "terminal"
    /\ sender.phase = "sending"
    /\ notices.failures < MaxFailures
    /\ Fail
    /\ UNCHANGED <<application, typist, line, delivered>>

(* The desktop handles the report of a failed batch.                       *)
HandleError(s) ==
    /\ s \in notices.errors
    /\ notices' = [notices EXCEPT !.errors = @ \ {s}]
    /\ typist' = [typist EXCEPT !.target = IF @ = s THEN Nowhere ELSE @]
    /\ UNCHANGED <<application, commands, sender, line, delivered>>

InputNext ==
    \/ \E n \in 1 .. 3 : Type(n)
    \/ \E target \in InputSessions \cup {Nowhere} :
          FocusDesktop(target) \/ AttachTerminal(target)
    \/ TakeCommand \/ Coalesce \/ TakeQueued \/ ServeInput \/ TimeOut
    \/ \E s \in InputSessions : HandleError(s)

InputSpec == InputInit /\ [][InputNext]_inputVars

----------------------------------------------------------------------------

(* What reaches the child of a Session was typed for it, in that order and *)
(* once, however inputs are batched, split, refused, or given up.          *)
InputInOrder ==
    \A s \in InputSessions :
        /\ \A i, j \in DOMAIN delivered[s] :
              i < j => delivered[s][i] < delivered[s][j]
        /\ \A k \in Range(delivered[s]) : typist.typed[k] = s
=============================================================================
