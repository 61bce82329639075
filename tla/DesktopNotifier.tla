-------------------------- MODULE DesktopNotifier --------------------------
(***************************************************************************)
(* What the desktop does with a claim that it presents                     *)
(* (sylvops-desktop, notifications.rs): a thread shows one notification of *)
(* the operating system after the other, and the update loop is told of    *)
(* the ones that failed, which it shows itself, and of the ones that the   *)
(* user clicked, whose Session it opens.  On Windows the thread owns an    *)
(* icon with one balloon at a time, and the system's callbacks come when   *)
(* they come or not at all; elsewhere it runs a command for each.          *)
(*                                                                         *)
(* A Session has one notification.  The icon's number cannot run out here  *)
(* (2^32 balloons).  A snapshot is read and received in one step; how it   *)
(* can be overtaken is in Desktop.                                         *)
(***************************************************************************)
EXTENDS Integers, Sequences, SequencesExt, FiniteSets

CONSTANTS
    Told,            \* the Sessions that need attention
    Spaces,          \* the Workspaces
    SpaceOf,         \* the Workspace of each Session
    Nobody,          \* no Session, no Workspace
    QueueCapacity,   \* of the channel to the thread: 8
    MaxMoves         \* bound: clicks, and what others do in the daemon

ASSUME NotifierAssumption ==
    /\ SpaceOf \in [Told -> Spaces] /\ Nobody \notin Told \cup Spaces
    /\ QueueCapacity \in Nat \ {0} /\ MaxMoves \in Nat

VARIABLES
    windows,    \* the platform
    thread,     \* the thread, its channels and its icon
    callbacks,  \* the system's messages to the thread's window
    outcome,    \* what became of each notification
    served,     \* the daemon: its Sessions and the open Workspace
    shell,      \* the update loop
    moves       \* bound

notifierVars == <<windows, thread, callbacks, outcome, served, shell, moves>>

FailureCapacity == QueueCapacity + 1

NotifierInit ==
    /\ windows \in BOOLEAN
    /\ thread \in [pc : {"receive", "gone"}, queue : {<<>>}, failures : {<<>>},
                   activations : {<<>>}, next : {Nobody}, balloon : {Nobody},
                   late : {FALSE}, icons : {<<>>}]
    /\ callbacks = <<>>
    /\ outcome = [s \in Told |-> "none"]
    /\ served \in [sessions : {Told}, open : Spaces]
    /\ shell = [up |-> TRUE, snap |-> served, asked |-> {}, pending |-> Nobody,
                active |-> Nobody, clicked |-> {}]
    /\ moves = 0

Moved == moves < MaxMoves /\ moves' = moves + 1

(* SyncSender::try_send to a channel of this capacity.                     *)
Offer(channel, items, capacity) ==
    SubSeq(channel \o items, 1,
           IF Len(channel \o items) > capacity THEN capacity ELSE Len(channel \o items))

----------------------------------------------------------------------------
(* The update loop.                                                        *)

(* deliver: to the thread or, at once, in the client.                      *)
Deliver(s) ==
    /\ shell.up /\ outcome[s] = "none"
    /\ \/ /\ thread.pc # "gone" /\ Len(thread.queue) < QueueCapacity
          /\ thread' = [thread EXCEPT !.queue = Append(@, s)]
          /\ outcome' = [outcome EXCEPT ![s] = "queued"]
       \/ /\ thread.pc = "gone" \/ Len(thread.queue) = QueueCapacity
          /\ outcome' = [outcome EXCEPT ![s] = "told"]
          /\ UNCHANGED thread
    /\ UNCHANGED <<windows, callbacks, served, shell, moves>>

(* open_attention_session.                                                 *)
OpenSession(a, s) ==
    IF SpaceOf[s] = a.snap.open THEN [a EXCEPT !.active = s]
    ELSE [a EXCEPT !.pending = s, !.asked = @ \cup {SpaceOf[s]}]

(* activate_attention_notification.                                        *)
Activate(a, s) ==
    IF s \in a.snap.sessions THEN OpenSession(a, s)
    ELSE [a EXCEPT !.pending = s, !.asked = @ \cup {"snapshot"}]

(* resolve_pending_attention_activation.                                   *)
Resolve(a) ==
    LET s == a.pending
        b == [a EXCEPT !.pending = Nobody] IN
    IF s \in a.snap.sessions THEN OpenSession(b, s) ELSE b

(* A tick takes one failure and one activation.                            *)
Tick ==
    /\ shell.up /\ (thread.failures # <<>> \/ thread.activations # <<>>)
    /\ LET rest(channel) == IF channel = <<>> THEN <<>> ELSE Tail(channel) IN
          thread' = [thread EXCEPT !.failures = rest(@), !.activations = rest(@)]
    /\ outcome' = IF thread.failures = <<>> THEN outcome
               ELSE [outcome EXCEPT ![Head(thread.failures)] = "told"]
    /\ shell' = IF thread.activations = <<>> THEN shell
                ELSE Activate(shell, Head(thread.activations))
    /\ UNCHANGED <<windows, callbacks, served, moves>>

(* The daemon answers.  A request may be refused, or not be taken by a     *)
(* busy bridge; the Session is then pending until a snapshot comes.        *)
SnapshotComes ==
    /\ shell.up /\ "snapshot" \in shell.asked
    /\ shell' = Resolve([shell EXCEPT !.snap = served, !.asked = @ \ {"snapshot"}])
    /\ UNCHANGED <<windows, thread, callbacks, outcome, served, moves>>

WorkspaceOpened(w) ==
    /\ shell.up /\ w \in shell.asked \cap Spaces
    /\ served' = [served EXCEPT !.open = w]
    /\ LET a == Resolve([shell EXCEPT !.snap.open = w, !.asked = @ \ {w}]) IN
          shell' = [a EXCEPT !.asked = @ \cup {"snapshot"}]
    /\ UNCHANGED <<windows, thread, callbacks, outcome, moves>>

Refused(w) ==
    /\ Moved /\ shell.up /\ w \in shell.asked \cap Spaces
    /\ shell' = [shell EXCEPT !.asked = @ \ {w}]
    /\ UNCHANGED <<windows, thread, callbacks, outcome, served>>

(* Others open a Workspace or delete a Session, and the client hears it.   *)
DaemonMoves ==
    /\ Moved
    /\ \/ \E w \in Spaces : served' = [served EXCEPT !.open = w]
       \/ \E s \in served.sessions : served' = [served EXCEPT !.sessions = @ \ {s}]
    /\ shell' = [shell EXCEPT !.asked = @ \cup {"snapshot"}]
    /\ UNCHANGED <<windows, thread, callbacks, outcome>>

(* The application is closed: Drop for Notifier.                           *)
Close ==
    /\ shell.up /\ shell' = [shell EXCEPT !.up = FALSE]
    /\ UNCHANGED <<windows, thread, callbacks, outcome, served, moves>>

----------------------------------------------------------------------------
(* The thread.                                                             *)

Thread(pc) == thread.pc = pc /\ UNCHANGED <<windows, served, moves>>
TakesNext(t, pc) ==
    IF t.queue = <<>> THEN [t EXCEPT !.pc = pc]
    ELSE [t EXCEPT !.pc = pc, !.next = Head(t.queue), !.queue = Tail(@)]

(* Fifteen seconds since the balloon was shown.                            *)
BalloonIsLate ==
    /\ windows /\ thread.pc # "gone" /\ thread.balloon # Nobody /\ ~thread.late
    /\ thread' = [thread EXCEPT !.late = TRUE]
    /\ UNCHANGED <<windows, callbacks, outcome, served, shell, moves>>

Receive ==
    /\ windows /\ Thread("receive")
    /\ LET t == IF thread.late THEN [thread EXCEPT !.balloon = Nobody] ELSE thread IN
          thread' = IF ~shell.up THEN [thread EXCEPT !.pc = "closing"]
                    ELSE IF t.balloon = Nobody THEN TakesNext(t, "pump")
                    ELSE [t EXCEPT !.pc = "pump"]
    /\ UNCHANGED <<callbacks, outcome, shell>>

(* Mutant: any callback is taken for one of the balloon that is shown.     *)
PumpAnyIcon ==
    /\ Thread("pump") /\ callbacks # <<>>
    /\ callbacks' = Tail(callbacks)
    /\ thread' = [thread EXCEPT
          !.balloon = Nobody,
          !.activations = IF Head(callbacks).clicked /\ thread.balloon # Nobody
                          THEN Offer(@, <<thread.balloon>>, QueueCapacity) ELSE @]
    /\ UNCHANGED <<outcome, shell>>

(* PeekMessageW, until there is none.                                      *)
Pump ==
    /\ Thread("pump") /\ callbacks # <<>>
    /\ callbacks' = Tail(callbacks)
    /\ LET current == Head(callbacks).icon = Len(thread.icons) IN
       thread' = [thread EXCEPT
          !.balloon = IF current THEN Nobody ELSE @,
          !.activations = IF current /\ Head(callbacks).clicked /\ thread.balloon # Nobody
                          THEN Offer(@, <<thread.balloon>>, QueueCapacity) ELSE @]
    /\ UNCHANGED <<outcome, shell>>
Pumped ==
    /\ Thread("pump") /\ callbacks = <<>>
    /\ thread' = [thread EXCEPT !.pc = "present"]
    /\ UNCHANGED <<callbacks, outcome, shell>>

(* NIM_DELETE, NIM_ADD with a new number, NIM_MODIFY: if one fails, what   *)
(* waits has failed too, and the thread ends.                              *)
PresentFails ==
    /\ Thread("present") /\ thread.next # Nobody
    /\ LET failed == <<thread.next>> \o thread.queue IN
       /\ thread' = [thread EXCEPT !.pc = "closing", !.next = Nobody, !.queue = <<>>,
                                   !.failures = Offer(@, failed, FailureCapacity)]
       /\ outcome' = [s \in Told |-> IF s \in Range(failed) THEN "failed" ELSE outcome[s]]
    /\ UNCHANGED <<callbacks, shell>>
Present ==
    /\ Thread("present")
    /\ LET s == thread.next IN
       /\ thread' = IF s = Nobody THEN [thread EXCEPT !.pc = "receive"]
                    ELSE [thread EXCEPT !.pc = "receive", !.next = Nobody, !.balloon = s,
                                        !.late = FALSE, !.icons = Append(@, s)]
       /\ outcome' = IF s = Nobody THEN outcome ELSE [outcome EXCEPT ![s] = "shown"]
    /\ UNCHANGED <<callbacks, shell>>

(* Elsewhere: a command for each, killed after two seconds.                *)
RunCommand ==
    /\ ~windows /\ Thread("receive")
    /\ thread' = IF shell.up THEN TakesNext(thread, IF thread.queue = <<>> THEN "receive" ELSE "run")
                 ELSE [thread EXCEPT !.pc = "closing"]
    /\ UNCHANGED <<callbacks, outcome, shell>>
CommandEnds ==
    /\ Thread("run")
    /\ LET s == thread.next
           t == [thread EXCEPT !.pc = "receive", !.next = Nobody] IN
       \/ /\ thread' = t /\ outcome' = [outcome EXCEPT ![s] = "shown"]
       \/ /\ shell.up
          /\ thread' = [t EXCEPT !.failures = Offer(@, <<s>>, FailureCapacity)]
          /\ outcome' = [outcome EXCEPT ![s] = "failed"]
       \/ ~shell.up /\ thread' = t /\ UNCHANGED outcome
    /\ UNCHANGED <<callbacks, shell>>

(* The receiver is dropped with what is in it.                             *)
ThreadEnds ==
    /\ Thread("closing")
    /\ thread' = [thread EXCEPT !.pc = "gone", !.queue = <<>>, !.balloon = Nobody]
    /\ outcome' = [s \in Told |-> IF s \in Range(thread.queue) THEN "lost" ELSE outcome[s]]
    /\ UNCHANGED <<callbacks, shell>>

(* The system: the user clicks a balloon, or it goes away; the message may *)
(* be about a balloon that the thread has given up since.                  *)
SystemCallsBack(i) ==
    /\ Moved /\ thread.pc # "gone" /\ i \in DOMAIN thread.icons
    /\ \E clicked \in BOOLEAN :
          /\ callbacks' = Append(callbacks, [icon |-> i, clicked |-> clicked])
          /\ shell' = IF clicked THEN [shell EXCEPT !.clicked = @ \cup {thread.icons[i]}] ELSE shell
    /\ UNCHANGED <<windows, thread, outcome, served>>

----------------------------------------------------------------------------
ThreadStep ==
    Receive \/ Pump \/ Pumped \/ Present \/ RunCommand \/ CommandEnds \/ ThreadEnds
Answers == SnapshotComes \/ \E w \in Spaces : WorkspaceOpened(w)

NotifierNext ==
    \/ \E s \in Told : Deliver(s)
    \/ Tick \/ Answers \/ DaemonMoves \/ Close
    \/ \E w \in Spaces : Refused(w)
    \/ ThreadStep \/ PresentFails \/ BalloonIsLate
    \/ \E i \in 1 .. Cardinality(Told) : SystemCallsBack(i)

NotifierSpec == NotifierInit /\ [][NotifierNext]_notifierVars

----------------------------------------------------------------------------
(* Only the Session whose balloon the user clicked is opened, though the   *)
(* callback of a balloon may come when the next one is shown.              *)
ActivationIsOfTheClicked ==
    /\ Range(thread.activations) \subseteq shell.clicked
    /\ {shell.active, shell.pending} \subseteq shell.clicked \cup {Nobody}
============================================================================
