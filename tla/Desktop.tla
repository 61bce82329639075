------------------------------ MODULE Desktop ------------------------------
(* The desktop application between its user and the daemon: the list of    *)
(* Sessions it shows, its tabs, its terminals, the keyboard, its dialogs   *)
(* and the requests its bridge has under way.  The bridge gives every      *)
(* request a task of its own, so the daemon may take them, and the         *)
(* application their replies, in any order, and a reply may overtake or be *)
(* overtaken by the events of the daemon.                                  *)
EXTENDS Naturals, Sequences, SequencesExt

CONSTANTS
    Sessions,    \* Session identities, in the order the list shows them
    CheckoutOf,  \* the Checkout of every Session
    NoSession,   \* no Session
    MaxOpen,     \* MAX_OPEN_DESKTOP_SESSIONS
    MaxCalls,    \* requests under way, after which the bridge is busy
    MaxEvents,   \* events the bridge can be behind
    MaxIncidents,\* what happens by itself in one behaviour
    MaxActions   \* what the user does in one behaviour

ASSUME DesktopAssumption ==
    /\ Sessions \subseteq Nat
    /\ DOMAIN CheckoutOf = Sessions
    /\ NoSession \notin Sessions
    /\ {MaxOpen, MaxCalls, MaxEvents} \subseteq Nat \ {0}
    /\ {MaxIncidents, MaxActions} \subseteq Nat

VARIABLES
    record,      \* the daemon's Sessions: "new", "live", "ended" or "gone"
    announced,   \* events of the daemon the application has still to handle
    overflowed,  \* the flag of the bridge: something was dropped
    app,         \* DesktopApp with the requests of its bridge
    incidents,   \* changes by other clients, exits and incidents so far
    actions,     \* actions of the user so far
    given        \* history: the terminals that were given the keyboard

desktopVars ==
    <<record, announced, overflowed, app, incidents, actions, given>>

Checkouts == {CheckoutOf[s] : s \in Sessions}
NoModal == [kind |-> "none", session |-> NoSession]

(* What a snapshot says of a Session that the daemon knows as r.           *)
Listed(r) == IF r \in {"live", "ended"} THEN r ELSE "none"
Snapshot == [s \in Sessions |-> Listed(record[s])]

(* The Sessions of a Checkout in the order of the list, and its first.     *)
SessionsFor(a, w) ==
    {s \in Sessions : CheckoutOf[s] = w /\ a.shown[s] # "none"}

FirstOf(set) ==
    IF set = {} THEN NoSession ELSE CHOOSE s \in set : \A t \in set : s <= t

(* A reply: what it says, with the list or the Session it carries.         *)
Says(answer) == [answer |-> answer, list |-> [s \in Sessions |-> "none"],
                 session |-> NoSession]

Unanswered == Says("unanswered")

LastOpen(a) == IF a.open = <<>> THEN NoSession ELSE Last(a.open)

----------------------------------------------------------------------------
(* Helpers of the application.  Each takes and returns the application.    *)

(* The bridge refuses a request when its queue is full.                    *)
Busy(a) == Len(a.calls) >= MaxCalls

(* named is the Session the dialog told the user of: it is not sent.       *)
AskNamed(a, op, s, named) ==
    IF Busy(a) THEN a
    ELSE [a EXCEPT !.calls = Append(@, [op |-> op, session |-> s,
                                        named |-> named,
                                        reply |-> Unanswered])]

Ask(a, op, s) == AskNamed(a, op, s, s)

RefreshUnanswered(a) ==
    \E i \in DOMAIN a.calls :
        a.calls[i].op = "refresh" /\ a.calls[i].reply = Unanswered

(* One refresh at a time.  missed records that what made the application   *)
(* ask may be younger than any snapshot it is going to receive.            *)
RequestSnapshot(a) ==
    IF a.refreshing
    THEN [a EXCEPT !.missed = @ \/ ~RefreshUnanswered(a)]
    ELSE [Ask(a, "refresh", NoSession) EXCEPT
            !.refreshing = ~Busy(a), !.missed = Busy(a)]

Unfocus(a) == [a EXCEPT !.focused = FALSE]

SelectContext(a, s) ==
    [a EXCEPT !.selected = s,
              !.checkout = IF a.shown[s] = "none" THEN @ ELSE CheckoutOf[s]]

(* The tab that is pushed out when there are too many is the oldest.       *)
AddTab(open, s) ==
    IF Contains(open, s) THEN open
    ELSE Append(IF Len(open) = MaxOpen THEN Tail(open) ELSE open, s)

SelectSession(a, s) ==
    IF a.selected = s /\ a.active = s THEN Unfocus(a)
    ELSE [SelectContext(Unfocus(a), s) EXCEPT !.active = s,
                                              !.open = AddTab(@, s)]

Opens(a, s) == IF a.shown[s] = "none"
               THEN RequestSnapshot([a EXCEPT !.activation = s])
               ELSE SelectSession(a, s)

ResolveActivation(a) ==
    IF a.activation = NoSession THEN a
    ELSE LET b == [a EXCEPT !.activation = NoSession]
         IN IF a.shown[a.activation] = "none" THEN b
            ELSE SelectSession(b, a.activation)

(* Mutant: the keyboard is kept when the terminal is gone.                 *)
RestoreKeepingFocus(a) ==
    LET open == SelectSeq(a.open, LAMBDA s : a.shown[s] # "none")
    IN [a EXCEPT
          !.open = open,
          !.terminals = [s \in Sessions |->
              IF a.shown[s] = "none" THEN "none" ELSE a.terminals[s]],
          !.active = IF \/ @ = NoSession
                        \/ Contains(a.open, @) /\ a.shown[@] # "none"
                     THEN @ ELSE LastOpen([a EXCEPT !.open = open])]

RestoreSelection(a) ==
    LET here == SessionsFor(a, a.checkout)
        open == SelectSeq(a.open, LAMBDA s : a.shown[s] # "none")
        terminals == [s \in Sessions |->
            IF a.shown[s] = "none" THEN "none" ELSE a.terminals[s]]
    IN [a EXCEPT
          !.selected = IF @ \in here THEN @ ELSE FirstOf(here),
          !.open = open,
          !.terminals = terminals,
          !.focused = @ /\ terminals = a.terminals,
          !.active = IF \/ @ = NoSession
                        \/ Contains(a.open, @) /\ a.shown[@] # "none"
                     THEN @ ELSE LastOpen([a EXCEPT !.open = open])]

(* A terminal whose Session was stopped or left.                           *)
Detached(a, s) ==
    [a EXCEPT !.terminals[s] = IF @ = "none" THEN @ ELSE "detached",
              !.focused = @ /\ a.active # s]

CleanupDeletedSession(a, s) ==
    LET siblings == SessionsFor(a, CheckoutOf[s])
        after == {t \in siblings : t > s}
        before == {t \in siblings : t < s}
        nearest == IF s \notin siblings THEN NoSession
                   ELSE IF after # {} THEN FirstOf(after)
                   ELSE IF before = {} THEN NoSession
                   ELSE CHOOSE t \in before : \A u \in before : t >= u
        open == Remove(a.open, s)
    IN [a EXCEPT
          !.shown[s] = "none",
          !.open = open,
          !.terminals[s] = "none",
          !.selected = IF @ = s THEN nearest ELSE @,
          !.active = IF @ = s THEN LastOpen([a EXCEPT !.open = open]) ELSE @,
          !.focused = FALSE]

ResumeSession(a, s) ==
    IF Busy(a) THEN a
    ELSE [Ask(a, "resume", s) EXCEPT !.resuming = @ \cup {s}]

AttachActive(a) ==
    IF \/ a.active = NoSession
       \/ a.shown[a.active] = "none"
       \/ a.active \in a.resuming
    THEN a
    ELSE IF a.shown[a.active] = "ended" THEN ResumeSession(a, a.active)
    ELSE Ask(a, "attach", a.active)

OpenStopConfirmation(a) ==
    IF a.active = NoSession \/ a.shown[a.active] # "live" THEN a
    ELSE [Unfocus(a) EXCEPT !.modal = [kind |-> "stop", session |-> a.active]]

DeleteSelectedSession(a) ==
    IF a.selected = NoSession \/ a.shown[a.selected] = "none" THEN a
    ELSE IF a.shown[a.selected] = "live"
    THEN OpenStopConfirmation([a EXCEPT !.active = a.selected])
    ELSE Ask(Unfocus(a), "inspect", a.selected)

(* The application has connected and restored what it saved: the selected  *)
(* Session, which it also makes the active one, and the tabs.              *)
DesktopInit ==
    /\ record \in [Sessions -> {"new", "live"}]
    /\ announced = <<>>
    /\ overflowed = FALSE
    /\ \E s \in Sessions, open \in {tabs \in SeqOf(Sessions, MaxOpen) :
                                    IsInjective(tabs)} :
         app = RestoreSelection(
               [shown |-> Snapshot,
                open |-> open,
                active |-> s,
                checkout |-> CheckoutOf[s],
                selected |-> s,
                terminals |-> [t \in Sessions |-> "none"],
                focused |-> FALSE,
                modal |-> NoModal,
                refreshing |-> FALSE,
                resuming |-> {},
                activation |-> NoSession,
                calls |-> <<>>,
                connected |-> TRUE,
                missed |-> FALSE])
    /\ incidents = 0
    /\ actions = 0
    /\ given = {}

----------------------------------------------------------------------------
(* The daemon, as far as an application can tell: its replies and its      *)
(* events.  An ended Session is known to the daemon until it is deleted,   *)
(* and can still be attached and stopped; the actor of one that was        *)
(* stopped, or that an earlier daemon ran, refuses.                        *)

(* A receiver that is too far behind loses the oldest events, and is told. *)
Publish(events) ==
    LET all == announced \o events
        excess == IF Len(all) > MaxEvents THEN Len(all) - MaxEvents ELSE 0
    IN /\ announced' = IF app.connected THEN SubSeq(all, excess + 1, Len(all))
                       ELSE announced
       /\ overflowed' = (overflowed \/ (excess > 0 /\ app.connected))

Changed == [type |-> "changed", session |-> NoSession]

Ended(s) == << [type |-> "status", session |-> s],
               [type |-> "exited", session |-> s] >>

(* Another client creates or deletes a Session, or one ends by itself.     *)
Happens == incidents < MaxIncidents /\ incidents' = incidents + 1

OthersCreate(s) ==
    /\ Happens
    /\ record[s] = "new"
    /\ record' = [record EXCEPT ![s] = "live"]
    /\ Publish(<<Changed>>)
    /\ UNCHANGED <<app, actions, given>>

SessionExits(s) ==
    /\ Happens
    /\ record[s] = "live"
    /\ record' = [record EXCEPT ![s] = "ended"]
    /\ Publish(Ended(s))
    /\ UNCHANGED <<app, actions, given>>

OthersDelete(s) ==
    /\ Happens
    /\ record[s] = "ended"
    /\ record' = [record EXCEPT ![s] = "gone"]
    /\ Publish(<<Changed>>)
    /\ UNCHANGED <<app, actions, given>>

Reply(i, reply) == app' = [app EXCEPT !.calls[i].reply = reply]

Pending(i, op) == app.calls[i].op = op /\ app.calls[i].reply = Unanswered

(* The replies that leave the daemon as it is.                             *)
ServesReading(i) ==
    LET s == app.calls[i].session
    IN /\ \/ Pending(i, "refresh") /\ Reply(i, [Says("list") EXCEPT !.list = Snapshot])
          \/ /\ Pending(i, "attach")
             /\ record[s] \in {"live", "ended"}
             /\ \E role \in {"controller", "observer"} : Reply(i, Says(role))
          \/ Pending(i, "detach") /\ Reply(i, Says("acknowledged"))
          \/ /\ Pending(i, "inspect")
             /\ Reply(i, Says(IF record[s] = "ended" THEN "authorized" ELSE "refused"))
          \/ /\ Pending(i, "resume")
             /\ record[s] = "ended"
             /\ Reply(i, Says("unavailable"))
       /\ UNCHANGED <<record, announced, overflowed, incidents, actions, given>>

ServesStop(i) ==
    LET s == app.calls[i].session
    IN /\ Pending(i, "stop")
       /\ record[s] \in {"live", "ended"}
       /\ record' = [record EXCEPT ![s] = "ended"]
       /\ Publish(IF record[s] = "live" THEN Ended(s) ELSE <<>>)
       /\ Reply(i, Says("acknowledged"))
       /\ UNCHANGED <<incidents, actions, given>>

ServesDelete(i) ==
    LET s == app.calls[i].session
    IN /\ Pending(i, "delete")
       /\ record[s] = "ended"
       /\ record' = [record EXCEPT ![s] = "gone"]
       /\ Publish(<<Changed>>)
       /\ Reply(i, Says("deleted"))
       /\ UNCHANGED <<incidents, actions, given>>

(* A new Session: the successor of the resumed one, or the one the form    *)
(* asked for in the Checkout of its selection.                             *)
ServesLaunch(i) ==
    /\ \/ Pending(i, "resume") /\ record[app.calls[i].session] = "ended"
       \/ Pending(i, "create")
    /\ \E t \in Sessions :
         /\ record[t] = "new"
         /\ CheckoutOf[t] = CheckoutOf[app.calls[i].session]
         /\ record' = [record EXCEPT ![t] = "live"]
         /\ Reply(i, [Says("launched") EXCEPT !.session = t])
    /\ Publish(<<Changed>>)
    /\ UNCHANGED <<incidents, actions, given>>

(* What the daemon refuses, and the errors of its database.                *)
DaemonRefuses(i) ==
    LET s == app.calls[i].session
    IN \/ /\ app.calls[i].op \in {"attach", "stop"}
          /\ record[s] # "live"
       \/ /\ app.calls[i].op = "delete"
          /\ record[s] # "ended"
       \/ app.calls[i].op \in {"resume", "create"}

ServesError(i) ==
    /\ app.calls[i].reply = Unanswered
    /\ \/ DaemonRefuses(i) /\ UNCHANGED incidents
       \/ ~DaemonRefuses(i) /\ Happens
    /\ Reply(i, Says("error"))
    /\ UNCHANGED <<record, announced, overflowed, actions, given>>

(* The connection is lost: what is under way fails, and so does every      *)
(* later request.  The application is not told: the bridge waits for the   *)
(* end of an event channel whose sender its own client keeps open.         *)
ConnectionCloses ==
    /\ app.connected
    /\ Happens
    /\ app' = [app EXCEPT !.connected = FALSE, !.missed = TRUE]
    /\ UNCHANGED <<record, announced, overflowed, actions, given>>

RequestFails(i) ==
    /\ ~app.connected
    /\ app.calls[i].reply = Unanswered
    /\ Reply(i, Says("failed"))
    /\ UNCHANGED <<record, announced, overflowed, incidents, actions, given>>

----------------------------------------------------------------------------
(* What reaches the application.                                           *)

HandleDaemonEvent ==
    /\ announced # <<>>
    /\ LET event == Head(announced)
           s == event.session
       IN app' = RequestSnapshot(
            CASE event.type = "status" -> [app EXCEPT !.shown[s] = "ended"]
              [] event.type = "exited" -> Detached(app, s)
              [] event.type = "changed" -> app)
    /\ announced' = Tail(announced)
    /\ UNCHANGED <<record, overflowed, incidents, actions, given>>

TakeOverflowed ==
    /\ overflowed
    /\ overflowed' = FALSE
    /\ app' = LET a == RequestSnapshot(app)
              IN IF a.active = NoSession THEN a ELSE Ask(a, "attach", a.active)
    /\ UNCHANGED <<record, announced, incidents, actions, given>>

(* handle_response of an application a that no longer awaits call c.       *)
HandleResponse(a, c) ==
    LET s == c.session
        answer == c.reply.answer
        t == c.reply.session
    IN IF answer = "failed"
       THEN   [a EXCEPT !.refreshing = @ /\ c.op # "refresh",
                        !.missed = @ \/ c.op = "refresh",
                        !.resuming = IF c.op = "resume" THEN @ \ {s} ELSE @,
                        !.modal = IF c.op = "create" /\ @.kind = "submitted"
                                  THEN [@ EXCEPT !.kind = "form"] ELSE @]
       ELSE IF answer = "error"
       THEN   [a EXCEPT !.missed = @ \/ c.op = "refresh",
                        !.resuming = IF c.op = "resume" THEN @ \ {s} ELSE @,
                        !.modal = IF c.op = "create" /\ @.kind = "submitted"
                                  THEN [@ EXCEPT !.kind = "form"] ELSE @]
       ELSE CASE c.op = "refresh" ->
              ResolveActivation(RestoreSelection(
                  [a EXCEPT !.refreshing = FALSE, !.shown = c.reply.list]))
         [] c.op = "attach" ->
              [a EXCEPT !.terminals[s] = answer,
                        !.focused = (answer = "controller")]
         [] c.op = "detach" -> Detached(a, s)
         [] c.op = "stop" -> RequestSnapshot(Detached(a, s))
         [] c.op = "inspect" ->
              IF answer = "refused" \/ a.shown[s] = "none" THEN a
              ELSE [a EXCEPT !.modal = [kind |-> "delete", session |-> s]]
         [] c.op = "delete" ->
              RequestSnapshot(CleanupDeletedSession(
                  [a EXCEPT !.modal = NoModal], s))
         [] c.op = "resume" /\ answer = "unavailable" ->
              RequestSnapshot(SelectSession(
                  [a EXCEPT !.resuming = @ \ {s}, !.shown[s] = "ended"], s))
         [] c.op = "resume" /\ answer # "unavailable" ->
              RequestSnapshot(AttachActive(SelectSession(SelectContext(
                  [a EXCEPT !.resuming = @ \ {s}, !.shown[t] = "live"],
                  t), t)))
         [] c.op = "create" ->
              RequestSnapshot(
                  [a EXCEPT !.selected = t,
                            !.checkout = CheckoutOf[t],
                            !.active = t,
                            !.open = IF Contains(@, t) THEN @
                                     ELSE Append(@, t),
                            !.modal = NoModal])

(* The terminal that the keyboard is on.                                   *)
Given(a) == IF a.focused THEN {a.active} ELSE {}

(* The keyboard is on where there is nothing to type into, or in a Session *)
(* without a tab.                                                          *)
Astray(a) ==
    /\ a.focused
    /\ ~ /\ a.active \in Sessions
         /\ a.terminals[a.active] = "controller"
         /\ Contains(a.open, a.active)

(* An Attached reply switches the keyboard on, or off, whichever tab is    *)
(* active by then; a launch makes its Session active with the keyboard as  *)
(* it is.                                                                  *)
GivesKeyboard(c) ==
    /\ c.op \in {"attach", "create"}
    /\ c.reply.answer \notin {"error", "failed"}

TakeReply(i) ==
    /\ app.calls[i].reply # Unanswered
    /\ app' = HandleResponse([app EXCEPT !.calls = RemoveAt(@, i)],
                             app.calls[i])
    /\ given' = IF GivesKeyboard(app.calls[i]) THEN Given(app')
                ELSE IF Astray(app) THEN Sessions
                ELSE given
    /\ UNCHANGED <<record, announced, overflowed, incidents, actions>>

(* The queue of the application stays full for two seconds.                *)
ReplyIsDropped(i) ==
    /\ app.calls[i].reply # Unanswered
    /\ Happens
    /\ app' = [app EXCEPT !.calls = RemoveAt(@, i),
                          !.missed = @ \/ app.calls[i].op = "refresh"]
    /\ overflowed' = TRUE
    /\ UNCHANGED <<record, announced, actions, given>>

----------------------------------------------------------------------------
(* What the user does.                                                     *)

Does(a) ==
    /\ actions < MaxActions
    /\ actions' = actions + 1
    /\ app' = a
    /\ given' = Given(a)
    /\ UNCHANGED <<record, announced, overflowed, incidents>>

(* A click on an operating-system notification, whatever the window shows. *)
ActivateNotification(s) == record[s] # "new" /\ Does(Opens(app, s))

ClickSession(s) == app.shown[s] # "none" /\ Does(SelectSession(app, s))

ClickTab(s) ==
    /\ Contains(app.open, s)
    /\ Does(IF app.active = s THEN Unfocus(app)
            ELSE [SelectContext(Unfocus(app), s) EXCEPT !.active = s])

CloseTab(s) ==
    /\ Contains(app.open, s)
    /\ LET a == IF app.terminals[s] \in {"controller", "observer"}
                THEN Ask(Unfocus(app), "detach", s) ELSE Unfocus(app)
           b == [a EXCEPT !.open = Remove(@, s), !.terminals[s] = "none"]
       IN Does(IF b.active # s THEN b
               ELSE IF b.open = <<>> THEN [b EXCEPT !.active = NoSession]
               ELSE SelectContext([b EXCEPT !.active = LastOpen(b)],
                                  LastOpen(b)))

ClickCheckout(w) ==
    Does(IF app.checkout = w THEN Unfocus(app)
         ELSE [Unfocus(app) EXCEPT !.checkout = w,
                                   !.selected = FirstOf(SessionsFor(app, w))])

OpenTerminal == Does(AttachActive(app))

LeaveTerminal ==
    Does(IF app.active = NoSession THEN Unfocus(app)
         ELSE Ask(Unfocus(app), "detach", app.active))

ClickTerminal ==
    /\ app.active # NoSession
    /\ app.terminals[app.active] = "controller"
    /\ Does([app EXCEPT !.focused = TRUE])

Stop == Does(OpenStopConfirmation(app))

(* The Delete key reaches the navigator only when no terminal takes it;    *)
(* the trash control selects the Session first.                            *)
PressDelete == ~app.focused /\ Does(DeleteSelectedSession(app))

ClickTrash ==
    /\ app.selected # NoSession
    /\ Does(DeleteSelectedSession(SelectSession(app, app.selected)))

(* The form is for a Checkout, which stands here as its first Session.     *)
OpenSessionForm ==
    Does([Unfocus(app) EXCEPT
            !.modal = [kind |-> "form",
                       session |-> FirstOf({s \in Sessions :
                                            CheckoutOf[s] = app.checkout})]])

CancelModal == app.modal # NoModal /\ Does([app EXCEPT !.modal = NoModal])

SubmitForm ==
    /\ app.modal.kind = "form"
    /\ Does([Ask(app, "create", app.modal.session) EXCEPT
               !.modal.kind = "submitted"])

ConfirmAction ==
    \/ /\ app.modal.kind = "stop"
       /\ app.active # NoSession
       /\ Does([AskNamed(app, "stop", app.active, app.modal.session) EXCEPT
                  !.modal = NoModal])
    \/ /\ app.modal.kind = "delete"
       /\ Does(Ask(app, "delete", app.modal.session))

(* A key typed into a terminal goes to InputTarget; the first one that has *)
(* nowhere to go gives the keyboard back to the navigator.                 *)
InputTarget(a) ==
    IF /\ a.focused
       /\ a.modal = NoModal
       /\ a.active \in Sessions
       /\ a.terminals[a.active] = "controller"
    THEN a.active ELSE NoSession

PressKey ==
    /\ app.focused
    /\ InputTarget(app) = NoSession
    /\ Does(Unfocus(app))

----------------------------------------------------------------------------
DaemonActs ==
    \/ \E s \in Sessions : OthersCreate(s) \/ SessionExits(s) \/ OthersDelete(s)
    \/ /\ app.connected
       /\ \E i \in DOMAIN app.calls :
            \/ ServesReading(i) \/ ServesStop(i) \/ ServesDelete(i)
            \/ ServesLaunch(i) \/ ServesError(i)
    \/ ConnectionCloses
    \/ \E i \in DOMAIN app.calls : RequestFails(i)

ApplicationActs ==
    \/ HandleDaemonEvent
    \/ TakeOverflowed
    \/ \E i \in DOMAIN app.calls : TakeReply(i) \/ ReplyIsDropped(i)

(* A dialog covers the window: the user answers it first.                  *)
UserActs ==
    \/ \E s \in Sessions : ActivateNotification(s)
    \/ /\ app.modal = NoModal
       /\ \/ \E s \in Sessions : ClickSession(s) \/ ClickTab(s) \/ CloseTab(s)
          \/ \E w \in Checkouts : ClickCheckout(w)
          \/ OpenTerminal \/ LeaveTerminal \/ ClickTerminal
          \/ Stop \/ PressDelete \/ ClickTrash \/ OpenSessionForm
          \/ PressKey
    \/ CancelModal \/ SubmitForm \/ ConfirmAction

DesktopNext == DaemonActs \/ ApplicationActs \/ UserActs

DesktopSpec == DesktopInit /\ [][DesktopNext]_desktopVars

----------------------------------------------------------------------------

(* The keyboard reaches only the terminal that it was given to: by the     *)
(* user, by an Attached reply, or by a launch.  However many events, lists,*)
(* exits, deletions and other replies come, in whichever order, they take  *)
(* it away at most, and none lets it follow to a tab that became active    *)
(* (restore_selection, handle_daemon_event, cleanup_deleted_session,       *)
(* handle_response).  Two things are left out: an Attached reply gives the *)
(* keyboard to the tab that is active when it comes, and a list may have   *)
(* made another tab active since the request; and a keyboard that is       *)
(* Astray when a reply comes may be taken anywhere.                        *)
KeyboardStays == InputTarget(app) \in given \cup {NoSession}

(* What the user agreed to stop is what the application asks the daemon to *)
(* stop (open_stop_confirmation, confirm_action).                          *)
StopsWhatItNames ==
    \A i \in DOMAIN app.calls :
        app.calls[i].op = "stop" => app.calls[i].session = app.calls[i].named
=============================================================================
