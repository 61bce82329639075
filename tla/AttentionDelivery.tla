------------------------- MODULE AttentionDelivery -------------------------
(***************************************************************************)
(* From an Attention Event to one notification.  The daemon stores the     *)
(* event and coordinates it under the Session's operation lock, wakes its  *)
(* clients, and gives a claim to the first that asks; a client revalidates *)
(* the claim against its own view before it presents it.  A terminal       *)
(* (sylvops-tui) is one loop that awaits each request; a desktop           *)
(* (sylvops-desktop) is an update loop and a bridge worker with a queue in *)
(* each direction.                                                         *)
(***************************************************************************)
EXTENDS AttentionClaims

CONSTANTS
    Terminals, Desktops,   \* the clients of each kind
    Sessions,
    None,                  \* no Session in view
    MaxEvents,             \* bound on the Attention Events raised
    Scenarios              \* who takes part, and bounds on what happens:
                           \*   clients, sessions   the ones that do
                           \*   events              Attention Events raised
                           \*   updates             other status updates
                           \*   looks               times users look elsewhere
                           \*   departures          clients that leave

Clients == Terminals \cup Desktops

ASSUME DeliveryAssumption ==
    /\ Terminals \cap Desktops = {}
    /\ None \notin Sessions
    /\ MaxEvents \in Nat
    /\ Scenarios \subseteq [clients : SUBSET Clients, sessions : SUBSET Sessions,
                            events : 0..MaxEvents, updates : Nat, looks : Nat, departures : Nat]

VARIABLES
    attention,   \* the stored latest event of each Session
    updating,    \* under its operation lock: the id before the update, or Free
    claims,      \* AttentionClaims
    link,        \* each client's connection at the daemon
    client,      \* each client
    fate,        \* what became of each event's notification
    left         \* the scenario, and what is left of its bounds

vars == <<attention, updating, claims, link, client, fate, left>>

Free == MaxEvents + 1
Ids == 1..MaxEvents
NoEvent == [id |-> 0, pending |-> FALSE, input |-> FALSE]
Events == [id : 0..MaxEvents, pending : BOOLEAN, input : BOOLEAN]

(* The reports of a client: nothing known of what the daemon holds, no     *)
(* Session in the foreground, or one.                                      *)
Unknown == "unknown"

Offline == [up |-> "off", request |-> [kind |-> "none"], heard |-> <<>>]
NewClient == [step |-> "start", visible |-> None, reported |-> Unknown,
              view |-> [s \in Sessions |-> NoEvent], refreshing |-> FALSE, snapshot |-> <<>>,
              commands |-> <<>>, inbox |-> <<>>]

Init ==
    /\ attention = [s \in Sessions |-> NoEvent]
    /\ updating = [s \in Sessions |-> Free]
    /\ claims = NoClaims
    /\ link = [c \in Clients |-> Offline]
    /\ client = [c \in Clients |-> NewClient]
    /\ fate = [i \in Ids |-> "none"]
    /\ left \in Scenarios

NextId == MaxEvents - left.events + 1

(* fate says what became of event i, unless that is settled already.       *)
Settle(i, outcome) == [fate EXCEPT ![i] = IF @ \in {"open", "claimed"} THEN outcome ELSE @]

(* The notifications of these claims are given up for this reason.         *)
SettleAll(given, outcome) ==
    [i \in Ids |-> IF \E e \in given : e.id = i THEN Settle(i, outcome)[i] ELSE fate[i]]

Offers == claims.pending

(* broadcast::Sender::send: every subscribed connection gets the event,    *)
(* and a desktop that still loads its first snapshot loses it.             *)
Listening(c) ==
    /\ link[c].up = "on"
    /\ c \in Desktops => client[c].step \notin {"start", "loaded"}

Broadcast(event) ==
    link' = [c \in Clients |->
               IF Listening(c) THEN [link[c] EXCEPT !.heard = Append(@, event)] ELSE link[c]]

----------------------------------------------------------------------------
(* The daemon's Session updates, under the operation lock.                 *)

(* The reducer's new status is stored: a new event, or the condition of    *)
(* the current one is resolved, or its attention is unchanged.             *)
RaiseAttention(s) ==
    /\ updating[s] = Free
    /\ s \in left.sessions /\ left.events > 0
    /\ \E input \in BOOLEAN :
         attention' = [attention EXCEPT ![s] = [id |-> NextId, pending |-> TRUE, input |-> input]]
    /\ updating' = [updating EXCEPT ![s] = attention[s].id]
    /\ left' = [left EXCEPT !.events = @ - 1]
    /\ fate' = [i \in Ids |-> CASE i = NextId -> "open"
                                [] i = attention[s].id -> Settle(i, "resolved")[i]
                                [] OTHER -> fate[i]]
    /\ UNCHANGED <<claims, link, client>>

(* Dismiss and AcknowledgeAttention settle the event too; they cancel its  *)
(* claim as coordinating an unchanged event that is not pending does.      *)
UpdateStatus(s) ==
    /\ updating[s] = Free
    /\ s \in left.sessions /\ left.updates > 0
    /\ \/ UNCHANGED <<attention, fate>>
       \/ /\ attention[s].pending
          /\ attention' = [attention EXCEPT ![s].pending = FALSE]
          /\ fate' = Settle(attention[s].id, "resolved")
    /\ updating' = [updating EXCEPT ![s] = attention[s].id]
    /\ left' = [left EXCEPT !.updates = @ - 1]
    /\ UNCHANGED <<claims, link, client>>

(* coordinate_attention_notification, the broadcast of                     *)
(* SessionStatusChanged, and the end of the critical section.              *)
Coordinated(s) ==
    CASE attention[s].id # updating[s] -> Record(claims, s, attention[s])
      [] attention[s].id = updating[s] /\ ~attention[s].pending -> Cancel(claims, s)
      [] OTHER -> claims

CoordinateAttention(s) ==
    /\ updating[s] # Free
    /\ claims' = Coordinated(s)
    /\ LET fresh == attention[s].id # updating[s]
           others == Cancel(claims, s).pending
           evicted == IF fresh /\ Offered(claims, s, attention[s]) /\ Full(others)
                      THEN {Oldest(others)} ELSE {}
           settled == SettleAll(evicted, "evicted")
       IN  fate' = IF fresh /\ ~Offered(claims, s, attention[s])
                   THEN [settled EXCEPT ![attention[s].id] =
                           IF DOMAIN claims.watermarks = {} THEN "unheard" ELSE "seen"]
                   ELSE settled
    /\ updating' = [updating EXCEPT ![s] = Free]
    /\ Broadcast([kind |-> "status", session |-> s, event |-> attention[s]])
    /\ UNCHANGED <<attention, client, left>>

----------------------------------------------------------------------------
(* The claims' clock: an input request becomes eligible a second later,    *)
(* and the notification tick wakes the clients for what is due.            *)

Mature ==
    /\ \E e \in Offers : ~e.ready /\ claims' = Matured(claims, e)
    /\ UNCHANGED <<attention, updating, link, client, fate, left>>

NotificationTick ==
    /\ Due(claims) # {}
    /\ claims' = AnnounceDue(claims)
    /\ Broadcast([kind |-> "available"])
    /\ UNCHANGED <<attention, updating, client, fate, left>>

----------------------------------------------------------------------------
(* A connection at the daemon.                                             *)

SetLink(c, l) == link' = [link EXCEPT ![c] = l]
SetClient(c, k) == client' = [client EXCEPT ![c] = k]

(* serve_client registers the client before it subscribes to events.       *)
RegisterClient(c) ==
    /\ c \in left.clients /\ link[c].up = "off"
    /\ claims' = Register(claims, c)
    /\ SetLink(c, [Offline EXCEPT !.up = "registered"])
    /\ UNCHANGED <<attention, updating, client, fate, left>>

SubscribeClient(c) ==
    /\ link[c].up = "registered"
    /\ SetLink(c, [link[c] EXCEPT !.up = "on"])
    /\ UNCHANGED <<attention, updating, claims, client, fate, left>>

(* The client's process goes away; its connection serves the request it    *)
(* has begun and only then drops the ClientGuard.                          *)
Depart(c) ==
    /\ link[c].up = "on"
    /\ left.departures > 0
    /\ left' = [left EXCEPT !.departures = @ - 1]
    /\ SetLink(c, [link[c] EXCEPT !.up = "gone", !.heard = <<>>])
    /\ SetClient(c, NewClient)
    /\ fate' = SettleAll({m.claim : m \in {m \in ToSet(client[c].inbox) :
                                             m.kind = "claim" /\ m.some}}, "dropped")
    /\ UNCHANGED <<attention, updating, claims>>

UnregisterClient(c) ==
    /\ link[c].up = "gone"
    /\ link[c].request.kind = "none"
    /\ claims' = Unregister(claims, c)
    /\ fate' = SettleAll({e \in Offers : \A d \in DOMAIN claims.watermarks \ {c} :
                                            e.sequence <= claims.watermarks[d]}, "unheard")
    /\ SetLink(c, Offline)
    /\ UNCHANGED <<attention, updating, client, left>>

NoRequest(c) == [link[c] EXCEPT !.request = [kind |-> "none"]]

(* The response of the request being served, unless the client is gone.    *)
Respond(c, response) ==
    /\ SetLink(c, NoRequest(c))
    /\ IF link[c].up = "on"
       THEN SetClient(c, [client[c] EXCEPT !.inbox = Append(@, response)])
       ELSE UNCHANGED client

(* ReportAttentionFocus: a Session is reported under its operation lock,   *)
(* no Session at once.                                                     *)
ServeFocus(c) ==
    LET s == link[c].request.session
    IN  /\ link[c].request.kind = "focus"
        /\ s # None => updating[s] = Free
        /\ claims' = IF s = None THEN ReportNoFocus(claims, c) ELSE ReportFocus(claims, c, s)
        /\ fate' = SettleAll({e \in Offers : e.session = s}, "seen")
        /\ Respond(c, [kind |-> "focused", session |-> s])
        /\ UNCHANGED <<attention, updating, left>>

(* claim_attention_notification: takes a claim without the operation lock, *)
(* waits for the lock, and goes on to the next claim when this one is no   *)
(* longer current or somebody looks at the Session.                        *)
ServeClaim(c) ==
    /\ link[c].request.kind = "claim"
    /\ IF Claimable(claims, c) = {}
       THEN /\ Respond(c, [kind |-> "claim", some |-> FALSE])
            /\ UNCHANGED <<claims, fate>>
       ELSE /\ claims' = Claimed(claims, c)
            /\ fate' = Settle(ClaimFor(claims, c).id, "claimed")
            /\ SetLink(c, [link[c] EXCEPT !.request =
                             [kind |-> "validate", claim |-> ClaimFor(claims, c)]])
            /\ UNCHANGED client
    /\ UNCHANGED <<attention, updating, left>>

IsPending(event, claim) == event.pending /\ event.id = claim.id

ValidateClaim(c) ==
    LET claim == link[c].request.claim
        s == claim.session
    IN  /\ link[c].request.kind = "validate"
        /\ updating[s] = Free
        /\ IF ~IsPending(attention[s], claim) \/ InForeground(claims, s)
           THEN /\ SetLink(c, [link[c] EXCEPT !.request = [kind |-> "claim"]])
                /\ fate' = Settle(claim.id, "seen")
                /\ UNCHANGED client
           ELSE /\ Respond(c, [kind |-> "claim", some |-> TRUE, claim |-> claim])
                /\ fate' = IF link[c].up = "gone" THEN Settle(claim.id, "dropped") ELSE fate
        /\ UNCHANGED <<attention, updating, claims, left>>

Ask(c, request) == SetLink(c, [link[c] EXCEPT !.request = request])

(* The notification channels present the claim.                            *)
Presented(i) == [fate EXCEPT ![i] = IF @ = "shown" THEN "shown twice" ELSE "shown"]

----------------------------------------------------------------------------
(* The terminal client: one loop, one request at a time.  At its top it    *)
(* reports its focus, drains its events, and after any event refreshes its *)
(* snapshot, reports again and takes claims until there is none.           *)

Terminal(c, step) ==
    c \in Terminals /\ link[c].up = "on" /\ client[c].step = step
    /\ link[c].request.kind = "none" /\ client[c].inbox = <<>>

TerminalStart(c) ==
    /\ Terminal(c, "start")
    /\ SetClient(c, [client[c] EXCEPT !.step = "top"])
    /\ UNCHANGED <<attention, updating, claims, link, fate, left>>

TerminalReports(c) ==
    /\ Terminal(c, "top") \/ Terminal(c, "refresh")
    /\ client[c].reported # client[c].visible
    /\ Ask(c, [kind |-> "focus", session |-> client[c].visible])
    /\ UNCHANGED <<attention, updating, claims, client, fate, left>>

TerminalReported(c) ==
    /\ c \in Terminals /\ client[c].inbox # <<>>
    /\ Head(client[c].inbox).kind = "focused"
    /\ SetClient(c, [client[c] EXCEPT !.inbox = <<>>, !.reported = Head(client[c].inbox).session])
    /\ UNCHANGED <<attention, updating, claims, link, fate, left>>

(* Mutant: a wake-up alone does not make the loop ask.                     *)
TerminalDrainsStatusOnly(c) ==
    /\ Terminal(c, "top")
    /\ client[c].reported = client[c].visible
    /\ LET changed == \E e \in ToSet(link[c].heard) : e.kind = "status"
       IN  SetClient(c, [client[c] EXCEPT !.step = IF changed THEN "refresh" ELSE "wait",
                                          !.reported = IF changed THEN Unknown ELSE @])
    /\ SetLink(c, [link[c] EXCEPT !.heard = <<>>])
    /\ UNCHANGED <<attention, updating, claims, fate, left>>

TerminalDrains(c) ==
    /\ Terminal(c, "top")
    /\ client[c].reported = client[c].visible
    /\ SetLink(c, [link[c] EXCEPT !.heard = <<>>])
    /\ SetClient(c, [client[c] EXCEPT
         !.step = IF link[c].heard = <<>> THEN "wait" ELSE "refresh",
         !.reported = IF \E e \in ToSet(link[c].heard) : e.kind = "status" THEN Unknown ELSE @])
    /\ UNCHANGED <<attention, updating, claims, fate, left>>

TerminalRefreshes(c) ==
    /\ Terminal(c, "refresh")
    /\ client[c].reported = client[c].visible
    /\ SetClient(c, [client[c] EXCEPT !.step = "deliver"])
    /\ Ask(c, [kind |-> "claim"])
    /\ UNCHANGED <<attention, updating, claims, fate, left>>

(* A claim is skipped when its Session is in view, or when a fresh         *)
(* snapshot no longer shows the event pending.                             *)
TerminalDelivers(c) ==
    LET response == Head(client[c].inbox)
        claim == response.claim
    IN  /\ c \in Terminals /\ client[c].inbox # <<>> /\ response.kind = "claim"
        /\ SetClient(c, [client[c] EXCEPT !.inbox = <<>>,
                                          !.step = IF response.some THEN @ ELSE "wait"])
        /\ IF response.some
           THEN /\ fate' = IF client[c].visible = claim.session THEN Settle(claim.id, "seen")
                           ELSE IF ~IsPending(attention[claim.session], claim)
                           THEN Settle(claim.id, "resolved")
                           ELSE Presented(claim.id)
                /\ Ask(c, [kind |-> "claim"])
           ELSE UNCHANGED <<fate, link>>
        /\ UNCHANGED <<attention, updating, claims, left>>

(* The loop sleeps until input, which may change what is in view, or an    *)
(* event.                                                                  *)
TerminalWakes(c) ==
    /\ Terminal(c, "wait")
    /\ \/ link[c].heard # <<>> /\ UNCHANGED left
          /\ SetClient(c, [client[c] EXCEPT !.step = "top"])
       \/ /\ left.looks > 0 /\ left' = [left EXCEPT !.looks = @ - 1]
          /\ \E s \in left.sessions \cup {None} :
               SetClient(c, [client[c] EXCEPT !.step = "top", !.visible = s])
    /\ UNCHANGED <<attention, updating, claims, link, fate>>

----------------------------------------------------------------------------
(* The desktop client.  Its step is AttentionClaimState once connected.    *)

Desktop(c) == c \in Desktops /\ link[c].up = "on"
Connected(c) == Desktop(c) /\ client[c].step \in {"idle", "due", "pending"}

(* The bridge reads the snapshot, the providers and the preferences, hands *)
(* them to the update loop and subscribes to events.                       *)
DesktopLoads(c) ==
    /\ Desktop(c) /\ client[c].step = "start"
    /\ SetClient(c, [client[c] EXCEPT !.step = "loaded", !.view = attention])
    /\ UNCHANGED <<attention, updating, claims, link, fate, left>>

(* sync_attention_focus: the background is not reported while nothing is   *)
(* known of what the daemon holds.                                         *)
SyncFocus(k) ==
    IF k.visible = k.reported \/ (k.visible = None /\ k.reported = Unknown) THEN k
    ELSE [k EXCEPT !.reported = k.visible,
                   !.commands = Append(@, [kind |-> "focus", session |-> k.visible])]

(* request_attention_notification_claim.                                   *)
RequestClaim(k) ==
    IF k.step # "due" THEN k
    ELSE [k EXCEPT !.step = "pending", !.commands = Append(@, [kind |-> "claim"])]

ClaimIsDue(k) == RequestClaim([k EXCEPT !.step = "due"])

RequestSnapshot(k) ==
    IF k.refreshing THEN k
    ELSE [k EXCEPT !.refreshing = TRUE, !.commands = Append(@, [kind |-> "snapshot"])]

DesktopConnects(c) ==
    /\ Desktop(c) /\ client[c].step = "loaded"
    /\ SetClient(c, ClaimIsDue(SyncFocus([client[c] EXCEPT !.reported = Unknown])))
    /\ UNCHANGED <<attention, updating, claims, link, fate, left>>

(* The bridge worker: a focus report and a claim are awaited before it     *)
(* looks at anything else, a snapshot is fetched by a task of its own.     *)
BridgeTakes(c) ==
    LET command == Head(client[c].commands)
        rest == [client[c] EXCEPT !.commands = Tail(@)]
    IN  /\ Connected(c) /\ link[c].request.kind = "none" /\ client[c].commands # <<>>
        /\ IF command.kind = "snapshot"
           THEN SetClient(c, [rest EXCEPT !.snapshot = <<"sent">>]) /\ UNCHANGED link
           ELSE SetClient(c, rest) /\ Ask(c, command)
        /\ UNCHANGED <<attention, updating, claims, fate, left>>

BridgeForwards(c) ==
    /\ Connected(c) /\ link[c].request.kind = "none" /\ link[c].heard # <<>>
    /\ SetClient(c, [client[c] EXCEPT !.inbox = Append(@, Head(link[c].heard))])
    /\ SetLink(c, [link[c] EXCEPT !.heard = Tail(@)])
    /\ UNCHANGED <<attention, updating, claims, fate, left>>

(* The daemon reads the snapshot between two requests of the connection;   *)
(* its response reaches the inbox whenever the task runs.                  *)
ServeSnapshot(c) ==
    /\ Connected(c) /\ client[c].snapshot = <<"sent">>
    /\ link[c].request.kind # "validate"
    /\ SetClient(c, [client[c] EXCEPT !.snapshot = <<"read", attention>>])
    /\ UNCHANGED <<attention, updating, claims, link, fate, left>>

SnapshotArrives(c) ==
    /\ Connected(c) /\ Len(client[c].snapshot) = 2
    /\ SetClient(c, [client[c] EXCEPT !.snapshot = <<>>,
         !.inbox = Append(@, [kind |-> "snapshot", view |-> client[c].snapshot[2]])])
    /\ UNCHANGED <<attention, updating, claims, link, fate, left>>

(* handle_bridge_event for each kind of message.                           *)
Handled(k, message) ==
    CASE message.kind = "available" -> ClaimIsDue(SyncFocus(k))
      [] message.kind = "status" ->
           RequestSnapshot(ClaimIsDue(SyncFocus(
             [k EXCEPT !.view[message.session] = message.event, !.reported = Unknown])))
      [] message.kind = "snapshot" -> [k EXCEPT !.view = message.view, !.refreshing = FALSE]
      [] message.kind = "focused" -> k
      [] message.kind = "claim" /\ ~message.some -> [k EXCEPT !.step = "idle"]
      [] message.kind = "claim" /\ message.some -> ClaimIsDue(k)

DesktopHandles(c) ==
    LET message == Head(client[c].inbox)
        taken == [client[c] EXCEPT !.inbox = Tail(@)]
    IN  /\ Connected(c) /\ client[c].inbox # <<>>
        /\ SetClient(c, Handled(taken, message))
        /\ fate' = IF message.kind = "claim" /\ message.some
                   THEN LET claim == message.claim
                        IN  IF ~IsPending(client[c].view[claim.session], claim)
                            THEN Settle(claim.id, "outdated")
                            ELSE IF client[c].visible = claim.session
                            THEN Settle(claim.id, "seen")
                            ELSE Presented(claim.id)
                   ELSE fate
        /\ UNCHANGED <<attention, updating, claims, link, left>>

DesktopTicks(c) ==
    /\ Connected(c)
    /\ SetClient(c, RequestClaim(SyncFocus(client[c])))
    /\ client' # client
    /\ UNCHANGED <<attention, updating, claims, link, fate, left>>

(* A change of the window's focus or of the selection is reported at once, *)
(* a modal that covers the Session only by the next Tick.                  *)
DesktopLooks(c) ==
    /\ Connected(c)
    /\ left.looks > 0 /\ left' = [left EXCEPT !.looks = @ - 1]
    /\ \E s \in left.sessions \cup {None} :
         /\ s # client[c].visible
         /\ \/ SetClient(c, SyncFocus([client[c] EXCEPT !.visible = s]))
            \/ s = None /\ SetClient(c, [client[c] EXCEPT !.visible = s])
    /\ UNCHANGED <<attention, updating, claims, link, fate>>

----------------------------------------------------------------------------
SessionStep(s) == RaiseAttention(s) \/ UpdateStatus(s)

ServerStep(c) ==
    \/ SubscribeClient(c) \/ UnregisterClient(c)
    \/ ServeFocus(c) \/ ServeClaim(c) \/ ValidateClaim(c) \/ ServeSnapshot(c)

TerminalStep(c) ==
    \/ TerminalStart(c) \/ TerminalReports(c) \/ TerminalReported(c)
    \/ TerminalDrains(c) \/ TerminalRefreshes(c) \/ TerminalDelivers(c)

DesktopStep(c) ==
    \/ DesktopLoads(c) \/ DesktopConnects(c) \/ BridgeForwards(c)
    \/ SnapshotArrives(c) \/ DesktopHandles(c) \/ DesktopTicks(c)

Next ==
    \/ \E s \in Sessions : SessionStep(s) \/ CoordinateAttention(s)
    \/ Mature \/ NotificationTick
    \/ \E c \in Clients :
         \/ RegisterClient(c) \/ Depart(c) \/ ServerStep(c)
         \/ TerminalStep(c) \/ TerminalWakes(c)
         \/ DesktopStep(c) \/ BridgeTakes(c) \/ DesktopLooks(c)

Spec == Init /\ [][Next]_vars

(* The daemon's tasks and its interval, the timers, the bridge and the     *)
(* update loops keep running; a user need not look, a Session need not     *)
(* change, and a terminal wakes for an event.                              *)
Fairness ==
    /\ \A s \in Sessions : WF_vars(CoordinateAttention(s))
    /\ WF_vars(Mature) /\ WF_vars(NotificationTick)
    /\ \A c \in Clients :
         /\ WF_vars(ServerStep(c)) /\ WF_vars(TerminalStep(c))
         /\ WF_vars(TerminalWakes(c) /\ link[c].heard # <<>>)
         /\ WF_vars(DesktopStep(c)) /\ WF_vars(BridgeTakes(c))

FairSpec == Spec /\ Fairness

----------------------------------------------------------------------------
Requests == {"none", "focus", "claim", "validate"}

(* Two clients never present the same Attention Event, nor one client      *)
(* twice: the daemon "grants at most one bounded delivery claim for each   *)
(* live Attention Event" (docs/adr/0009).                                  *)
AtMostOnePresentation == \A i \in Ids : fate[i] # "shown twice"

InFlight(i) ==
    \E c \in Clients :
      \/ link[c].request.kind = "validate" /\ link[c].request.claim.id = i
      \/ \E m \in ToSet(client[c].inbox) : m.kind = "claim" /\ m.some /\ m.claim.id = i

(* An event that still calls for attention is never forgotten on the way:  *)
(* its claim is on offer or in flight, or its notification was presented,  *)
(* or it was given up for one of the reasons the design allows: a client   *)
(* showed the Session ("seen"), nobody was connected that could claim it   *)
(* ("unheard"), the claimant left ("dropped"), the queue was full          *)
(* ("evicted"), or the desktop's view did not show it yet ("outdated").    *)
PendingIsAccounted ==
    \A s \in Sessions :
      attention[s].pending /\ updating[s] = Free =>
        LET i == attention[s].id
        IN  CASE fate[i] = "open" -> \E e \in Offers : e.id = i
              [] fate[i] = "claimed" -> InFlight(i)
              [] OTHER -> fate[i] \in {"shown", "seen", "unheard", "dropped", "evicted", "outdated"}

OnOffer(i) == {e \in Offers : e.id = i}

(* A claim that a listening client may take is not left on offer: it is    *)
(* taken or cancelled, unless the client goes away.  The claim was not yet *)
(* announced when the client listened: the wake-up must reach somebody     *)
(* that asks after it.                                                     *)
OffersAreTaken ==
    \A i \in Ids : \A c \in Clients :
      (Listening(c) /\ \E e \in OnOffer(i) : ~e.announced /\ e.sequence > claims.watermarks[c])
        ~> (OnOffer(i) = {} \/ link[c].up # "on")
=============================================================================
