---------------------------- MODULE ClientProofs ----------------------------
(***************************************************************************)
(* Theorems about what the clients are told and show.                      *)
(*                                                                         *)
(* Notifications (AttentionDelivery), for any clients, Sessions, number of *)
(* Attention Events and capacity of the claims: no event is presented      *)
(* twice, and none is forgotten between its recording and the client.  The *)
(* argument follows the claim.  It is in one place at a time: on offer     *)
(* with the daemon, with the connection that validates it, or in one       *)
(* message to one client (OnePlace).  Wherever it is its event was not     *)
(* presented (ClaimsAreLive), so presenting it, which takes it from the    *)
(* message, happens once.  An event whose update is finished has left its  *)
(* claim in one of these places, or its fate says what became of it        *)
(* (EventsAreAccounted).                                                   *)
(*                                                                         *)
(* GitHub (GitHubBrowser, GitHubModal), for any Projects, filters and      *)
(* numbers of pages: what the desktop and the terminal UI show is the      *)
(* answer to what the user has chosen by now.  The argument follows the    *)
(* request: the one that is pending asks for what is shown, or for the     *)
(* page after the comments that are there, unless it was overtaken         *)
(* (SlotFits) or its identity is not the registered one (Fits).            *)
(*                                                                         *)
(* Changes (ChangesReview), for any Checkouts, files and choices: a review *)
(* that is paused stays what it was until the user asks for more.  The     *)
(* argument follows the reply: one that arrives in a paused review is      *)
(* thrown away, or is the diff of a file that was chosen since, or is of a *)
(* selection that has changed (OfFiles, Unchosen).                         *)
(***************************************************************************)
EXTENDS AttentionDelivery, GitHubModal, ChangesReview, FiniteSetTheorems,
        SequenceTheorems, TLAPS

(***************************************************************************)
(* Notifications.                                                          *)

Claims == [sequence : Nat, session : Sessions, id : Ids,
           ready : BOOLEAN, announced : BOOLEAN]

Views == [Sessions -> Events]

Notices == [kind : {"available"}]
           \cup [kind : {"status"}, session : Sessions, event : Events]

Messages == Notices
            \cup [kind : {"snapshot"}, view : Views]
            \cup [kind : {"focused"}, session : Sessions \cup {None}]
            \cup [kind : {"claim"}, some : {FALSE}]
            \cup [kind : {"claim"}, some : {TRUE}, claim : Claims]

Commands == [kind : {"claim", "snapshot"}]
            \cup [kind : {"focus"}, session : Sessions \cup {None}]

Served == [kind : {"none", "claim"}]
          \cup [kind : {"focus"}, session : Sessions \cup {None}]
          \cup [kind : {"validate"}, claim : Claims]

Links == [up : {"off", "registered", "on", "gone"},
          request : Served, heard : Seq(Notices)]

Steps == {"start", "top", "refresh", "deliver", "wait",
          "loaded", "idle", "due", "pending"}

Snapshots == {<<>>, <<"sent">>} \cup {<<"read", v>> : v \in Views}

ClientStates ==
    [step : Steps, visible : Sessions \cup {None},
     reported : Sessions \cup {None, Unknown}, view : Views,
     refreshing : BOOLEAN, snapshot : Snapshots,
     commands : Seq(Commands), inbox : Seq(Messages)]

Reasons == {"seen", "unheard", "dropped", "evicted", "outdated"}

Fates == {"none", "open", "claimed", "shown", "shown twice", "resolved"}
         \cup Reasons

Partial(S, T) == UNION {[D -> T] : D \in SUBSET S}

Boards == [sequence : Nat, watermarks : Partial(Clients, Nat),
           foreground : Partial(Clients, Sessions), pending : SUBSET Claims]

Bounds == [clients : SUBSET Clients, sessions : SUBSET Sessions,
           events : 0..MaxEvents, updates : Nat, looks : Nat, departures : Nat]

AttentionTypeOK ==
    /\ attention \in Views
    /\ updating \in [Sessions -> 0..Free]
    /\ claims \in Boards
    /\ link \in [Clients -> Links]
    /\ client \in [Clients -> ClientStates]
    /\ fate \in [Ids -> Fates]
    /\ left \in Bounds

----------------------------------------------------------------------------
(* A claim is in one place: on offer, with the connection that validates   *)
(* it, or in one message to a client.                                      *)

Checks(c) == link[c].request.kind = "validate"
Checked(c) == link[c].request.claim

Delivers(m) == m.kind = "claim" /\ m.some = TRUE
Carries(c, j) == Delivers(client[c].inbox[j])
Carried(c, j) == client[c].inbox[j].claim

OnePlace ==
    /\ \A e, f \in Offers : e.id = f.id => e = f
    /\ \A c \in Clients : Checks(c) => \A e \in Offers : e.id # Checked(c).id
    /\ \A c, d \in Clients :
         Checks(c) /\ Checks(d) /\ Checked(c).id = Checked(d).id => c = d
    /\ \A c \in Clients : \A j \in DOMAIN client[c].inbox : Carries(c, j) =>
         \A e \in Offers : e.id # Carried(c, j).id
    /\ \A c, d \in Clients : \A j \in DOMAIN client[c].inbox :
         Carries(c, j) /\ Checks(d) => Checked(d).id # Carried(c, j).id
    /\ \A c, d \in Clients :
         \A j \in DOMAIN client[c].inbox, k \in DOMAIN client[d].inbox :
           Carries(c, j) /\ Carries(d, k) /\ Carried(c, j).id = Carried(d, k).id
           => c = d /\ j = k

(* The update of a Session has stored an event that is yet to be recorded. *)
Fresh(s) == updating[s] \notin {Free, attention[s].id}

(* The claim's event is an earlier one, it is of the claim's Session, and  *)
(* its notification is still to be presented.                              *)
Live(claim) ==
    /\ claim.id < NextId
    /\ fate[claim.id] \notin {"shown", "shown twice"}
    /\ \A s \in Sessions : attention[s].id = claim.id => s = claim.session /\ ~Fresh(s)

ClaimsAreLive ==
    /\ \A e \in Offers : Live(e)
    /\ \A c \in Clients : Checks(c) => Live(Checked(c))
    /\ \A c \in Clients : \A j \in DOMAIN client[c].inbox :
         Carries(c, j) => Live(Carried(c, j))

EventsAreDistinct ==
    \A s \in Sessions :
      /\ attention[s].id < NextId
      /\ attention[s].id # 0 =>
           \A t \in Sessions : attention[t].id = attention[s].id => t = s
      /\ attention[s].pending => attention[s].id # 0
      /\ Fresh(s) => attention[s].id # 0 /\ fate[attention[s].id] = "open"

(* A claim on offer may still be claimed by a connected client, and a      *)
(* registered client is one the daemon serves.                             *)
OffersAreClaimable ==
    /\ DOMAIN claims.watermarks = {c \in Clients : link[c].up # "off"}
    /\ \A c \in DOMAIN claims.watermarks : claims.watermarks[c] <= claims.sequence
    /\ \A e \in Offers : \E c \in DOMAIN claims.watermarks : claims.watermarks[c] < e.sequence

(* A terminal awaits the answer of its request before it does more.        *)
TerminalsAwait ==
    \A c \in Terminals :
      client[c].inbox # <<>> => Len(client[c].inbox) = 1 /\ link[c].request.kind = "none"

(* Only a connected client is served, and only it has messages.            *)
ConnectionsHold ==
    \A c \in Clients :
      /\ link[c].up \in {"off", "registered"} => link[c].request.kind = "none"
      /\ client[c].inbox # <<>> => link[c].up = "on"

IsAccounted(i) ==
    CASE fate[i] = "open" -> \E e \in Offers : e.id = i
      [] fate[i] = "claimed" -> InFlight(i)
      [] OTHER -> fate[i] \in {"shown"} \cup Reasons

EventsAreAccounted ==
    \A s \in Sessions : attention[s].pending /\ ~Fresh(s) => IsAccounted(attention[s].id)

DeliveryInv ==
    /\ AttentionTypeOK
    /\ OnePlace
    /\ ClaimsAreLive
    /\ EventsAreDistinct
    /\ AtMostOnePresentation
    /\ OffersAreClaimable
    /\ TerminalsAwait
    /\ ConnectionsHold
    /\ EventsAreAccounted
----------------------------------------------------------------------------
(* What the messages, the requests and the commands of the model are.      *)
LEMMA MessageKinds ==
    /\ Notices \subseteq Messages
    /\ [kind |-> "available"] \in Notices
    /\ \A s \in Sessions, e \in Events : [kind |-> "status", session |-> s, event |-> e] \in Notices
    /\ \A v \in Views : [kind |-> "snapshot", view |-> v] \in Messages
    /\ \A s \in Sessions \cup {None} : [kind |-> "focused", session |-> s] \in Messages
    /\ [kind |-> "claim", some |-> FALSE] \in Messages
    /\ \A e \in Claims : [kind |-> "claim", some |-> TRUE, claim |-> e] \in Messages
BY DEF Messages, Notices

(* What a message of each kind holds.                                      *)
LEMMA MessageParts ==
    ASSUME NEW m \in Messages
    PROVE  /\ m.kind = "status" => m.session \in Sessions /\ m.event \in Events
           /\ m.kind = "snapshot" => m.view \in Views
           /\ m.kind = "focused" => m.session \in Sessions \cup {None}
           /\ m.kind = "claim" => m.some \in BOOLEAN
           /\ Delivers(m) => m.claim \in Claims
           /\ m \in Notices => ~Delivers(m)
BY DEF Messages, Notices, Delivers

(* What a served request and a desktop's command hold.                     *)
LEMMA RequestKinds ==
    /\ [kind |-> "none"] \in Served
    /\ [kind |-> "claim"] \in Served \cap Commands
    /\ [kind |-> "snapshot"] \in Commands
    /\ \A s \in Sessions \cup {None} : [kind |-> "focus", session |-> s] \in Served \cap Commands
    /\ \A e \in Claims : [kind |-> "validate", claim |-> e] \in Served
    /\ \A m \in Commands : m.kind # "snapshot" => m \in Served /\ m.kind # "validate"
    /\ \A r \in Served : /\ r.kind = "focus" => r.session \in Sessions \cup {None}
                         /\ r.kind = "validate" => r.claim \in Claims
BY DEF Served, Commands

(* The claims record stays one, and what happens to what is on offer.      *)
LEMMA PartialFacts ==
    ASSUME NEW S, NEW T, NEW f \in Partial(S, T), NEW c \in S
    PROVE  /\ Without(f, c) \in Partial(S, T)
           /\ \A v \in T : With(f, c, v) \in Partial(S, T)
<1>. PICK D \in SUBSET S : f \in [D -> T]
  BY DEF Partial
<1>1. DOMAIN f = D
  OBVIOUS
<1>2. Without(f, c) \in [D \ {c} -> T]
  BY DEF Without, Restrict
<1>3. \A v \in T : With(f, c, v) \in [D \cup {c} -> T]
  BY DEF With
<1>4. D \ {c} \in SUBSET S /\ D \cup {c} \in SUBSET S
  OBVIOUS
<1>. QED
  BY <1>2, <1>3, <1>4 DEF Partial

(* Every operation on the claims makes claims of claims.                   *)
LEMMA ClaimOperators ==
    ASSUME NEW b \in Boards
    PROVE  /\ \A c \in Clients : /\ Register(b, c) \in Boards
                                 /\ Unregister(b, c) \in Boards
                                 /\ ReportNoFocus(b, c) \in Boards
                                 /\ Claimed(b, c) \in Boards
           /\ \A s \in Sessions : Cancel(b, s) \in Boards
           /\ \A s \in Sessions, c \in Clients : ReportFocus(b, c, s) \in Boards
           /\ \A s \in Sessions, e \in Events : e.id # 0 => Record(b, s, e) \in Boards
           /\ \A e \in b.pending : Matured(b, e) \in Boards
           /\ AnnounceDue(b) \in Boards
<1>1. /\ b.sequence \in Nat
      /\ b.watermarks \in Partial(Clients, Nat)
      /\ b.foreground \in Partial(Clients, Sessions)
      /\ b.pending \in SUBSET Claims
  BY DEF Boards
<1>2. \A w \in Partial(Clients, Nat), f \in Partial(Clients, Sessions), p \in SUBSET Claims,
         n \in Nat :
        /\ [b EXCEPT !.watermarks = w] \in Boards
        /\ [b EXCEPT !.foreground = f] \in Boards
        /\ [b EXCEPT !.pending = p] \in Boards
        /\ [b EXCEPT !.sequence = n, !.pending = p] \in Boards
        /\ [b EXCEPT !.watermarks = w, !.foreground = f] \in Boards
  BY DEF Boards
<1>3. \A d \in Boards : PruneUnclaimable(d) \in Boards
  BY DEF Boards, PruneUnclaimable
<1>4. \A c \in Clients : Register(b, c) \in Boards
  BY <1>1, <1>2, <1>3, PartialFacts DEF Register
<1>5. ASSUME NEW c \in Clients PROVE Unregister(b, c) \in Boards
  <2>1. Without(b.watermarks, c) \in Partial(Clients, Nat)
    BY <1>1, PartialFacts
  <2>2. Without(b.foreground, c) \in Partial(Clients, Sessions)
    BY <1>1, PartialFacts
  <2>. QED
    BY <2>1, <2>2, <1>2, <1>3 DEF Unregister
<1>6. \A s \in Sessions : Cancel(b, s) \in Boards
  BY <1>1, <1>2 DEF Cancel
<1>7. ASSUME NEW c \in Clients, NEW s \in Sessions PROVE ReportFocus(b, c, s) \in Boards
  <2>1. With(b.foreground, c, s) \in Partial(Clients, Sessions)
    BY <1>1, PartialFacts
  <2>2. \A d \in Boards : \A f \in Partial(Clients, Sessions) : [d EXCEPT !.foreground = f] \in Boards
    BY DEF Boards
  <2>3. Cancel(b, s).foreground = b.foreground
    BY DEF Cancel, Boards
  <2>. QED
    BY <2>1, <2>2, <2>3, <1>6 DEF ReportFocus
<1>8. \A c \in Clients : ReportNoFocus(b, c) \in Boards
  BY <1>1, <1>2, PartialFacts DEF ReportNoFocus
<1>9. \A c \in Clients : Claimed(b, c) \in Boards
  BY <1>1, <1>2 DEF Claimed
<1>10. \A s \in Sessions, e \in Events : e.id # 0 => Record(b, s, e) \in Boards
  <2> SUFFICES ASSUME NEW s \in Sessions, NEW e \in Events, e.id # 0
               PROVE  Record(b, s, e) \in Boards
    OBVIOUS
  <2> DEFINE new == [sequence |-> b.sequence + 1, session |-> s, id |-> e.id,
                     ready |-> ~e.input, announced |-> FALSE]
  <2>1. new \in Claims
    <3>1. e.id \in Ids
      BY DeliveryAssumption DEF Events, Ids
    <3>. QED
      BY <3>1, <1>1 DEF Claims
  <2>2. /\ Cancel(b, s).pending \in SUBSET Claims
        /\ Cancel(b, s).sequence = b.sequence
    BY <1>1 DEF Cancel, Boards
  <2> HIDE DEF new
  <2>3. \A d \in Boards, p \in SUBSET Claims, n \in Nat :
          [d EXCEPT !.sequence = n, !.pending = p] \in Boards
    BY DEF Boards
  <2> DEFINE d == Cancel(b, s)
             old == IF Full(d.pending) THEN {Oldest(d.pending)} ELSE {}
             after == (d.pending \ old) \cup {new}
  <2>4. after \in SUBSET Claims
    BY <2>1, <2>2
  <2>5. Record(b, s, e) = IF Offered(b, s, e)
                          THEN [d EXCEPT !.sequence = d.sequence + 1, !.pending = after] ELSE d
    BY DEF Record, new
  <2>7. d \in Boards
    BY <1>6
  <2> HIDE DEF d, after
  <2>6. d.sequence + 1 \in Nat
    BY <2>2, <1>1 DEF d
  <2>. QED
    BY <2>3, <2>4, <2>5, <2>6, <2>7
<1>11. \A e \in b.pending : Matured(b, e) \in Boards
  <2>1. \A e \in Claims : [e EXCEPT !.ready = TRUE] \in Claims
    BY DEF Claims
  <2>. QED
    BY <2>1, <1>1, <1>2 DEF Matured
<1>12. AnnounceDue(b) \in Boards
  <2> DEFINE told(e) == [e EXCEPT !.announced = @ \/ e.ready]
             after == {told(e) : e \in b.pending}
  <2>1. \A e \in Claims : told(e) \in Claims
    BY DEF Claims
  <2>2. AnnounceDue(b) = [b EXCEPT !.pending = after]
    BY DEF AnnounceDue
  <2>3. after \in SUBSET Claims
    <3> HIDE DEF told
    <3>. QED
      BY <1>1, <2>1
  <2>4. \A p \in SUBSET Claims : [b EXCEPT !.pending = p] \in Boards
    BY DEF Boards
  <2> HIDE DEF after
  <2>. QED
    BY <2>2, <2>3, <2>4
<1>. QED
  BY <1>4, <1>5, <1>6, <1>7, <1>8, <1>9, <1>10, <1>11, <1>12

----------------------------------------------------------------------------
(* The client stays one whatever field of it changes.                      *)
LEMMA ClientFields ==
    ASSUME NEW k \in ClientStates
    PROVE  /\ \A x \in Steps : [k EXCEPT !.step = x] \in ClientStates
           /\ \A x \in Sessions \cup {None} : [k EXCEPT !.visible = x] \in ClientStates
           /\ \A x \in Sessions \cup {None, Unknown} : [k EXCEPT !.reported = x] \in ClientStates
           /\ \A x \in Views : [k EXCEPT !.view = x] \in ClientStates
           /\ \A x \in BOOLEAN : [k EXCEPT !.refreshing = x] \in ClientStates
           /\ \A x \in Snapshots : [k EXCEPT !.snapshot = x] \in ClientStates
           /\ \A x \in Seq(Commands) : [k EXCEPT !.commands = x] \in ClientStates
           /\ \A x \in Seq(Messages) : [k EXCEPT !.inbox = x] \in ClientStates
           /\ k.inbox \in Seq(Messages) /\ k.commands \in Seq(Commands)
           /\ k.view \in Views /\ k.visible \in Sessions \cup {None}
BY DEF ClientStates

(* What the update loop does with a message leaves the messages that wait. *)
LEMMA UpdateLoop ==
    ASSUME NEW k \in ClientStates
    PROVE  /\ SyncFocus(k) \in ClientStates /\ SyncFocus(k).inbox = k.inbox
           /\ RequestClaim(k) \in ClientStates /\ RequestClaim(k).inbox = k.inbox
           /\ ClaimIsDue(k) \in ClientStates /\ ClaimIsDue(k).inbox = k.inbox
           /\ RequestSnapshot(k) \in ClientStates /\ RequestSnapshot(k).inbox = k.inbox
           /\ \A m \in Messages : Handled(k, m) \in ClientStates /\ Handled(k, m).inbox = k.inbox
<1>1. \A m \in Commands, l \in ClientStates : Append(l.commands, m) \in Seq(Commands)
  BY AppendProperties, ClientFields
<1>2. \A l \in ClientStates : SyncFocus(l) \in ClientStates /\ SyncFocus(l).inbox = l.inbox
  <2> SUFFICES ASSUME NEW l \in ClientStates
               PROVE  SyncFocus(l) \in ClientStates /\ SyncFocus(l).inbox = l.inbox
    OBVIOUS
  <2> DEFINE m == [kind |-> "focus", session |-> l.visible]
             cs == Append(l.commands, m)
             v == l.visible
  <2>1. v \in Sessions \cup {None}
    BY ClientFields
  <2>2. m \in Commands
    BY <2>1, RequestKinds
  <2>3. cs \in Seq(Commands)
    BY <2>2, <1>1
  <2>4. SyncFocus(l) = l \/ SyncFocus(l) = [l EXCEPT !.reported = v, !.commands = cs]
    BY DEF SyncFocus
  <2> HIDE DEF m, cs, v
  <2>5. /\ [l EXCEPT !.reported = v, !.commands = cs] \in ClientStates
        /\ [l EXCEPT !.reported = v, !.commands = cs].inbox = l.inbox
    BY <2>1, <2>3 DEF ClientStates
  <2>. QED
    BY <2>4, <2>5
<1>3. \A l \in ClientStates : RequestClaim(l) \in ClientStates /\ RequestClaim(l).inbox = l.inbox
  <2> SUFFICES ASSUME NEW l \in ClientStates
               PROVE  RequestClaim(l) \in ClientStates /\ RequestClaim(l).inbox = l.inbox
    OBVIOUS
  <2> DEFINE cs == Append(l.commands, [kind |-> "claim"])
  <2>1. cs \in Seq(Commands)
    BY <1>1, RequestKinds
  <2>2. RequestClaim(l) = l \/ RequestClaim(l) = [l EXCEPT !.step = "pending", !.commands = cs]
    BY DEF RequestClaim
  <2> HIDE DEF cs
  <2>3. /\ [l EXCEPT !.step = "pending", !.commands = cs] \in ClientStates
        /\ [l EXCEPT !.step = "pending", !.commands = cs].inbox = l.inbox
    BY <2>1 DEF ClientStates, Steps
  <2>. QED
    BY <2>2, <2>3
<1>4. \A l \in ClientStates : ClaimIsDue(l) \in ClientStates /\ ClaimIsDue(l).inbox = l.inbox
  <2>1. \A l \in ClientStates : [l EXCEPT !.step = "due"] \in ClientStates
                                /\ [l EXCEPT !.step = "due"].inbox = l.inbox
    BY DEF ClientStates, Steps
  <2>. QED
    BY <2>1, <1>3 DEF ClaimIsDue
<1>5. \A l \in ClientStates : RequestSnapshot(l) \in ClientStates /\ RequestSnapshot(l).inbox = l.inbox
  <2> SUFFICES ASSUME NEW l \in ClientStates
               PROVE  RequestSnapshot(l) \in ClientStates /\ RequestSnapshot(l).inbox = l.inbox
    OBVIOUS
  <2> DEFINE cs == Append(l.commands, [kind |-> "snapshot"])
  <2>1. cs \in Seq(Commands)
    BY <1>1, RequestKinds
  <2>2. RequestSnapshot(l) = l \/ RequestSnapshot(l) = [l EXCEPT !.refreshing = TRUE, !.commands = cs]
    BY DEF RequestSnapshot
  <2> HIDE DEF cs
  <2>3. /\ [l EXCEPT !.refreshing = TRUE, !.commands = cs] \in ClientStates
        /\ [l EXCEPT !.refreshing = TRUE, !.commands = cs].inbox = l.inbox
    BY <2>1 DEF ClientStates
  <2>. QED
    BY <2>2, <2>3
<1>6. ASSUME NEW m \in Messages
      PROVE  Handled(k, m) \in ClientStates /\ Handled(k, m).inbox = k.inbox
  <2>1. CASE m.kind = "available"
    BY <2>1, <1>2, <1>4 DEF Handled
  <2>2. CASE m.kind = "status"
    <3> DEFINE l == [k EXCEPT !.view[m.session] = m.event, !.reported = Unknown]
    <3>1. m.session \in Sessions /\ m.event \in Events
      BY <2>2, MessageParts
    <3>2. [k.view EXCEPT ![m.session] = m.event] \in Views
      BY <3>1, ClientFields DEF Views
    <3>3. l \in ClientStates /\ l.inbox = k.inbox
      BY <3>2 DEF ClientStates
    <3>4. Handled(k, m) = RequestSnapshot(ClaimIsDue(SyncFocus(l)))
      BY <2>2 DEF Handled
    <3> HIDE DEF l
    <3>. QED
      BY <3>3, <3>4, <1>2, <1>4, <1>5
  <2>3. CASE m.kind = "snapshot"
    <3>1. m.view \in Views
      BY <2>3, MessageParts
    <3>2. Handled(k, m) = [k EXCEPT !.view = m.view, !.refreshing = FALSE]
      BY <2>3 DEF Handled
    <3>. QED
      BY <3>1, <3>2 DEF ClientStates
  <2>4. CASE m.kind = "focused"
    BY <2>4 DEF Handled
  <2>5. CASE m.kind = "claim"
    <3>1. m.some \in BOOLEAN
      BY <2>5, MessageParts
    <3>2. [k EXCEPT !.step = "idle"] \in ClientStates /\ [k EXCEPT !.step = "idle"].inbox = k.inbox
      BY DEF ClientStates, Steps
    <3>3. CASE m.some = TRUE
      BY <2>5, <3>3, <1>4 DEF Handled
    <3>4. CASE m.some = FALSE
      BY <2>5, <3>4, <3>2 DEF Handled
    <3>. QED
      BY <3>1, <3>3, <3>4
  <2>. QED
    BY <2>1, <2>2, <2>3, <2>4, <2>5 DEF Messages, Notices
<1>. QED
  BY <1>2, <1>3, <1>4, <1>5, <1>6

----------------------------------------------------------------------------
(* The steps of clients and connections that present nothing.              *)
LEMMA LinkFields ==
    ASSUME NEW l \in Links
    PROVE  /\ \A x \in {"off", "registered", "on", "gone"} : [l EXCEPT !.up = x] \in Links
           /\ \A x \in Served : [l EXCEPT !.request = x] \in Links
           /\ \A x \in Seq(Notices) : [l EXCEPT !.heard = x] \in Links
           /\ l.request \in Served /\ l.heard \in Seq(Notices)
BY DEF Links

(* A client that is not connected, and one that has just started.          *)
LEMMA Starting ==
    Offline \in Links /\ NewClient \in ClientStates
<1>1. /\ <<>> \in Seq(Notices)
      /\ <<>> \in Seq(Commands)
      /\ <<>> \in Seq(Messages)
  BY EmptySeq
<1>2. [s \in Sessions |-> NoEvent] \in Views
  BY DeliveryAssumption DEF Views, Events, NoEvent
<1>. QED
  BY <1>1, <1>2, RequestKinds DEF Offline, NewClient, Links, ClientStates, Steps, Snapshots

(* The messages of the inbox stay, or one that is no claim comes or goes.  *)
SameClaims(inbox, after) ==
    \/ after = inbox
    \/ \E m \in Messages : ~Delivers(m) /\ after = Append(inbox, m)
    \/ inbox # <<>> /\ ~Delivers(Head(inbox)) /\ after = Tail(inbox)

Awaits(inbox, request) == inbox # <<>> => Len(inbox) = 1 /\ request.kind = "none"

SameRequest(request, after) ==
    after = request \/ (request.kind # "validate" /\ after.kind # "validate")

Passes ==
    /\ UNCHANGED <<attention, updating, claims, fate>>
    /\ left' \in Bounds /\ left'.events = left.events
    /\ link' \in [Clients -> Links]
    /\ client' \in [Clients -> ClientStates]
    /\ \A c \in Clients :
         /\ link'[c].up = link[c].up
         /\ SameRequest(link[c].request, link'[c].request)
         /\ SameClaims(client[c].inbox, client'[c].inbox)
         /\ c \in Terminals => Awaits(client'[c].inbox, link'[c].request)
    /\ ConnectionsHold'

(* A step of one connected client that moves no claim.                     *)
LEMMA OnePasses ==
    ASSUME AttentionTypeOK, TerminalsAwait, ConnectionsHold, NEW c \in Clients,
           NEW k \in ClientStates, NEW l \in Links,
           client' = [client EXCEPT ![c] = k], link' = [link EXCEPT ![c] = l],
           link[c].up = "on", l.up = "on", SameRequest(link[c].request, l.request),
           SameClaims(client[c].inbox, k.inbox),
           c \in Terminals => Awaits(k.inbox, l.request),
           left' \in Bounds, left'.events = left.events,
           UNCHANGED <<attention, updating, claims, fate>>
    PROVE  Passes
<1>1. /\ link' \in [Clients -> Links]
      /\ client' \in [Clients -> ClientStates]
      /\ client'[c] = k /\ link'[c] = l
      /\ \A d \in Clients \ {c} : client'[d] = client[d] /\ link'[d] = link[d]
  BY DEF AttentionTypeOK
<1>2. \A d \in Terminals : d # c => Awaits(client'[d].inbox, link'[d].request)
  BY <1>1 DEF TerminalsAwait, Awaits, Clients
<1>3. ConnectionsHold'
  BY <1>1 DEF ConnectionsHold
<1>. QED
  BY <1>1, <1>2, <1>3 DEF Passes, SameRequest, SameClaims

(* A terminal at the top of its loop or asleep waits for no answer.        *)
LEMMA TerminalsPass ==
    ASSUME AttentionTypeOK, TerminalsAwait, ConnectionsHold, NEW c \in Clients,
           \/ TerminalStart(c) \/ TerminalReports(c) \/ TerminalReported(c)
           \/ TerminalDrains(c) \/ TerminalRefreshes(c) \/ TerminalWakes(c)
    PROVE  Passes
<1>. DEFINE k == client[c]
            l == link[c]
<1>1. k \in ClientStates /\ l \in Links
  BY DEF AttentionTypeOK
<1>2. /\ left \in Bounds
      /\ left.events = left.events
      /\ left.looks > 0 => [left EXCEPT !.looks = @ - 1] \in Bounds
                           /\ [left EXCEPT !.looks = @ - 1].events = left.events
      /\ left.sessions \subseteq Sessions
  BY DEF AttentionTypeOK, Bounds
<1>3. /\ \A x : [k EXCEPT !.step = x].inbox = k.inbox
      /\ \A x, y : [k EXCEPT !.step = x, !.visible = y].inbox = k.inbox
      /\ \A x, y : [k EXCEPT !.step = x, !.reported = y].inbox = k.inbox
      /\ \A x : [l EXCEPT !.heard = x].request = l.request /\ [l EXCEPT !.heard = x].up = l.up
      /\ \A x : [l EXCEPT !.request = x].request = x /\ [l EXCEPT !.request = x].up = l.up
      /\ \A x, y : [k EXCEPT !.inbox = x, !.reported = y].inbox = x
  BY <1>1 DEF ClientStates, Links
<1>4. /\ link' = [link EXCEPT ![c] = l] <=> link' = link
      /\ client' = [client EXCEPT ![c] = k] <=> client' = client
  BY DEF AttentionTypeOK
<1>5. /\ \A x \in Steps : [k EXCEPT !.step = x] \in ClientStates
      /\ \A x \in Steps, y \in Sessions \cup {None} :
           [k EXCEPT !.step = x, !.visible = y] \in ClientStates
      /\ \A x \in Steps, z \in Sessions \cup {None, Unknown} :
           [k EXCEPT !.step = x, !.reported = z] \in ClientStates
      /\ \A z \in Sessions \cup {None, Unknown} :
           [k EXCEPT !.inbox = <<>>, !.reported = z] \in ClientStates
  BY <1>1, EmptySeq DEF ClientStates
<1>6. \A t : Terminal(c, t) => /\ c \in Terminals /\ l.request.kind = "none" /\ k.inbox = <<>>
  BY DEF Terminal
<1>0. l.up = "on"
  BY DEF Terminal, TerminalStart, TerminalReports, TerminalReported, TerminalDrains,
     TerminalRefreshes, TerminalWakes, ConnectionsHold
<1>7. k.reported \in Sessions \cup {None, Unknown} /\ k.visible \in Sessions \cup {None}
  BY <1>1 DEF ClientStates
<1>. HIDE DEF k, l
<1>8. CASE TerminalStart(c)
  <2> DEFINE n == [k EXCEPT !.step = "top"]
  <2>1. /\ client' = [client EXCEPT ![c] = n]
        /\ n \in ClientStates /\ n.inbox = k.inbox /\ k.inbox = <<>>
        /\ link' = [link EXCEPT ![c] = l]
        /\ UNCHANGED <<attention, updating, claims, fate, left>>
    BY <1>8, <1>3, <1>4, <1>5, <1>6 DEF TerminalStart, SetClient, Steps, k
  <2> HIDE DEF n
  <2>. QED
    BY <2>1, <1>1, <1>2, <1>0, OnePasses DEF SameRequest, SameClaims, Awaits, k, l
<1>9. CASE TerminalReports(c)
  <2> DEFINE r == [kind |-> "focus", session |-> k.visible]
             n == [l EXCEPT !.request = r]
  <2>1. r \in Served /\ r.kind = "focus"
    BY <1>7, RequestKinds
  <2>2. /\ link' = [link EXCEPT ![c] = n]
        /\ l.request.kind = "none" /\ k.inbox = <<>>
        /\ client' = [client EXCEPT ![c] = k]
        /\ UNCHANGED <<attention, updating, claims, fate, left>>
    BY <1>9, <1>4, <1>6 DEF TerminalReports, Ask, SetLink, k, l
  <2> HIDE DEF r
  <2>3. n \in Links /\ n.request = r /\ n.up = l.up
    BY <2>1, <1>1, <1>3, LinkFields
  <2> HIDE DEF n
  <2>. QED
    BY <2>1, <2>2, <2>3, <1>1, <1>2, <1>0, OnePasses DEF SameRequest, SameClaims, Awaits, k, l
<1>10. CASE TerminalReported(c)
  <2> DEFINE m == Head(k.inbox)
             z == m.session
             n == [k EXCEPT !.inbox = <<>>, !.reported = z]
  <2>1. /\ client' = [client EXCEPT ![c] = n]
        /\ c \in Terminals /\ k.inbox # <<>> /\ m.kind = "focused"
        /\ link' = [link EXCEPT ![c] = l]
        /\ UNCHANGED <<attention, updating, claims, fate, left>>
    BY <1>10, <1>4 DEF TerminalReported, SetClient, k
  <2>2. k.inbox \in Seq(Messages) /\ Len(k.inbox) = 1
    BY <2>1, <1>1, ClientFields DEF TerminalsAwait, k
  <2>3. m \in Messages /\ Tail(k.inbox) = <<>>
    <3> DEFINE q == k.inbox
               t == Tail(q)
    <3>1. q \in Seq(Messages) /\ q # <<>> /\ Len(q) = 1
      BY <2>1, <2>2
    <3> HIDE DEF q
    <3>2. Head(q) \in Messages /\ t \in Seq(Messages) /\ Len(t) = 0
      BY <3>1, HeadTailProperties
    <3> HIDE DEF t
    <3>3. t = <<>>
      BY <3>2, EmptySeq
    <3>. QED
      BY <3>2, <3>3 DEF q, t
  <2>4. z \in Sessions \cup {None} /\ ~Delivers(m)
    BY <2>1, <2>3, MessageParts DEF Delivers
  <2> HIDE DEF m, z
  <2>5. n \in ClientStates
    BY <2>4, <1>5
  <2>6. n.inbox = <<>>
    BY <1>3
  <2> HIDE DEF n
  <2>7. SameClaims(k.inbox, n.inbox)
    BY <2>1, <2>3, <2>4, <2>6 DEF SameClaims, m
  <2>. QED
    BY <2>1, <2>5, <2>6, <2>7, <1>1, <1>2, <1>0, OnePasses DEF SameRequest, Awaits, k, l
<1>11. CASE TerminalDrains(c)
  <2> DEFINE x == IF l.heard = <<>> THEN "wait" ELSE "refresh"
             y == IF \E e \in ToSet(l.heard) : e.kind = "status" THEN Unknown ELSE k.reported
             n == [k EXCEPT !.step = x, !.reported = y]
             h == [l EXCEPT !.heard = <<>>]
  <2>1. /\ client' = [client EXCEPT ![c] = n]
        /\ link' = [link EXCEPT ![c] = h]
        /\ k.inbox = <<>>
        /\ UNCHANGED <<attention, updating, claims, fate, left>>
    BY <1>11, <1>6 DEF TerminalDrains, SetClient, SetLink, k, l
  <2>2. x \in Steps /\ y \in Sessions \cup {None, Unknown}
    BY <1>7 DEF Steps
  <2> HIDE DEF x, y
  <2>3. n \in ClientStates /\ n.inbox = k.inbox
    BY <2>2, <1>3, <1>5
  <2>4. h \in Links /\ h.request = l.request /\ h.up = l.up
    BY <1>1, <1>3, LinkFields, EmptySeq
  <2> HIDE DEF n, h
  <2>. QED
    BY <2>1, <2>3, <2>4, <1>1, <1>2, <1>0, OnePasses DEF SameRequest, SameClaims, Awaits, k, l
<1>12. CASE TerminalRefreshes(c)
  <2> DEFINE r == [kind |-> "claim"]
             h == [l EXCEPT !.request = r]
             n == [k EXCEPT !.step = "deliver"]
  <2>1. /\ client' = [client EXCEPT ![c] = n]
        /\ link' = [link EXCEPT ![c] = h]
        /\ l.request.kind = "none" /\ k.inbox = <<>>
        /\ UNCHANGED <<attention, updating, claims, fate, left>>
    BY <1>12, <1>6 DEF TerminalRefreshes, Ask, SetClient, SetLink, k, l
  <2>2. r \in Served /\ r.kind = "claim"
    BY RequestKinds
  <2>3. n \in ClientStates /\ n.inbox = k.inbox
    BY <1>3, <1>5 DEF Steps
  <2> HIDE DEF r
  <2>4. h \in Links /\ h.request = r /\ h.up = l.up
    BY <2>2, <1>1, <1>3, LinkFields
  <2> HIDE DEF n, h
  <2>. QED
    BY <2>1, <2>2, <2>3, <2>4, <1>1, <1>2, <1>0, OnePasses DEF SameRequest, SameClaims, Awaits, k, l
<1>13. CASE TerminalWakes(c)
  <2>1. PICK n \in ClientStates :
          /\ client' = [client EXCEPT ![c] = n] /\ n.inbox = k.inbox
          /\ left' \in Bounds /\ left'.events = left.events
    <3>1. CASE UNCHANGED left /\ SetClient(c, [client[c] EXCEPT !.step = "top"])
      BY <3>1, <1>2, <1>3, <1>5 DEF SetClient, Steps, k
    <3>2. CASE /\ left.looks > 0 /\ left' = [left EXCEPT !.looks = @ - 1]
               /\ \E s \in left.sessions \cup {None} :
                    SetClient(c, [client[c] EXCEPT !.step = "top", !.visible = s])
      <4>1. PICK s \in Sessions \cup {None} :
              client' = [client EXCEPT ![c] = [k EXCEPT !.step = "top", !.visible = s]]
        BY <3>2, <1>2 DEF SetClient, k
      <4>2. /\ [k EXCEPT !.step = "top", !.visible = s] \in ClientStates
            /\ [k EXCEPT !.step = "top", !.visible = s].inbox = k.inbox
        BY <1>3, <1>5 DEF Steps
      <4>. QED
        BY <3>2, <4>1, <4>2, <1>2
    <3>. QED
      BY <1>13, <3>1, <3>2 DEF TerminalWakes
  <2>2. /\ k.inbox = <<>>
        /\ link' = [link EXCEPT ![c] = l]
        /\ UNCHANGED <<attention, updating, claims, fate>>
    BY <1>13, <1>4, <1>6 DEF TerminalWakes
  <2>. QED
    BY <2>1, <2>2, <1>1, <1>0, OnePasses DEF SameRequest, SameClaims, Awaits, k, l
<1>. QED
  BY <1>8, <1>9, <1>10, <1>11, <1>12, <1>13

(* A desktop's bridge and its update loop, but for what it presents.       *)
LEMMA DesktopsPass ==
    ASSUME AttentionTypeOK, TerminalsAwait, ConnectionsHold, NEW c \in Clients,
           \/ DesktopLoads(c) \/ DesktopConnects(c) \/ BridgeTakes(c) \/ BridgeForwards(c)
           \/ ServeSnapshot(c) \/ SnapshotArrives(c) \/ DesktopTicks(c) \/ DesktopLooks(c)
    PROVE  Passes
<1>. DEFINE k == client[c]
            l == link[c]
<1>1. k \in ClientStates /\ l \in Links
  BY DEF AttentionTypeOK
<1>2. /\ left \in Bounds
      /\ left.events = left.events
      /\ left.looks > 0 => [left EXCEPT !.looks = @ - 1] \in Bounds
                           /\ [left EXCEPT !.looks = @ - 1].events = left.events
      /\ left.sessions \subseteq Sessions
      /\ attention \in Views
  BY DEF AttentionTypeOK, Bounds
<1>3. /\ link' = [link EXCEPT ![c] = l] <=> link' = link
      /\ client' = [client EXCEPT ![c] = k] <=> client' = client
  BY DEF AttentionTypeOK
<1>4. c \notin Terminals /\ l.up = "on"
  BY DeliveryAssumption DEF DesktopLoads, DesktopConnects, BridgeTakes,
     BridgeForwards, ServeSnapshot, SnapshotArrives, DesktopTicks, DesktopLooks, Connected, Desktop
<1>5. /\ k.commands \in Seq(Commands) /\ k.inbox \in Seq(Messages)
      /\ k.snapshot \in Snapshots
      /\ l.heard \in Seq(Notices)
  BY <1>1 DEF ClientStates, Links
<1>6. /\ \A x : [l EXCEPT !.heard = x].request = l.request /\ [l EXCEPT !.heard = x].up = l.up
      /\ \A x : [l EXCEPT !.request = x].request = x /\ [l EXCEPT !.request = x].up = l.up
  BY <1>1 DEF Links
<1>. HIDE DEF k, l
<1>7. ASSUME NEW n \in ClientStates, n.inbox = k.inbox,
             client' = [client EXCEPT ![c] = n],
             left' \in Bounds, left'.events = left.events,
             UNCHANGED <<attention, updating, claims, link, fate>>
      PROVE  Passes
  BY <1>1, <1>3, <1>4, <1>7, OnePasses DEF SameRequest, SameClaims, k, l
<1>8. CASE DesktopLoads(c)
  <2> DEFINE n == [k EXCEPT !.step = "loaded", !.view = attention]
  <2>1. n \in ClientStates /\ n.inbox = k.inbox
    BY <1>1, <1>2 DEF ClientStates, Steps
  <2>2. client' = [client EXCEPT ![c] = n] /\ UNCHANGED <<attention, updating, claims, link, fate, left>>
    BY <1>8 DEF DesktopLoads, SetClient, k
  <2> HIDE DEF n
  <2>. QED
    BY <2>1, <2>2, <1>2, <1>7
<1>9. CASE DesktopConnects(c)
  <2> DEFINE m == [k EXCEPT !.reported = Unknown]
             n == ClaimIsDue(SyncFocus(m))
  <2>1. m \in ClientStates /\ m.inbox = k.inbox
    BY <1>1 DEF ClientStates
  <2>2. client' = [client EXCEPT ![c] = n] /\ UNCHANGED <<attention, updating, claims, link, fate, left>>
    BY <1>9 DEF DesktopConnects, SetClient, k
  <2> HIDE DEF m
  <2>3. n \in ClientStates /\ n.inbox = k.inbox
    BY <2>1, UpdateLoop
  <2> HIDE DEF n
  <2>. QED
    BY <2>2, <2>3, <1>2, <1>7
<1>10. CASE BridgeTakes(c)
  <2> DEFINE m == Head(k.commands)
             t == Tail(k.commands)
             n == [k EXCEPT !.commands = t]
             p == [k EXCEPT !.commands = t, !.snapshot = <<"sent">>]
             h == [l EXCEPT !.request = m]
  <2>1. m \in Commands /\ t \in Seq(Commands)
    BY <1>5, <1>10, HeadTailProperties DEF BridgeTakes, k
  <2>2. /\ UNCHANGED <<attention, updating, claims, fate, left>>
        /\ l.request.kind = "none"
        /\ \/ client' = [client EXCEPT ![c] = p] /\ link' = link
           \/ m.kind # "snapshot" /\ client' = [client EXCEPT ![c] = n]
              /\ link' = [link EXCEPT ![c] = h]
    BY <1>10 DEF BridgeTakes, SetClient, SetLink, Ask, k, l
  <2> HIDE DEF m, t
  <2>3. /\ n \in ClientStates /\ n.inbox = k.inbox
        /\ p \in ClientStates /\ p.inbox = k.inbox
    BY <2>1, <1>1 DEF ClientStates, Snapshots
  <2>4. m.kind # "snapshot" => h \in Links /\ h.request = m /\ h.up = l.up /\ m.kind # "validate"
    BY <2>1, <1>1, <1>6, RequestKinds, LinkFields
  <2> HIDE DEF n, p, h
  <2>5. CASE client' = [client EXCEPT ![c] = p] /\ link' = link
    BY <2>2, <2>3, <2>5, <1>2, <1>7
  <2>6. CASE /\ m.kind # "snapshot" /\ client' = [client EXCEPT ![c] = n]
             /\ link' = [link EXCEPT ![c] = h]
    BY <2>2, <2>3, <2>4, <2>6, <1>2, <1>4, OnePasses DEF SameRequest, SameClaims, k, l
  <2>. QED
    BY <2>2, <2>5, <2>6
<1>11. CASE BridgeForwards(c)
  <2> DEFINE m == Head(l.heard)
             t == Tail(l.heard)
             i == Append(k.inbox, m)
             n == [k EXCEPT !.inbox = i]
             h == [l EXCEPT !.heard = t]
  <2>1. m \in Notices /\ t \in Seq(Notices)
    BY <1>5, <1>11, HeadTailProperties DEF BridgeForwards, l
  <2>2. /\ client' = [client EXCEPT ![c] = n] /\ link' = [link EXCEPT ![c] = h]
        /\ UNCHANGED <<attention, updating, claims, fate, left>>
    BY <1>11 DEF BridgeForwards, SetClient, SetLink, k, l
  <2> HIDE DEF m, t
  <2>3. m \in Messages /\ ~Delivers(m)
    BY <2>1, MessageKinds, MessageParts
  <2>4. i \in Seq(Messages)
    BY <2>3, <1>5, AppendProperties
  <2>5. SameClaims(k.inbox, i)
    BY <2>3 DEF SameClaims
  <2> HIDE DEF i
  <2>6. n \in ClientStates /\ n.inbox = i
    BY <2>4, <1>1 DEF ClientStates
  <2>7. h \in Links /\ h.request = l.request /\ h.up = l.up
    BY <2>1, <1>1, <1>6, LinkFields
  <2> HIDE DEF n, h
  <2>. QED
    BY <2>2, <2>5, <2>6, <2>7, <1>2, <1>4, OnePasses DEF SameRequest, k, l
<1>12. CASE ServeSnapshot(c)
  <2> DEFINE x == <<"read", attention>>
             n == [k EXCEPT !.snapshot = x]
  <2>1. client' = [client EXCEPT ![c] = n] /\ UNCHANGED <<attention, updating, claims, link, fate, left>>
    BY <1>12 DEF ServeSnapshot, SetClient, k
  <2>2. x \in Snapshots
    BY <1>2 DEF Snapshots
  <2> HIDE DEF x
  <2>3. n \in ClientStates /\ n.inbox = k.inbox
    BY <2>2, <1>1 DEF ClientStates
  <2> HIDE DEF n
  <2>. QED
    BY <2>1, <2>3, <1>2, <1>7
<1>13. CASE SnapshotArrives(c)
  <2> DEFINE v == k.snapshot[2]
             m == [kind |-> "snapshot", view |-> v]
             i == Append(k.inbox, m)
             n == [k EXCEPT !.snapshot = <<>>, !.inbox = i]
  <2>1. /\ client' = [client EXCEPT ![c] = n]
        /\ UNCHANGED <<attention, updating, claims, link, fate, left>>
        /\ Len(k.snapshot) = 2
    BY <1>13 DEF SnapshotArrives, SetClient, k
  <2>2. v \in Views
    BY <2>1, <1>5 DEF Snapshots
  <2> HIDE DEF v
  <2>3. m \in Messages /\ ~Delivers(m)
    BY <2>2, MessageKinds DEF Delivers
  <2> HIDE DEF m
  <2>4. i \in Seq(Messages)
    BY <2>3, <1>5, AppendProperties
  <2>5. SameClaims(k.inbox, i)
    BY <2>3 DEF SameClaims
  <2> HIDE DEF i
  <2>6. n \in ClientStates /\ n.inbox = i
    BY <2>4, <1>1 DEF ClientStates, Snapshots
  <2> HIDE DEF n
  <2>. QED
    BY <2>1, <2>5, <2>6, <1>1, <1>2, <1>3, <1>4, OnePasses DEF SameRequest, k, l
<1>14. CASE DesktopTicks(c)
  <2> DEFINE n == RequestClaim(SyncFocus(k))
  <2>1. client' = [client EXCEPT ![c] = n] /\ UNCHANGED <<attention, updating, claims, link, fate, left>>
    BY <1>14 DEF DesktopTicks, SetClient, k
  <2>2. n \in ClientStates /\ n.inbox = k.inbox
    BY <1>1, UpdateLoop
  <2> HIDE DEF n
  <2>. QED
    BY <2>1, <2>2, <1>2, <1>7
<1>15. CASE DesktopLooks(c)
  <2>1. PICK s \in Sessions \cup {None} :
          \/ SetClient(c, SyncFocus([k EXCEPT !.visible = s]))
          \/ SetClient(c, [k EXCEPT !.visible = s])
    BY <1>15, <1>2 DEF DesktopLooks, k
  <2>2. /\ UNCHANGED <<attention, updating, claims, link, fate>>
        /\ left' \in Bounds /\ left'.events = left.events
    BY <1>15, <1>2 DEF DesktopLooks
  <2> DEFINE m == [k EXCEPT !.visible = s]
             n == SyncFocus(m)
  <2>3. m \in ClientStates /\ m.inbox = k.inbox
    BY <1>1 DEF ClientStates
  <2>4. client' = [client EXCEPT ![c] = n] \/ client' = [client EXCEPT ![c] = m]
    BY <2>1 DEF SetClient
  <2> HIDE DEF m
  <2>5. n \in ClientStates /\ n.inbox = k.inbox
    BY <2>3, UpdateLoop
  <2> HIDE DEF n
  <2>. QED
    BY <2>2, <2>3, <2>4, <2>5, <1>7
<1>. QED
  BY <1>8, <1>9, <1>10, <1>11, <1>12, <1>13, <1>14, <1>15

----------------------------------------------------------------------------
(* A claim moves from place to place.                                      *)

(* The claims in the inbox are among those that were, in their order.      *)
Comes(inbox, after) ==
    \E d \in {0, 1} : \A j \in DOMAIN after :
      Delivers(after[j]) => j + d \in DOMAIN inbox /\ after[j] = inbox[j + d]

(* Every claim in the inbox is still there.                                *)
Stays(inbox, after) ==
    \A j \in DOMAIN inbox : Delivers(inbox[j]) =>
      \E i \in DOMAIN after : after[i] = inbox[j]

(* The inbox without its first message.                                    *)
LEMMA TailComes ==
    ASSUME NEW q \in Seq(Messages), q # <<>>
    PROVE  /\ Comes(q, Tail(q))
           /\ Tail(q) \in Seq(Messages)
           /\ \A j \in DOMAIN Tail(q) : j \in Nat /\ j + 1 \in DOMAIN q /\ Tail(q)[j] = q[j + 1]
           /\ \A j \in DOMAIN q : \/ j = 1
                                  \/ j - 1 \in DOMAIN Tail(q) /\ Tail(q)[j - 1] = q[j]
           /\ 1 \in DOMAIN q /\ q[1] = Head(q) /\ Head(q) \in Messages
<1>. DEFINE t == Tail(q)
<1>1. /\ t \in Seq(Messages) /\ Len(t) = Len(q) - 1
      /\ \A i \in 1..Len(t) : t[i] = q[i + 1]
      /\ Head(q) \in Messages /\ Head(q) = q[1]
  BY HeadTailProperties
<1>2. Len(q) \in Nat /\ Len(q) # 0 /\ DOMAIN q = 1..Len(q)
  BY EmptySeq, LenProperties
<1>3. DOMAIN t = 1..Len(t)
  BY <1>1, LenProperties
<1>. HIDE DEF t
<1>4. \A j \in DOMAIN t : j \in Nat /\ j + 1 \in DOMAIN q /\ t[j] = q[j + 1]
  BY <1>1, <1>2, <1>3
<1>5. \A j \in DOMAIN q : j = 1 \/ (j - 1 \in DOMAIN t /\ t[j - 1] = q[j])
  BY <1>1, <1>2, <1>3
<1>6. Comes(q, t)
  BY <1>4 DEF Comes
<1>. QED
  BY <1>1, <1>2, <1>4, <1>5, <1>6 DEF t

(* The inbox with one more message.                                        *)
LEMMA AppendComes ==
    ASSUME NEW q \in Seq(Messages), NEW m \in Messages
    PROVE  /\ Append(q, m) \in Seq(Messages)
           /\ Stays(q, Append(q, m))
           /\ ~Delivers(m) => Comes(q, Append(q, m))
           /\ DOMAIN q \subseteq DOMAIN Append(q, m)
           /\ \A j \in DOMAIN q : Append(q, m)[j] = q[j]
           /\ \A j \in DOMAIN Append(q, m) : j \in DOMAIN q \/ j = Len(q) + 1
           /\ Len(q) + 1 \in DOMAIN Append(q, m)
           /\ Append(q, m)[Len(q) + 1] = m
           /\ Len(q) + 1 \notin DOMAIN q
<1>. DEFINE a == Append(q, m)
<1>1. /\ a \in Seq(Messages) /\ Len(a) = Len(q) + 1
      /\ \A i \in 1..Len(q) : a[i] = q[i]
      /\ a[Len(q) + 1] = m
  BY AppendProperties
<1>2. Len(q) \in Nat /\ DOMAIN q = 1..Len(q)
  BY LenProperties
<1>3. DOMAIN a = 1..Len(a)
  BY <1>1, LenProperties
<1>. HIDE DEF a
<1>4. /\ DOMAIN q \subseteq DOMAIN a
      /\ \A j \in DOMAIN q : a[j] = q[j]
      /\ \A j \in DOMAIN a : j \in DOMAIN q \/ j = Len(q) + 1
      /\ Len(q) + 1 \in DOMAIN a
      /\ Len(q) + 1 \notin DOMAIN q
  BY <1>1, <1>2, <1>3
<1>5. Stays(q, a)
  BY <1>4 DEF Stays
<1>6. ASSUME ~Delivers(m) PROVE Comes(q, a)
  <2>1. \A j \in DOMAIN a : Delivers(a[j]) => j + 0 \in DOMAIN q /\ a[j] = q[j + 0]
    BY <1>1, <1>2, <1>3, <1>4, <1>6
  <2>. QED
    BY <2>1 DEF Comes
<1>. QED
  BY <1>1, <1>4, <1>5, <1>6 DEF a

(* A step that takes or brings no claim keeps those in the inbox.          *)
LEMMA SameClaimsFacts ==
    ASSUME NEW q \in Seq(Messages), NEW a, SameClaims(q, a)
    PROVE  Comes(q, a) /\ Stays(q, a)
<1>1. CASE a = q
  <2>1. \A j \in DOMAIN q : j + 0 = j
    BY LenProperties
  <2>. QED
    BY <1>1, <2>1 DEF Comes, Stays
<1>2. CASE \E m \in Messages : ~Delivers(m) /\ a = Append(q, m)
  BY <1>2, AppendComes
<1>3. CASE q # <<>> /\ ~Delivers(Head(q)) /\ a = Tail(q)
  <2>1. Stays(q, a)
    BY <1>3, TailComes DEF Stays
  <2>. QED
    BY <1>3, <2>1, TailComes
<1>. QED
  BY <1>1, <1>2, <1>3 DEF SameClaims

(* The places of the claims are among those that were.                     *)
OffersCome ==
    /\ \A e \in Offers' : \E f \in Offers : e.id = f.id /\ e.session = f.session
    /\ \A e, f \in Offers' : e.id = f.id => e = f

RequestsCome == \A c \in Clients : Checks(c)' => Checks(c) /\ Checked(c)' = Checked(c)

InboxesCome == \A c \in Clients : Comes(client[c].inbox, client'[c].inbox)

(* When claims come from where they were no two are in one place.          *)
LEMMA OnePlaceStays ==
    ASSUME OnePlace, AttentionTypeOK, AttentionTypeOK', OffersCome, RequestsCome, InboxesCome
    PROVE  OnePlace'
<1>. DEFINE d(c) == CHOOSE d \in {0, 1} : \A j \in DOMAIN client'[c].inbox :
                      Delivers(client'[c].inbox[j]) =>
                        /\ j + d \in DOMAIN client[c].inbox
                        /\ client'[c].inbox[j] = client[c].inbox[j + d]
<1>1. ASSUME NEW c \in Clients, NEW j \in DOMAIN client'[c].inbox, Carries(c, j)'
      PROVE  /\ d(c) \in {0, 1} /\ j + d(c) \in DOMAIN client[c].inbox
             /\ Carries(c, j + d(c)) /\ Carried(c, j)' = Carried(c, j + d(c))
  BY <1>1 DEF InboxesCome, Comes, Carries, Carried
<1>2. \A c \in Clients : DOMAIN client'[c].inbox \subseteq Nat
  BY LenProperties DEF AttentionTypeOK, ClientStates
<1>. HIDE DEF d
<1>3. \A c \in Clients : \A j, k \in DOMAIN client'[c].inbox :
        d(c) \in {0, 1} /\ j + d(c) = k + d(c) => j = k
  BY <1>2
<1>4. \A e, f \in Offers' : e.id = f.id => e = f
  BY DEF OffersCome
<1>5. \A c \in Clients : Checks(c)' => \A e \in Offers' : e.id # Checked(c)'.id
  BY DEF OffersCome, RequestsCome, OnePlace
<1>6. \A c, b \in Clients :
        Checks(c)' /\ Checks(b)' /\ Checked(c)'.id = Checked(b)'.id => c = b
  BY DEF RequestsCome, OnePlace
<1>7. \A c \in Clients : \A j \in DOMAIN client'[c].inbox : Carries(c, j)' =>
        \A e \in Offers' : e.id # Carried(c, j)'.id
  BY <1>1 DEF OffersCome, OnePlace
<1>8. \A c, b \in Clients : \A j \in DOMAIN client'[c].inbox :
        Carries(c, j)' /\ Checks(b)' => Checked(b)'.id # Carried(c, j)'.id
  BY <1>1 DEF RequestsCome, OnePlace
<1>9. ASSUME NEW c \in Clients, NEW b \in Clients, NEW j \in DOMAIN client'[c].inbox,
             NEW k \in DOMAIN client'[b].inbox,
             Carries(c, j)', Carries(b, k)', Carried(c, j)'.id = Carried(b, k)'.id
      PROVE  c = b /\ j = k
  <2>1. c = b /\ j + d(c) = k + d(b)
    BY <1>1, <1>9 DEF OnePlace
  <2>. QED
    BY <2>1, <1>1, <1>3, <1>9
<1>10. (\A c, b \in Clients : \A j \in DOMAIN client[c].inbox, k \in DOMAIN client[b].inbox :
          Carries(c, j) /\ Carries(b, k) /\ Carried(c, j).id = Carried(b, k).id
            => c = b /\ j = k)'
  BY <1>9
<1>. QED
  BY <1>4, <1>5, <1>6, <1>7, <1>8, <1>10 DEF OnePlace

(* Claims other than a settled one stay live wherever they come from.      *)
LEMMA LiveClaimsStay ==
    ASSUME ClaimsAreLive, AttentionTypeOK, AttentionTypeOK',
           OffersCome, RequestsCome, InboxesCome, NEW gone,
           \A e \in Offers' : e.id # gone,
           \A c \in Clients : Checks(c)' => Checked(c)'.id # gone,
           \A c \in Clients : \A j \in DOMAIN client'[c].inbox :
             Carries(c, j)' => Carried(c, j)'.id # gone,
           \A e \in Claims : Live(e) /\ e.id # gone => Live(e)'
    PROVE  ClaimsAreLive'
<1>1. ASSUME NEW e \in Offers' PROVE Live(e)'
  <2>1. PICK f \in Offers : e.id = f.id /\ e.session = f.session
    BY <1>1 DEF OffersCome
  <2>2. Live(f) /\ f \in Claims /\ f.id # gone
    BY <1>1, <2>1 DEF ClaimsAreLive, AttentionTypeOK, Boards, Offers
  <2>3. Live(f)'
    BY <2>2
  <2>. QED
    BY <2>1, <2>3 DEF Live
<1>2. ASSUME NEW c \in Clients, Checks(c)' PROVE Live(Checked(c))'
  <2>1. Live(Checked(c)) /\ Checked(c) \in Claims /\ Checked(c)' = Checked(c)
    BY <1>2, RequestKinds, LinkFields DEF ClaimsAreLive, RequestsCome, AttentionTypeOK, Checks, Checked
  <2>2. PICK e \in Claims : e = Checked(c)
    BY <2>1
  <2>3. Checked(c)' = e /\ Live(e)'
    BY <2>1, <2>2, <1>2
  <2>. QED
    BY <2>3 DEF Live
<1>3. ASSUME NEW c \in Clients, NEW j \in DOMAIN client'[c].inbox, Carries(c, j)'
      PROVE  Live(Carried(c, j))'
  <2>1. PICK d \in {0, 1} : j + d \in DOMAIN client[c].inbox
                            /\ client'[c].inbox[j] = client[c].inbox[j + d]
    BY <1>3 DEF InboxesCome, Comes, Carries
  <2>2. Carries(c, j + d) /\ Carried(c, j)' = Carried(c, j + d)
    BY <1>3, <2>1 DEF Carries, Carried
  <2>3. client[c].inbox[j + d] \in Messages
    BY <2>1, ClientFields, LenProperties DEF AttentionTypeOK
  <2>4. Carried(c, j + d) \in Claims /\ Live(Carried(c, j + d))
    BY <2>1, <2>2, <2>3, MessageParts DEF Carries, Carried, ClaimsAreLive
  <2>5. PICK e \in Claims : e = Carried(c, j + d)
    BY <2>4
  <2>6. Carried(c, j)' = e /\ Live(e)'
    BY <1>3, <2>2, <2>4, <2>5
  <2>. QED
    BY <2>6 DEF Live
<1>. QED
  BY <1>1, <1>2, <1>3 DEF ClaimsAreLive

(* The claim of event i is being validated, or on its way to a client.     *)
Flies(i) ==
    \E c \in Clients :
      \/ Checks(c) /\ Checked(c).id = i
      \/ \E j \in DOMAIN client[c].inbox : Carries(c, j) /\ Carried(c, j).id = i

HasClaim(q, i) == \E m \in ToSet(q) : m.kind = "claim" /\ m.some /\ m.claim.id = i

HasLetter(q, i) == \E j \in DOMAIN q : Delivers(q[j]) /\ q[j].claim.id = i

(* To hold a claim of event i is to deliver it at some position.           *)
LEMMA InboxClaims ==
    ASSUME NEW q \in Seq(Messages), NEW i
    PROVE  HasClaim(q, i) <=> HasLetter(q, i)
<1>1. \A j \in DOMAIN q : q[j] \in Messages
  BY LenProperties
<1>2. \A m \in Messages : m.kind = "claim" => (m.some <=> m.some = TRUE)
  BY MessageParts
<1>3. ToSet(q) = {q[j] : j \in DOMAIN q}
  BY DEF ToSet
<1>4. \A m \in ToSet(q) : m \in Messages /\ \E j \in DOMAIN q : m = q[j]
  BY <1>1, <1>3
<1>5. \A j \in DOMAIN q : q[j] \in ToSet(q)
  BY <1>3
<1>6. \A m \in Messages : m.kind = "claim" /\ m.some <=> Delivers(m)
  BY <1>2 DEF Delivers
<1>7. (\E m \in ToSet(q) : Delivers(m) /\ m.claim.id = i)
      <=> (\E j \in DOMAIN q : Delivers(q[j]) /\ q[j].claim.id = i)
  BY <1>4, <1>5
<1>. QED
  BY <1>4, <1>6, <1>7 DEF HasClaim, HasLetter

(* Flies says of positions what InFlight says of messages.                 *)
LEMMA InFlightFlies ==
    ASSUME AttentionTypeOK, AttentionTypeOK', NEW i
    PROVE  (InFlight(i) <=> Flies(i)) /\ (InFlight(i)' <=> Flies(i)')
<1>1. \A c \in Clients : client[c].inbox \in Seq(Messages) /\ client'[c].inbox \in Seq(Messages)
  BY ClientFields DEF AttentionTypeOK
<1>2. InFlight(i) <=> Flies(i)
  <2>1. \A c \in Clients : HasClaim(client[c].inbox, i) <=> HasLetter(client[c].inbox, i)
    BY <1>1, InboxClaims
  <2>. QED
    BY <2>1 DEF InFlight, Flies, Checks, Checked, Carries, Carried, HasClaim, HasLetter
<1>3. InFlight(i)' <=> Flies(i)'
  <2>1. \A c \in Clients : HasClaim(client'[c].inbox, i) <=> HasLetter(client'[c].inbox, i)
    BY <1>1, InboxClaims
  <2>. QED
    BY <2>1 DEF InFlight, Flies, Checks, Checked, Carries, Carried, HasClaim, HasLetter
<1>. QED
  BY <1>2, <1>3

(* When no claim leaves its place none is forgotten.                       *)
OffersStay == \A e \in Offers : \E f \in Offers' : f.id = e.id

RequestsStay == \A c \in Clients : Checks(c) => Checks(c)' /\ Checked(c)' = Checked(c)

InboxesStay == \A c \in Clients : Stays(client[c].inbox, client'[c].inbox)

(* A claim under way stays so while requests and messages stay.            *)
LEMMA FliesOn ==
    ASSUME RequestsStay, InboxesStay, NEW i, Flies(i)
    PROVE  Flies(i)'
<1>1. PICK c \in Clients :
        \/ Checks(c) /\ Checked(c).id = i
        \/ \E j \in DOMAIN client[c].inbox : Carries(c, j) /\ Carried(c, j).id = i
  BY DEF Flies
<1>2. CASE Checks(c) /\ Checked(c).id = i
  BY <1>2 DEF RequestsStay, Flies
<1>3. CASE \E j \in DOMAIN client[c].inbox : Carries(c, j) /\ Carried(c, j).id = i
  <2>1. \E j \in DOMAIN client'[c].inbox : Carries(c, j)' /\ Carried(c, j)'.id = i
    BY <1>3 DEF InboxesStay, Stays, Carries, Carried
  <2>. QED
    BY <2>1 DEF Flies
<1>. QED
  BY <1>1, <1>2, <1>3

(* Every event that was accounted for still is, those at stake excepted.   *)
LEMMA AccountsStay ==
    ASSUME AttentionTypeOK, AttentionTypeOK', EventsAreAccounted,
           \A i \in Ids : IsAccounted(i) => IsAccounted(i)',
           \A s \in Sessions :
             attention'[s].pending /\ ~Fresh(s)' =>
               \/ /\ attention'[s].id = attention[s].id /\ attention'[s].id # 0
                  /\ attention[s].pending /\ ~Fresh(s)
               \/ IsAccounted(attention[s].id)'
    PROVE  EventsAreAccounted'
<1>1. ASSUME NEW s \in Sessions, attention'[s].pending, ~Fresh(s)'
      PROVE  IsAccounted(attention[s].id)'
  <2>1. CASE /\ attention'[s].id = attention[s].id /\ attention'[s].id # 0
             /\ attention[s].pending /\ ~Fresh(s)
    <3>1. attention[s].id \in Ids
      BY <2>1, DeliveryAssumption DEF AttentionTypeOK, Views, Events, Ids
    <3>2. PICK i \in Ids : i = attention[s].id
      BY <3>1
    <3>3. IsAccounted(i)
      BY <2>1, <3>2 DEF EventsAreAccounted
    <3>4. IsAccounted(i)' /\ attention'[s].id = i
      BY <3>2, <3>3, <2>1
    <3>. QED
      BY <3>4 DEF IsAccounted, InFlight
  <2>. QED
    BY <1>1, <2>1
<1>. QED
  BY <1>1 DEF EventsAreAccounted

(* An event stays accounted for when its fate is final or its claim stays. *)
LEMMA AccountStays ==
    ASSUME AttentionTypeOK, AttentionTypeOK', NEW i \in Ids, IsAccounted(i),
           \/ fate'[i] \in {"shown"} \cup Reasons
           \/ /\ fate'[i] = fate[i]
              /\ (\E e \in Offers : e.id = i) => (\E e \in Offers' : e.id = i)
              /\ Flies(i) => Flies(i)'
    PROVE  IsAccounted(i)'
<1>1. CASE fate'[i] \in {"shown"} \cup Reasons
  BY <1>1 DEF IsAccounted, Reasons
<1>2. CASE /\ fate'[i] = fate[i]
           /\ (\E e \in Offers : e.id = i) => (\E e \in Offers' : e.id = i)
           /\ Flies(i) => Flies(i)'
  BY <1>2, InFlightFlies DEF IsAccounted
<1>. QED
  BY <1>1, <1>2

(* The claims in every place are claims.                                   *)
LEMMA HeldClaims ==
    ASSUME AttentionTypeOK
    PROVE  /\ Offers \subseteq Claims
           /\ \A c \in Clients : Checks(c) => Checked(c) \in Claims
           /\ \A c \in Clients : \A j \in DOMAIN client[c].inbox :
                Carries(c, j) => Carried(c, j) \in Claims
           /\ \A c \in Clients : client[c] \in ClientStates /\ link[c] \in Links
                                 /\ client[c].inbox \in Seq(Messages)
<1>1. Offers \subseteq Claims
  BY DEF AttentionTypeOK, Offers, Boards
<1>2. \A c \in Clients : Checks(c) => Checked(c) \in Claims
  BY RequestKinds, LinkFields DEF AttentionTypeOK, Checks, Checked
<1>3. \A c \in Clients : client[c] \in ClientStates /\ link[c] \in Links
                         /\ client[c].inbox \in Seq(Messages)
  BY ClientFields DEF AttentionTypeOK
<1>4. \A c \in Clients : \A j \in DOMAIN client[c].inbox :
        Carries(c, j) => Carried(c, j) \in Claims
  BY <1>3, LenProperties, MessageParts DEF Carries, Carried
<1>. QED
  BY <1>1, <1>2, <1>3, <1>4

(* Live claims stay live when no event is settled by presenting it.        *)
LEMMA ClaimsStayLive ==
    ASSUME ClaimsAreLive, AttentionTypeOK, AttentionTypeOK',
           OffersCome, RequestsCome, InboxesCome,
           \A e \in Claims : Live(e) => Live(e)'
    PROVE  ClaimsAreLive'
<1>1. \A e \in Claims : e.id # 0
  BY DEF Claims, Ids
<1>2. \A e \in Offers' : e \in Claims
  BY DEF AttentionTypeOK, Offers, Boards
<1>3. \A c \in Clients : Checks(c)' => Checked(c)' \in Claims
  BY RequestKinds, LinkFields DEF AttentionTypeOK, Checks, Checked
<1>4. ASSUME NEW c \in Clients, NEW j \in DOMAIN client'[c].inbox, Carries(c, j)'
      PROVE  Carried(c, j)' \in Claims
  <2>1. client'[c].inbox[j] \in Messages
    BY ClientFields, LenProperties DEF AttentionTypeOK
  <2>. QED
    BY <1>4, <2>1, MessageParts DEF Carries, Carried
<1>. QED
  BY <1>1, <1>2, <1>3, <1>4, LiveClaimsStay

(* A step that moves no claim keeps the invariant.                         *)
LEMMA PassesKeepsInv ==
    ASSUME DeliveryInv, Passes
    PROVE  DeliveryInv'
<1>. USE DEF DeliveryInv
<1>1. AttentionTypeOK'
  BY DEF Passes, AttentionTypeOK
<1>2. \A c \in Clients : client[c].inbox \in Seq(Messages)
  BY ClientFields DEF AttentionTypeOK
<1>3. OffersCome /\ OffersStay
  BY DEF Passes, OffersCome, OffersStay, OnePlace, Offers
<1>4. RequestsCome /\ RequestsStay
  BY DEF Passes, SameRequest, RequestsCome, RequestsStay, Checks, Checked
<1>5. InboxesCome /\ InboxesStay
  BY <1>2, SameClaimsFacts DEF Passes, InboxesCome, InboxesStay
<1>6. OnePlace'
  BY <1>1, <1>3, <1>4, <1>5, OnePlaceStays
<1>7. UNCHANGED <<attention, updating, claims, fate>> /\ NextId' = NextId
  BY DEF Passes, NextId
<1>8. \A s : Fresh(s)' <=> Fresh(s)
  BY <1>7 DEF Fresh
<1>9. \A e \in Claims : Live(e)' <=> Live(e)
  BY <1>7, <1>8 DEF Live
<1>10. ClaimsAreLive'
  BY <1>1, <1>3, <1>4, <1>5, <1>9, ClaimsStayLive
<1>11. EventsAreDistinct' /\ AtMostOnePresentation'
  BY <1>7, <1>8 DEF EventsAreDistinct, AtMostOnePresentation
<1>12. OffersAreClaimable'
  BY DEF OffersAreClaimable, Passes, Offers
<1>13. TerminalsAwait' /\ ConnectionsHold'
  BY DEF TerminalsAwait, Passes, Awaits, Clients
<1>14. ASSUME NEW i \in Ids, IsAccounted(i)
       PROVE  IsAccounted(i)'
  BY <1>1, <1>4, <1>5, <1>7, <1>14, FliesOn, AccountStays DEF Offers
<1>15. EventsAreAccounted'
  BY <1>1, <1>7, <1>8, <1>14, AccountsStay DEF EventsAreDistinct
<1>. QED
  BY <1>1, <1>6, <1>10, <1>11, <1>12, <1>13, <1>15

----------------------------------------------------------------------------
(* The daemon's steps.                                                     *)

(* Only the fate of a live claim is settled, and not by presenting it.     *)
Settles ==
    \A i \in Ids : fate'[i] # fate[i] =>
      /\ fate'[i] \in Reasons \cup {"claimed", "resolved"}
      /\ \A s \in Sessions : attention[s].id = i => ~Fresh(s)

(* What settling one event, and those of some claims, does to each fate.   *)
LEMMA SettleFacts ==
    ASSUME fate \in [Ids -> Fates], NEW out \in Fates
    PROVE  /\ \A i \in Ids : Settle(i, out) \in [Ids -> Fates]
           /\ \A i, j \in Ids :
                Settle(i, out)[j] = IF j = i /\ fate[i] \in {"open", "claimed"} THEN out ELSE fate[j]
           /\ \A given : /\ SettleAll(given, out) \in [Ids -> Fates]
                         /\ \A j \in Ids :
                              SettleAll(given, out)[j] =
                                IF (\E e \in given : e.id = j) /\ fate[j] \in {"open", "claimed"}
                                THEN out ELSE fate[j]
<1>1. \A i \in Ids : Settle(i, out) \in [Ids -> Fates]
  BY DEF Settle
<1>2. \A i, j \in Ids :
        Settle(i, out)[j] = IF j = i /\ fate[i] \in {"open", "claimed"} THEN out ELSE fate[j]
  BY DEF Settle
<1>3. ASSUME NEW given
      PROVE  /\ SettleAll(given, out) \in [Ids -> Fates]
             /\ \A j \in Ids :
                  SettleAll(given, out)[j] =
                    IF (\E e \in given : e.id = j) /\ fate[j] \in {"open", "claimed"}
                    THEN out ELSE fate[j]
  <2>1. \A j \in Ids : SettleAll(given, out)[j] =
                         IF \E e \in given : e.id = j THEN Settle(j, out)[j] ELSE fate[j]
    BY DEF SettleAll
  <2>2. SettleAll(given, out) \in [Ids -> Fates]
    BY <1>2, Zenon DEF SettleAll
  <2>. QED
    BY <2>1, <2>2, <1>2
<1>. QED
  BY <1>1, <1>2, <1>3

(* Settling the fates of live claims disturbs no fresh event.              *)
LEMMA EventsStay ==
    ASSUME AttentionTypeOK, EventsAreDistinct, AtMostOnePresentation,
           UNCHANGED <<attention, updating>>, left'.events = left.events, Settles
    PROVE  /\ \A s : Fresh(s)' <=> Fresh(s)
           /\ \A e \in Claims : Live(e) => Live(e)'
           /\ EventsAreDistinct'
           /\ AtMostOnePresentation'
<1>1. NextId' = NextId /\ \A s : Fresh(s)' <=> Fresh(s)
  BY DEF NextId, Fresh
<1>2. \A e \in Claims : e.id \in Ids
  BY DEF Claims
<1>3. \A i \in Ids : fate[i] \notin {"shown", "shown twice"}
                       => fate'[i] \notin {"shown", "shown twice"}
  BY DEF Settles, Reasons
<1>4. \A e \in Claims : Live(e) => Live(e)'
  BY <1>1, <1>2, <1>3 DEF Live
<1>5. \A s \in Sessions : attention[s].id # 0 => attention[s].id \in Ids
  BY DeliveryAssumption DEF AttentionTypeOK, Views, Events, Ids
<1>6. EventsAreDistinct'
  BY <1>1, <1>5 DEF EventsAreDistinct, Settles
<1>7. AtMostOnePresentation'
  BY DEF AtMostOnePresentation, Settles, Reasons
<1>. QED
  BY <1>1, <1>4, <1>6, <1>7

(* A step that leaves the events, the requests under validation and the    *)
(* messages where they are, and only withdraws claims it accounts for.     *)
LEMMA WithdrawalsKeepInv ==
    ASSUME DeliveryInv, AttentionTypeOK', UNCHANGED <<attention, updating>>,
           left'.events = left.events, Settles,
           OffersCome, RequestsCome, InboxesCome,
           OffersAreClaimable', TerminalsAwait', ConnectionsHold',
           \A i \in Ids : fate'[i] = fate[i] =>
             /\ fate[i] = "open" /\ (\E e \in Offers : e.id = i) => (\E e \in Offers' : e.id = i)
             /\ fate[i] = "claimed" /\ Flies(i) => Flies(i)',
           \A i \in Ids : fate'[i] # fate[i] => fate'[i] \in Reasons
    PROVE  DeliveryInv'
<1>. USE DEF DeliveryInv
<1>1. /\ \A s : Fresh(s)' <=> Fresh(s)
      /\ \A e \in Claims : Live(e) => Live(e)'
      /\ EventsAreDistinct'
      /\ AtMostOnePresentation'
  BY EventsStay
<1>2. OnePlace' /\ ClaimsAreLive'
  BY <1>1, OnePlaceStays, ClaimsStayLive
<1>3. ASSUME NEW i \in Ids, IsAccounted(i)
      PROVE  IsAccounted(i)'
  <2>1. CASE fate'[i] # fate[i]
    BY <1>3, <2>1, AccountStays
  <2>2. CASE fate'[i] = fate[i]
    <3>1. CASE fate[i] = "open"
      BY <1>3, <2>2, <3>1 DEF IsAccounted
    <3>2. CASE fate[i] = "claimed"
      BY <1>3, <2>2, <3>2, InFlightFlies DEF IsAccounted
    <3>3. CASE fate[i] \notin {"open", "claimed"}
      BY <1>3, <2>2, <3>3 DEF IsAccounted
    <3>. QED
      BY <3>1, <3>2, <3>3
  <2>. QED
    BY <2>1, <2>2
<1>4. EventsAreAccounted'
  BY <1>1, <1>3, AccountsStay DEF EventsAreDistinct
<1>. QED
  BY <1>1, <1>2, <1>4

(* The steps that only tell the clients of what is due.                    *)
LEMMA BroadcastFacts ==
    ASSUME AttentionTypeOK, NEW m \in Notices, Broadcast(m)
    PROVE  /\ link' \in [Clients -> Links]
           /\ \A c \in Clients : link'[c].up = link[c].up /\ link'[c].request = link[c].request
<1>1. ASSUME NEW c \in Clients
      PROVE  link'[c] \in Links /\ link'[c].up = link[c].up /\ link'[c].request = link[c].request
  <2> DEFINE l == link[c]
             h == Append(l.heard, m)
  <2>1. l \in Links /\ l.heard \in Seq(Notices)
    BY LinkFields DEF AttentionTypeOK
  <2>2. h \in Seq(Notices)
    BY <2>1, AppendProperties
  <2>3. link'[c] = l \/ link'[c] = [l EXCEPT !.heard = h]
    BY DEF Broadcast
  <2> HIDE DEF l, h
  <2>4. [l EXCEPT !.heard = h] \in Links /\ [l EXCEPT !.heard = h].up = l.up
        /\ [l EXCEPT !.heard = h].request = l.request
    BY <2>1, <2>2 DEF Links
  <2>. QED
    BY <2>1, <2>3, <2>4 DEF l
<1>2. link' = [c \in Clients |-> link'[c]]
  BY DEF Broadcast
<1>. QED
  BY <1>1, <1>2

(* Nothing happens to the requests and the messages.                       *)
LEMMA QuietClients ==
    ASSUME AttentionTypeOK,
           \A c \in Clients : /\ link'[c].request = link[c].request
                              /\ client'[c].inbox = client[c].inbox
    PROVE  /\ RequestsCome /\ InboxesCome
           /\ \A i : Flies(i) => Flies(i)'
<1>1. RequestsCome /\ RequestsStay
  BY DEF RequestsCome, RequestsStay, Checks, Checked
<1>2. \A c \in Clients : SameClaims(client[c].inbox, client'[c].inbox)
  BY DEF SameClaims
<1>3. InboxesCome /\ InboxesStay
  BY <1>2, HeldClaims, SameClaimsFacts DEF InboxesCome, InboxesStay
<1>. QED
  BY <1>1, <1>3, FliesOn

(* A claim matures, and the tick announces what is due.                    *)
LEMMA ClockKeepsInv ==
    ASSUME DeliveryInv, Mature \/ NotificationTick
    PROVE  DeliveryInv'
<1>. USE DEF DeliveryInv
<1>1. UNCHANGED <<attention, updating, client, fate, left>>
  BY DEF Mature, NotificationTick
<1>2. /\ link' \in [Clients -> Links]
      /\ \A c \in Clients : link'[c].up = link[c].up /\ link'[c].request = link[c].request
  <2>1. CASE Mature
    BY <2>1 DEF Mature, AttentionTypeOK
  <2>2. CASE NotificationTick
    BY <2>2, BroadcastFacts, MessageKinds DEF NotificationTick
  <2>. QED
    BY <2>1, <2>2
<1>3. /\ claims' \in Boards
      /\ claims'.watermarks = claims.watermarks /\ claims'.sequence = claims.sequence
      /\ \A f \in Offers' : \E e \in Offers : f.id = e.id /\ f.session = e.session
                                              /\ f.sequence = e.sequence
      /\ \A e, f \in Offers' : e.id = f.id => e = f
      /\ \A e \in Offers : \E f \in Offers' : f.id = e.id
  <2>1. claims \in Boards /\ Offers \subseteq Claims
    BY HeldClaims DEF AttentionTypeOK
  <2>2. CASE Mature
    <3>1. PICK e \in Offers : claims' = Matured(claims, e)
      BY <2>2 DEF Mature
    <3> DEFINE g == [e EXCEPT !.ready = TRUE]
    <3>2. g.id = e.id /\ g.session = e.session /\ g.sequence = e.sequence
      BY <2>1 DEF Claims
    <3>3. claims' \in Boards
      BY <2>1, <3>1, ClaimOperators, DeliveryAssumption DEF Offers
    <3>4. /\ Offers' = (Offers \ {e}) \cup {g}
          /\ claims'.watermarks = claims.watermarks /\ claims'.sequence = claims.sequence
      BY <2>1, <3>1 DEF Matured, Boards, Offers
    <3> HIDE DEF g
    <3>. QED
      BY <3>2, <3>3, <3>4 DEF OnePlace
  <2>3. CASE NotificationTick
    <3> DEFINE g(e) == [e EXCEPT !.announced = @ \/ e.ready]
    <3>1. \A e \in Claims : g(e).id = e.id /\ g(e).session = e.session /\ g(e).sequence = e.sequence
      BY DEF Claims
    <3>2. claims' \in Boards
      BY <2>1, <2>3, ClaimOperators, DeliveryAssumption DEF NotificationTick
    <3>3. /\ Offers' = {g(e) : e \in Offers}
          /\ claims'.watermarks = claims.watermarks /\ claims'.sequence = claims.sequence
      BY <2>1, <2>3 DEF NotificationTick, AnnounceDue, Boards, Offers
    <3> HIDE DEF g
    <3>. QED
      BY <2>1, <3>1, <3>2, <3>3 DEF OnePlace
  <2>. QED
    BY <2>2, <2>3
<1>4. AttentionTypeOK'
  BY <1>1, <1>2, <1>3 DEF AttentionTypeOK
<1>5. RequestsCome /\ InboxesCome /\ \A i : Flies(i) => Flies(i)'
  BY <1>1, <1>2, QuietClients
<1>6. OffersCome /\ Settles
  BY <1>1, <1>3 DEF OffersCome, Settles
<1>7. OffersAreClaimable'
  BY <1>2, <1>3 DEF OffersAreClaimable
<1>8. TerminalsAwait' /\ ConnectionsHold'
  BY <1>1, <1>2 DEF TerminalsAwait, ConnectionsHold, Clients
<1>. QED
  BY <1>1, <1>3, <1>4, <1>5, <1>6, <1>7, <1>8, WithdrawalsKeepInv

(* A connection comes, is subscribed, and goes.                            *)
LEMMA RegisterKeepsInv ==
    ASSUME DeliveryInv, NEW c \in Clients, RegisterClient(c) \/ SubscribeClient(c)
    PROVE  DeliveryInv'
<1>. USE DEF DeliveryInv
<1>1. /\ UNCHANGED <<attention, updating, client, fate, left>>
      /\ link[c].up # "off" => claims' = claims
      /\ link[c].up = "off" => claims' = Register(claims, c)
      /\ link[c].up \in {"off", "registered"}
  BY DEF RegisterClient, SubscribeClient
<1>2. link[c].request.kind = "none"
  BY <1>1 DEF ConnectionsHold
<1>3. /\ link' \in [Clients -> Links]
      /\ \A d \in Clients \ {c} : link'[d] = link[d]
      /\ link'[c].up \in {"registered", "on"} /\ link'[c].request.kind = "none"
  <2> DEFINE l == IF link[c].up = "off" THEN [Offline EXCEPT !.up = "registered"]
                  ELSE [link[c] EXCEPT !.up = "on"]
  <2>1. link' = [link EXCEPT ![c] = l]
    BY DEF RegisterClient, SubscribeClient, SetLink
  <2>2. link[c] \in Links /\ Offline \in Links
    BY HeldClaims, Starting
  <2>3. l \in Links /\ l.up \in {"registered", "on"} /\ l.request.kind = "none"
    BY <2>2, <1>2 DEF Links, Offline
  <2> HIDE DEF l
  <2>. QED
    BY <2>1, <2>3 DEF AttentionTypeOK
<1>4. /\ claims' \in Boards /\ Offers' = Offers
      /\ OffersAreClaimable'
  <2>1. /\ claims \in Boards /\ claims.watermarks \in Partial(Clients, Nat)
        /\ claims.sequence \in Nat
    BY DEF AttentionTypeOK, Boards
  <2>2. CASE link[c].up # "off"
    <3>1. claims' = claims
      BY <2>2, <1>1
    <3>. QED
      BY <2>1, <2>2, <3>1, <1>3 DEF OffersAreClaimable, Offers
  <2>3. CASE link[c].up = "off"
    <3> DEFINE f == claims.watermarks
           n == claims.sequence
           w == With(f, c, n)
    <3>1. /\ w \in Partial(Clients, Nat)
          /\ DOMAIN w = DOMAIN f \cup {c}
          /\ \A d \in DOMAIN f \ {c} : w[d] = f[d]
          /\ w[c] = n
      <4>1. f \in Partial(Clients, Nat) /\ n \in Nat
        BY <2>1
      <4>2. w \in Partial(Clients, Nat)
        BY <4>1, PartialFacts
      <4>. QED
        BY <4>2 DEF With
    <3> HIDE DEF w
    <3>2. c \notin DOMAIN claims.watermarks
      BY <2>3 DEF OffersAreClaimable
    <3>3. /\ claims'.watermarks = w /\ claims'.sequence = claims.sequence
          /\ claims'.pending = {e \in Offers : \E d \in DOMAIN w : w[d] < e.sequence}
      BY <1>1, <2>1, <2>3 DEF Register, PruneUnclaimable, Boards, Offers, w
    <3>4. Offers' = Offers /\ \A e \in Offers : \E d \in DOMAIN w : w[d] < e.sequence
      BY <3>1, <3>2, <3>3 DEF OffersAreClaimable, Offers
    <3>5. claims' \in Boards
      BY <1>1, <2>1, <2>3, ClaimOperators
    <3>6. OffersAreClaimable'
      BY <2>1, <3>1, <3>2, <3>3, <3>4, <1>3 DEF OffersAreClaimable
    <3>. QED
      BY <3>4, <3>5, <3>6
  <2>. QED
    BY <2>2, <2>3
<1>5. AttentionTypeOK'
  BY <1>1, <1>3, <1>4 DEF AttentionTypeOK
<1>7. RequestsCome /\ RequestsStay
  BY <1>2, <1>3 DEF RequestsCome, RequestsStay, Checks, Checked
<1>8. InboxesCome /\ InboxesStay
  <2>1. \A d \in Clients : SameClaims(client[d].inbox, client'[d].inbox)
    BY <1>1 DEF SameClaims
  <2>. QED
    BY <2>1, HeldClaims, SameClaimsFacts DEF InboxesCome, InboxesStay
<1>9. OffersCome /\ Settles
  BY <1>1, <1>4 DEF OffersCome, Settles, OnePlace
<1>10. TerminalsAwait' /\ ConnectionsHold'
  <2>1. \A d \in Clients : client'[d].inbox # <<>> => link[d].up = "on" /\ d # c
    BY <1>1 DEF ConnectionsHold
  <2>2. TerminalsAwait'
    BY <2>1, <1>1, <1>3 DEF TerminalsAwait, Clients
  <2>3. ConnectionsHold'
    BY <2>1, <1>1, <1>3 DEF ConnectionsHold
  <2>. QED
    BY <2>2, <2>3
<1>. QED
  BY <1>1, <1>4, <1>5, <1>7, <1>8, <1>9, <1>10, FliesOn, WithdrawalsKeepInv

(* A client that goes withdraws what nobody else may claim.                *)
LEMMA UnregisterKeepsInv ==
    ASSUME DeliveryInv, NEW c \in Clients, UnregisterClient(c)
    PROVE  DeliveryInv'
<1>. USE DEF DeliveryInv
<1>. DEFINE w == Without(claims.watermarks, c)
            given == {e \in Offers : \A d \in DOMAIN claims.watermarks \ {c} :
                                       e.sequence <= claims.watermarks[d]}
<1>1. /\ UNCHANGED <<attention, updating, client, left>>
      /\ link[c].up = "gone" /\ link[c].request.kind = "none"
      /\ claims' = Unregister(claims, c)
      /\ fate' = SettleAll(given, "unheard")
      /\ link' = [link EXCEPT ![c] = Offline]
  BY DEF UnregisterClient, SetLink
<1>2. /\ link' \in [Clients -> Links]
      /\ \A d \in Clients \ {c} : link'[d] = link[d]
      /\ link'[c].up = "off" /\ link'[c].request.kind = "none"
  BY <1>1, Starting DEF AttentionTypeOK, Offline
<1>3. /\ claims \in Boards /\ claims.watermarks \in Partial(Clients, Nat)
      /\ claims.sequence \in Nat /\ Offers \subseteq Claims
  BY HeldClaims DEF AttentionTypeOK, Boards
<1>4. /\ DOMAIN w = DOMAIN claims.watermarks \ {c}
      /\ \A d \in DOMAIN w : w[d] = claims.watermarks[d] /\ w[d] \in Nat
  <2>1. \A f \in Partial(Clients, Nat) : \A d \in DOMAIN f : f[d] \in Nat
    BY DEF Partial
  <2>2. DOMAIN w = DOMAIN claims.watermarks \ {c} /\ \A d \in DOMAIN w : w[d] = claims.watermarks[d]
    BY DEF Without, Restrict
  <2>. QED
    BY <2>1, <2>2, <1>3
<1>. HIDE DEF w, given
<1>5. /\ claims' \in Boards
      /\ claims'.watermarks = w /\ claims'.sequence = claims.sequence
      /\ Offers' = {e \in Offers : \E d \in DOMAIN w : w[d] < e.sequence}
  <2>1. claims' \in Boards
    BY <1>1, <1>3, ClaimOperators
  <2>2. /\ claims'.watermarks = w /\ claims'.sequence = claims.sequence
        /\ claims'.pending = {e \in Offers : \E d \in DOMAIN w : w[d] < e.sequence}
    BY <1>1, <1>3 DEF Unregister, PruneUnclaimable, Boards, Offers, w
  <2>. QED
    BY <2>1, <2>2 DEF Offers
<1>6. /\ fate' \in [Ids -> Fates]
      /\ \A i \in Ids : fate'[i] = IF (\E e \in given : e.id = i) /\ fate[i] \in {"open", "claimed"}
                                   THEN "unheard" ELSE fate[i]
  <2>1. fate \in [Ids -> Fates] /\ "unheard" \in Fates
    BY DEF AttentionTypeOK, Fates, Reasons
  <2>. QED
    BY <1>1, <2>1, SettleFacts
<1>7. AttentionTypeOK'
  BY <1>1, <1>2, <1>5, <1>6 DEF AttentionTypeOK
<1>8. \A e \in Offers : e \in given \/ e \in Offers'
  <2>1. \A e \in Offers : e.sequence \in Nat
    BY <1>3 DEF Claims
  <2>. QED
    BY <2>1, <1>4, <1>5 DEF given
<1>9. Settles
  BY <1>6, ZenonT(60) DEF given, Settles, ClaimsAreLive, Live, Reasons
<1>10. \A i \in Ids : /\ fate'[i] = fate[i] /\ fate[i] = "open" /\ (\E e \in Offers : e.id = i)
                           => (\E e \in Offers' : e.id = i)
                      /\ fate'[i] # fate[i] => fate'[i] \in Reasons
  BY <1>6, <1>8 DEF Reasons
<1>11. OffersCome
  BY <1>5 DEF OffersCome, OnePlace
<1>12. RequestsCome /\ RequestsStay
  BY <1>1, <1>2 DEF RequestsCome, RequestsStay, Checks, Checked
<1>13. InboxesCome /\ InboxesStay
  <2>1. \A d \in Clients : SameClaims(client[d].inbox, client'[d].inbox)
    BY <1>1 DEF SameClaims
  <2>. QED
    BY <2>1, HeldClaims, SameClaimsFacts DEF InboxesCome, InboxesStay
<1>14. OffersAreClaimable'
  BY <1>1, <1>2, <1>4, <1>5 DEF OffersAreClaimable
<1>15. TerminalsAwait' /\ ConnectionsHold'
  <2>1. \A d \in Clients : client'[d].inbox # <<>> => link[d].up = "on" /\ d # c
    BY <1>1 DEF ConnectionsHold
  <2>2. TerminalsAwait'
    BY <2>1, <1>1, <1>2 DEF TerminalsAwait, Clients
  <2>3. ConnectionsHold'
    BY <2>1, <1>1, <1>2 DEF ConnectionsHold
  <2>. QED
    BY <2>2, <2>3
<1>. QED
  BY <1>1, <1>7, <1>9, <1>10, <1>11, <1>12, <1>13, <1>14, <1>15, FliesOn, WithdrawalsKeepInv

(* What was on its way to a client that goes is dropped.                   *)
LEMMA DepartKeepsInv ==
    ASSUME DeliveryInv, NEW c \in Clients, Depart(c)
    PROVE  DeliveryInv'
<1>. USE DEF DeliveryInv
<1>. DEFINE given == {m.claim : m \in {m \in ToSet(client[c].inbox) : m.kind = "claim" /\ m.some}}
            l == [link[c] EXCEPT !.up = "gone", !.heard = <<>>]
<1>1. /\ UNCHANGED <<attention, updating, claims>>
      /\ link[c].up = "on"
      /\ fate' = SettleAll(given, "dropped")
      /\ link' = [link EXCEPT ![c] = l]
      /\ client' = [client EXCEPT ![c] = NewClient]
  BY DEF Depart, SetLink, SetClient
<1>2. left' \in Bounds /\ left'.events = left.events
  BY DEF Depart, AttentionTypeOK, Bounds
<1>3. /\ l \in Links /\ l.up = "gone" /\ l.request = link[c].request
  BY HeldClaims, EmptySeq DEF Links
<1>. HIDE DEF l
<1>4. /\ link' \in [Clients -> Links] /\ link'[c] = l
      /\ client' \in [Clients -> ClientStates] /\ client'[c].inbox = <<>>
      /\ \A d \in Clients \ {c} : link'[d] = link[d] /\ client'[d] = client[d]
  BY <1>1, <1>3, Starting DEF AttentionTypeOK, NewClient
<1>5. \A i : (\E e \in given : e.id = i)
             <=> \E j \in DOMAIN client[c].inbox : Carries(c, j) /\ Carried(c, j).id = i
  <2> SUFFICES ASSUME NEW i
               PROVE  (\E e \in given : e.id = i) <=> HasLetter(client[c].inbox, i)
    BY DEF HasLetter, Carries, Carried
  <2>2. (\E e \in given : e.id = i) <=> HasClaim(client[c].inbox, i)
    BY DEF HasClaim
  <2>. QED
    BY <2>2, HeldClaims, InboxClaims
<1>. HIDE DEF given
<1>6. /\ fate' \in [Ids -> Fates]
      /\ \A i \in Ids : fate'[i] = IF (\E e \in given : e.id = i) /\ fate[i] \in {"open", "claimed"}
                                   THEN "dropped" ELSE fate[i]
  <2>1. fate \in [Ids -> Fates] /\ "dropped" \in Fates
    BY DEF AttentionTypeOK, Fates, Reasons
  <2>. QED
    BY <1>1, <2>1, SettleFacts
<1>7. AttentionTypeOK'
  BY <1>1, <1>2, <1>4, <1>6 DEF AttentionTypeOK
<1>8. Settles
  <2> SUFFICES ASSUME NEW i \in Ids, fate'[i] # fate[i]
               PROVE  /\ fate'[i] = "dropped"
                      /\ \A s \in Sessions : attention[s].id = i => ~Fresh(s)
    BY DEF Settles, Reasons
  <2>1. fate'[i] = "dropped" /\ \E e \in given : e.id = i
    BY <1>6
  <2>2. PICK j \in DOMAIN client[c].inbox : Carries(c, j) /\ Carried(c, j).id = i
    BY <2>1, <1>5
  <2>3. Live(Carried(c, j))
    BY <2>2 DEF ClaimsAreLive
  <2>. QED
    BY <2>1, <2>2, <2>3 DEF Live
<1>9. RequestsCome
  BY <1>3, <1>4 DEF RequestsCome, Checks, Checked
<1>10. InboxesCome
  <2>1. Comes(client[c].inbox, <<>>)
    <3>1. DOMAIN <<>> = {}
      BY EmptySeq, LenProperties
    <3>. QED
      BY <3>1 DEF Comes
  <2>2. \A d \in Clients \ {c} : SameClaims(client[d].inbox, client'[d].inbox)
    BY <1>4 DEF SameClaims
  <2>3. \A d \in Clients \ {c} : Comes(client[d].inbox, client'[d].inbox)
    BY <2>2, HeldClaims, SameClaimsFacts
  <2>. QED
    BY <2>1, <2>3, <1>4 DEF InboxesCome
<1>11. OffersCome
  BY <1>1 DEF OffersCome, OnePlace, Offers
<1>12. ASSUME NEW i \in Ids, fate'[i] = fate[i], fate[i] = "claimed", Flies(i)
       PROVE  Flies(i)'
  <2>1. ~ \E j \in DOMAIN client[c].inbox : Carries(c, j) /\ Carried(c, j).id = i
    BY <1>5, <1>6, <1>12
  <2>2. PICK d \in Clients :
          \/ Checks(d) /\ Checked(d).id = i
          \/ \E j \in DOMAIN client[d].inbox : Carries(d, j) /\ Carried(d, j).id = i
    BY <1>12 DEF Flies
  <2>3. CASE Checks(d) /\ Checked(d).id = i
    BY <2>3, <1>3, <1>4 DEF Flies, Checks, Checked
  <2>4. CASE \E j \in DOMAIN client[d].inbox : Carries(d, j) /\ Carried(d, j).id = i
    BY <2>1, <2>4, <1>4 DEF Flies, Carries, Carried
  <2>. QED
    BY <2>2, <2>3, <2>4
<1>13. /\ \A i \in Ids : fate'[i] # fate[i] => fate'[i] \in Reasons
       /\ Offers' = Offers
  BY <1>1, <1>6 DEF Reasons, Offers
<1>14. OffersAreClaimable'
  BY <1>1, <1>3, <1>4 DEF OffersAreClaimable, Offers
<1>15. TerminalsAwait' /\ ConnectionsHold'
  <2>1. TerminalsAwait'
    BY <1>4 DEF TerminalsAwait, Clients
  <2>2. ConnectionsHold'
    BY <1>3, <1>4 DEF ConnectionsHold
  <2>. QED
    BY <2>1, <2>2
<1>. QED
  BY <1>1, <1>2, <1>7, <1>8, <1>9, <1>10, <1>11, <1>12, <1>13, <1>14, <1>15, WithdrawalsKeepInv

(* The connection is served and its client, if it is there, is told.       *)
LEMMA RespondFacts ==
    ASSUME AttentionTypeOK, TerminalsAwait, ConnectionsHold, NEW c \in Clients,
           NEW m \in Messages, link[c].request.kind # "none", Respond(c, m)
    PROVE  /\ link' \in [Clients -> Links]
           /\ client' \in [Clients -> ClientStates]
           /\ \A d \in Clients : link'[d].up = link[d].up
           /\ \A d \in Clients \ {c} : link'[d] = link[d] /\ client'[d].inbox = client[d].inbox
           /\ link'[c].request = [kind |-> "none"]
           /\ client'[c].inbox = IF link[c].up = "on" THEN Append(client[c].inbox, m)
                                 ELSE client[c].inbox
           /\ TerminalsAwait' /\ ConnectionsHold'
<1>. DEFINE r == [kind |-> "none"]
            l == [link[c] EXCEPT !.request = r]
            i == Append(client[c].inbox, m)
            k == [client[c] EXCEPT !.inbox = i]
<1>1. client[c] \in ClientStates /\ link[c] \in Links /\ client[c].inbox \in Seq(Messages)
  BY HeldClaims
<1>2. /\ link' = [link EXCEPT ![c] = l]
      /\ link[c].up = "on" => client' = [client EXCEPT ![c] = k]
      /\ link[c].up # "on" => client' = client
  BY DEF Respond, SetLink, SetClient, NoRequest
<1>3. l \in Links /\ l.request = r /\ l.up = link[c].up
  BY <1>1, RequestKinds DEF Links
<1>4. i \in Seq(Messages) /\ Len(i) = Len(client[c].inbox) + 1
  BY <1>1, AppendProperties
<1>. HIDE DEF i
<1>5. k \in ClientStates /\ k.inbox = i
  BY <1>1, <1>4 DEF ClientStates
<1>. HIDE DEF k, l
<1>6. /\ link' \in [Clients -> Links] /\ link'[c] = l
      /\ client' \in [Clients -> ClientStates]
      /\ \A d \in Clients \ {c} : link'[d] = link[d] /\ client'[d] = client[d]
      /\ link[c].up = "on" => client'[c] = k
      /\ link[c].up # "on" => client'[c] = client[c]
  BY <1>2, <1>3, <1>5 DEF AttentionTypeOK
<1>7. c \in Terminals => client[c].inbox = <<>>
  BY DEF TerminalsAwait
<1>8. c \in Terminals => Len(i) = 1
  BY <1>4, <1>7, EmptySeq
<1>9. TerminalsAwait'
  BY <1>3, <1>5, <1>6, <1>7, <1>8 DEF TerminalsAwait, Clients
<1>10. ConnectionsHold'
  BY <1>3, <1>5, <1>6 DEF ConnectionsHold
<1>. QED
  BY <1>3, <1>5, <1>6, <1>9, <1>10 DEF i

(* The Session in view has its claims withdrawn.                           *)
LEMMA FocusKeepsInv ==
    ASSUME DeliveryInv, NEW c \in Clients, ServeFocus(c)
    PROVE  DeliveryInv'
<1>. USE DEF DeliveryInv
<1>. DEFINE s == link[c].request.session
            given == {e \in Offers : e.session = s}
            m == [kind |-> "focused", session |-> s]
<1>1. /\ UNCHANGED <<attention, updating, left>>
      /\ link[c].request.kind = "focus"
      /\ claims' = IF s = None THEN ReportNoFocus(claims, c) ELSE ReportFocus(claims, c, s)
      /\ fate' = SettleAll(given, "seen")
      /\ Respond(c, m)
  BY DEF ServeFocus
<1>2. s \in Sessions \cup {None}
  BY <1>1, HeldClaims, LinkFields, RequestKinds
<1>. HIDE DEF s
<1>3. m \in Messages /\ ~Delivers(m)
  BY <1>2, MessageKinds DEF Delivers
<1>. HIDE DEF m, given
<1>4. /\ link' \in [Clients -> Links]
      /\ client' \in [Clients -> ClientStates]
      /\ \A d \in Clients : link'[d].up = link[d].up
      /\ \A d \in Clients \ {c} : link'[d] = link[d] /\ client'[d].inbox = client[d].inbox
      /\ link'[c].request = [kind |-> "none"]
      /\ client'[c].inbox = IF link[c].up = "on" THEN Append(client[c].inbox, m)
                            ELSE client[c].inbox
      /\ TerminalsAwait' /\ ConnectionsHold'
  BY <1>1, <1>3, RespondFacts
<1>5. claims \in Boards /\ Offers \subseteq Claims
  BY HeldClaims DEF AttentionTypeOK
<1>6. /\ claims' \in Boards
      /\ claims'.watermarks = claims.watermarks /\ claims'.sequence = claims.sequence
      /\ Offers' \subseteq Offers
      /\ \A e \in Offers : e \in given \/ e \in Offers'
  <2>1. CASE s = None
    <3>1. claims' = ReportNoFocus(claims, c)
      BY <2>1, <1>1
    <3>2. /\ claims'.watermarks = claims.watermarks /\ claims'.sequence = claims.sequence
          /\ claims'.pending = claims.pending
      BY <3>1, <1>5 DEF ReportNoFocus, Boards
    <3>. QED
      BY <3>1, <3>2, <1>5, ClaimOperators DEF Offers
  <2>2. CASE s # None
    <3>1. claims' = ReportFocus(claims, c, s) /\ s \in Sessions
      BY <2>2, <1>1, <1>2
    <3>2. claims' \in Boards
      BY <3>1, <1>5, ClaimOperators
    <3>3. CASE c \notin DOMAIN claims.watermarks
      BY <3>1, <3>2, <3>3 DEF ReportFocus, Offers
    <3>4. CASE c \in DOMAIN claims.watermarks
      <4>1. /\ claims'.watermarks = claims.watermarks /\ claims'.sequence = claims.sequence
            /\ claims'.pending = {e \in claims.pending : e.session # s}
        BY <3>1, <3>4, <1>5 DEF ReportFocus, Cancel, Boards
      <4>. QED
        BY <3>2, <4>1 DEF Offers, given
    <3>. QED
      BY <3>3, <3>4
  <2>. QED
    BY <2>1, <2>2
<1>7. /\ fate' \in [Ids -> Fates]
      /\ \A i \in Ids : fate'[i] = IF (\E e \in given : e.id = i) /\ fate[i] \in {"open", "claimed"}
                                   THEN "seen" ELSE fate[i]
  <2>1. fate \in [Ids -> Fates] /\ "seen" \in Fates
    BY DEF AttentionTypeOK, Fates, Reasons
  <2>. QED
    BY <1>1, <2>1, SettleFacts
<1>8. AttentionTypeOK'
  BY <1>1, <1>4, <1>6, <1>7 DEF AttentionTypeOK
<1>9. Settles
  BY <1>7, ZenonT(60) DEF given, Settles, ClaimsAreLive, Live, Reasons
<1>10. \A i \in Ids : /\ fate'[i] = fate[i] /\ fate[i] = "open" /\ (\E e \in Offers : e.id = i)
                           => (\E e \in Offers' : e.id = i)
                      /\ fate'[i] # fate[i] => fate'[i] \in Reasons
  BY <1>6, <1>7 DEF Reasons
<1>11. OffersCome
  BY <1>6 DEF OffersCome, OnePlace
<1>12. RequestsCome /\ RequestsStay
  BY <1>1, <1>4 DEF RequestsCome, RequestsStay, Checks, Checked
<1>13. InboxesCome /\ InboxesStay
  <2>1. \A d \in Clients : SameClaims(client[d].inbox, client'[d].inbox)
    BY <1>3, <1>4 DEF SameClaims
  <2>. QED
    BY <2>1, HeldClaims, SameClaimsFacts DEF InboxesCome, InboxesStay
<1>14. OffersAreClaimable'
  BY <1>4, <1>6 DEF OffersAreClaimable
<1>. QED
  BY <1>1, <1>4, <1>8, <1>9, <1>10, <1>11, <1>12, <1>13, <1>14, FliesOn, WithdrawalsKeepInv

(* The oldest claim of some is one of them.                                *)
LEMMA OldestIsOfThem ==
    ASSUME NEW given \in SUBSET Claims, given # {}
    PROVE  Oldest(given) \in given
<1>. DEFINE T == {e.sequence : e \in given}
<1>1. T \subseteq Nat /\ T # {}
  BY DEF Claims
<1>2. \A x, y \in Nat : <<x, y>> \in OpToRel(<, Nat) <=> x < y
  BY DEF OpToRel
<1>3. \E x \in T : \A y \in T : ~(<<y, x>> \in OpToRel(<, Nat))
  <2>. HIDE DEF T
  <2>. DEFINE R == OpToRel(<, Nat)
              N == Nat
  <2>1. IsWellFoundedOn(R, N)
    BY NatLessThanWellFounded
  <2>2. T \subseteq N
    BY <1>1
  <2>. HIDE DEF R, N
  <2>3. \E x \in T : \A y \in T : ~(<<y, x>> \in R)
    BY <1>1, <2>1, <2>2, WFMin
  <2>. QED
    BY <2>3 DEF R
<1>4. \E x \in T : \A y \in T : x <= y
  <2>. HIDE DEF T
  <2>1. PICK x \in T : \A y \in T : ~(<<y, x>> \in OpToRel(<, Nat))
    BY <1>3
  <2>2. ASSUME NEW y \in T PROVE x <= y
    <3>1. x \in Nat /\ y \in Nat /\ ~(y < x)
      BY <2>1, <1>1, <1>2
    <3>. QED
      BY <3>1
  <2>. QED
    BY <2>2
<1>5. \E e \in given : \A f \in given : e.sequence <= f.sequence
  BY <1>4
<1>. QED
  BY <1>5 DEF Oldest

(* A claim is taken from the queue for validation.                         *)
LEMMA ClaimKeepsInv ==
    ASSUME DeliveryInv, NEW c \in Clients, ServeClaim(c)
    PROVE  DeliveryInv'
<1>. USE DEF DeliveryInv
<1>1. /\ UNCHANGED <<attention, updating, left>>
      /\ link[c].request.kind = "claim"
  BY DEF ServeClaim
<1>2. claims \in Boards /\ Offers \subseteq Claims /\ left \in Bounds
      /\ link[c] \in Links /\ link[c].request \in Served
  BY HeldClaims, LinkFields DEF AttentionTypeOK
<1>3. CASE Claimable(claims, c) = {}
  <2> DEFINE m == [kind |-> "claim", some |-> FALSE]
  <2>1. m \in Messages /\ ~Delivers(m)
    BY MessageKinds DEF Delivers
  <2>2. Respond(c, m) /\ UNCHANGED <<claims, fate>>
    BY <1>3 DEF ServeClaim
  <2> HIDE DEF m
  <2>3. /\ link' \in [Clients -> Links]
        /\ client' \in [Clients -> ClientStates]
        /\ \A d \in Clients : link'[d].up = link[d].up
        /\ \A d \in Clients \ {c} : link'[d] = link[d] /\ client'[d].inbox = client[d].inbox
        /\ link'[c].request = [kind |-> "none"]
        /\ client'[c].inbox = IF link[c].up = "on" THEN Append(client[c].inbox, m)
                              ELSE client[c].inbox
        /\ TerminalsAwait' /\ ConnectionsHold'
    BY <1>1, <2>1, <2>2, RespondFacts
  <2>4. \A d \in Clients : /\ SameRequest(link[d].request, link'[d].request)
                           /\ SameClaims(client[d].inbox, client'[d].inbox)
    <3>1. \A d \in Clients : SameRequest(link[d].request, link'[d].request)
      BY <1>1, <2>3 DEF SameRequest
    <3>2. \A d \in Clients : SameClaims(client[d].inbox, client'[d].inbox)
      BY <2>1, <2>3 DEF SameClaims
    <3>. QED
      BY <3>1, <3>2
  <2>5. Passes
    BY <1>1, <1>2, <2>2, <2>3, <2>4 DEF Passes, TerminalsAwait, Awaits, Clients
  <2>. QED
    BY <2>5, PassesKeepsInv
<1>4. CASE Claimable(claims, c) # {}
  <2> DEFINE x == ClaimFor(claims, c)
             r == [kind |-> "validate", claim |-> x]
             l == [link[c] EXCEPT !.request = r]
  <2>1. /\ claims' = Claimed(claims, c)
        /\ fate' = Settle(x.id, "claimed")
        /\ link' = [link EXCEPT ![c] = l]
        /\ client' = client
    BY <1>4 DEF ServeClaim, SetLink
  <2>2. x \in Offers /\ x \in Claims
    <3>1. Claimable(claims, c) \subseteq Offers
      BY DEF Claimable, Offers
    <3>. QED
      BY <3>1, <1>2, <1>4, OldestIsOfThem DEF ClaimFor
  <2>3. /\ claims' \in Boards /\ Offers' = Offers \ {x}
        /\ claims'.watermarks = claims.watermarks /\ claims'.sequence = claims.sequence
    <3>1. claims' \in Boards
      BY <2>1, <1>2, ClaimOperators
    <3>. QED
      BY <2>1, <3>1, <1>2 DEF Claimed, Boards, Offers
  <2>4. x.id \in Ids
    BY <2>2 DEF Claims
  <2> HIDE DEF x
  <2>5. r \in Served /\ r.kind = "validate" /\ r.claim = x
    BY <2>2, RequestKinds
  <2> HIDE DEF r
  <2>6. l \in Links /\ l.request = r /\ l.up = link[c].up
    BY <2>5, <1>2 DEF Links
  <2> HIDE DEF l
  <2>7. /\ link' \in [Clients -> Links] /\ link'[c] = l
        /\ \A d \in Clients \ {c} : link'[d] = link[d]
    BY <2>1, <2>6 DEF AttentionTypeOK
  <2>8. /\ fate' \in [Ids -> Fates]
        /\ \A i \in Ids : fate'[i] = IF i = x.id /\ fate[i] \in {"open", "claimed"}
                                     THEN "claimed" ELSE fate[i]
    <3>1. fate \in [Ids -> Fates] /\ "claimed" \in Fates
      BY DEF AttentionTypeOK, Fates, Reasons
    <3>. QED
      BY <2>1, <2>4, <3>1, SettleFacts
  <2>9. AttentionTypeOK'
    BY <1>1, <2>1, <2>3, <2>7, <2>8 DEF AttentionTypeOK
  <2>10. Live(x)
    BY <2>2 DEF ClaimsAreLive
  <2>11. Settles
    BY <2>8, <2>10 DEF Settles, Live
  <2>12. /\ \A s : Fresh(s)' <=> Fresh(s)
         /\ \A e \in Claims : Live(e) => Live(e)'
         /\ EventsAreDistinct'
         /\ AtMostOnePresentation'
    BY <1>1, <2>11, EventsStay
  <2>13. /\ Checks(c)' /\ Checked(c)' = x /\ ~Checks(c)
         /\ \A d \in Clients \ {c} : /\ Checks(d)' <=> Checks(d)
                                     /\ Checked(d)' = Checked(d)
         /\ \A d \in Clients : client'[d].inbox = client[d].inbox
         /\ \A d, j : /\ Carries(d, j)' <=> Carries(d, j)
                      /\ Carried(d, j)' = Carried(d, j)
    BY <1>1, <2>1, <2>5, <2>6, <2>7 DEF Checks, Checked, Carries, Carried
  <2>14. OnePlace'
    BY <2>2, <2>3, <2>13 DEF OnePlace
  <2>15. ClaimsAreLive'
    <3>1. ASSUME NEW e \in Offers' PROVE Live(e)'
      BY <3>1, <2>3, <2>12, <1>2 DEF ClaimsAreLive
    <3>2. ASSUME NEW d \in Clients, Checks(d)' PROVE Live(Checked(d))'
      <4>1. PICK e \in Claims : e = Checked(d)' /\ Live(e)
        BY <3>2, <2>2, <2>10, <2>13, HeldClaims DEF ClaimsAreLive
      <4>2. Live(e)'
        BY <4>1, <2>12
      <4>. QED
        BY <4>1, <4>2 DEF Live
    <3>3. ASSUME NEW d \in Clients, NEW j \in DOMAIN client'[d].inbox, Carries(d, j)'
          PROVE  Live(Carried(d, j))'
      <4>1. PICK e \in Claims : e = Carried(d, j)' /\ Live(e)
        BY <3>3, <2>13, HeldClaims DEF ClaimsAreLive
      <4>2. Live(e)'
        BY <4>1, <2>12
      <4>. QED
        BY <4>1, <4>2 DEF Live
    <3>. QED
      BY <3>1, <3>2, <3>3 DEF ClaimsAreLive
  <2>16. ASSUME NEW i \in Ids, IsAccounted(i)
         PROVE  IsAccounted(i)'
    <3>1. CASE i = x.id
      <4>1. Flies(i)'
        BY <3>1, <2>13 DEF Flies
      <4>2. InFlight(i)'
        BY <4>1, <2>9, InFlightFlies
      <4>. QED
        BY <3>1, <4>2, <2>16, <2>8 DEF IsAccounted
    <3>2. CASE i # x.id
      <4>1. Flies(i) => Flies(i)'
        BY <2>13 DEF Flies
      <4>2. (\E e \in Offers : e.id = i) => (\E e \in Offers' : e.id = i)
        BY <2>3, <3>2
      <4>3. fate'[i] = fate[i]
        BY <2>8, <3>2
      <4>. QED
        BY <4>1, <4>2, <4>3, <2>9, <2>16, AccountStays
    <3>. QED
      BY <3>1, <3>2
  <2>17. EventsAreAccounted'
    BY <1>1, <2>9, <2>12, <2>16, AccountsStay DEF EventsAreDistinct
  <2>18. OffersAreClaimable'
    BY <2>3, <2>6, <2>7 DEF OffersAreClaimable
  <2>19. TerminalsAwait' /\ ConnectionsHold'
    BY <1>1, <2>1, <2>6, <2>7 DEF TerminalsAwait, ConnectionsHold, Clients
  <2>. QED
    BY <2>9, <2>12, <2>14, <2>15, <2>17, <2>18, <2>19
<1>. QED
  BY <1>3, <1>4

(* The claim is validated: it is given up, or answered to the client.      *)
LEMMA ValidateKeepsInv ==
    ASSUME DeliveryInv, NEW c \in Clients, ValidateClaim(c)
    PROVE  DeliveryInv'
<1>. USE DEF DeliveryInv
<1>. DEFINE x == link[c].request.claim
            s == x.session
            m == [kind |-> "claim", some |-> TRUE, claim |-> x]
            r == [kind |-> "claim"]
            l == [link[c] EXCEPT !.request = r]
            dead == ~IsPending(attention[s], x) \/ InForeground(claims, s)
<1>1. /\ UNCHANGED <<attention, updating, claims, left>>
      /\ link[c].request.kind = "validate"
      /\ dead => /\ link' = [link EXCEPT ![c] = l]
                 /\ fate' = Settle(x.id, "seen")
                 /\ client' = client
      /\ ~dead => /\ Respond(c, m)
                  /\ fate' = IF link[c].up = "gone" THEN Settle(x.id, "dropped") ELSE fate
  BY DEF ValidateClaim, SetLink
<1>. HIDE DEF dead
<1>2. Checks(c) /\ Checked(c) = x
  BY <1>1 DEF Checks, Checked
<1>3. x \in Claims /\ Live(x) /\ link[c] \in Links
  BY <1>2, HeldClaims DEF ClaimsAreLive
<1>4. x.id \in Ids
  BY <1>3 DEF Claims
<1>5. link[c].up \in {"on", "gone"}
  BY <1>1, <1>3 DEF ConnectionsHold, Links
<1>. HIDE DEF x, s
<1>6. m \in Messages /\ Delivers(m) /\ m.claim = x
  BY <1>3, MessageKinds DEF Delivers
<1>. HIDE DEF m
<1>7. /\ OffersAreClaimable' /\ TerminalsAwait' /\ ConnectionsHold'
      /\ link' \in [Clients -> Links] /\ client' \in [Clients -> ClientStates]
      /\ \A d \in Clients \ {c} : link'[d] = link[d]
      /\ \A d \in Clients \ {c} : client'[d].inbox = client[d].inbox
      /\ link'[c].request.kind # "validate"
      /\ dead \/ link[c].up # "on" => client'[c].inbox = client[c].inbox
      /\ ~dead /\ link[c].up = "on" => client'[c].inbox = Append(client[c].inbox, m)
  <2>1. CASE dead
    <3>1. l \in Links /\ l.up = link[c].up /\ l.request = r
      BY <1>3, RequestKinds DEF Links
    <3>2. r.kind = "claim"
      OBVIOUS
    <3>3. link' = [link EXCEPT ![c] = l] /\ client' = client
      BY <1>1, <2>1
    <3> HIDE DEF l, r
    <3>4. /\ link' \in [Clients -> Links] /\ link'[c] = l
          /\ \A d \in Clients \ {c} : link'[d] = link[d]
          /\ link'[c].request.kind = "claim"
      BY <3>1, <3>2, <3>3 DEF AttentionTypeOK
    <3>5. \A d \in Clients : link'[d].up = link[d].up
      BY <3>1, <3>4
    <3>6. OffersAreClaimable'
      BY <1>1, <3>5 DEF OffersAreClaimable, Offers
    <3>7. ConnectionsHold'
      BY <1>5, <3>3, <3>4, <3>5 DEF ConnectionsHold
    <3>8. TerminalsAwait'
      BY <1>1, <3>3, <3>4 DEF TerminalsAwait, Clients
    <3>. QED
      BY <2>1, <3>3, <3>4, <3>6, <3>7, <3>8 DEF AttentionTypeOK
  <2>2. CASE ~dead
    <3>1. Respond(c, m) /\ link[c].request.kind # "none"
      BY <1>1, <2>2
    <3>2. /\ link' \in [Clients -> Links]
          /\ client' \in [Clients -> ClientStates]
          /\ \A d \in Clients : link'[d].up = link[d].up
          /\ \A d \in Clients \ {c} : link'[d] = link[d] /\ client'[d].inbox = client[d].inbox
          /\ link'[c].request = [kind |-> "none"]
          /\ client'[c].inbox = IF link[c].up = "on" THEN Append(client[c].inbox, m)
                                ELSE client[c].inbox
          /\ TerminalsAwait' /\ ConnectionsHold'
      BY <1>6, <3>1, RespondFacts
    <3>3. OffersAreClaimable'
      BY <1>1, <3>2 DEF OffersAreClaimable, Offers
    <3>. QED
      BY <2>2, <3>2, <3>3
  <2>. QED
    BY <2>1, <2>2
<1>8. Offers' = Offers /\ claims' \in Boards /\ left' \in Bounds /\ left'.events = left.events
  BY <1>1 DEF Offers, AttentionTypeOK
<1>9. /\ ~Checks(c)'
      /\ \A d \in Clients \ {c} : Checks(d)' <=> Checks(d)
      /\ \A d \in Clients \ {c} : Checked(d)' = Checked(d)
      /\ \A d \in Clients \ {c} : \A j \in DOMAIN client[d].inbox : Carries(d, j)' <=> Carries(d, j)
      /\ \A d \in Clients \ {c} : \A j \in DOMAIN client[d].inbox : Carried(d, j)' = Carried(d, j)
  BY <1>7 DEF Checks, Checked, Carries, Carried
(* Given up.                                                               *)
<1>10. CASE dead \/ link[c].up # "on"
  <2>1. /\ fate' \in [Ids -> Fates]
        /\ \A i \in Ids : i # x.id => fate'[i] = fate[i]
        /\ fate'[x.id] # fate[x.id] => fate'[x.id] \in Reasons
        /\ fate'[x.id] # "claimed"
    <3>1. fate \in [Ids -> Fates] /\ Reasons \subseteq Fates
      BY DEF AttentionTypeOK, Fates
    <3>2. PICK out \in Reasons : fate' = Settle(x.id, out)
      BY <1>1, <1>5, <1>10 DEF Reasons
    <3>3. out \in Fates
      BY <3>1
    <3> DEFINE i0 == x.id
    <3>4. i0 \in Ids /\ fate' = Settle(i0, out)
      BY <1>4, <3>2
    <3> HIDE DEF i0
    <3>5. /\ fate' \in [Ids -> Fates]
          /\ \A i \in Ids : fate'[i] = IF i = i0 /\ fate[i] \in {"open", "claimed"} THEN out ELSE fate[i]
      BY <3>1, <3>3, <3>4, SettleFacts
    <3>6. out # "claimed"
      BY DEF Reasons
    <3>. QED
      BY <3>4, <3>5, <3>6 DEF i0
  <2>2. AttentionTypeOK'
    BY <1>1, <1>7, <1>8, <2>1 DEF AttentionTypeOK
  <2>3. Settles
    BY <2>1, <1>3 DEF Settles, Live
  <2>4. RequestsCome
    BY <1>9 DEF RequestsCome
  <2>5. InboxesCome /\ InboxesStay
    <3>1. \A d \in Clients : SameClaims(client[d].inbox, client'[d].inbox)
      BY <1>7, <1>10 DEF SameClaims
    <3>. QED
      BY <3>1, HeldClaims, SameClaimsFacts DEF InboxesCome, InboxesStay
  <2>6. ASSUME NEW i \in Ids, fate'[i] = fate[i], fate[i] = "claimed", Flies(i)
        PROVE  Flies(i)'
    <3>1. i # x.id
      BY <2>1, <2>6
    <3>2. PICK d \in Clients :
            \/ Checks(d) /\ Checked(d).id = i
            \/ \E j \in DOMAIN client[d].inbox : Carries(d, j) /\ Carried(d, j).id = i
      BY <2>6 DEF Flies
    <3>3. CASE Checks(d) /\ Checked(d).id = i
      BY <3>1, <3>3, <1>2, <1>9 DEF Flies
    <3>4. CASE \E j \in DOMAIN client[d].inbox : Carries(d, j) /\ Carried(d, j).id = i
      BY <3>4, <1>7, <1>10 DEF Flies, Carries, Carried
    <3>. QED
      BY <3>2, <3>3, <3>4
  <2>7. OffersCome
    BY <1>8 DEF OffersCome, OnePlace
  <2>8. \A i \in Ids : fate'[i] # fate[i] => fate'[i] \in Reasons
    BY <2>1
  <2>9. \A i \in Ids : fate'[i] = fate[i] =>
          /\ fate[i] = "open" /\ (\E e \in Offers : e.id = i) => (\E e \in Offers' : e.id = i)
          /\ fate[i] = "claimed" /\ Flies(i) => Flies(i)'
    BY <1>8, <2>6
  <2>. QED
    BY <1>1, <1>7, <1>8, <2>2, <2>3, <2>4, <2>5, <2>7, <2>8, <2>9, WithdrawalsKeepInv
(* Answered.                                                               *)
<1>11. CASE ~dead /\ link[c].up = "on"
  <2> DEFINE q == client[c].inbox
  <2>1. /\ UNCHANGED fate /\ client'[c].inbox = Append(q, m) /\ q \in Seq(Messages)
        /\ client[c].inbox = q
    BY <1>1, <1>7, <1>11, HeldClaims
  <2> HIDE DEF q
  <2>0. PICK n \in Nat : n = Len(q) + 1
    BY <2>1
  <2>2. AttentionTypeOK'
    BY <1>1, <1>7, <1>8, <2>1 DEF AttentionTypeOK
  <2>3. /\ \A j \in DOMAIN client[c].inbox : j # n /\ (Carries(c, j)' <=> Carries(c, j))
        /\ \A j \in DOMAIN client[c].inbox : Carried(c, j)' = Carried(c, j)
        /\ Carries(c, n)' /\ Carried(c, n)' = x
        /\ n \in DOMAIN client'[c].inbox
        /\ DOMAIN client[c].inbox \subseteq DOMAIN client'[c].inbox
        /\ \A j \in DOMAIN client'[c].inbox : j \in DOMAIN client[c].inbox \/ j = n
    <3>1. /\ DOMAIN q \subseteq DOMAIN Append(q, m)
          /\ \A j \in DOMAIN q : Append(q, m)[j] = q[j]
          /\ \A j \in DOMAIN Append(q, m) : j \in DOMAIN q \/ j = n
          /\ n \in DOMAIN Append(q, m)
          /\ Append(q, m)[n] = m
          /\ n \notin DOMAIN q
      BY <2>0, <2>1, <1>6, AppendComes
    <3>2. /\ \A j \in DOMAIN client[c].inbox : j # n
          /\ n \in DOMAIN client'[c].inbox
          /\ DOMAIN client[c].inbox \subseteq DOMAIN client'[c].inbox
          /\ \A j \in DOMAIN client'[c].inbox : j \in DOMAIN client[c].inbox \/ j = n
      BY <2>1, <3>1
    <3>3. /\ \A j \in DOMAIN client[c].inbox : client'[c].inbox[j] = client[c].inbox[j]
          /\ client'[c].inbox[n] = m
      BY <2>1, <3>1
    <3>4. Carries(c, n)' /\ Carried(c, n)' = x
      BY <3>3, <1>6 DEF Carries, Carried
    <3>5. \A j \in DOMAIN client[c].inbox : Carries(c, j)' <=> Carries(c, j)
      BY <3>3 DEF Carries
    <3>6. \A j \in DOMAIN client[c].inbox : Carried(c, j)' = Carried(c, j)
      BY <3>3 DEF Carried
    <3>. QED
      BY <3>2, <3>4, <3>5, <3>6
  <2>4. Settles
    BY <2>1 DEF Settles
  <2>5. /\ \A t : Fresh(t)' <=> Fresh(t)
        /\ \A e \in Claims : Live(e) => Live(e)'
        /\ EventsAreDistinct'
        /\ AtMostOnePresentation'
    BY <1>1, <2>4, EventsStay
  <2>6. ASSUME NEW d \in Clients, NEW j \in DOMAIN client'[d].inbox, Carries(d, j)'
        PROVE  \/ d = c /\ j = n /\ Carried(d, j)' = Checked(c)
               \/ /\ ~(d = c /\ j = n)
                  /\ j \in DOMAIN client[d].inbox /\ Carries(d, j) /\ Carried(d, j)' = Carried(d, j)
    <3>1. CASE d = c /\ j = n
      BY <3>1, <1>2, <2>3
    <3>2. CASE d = c /\ j # n
      <4>1. j \in DOMAIN client[c].inbox
        BY <3>2, <2>3
      <4>2. Carries(c, j) /\ Carried(c, j)' = Carried(c, j)
        BY <3>2, <4>1, <2>3, <2>6
      <4>. QED
        BY <3>2, <4>1, <4>2
    <3>3. CASE d # c
      <4>1. client'[d].inbox = client[d].inbox
        BY <3>3, <1>7
      <4>2. j \in DOMAIN client[d].inbox
        BY <4>1
      <4>3. Carries(d, j) /\ Carried(d, j)' = Carried(d, j)
        BY <3>3, <4>2, <1>9, <2>6
      <4>. QED
        BY <3>3, <4>2, <4>3
    <3>. QED
      BY <3>1, <3>2, <3>3
  <2>7. OnePlace'
    <3>1. \A e, f \in Offers' : e.id = f.id => e = f
      BY <1>8 DEF OnePlace
    <3>2. \A d \in Clients : Checks(d)' => \A e \in Offers' : e.id # Checked(d)'.id
      BY <1>8, <1>9 DEF OnePlace
    <3>3. \A d, b \in Clients :
            Checks(d)' /\ Checks(b)' /\ Checked(d)'.id = Checked(b)'.id => d = b
      BY <1>9 DEF OnePlace
    <3>4. ASSUME NEW d \in Clients, NEW j \in DOMAIN client'[d].inbox, Carries(d, j)'
          PROVE  \A e \in Offers' : e.id # Carried(d, j)'.id
      BY <3>4, <2>6, <1>2, <1>8 DEF OnePlace
    <3>5. ASSUME NEW d \in Clients, NEW b \in Clients, NEW j \in DOMAIN client'[d].inbox,
                 Carries(d, j)', Checks(b)'
          PROVE  Checked(b)'.id # Carried(d, j)'.id
      BY <3>5, <2>6, <1>2, <1>9 DEF OnePlace
    <3>6. ASSUME NEW d \in Clients, NEW b \in Clients, NEW j \in DOMAIN client'[d].inbox,
                 NEW k \in DOMAIN client'[b].inbox,
                 Carries(d, j)', Carries(b, k)', Carried(d, j)'.id = Carried(b, k)'.id
          PROVE  d = b /\ j = k
      BY <3>6, <2>6, <1>2 DEF OnePlace
    <3>7. /\ \A d \in Clients : \A j \in DOMAIN client'[d].inbox : Carries(d, j)' =>
               \A e \in Offers' : e.id # Carried(d, j)'.id
          /\ \A d, b \in Clients : \A j \in DOMAIN client'[d].inbox :
               Carries(d, j)' /\ Checks(b)' => Checked(b)'.id # Carried(d, j)'.id
          /\ \A d, b \in Clients :
               \A j \in DOMAIN client'[d].inbox, k \in DOMAIN client'[b].inbox :
                 Carries(d, j)' /\ Carries(b, k)' /\ Carried(d, j)'.id = Carried(b, k)'.id
                   => d = b /\ j = k
      BY <3>4, <3>5, <3>6
    <3>. QED
      BY <3>1, <3>2, <3>3, <3>7 DEF OnePlace
  <2>8. ClaimsAreLive'
    <3>1. \A e \in Offers' : Live(e)'
      BY <1>8, <2>5, HeldClaims DEF ClaimsAreLive
    <3>2. ASSUME NEW d \in Clients, Checks(d)' PROVE Live(Checked(d))'
      <4>1. PICK e \in Claims : e = Checked(d)' /\ Live(e)
        BY <3>2, <1>9, HeldClaims DEF ClaimsAreLive
      <4>2. Live(e)'
        BY <4>1, <2>5
      <4>. QED
        BY <4>1, <4>2 DEF Live
    <3>3. ASSUME NEW d \in Clients, NEW j \in DOMAIN client'[d].inbox, Carries(d, j)'
          PROVE  Live(Carried(d, j))'
      <4>1. PICK e \in Claims : e = Carried(d, j)' /\ Live(e)
        BY <3>3, <1>2, <1>3, <2>6, HeldClaims DEF ClaimsAreLive
      <4>2. Live(e)'
        BY <4>1, <2>5
      <4>. QED
        BY <4>1, <4>2 DEF Live
    <3>. QED
      BY <3>1, <3>2, <3>3 DEF ClaimsAreLive
  <2>9. ASSUME NEW i \in Ids, Flies(i) PROVE Flies(i)'
    <3>1. PICK d \in Clients :
            \/ Checks(d) /\ Checked(d).id = i
            \/ \E j \in DOMAIN client[d].inbox : Carries(d, j) /\ Carried(d, j).id = i
      BY <2>9 DEF Flies
    <3>2. CASE d # c
      BY <3>1, <3>2, <1>7, <1>9 DEF Flies
    <3>3. CASE d = c /\ Checked(c).id = i
      <4>1. Carries(c, n)' /\ Carried(c, n)'.id = i /\ n \in DOMAIN client'[c].inbox
        BY <3>3, <1>2, <2>3
      <4>. QED
        BY <4>1 DEF Flies
    <3>4. CASE d = c /\ \E j \in DOMAIN client[d].inbox : Carries(d, j) /\ Carried(d, j).id = i
      <4>1. PICK j \in DOMAIN client[c].inbox : Carries(c, j) /\ Carried(c, j).id = i
        BY <3>4
      <4>2. Carries(c, j)' /\ Carried(c, j)'.id = i /\ j \in DOMAIN client'[c].inbox
        BY <4>1, <2>3
      <4>. QED
        BY <4>2 DEF Flies
    <3>. QED
      BY <3>1, <3>2, <3>3, <3>4
  <2>10. \A i \in Ids : IsAccounted(i) => IsAccounted(i)'
    BY <1>8, <2>1, <2>2, <2>9, AccountStays
  <2>11. EventsAreAccounted'
    BY <1>1, <2>2, <2>5, <2>10, AccountsStay DEF EventsAreDistinct
  <2>. QED
    BY <1>7, <2>2, <2>5, <2>7, <2>8, <2>11
<1>. QED
  BY <1>10, <1>11

(* A client presents the claim it was given, or gives it up.               *)
Outcome(x) ==
    \/ \E out \in Reasons : fate' = Settle(x.id, out)
    \/ fate' = Settle(x.id, "resolved") /\ ~IsPending(attention[x.session], x)
    \/ fate' = Presented(x.id)

(* Whatever the client decides, the event is not presented again.          *)
LEMMA OutcomeFacts ==
    ASSUME AttentionTypeOK, NEW x \in Claims, Live(x), Outcome(x)
    PROVE  /\ fate' \in [Ids -> Fates]
           /\ \A i \in Ids : i # x.id => fate'[i] = fate[i]
           /\ \/ fate'[x.id] \in {"shown"} \cup Reasons
              \/ fate'[x.id] = fate[x.id] /\ fate[x.id] \notin {"open", "claimed"}
              \/ fate'[x.id] = "resolved" /\ ~IsPending(attention[x.session], x)
<1>. DEFINE i0 == x.id
<1>1. i0 \in Ids /\ fate \in [Ids -> Fates] /\ fate[i0] \notin {"shown", "shown twice"}
  BY DEF Claims, AttentionTypeOK, Live
<1>2. \/ \E out \in Reasons : fate' = Settle(i0, out)
      \/ fate' = Settle(i0, "resolved") /\ ~IsPending(attention[x.session], x)
      \/ fate' = Presented(i0)
  BY DEF Outcome
<1>. HIDE DEF i0
<1>3. CASE fate' = Presented(i0)
  <2>1. /\ fate' = [fate EXCEPT ![i0] = "shown"]
        /\ "shown" \in Fates
    BY <1>1, <1>3 DEF Presented, Fates
  <2>. QED
    BY <1>1, <2>1 DEF i0
<1>4. CASE \E out \in Reasons : fate' = Settle(i0, out)
  <2>1. PICK out \in Reasons : fate' = Settle(i0, out)
    BY <1>4
  <2>2. out \in Fates
    BY DEF Fates
  <2>3. /\ fate' \in [Ids -> Fates]
        /\ \A i \in Ids : fate'[i] = IF i = i0 /\ fate[i] \in {"open", "claimed"} THEN out ELSE fate[i]
    BY <1>1, <2>1, <2>2, SettleFacts
  <2>. QED
    BY <1>1, <2>3 DEF i0
<1>5. CASE fate' = Settle(i0, "resolved") /\ ~IsPending(attention[x.session], x)
  <2>1. "resolved" \in Fates
    BY DEF Fates
  <2>2. /\ fate' \in [Ids -> Fates]
        /\ \A i \in Ids : fate'[i] = IF i = i0 /\ fate[i] \in {"open", "claimed"}
                                     THEN "resolved" ELSE fate[i]
    BY <1>1, <1>5, <2>1, SettleFacts, ZenonT(60)
  <2>. QED
    BY <1>1, <1>5, <2>2 DEF i0
<1>. QED
  BY <1>2, <1>3, <1>4, <1>5

(* The client takes the claim out of its inbox and decides.                *)
LEMMA OutcomeKeepsInv ==
    ASSUME DeliveryInv, NEW c \in Clients, client[c].inbox # <<>>,
           Delivers(Head(client[c].inbox)), Outcome(Head(client[c].inbox).claim),
           UNCHANGED <<attention, updating, claims, left>>,
           client' \in [Clients -> ClientStates], link' \in [Clients -> Links],
           client'[c].inbox = Tail(client[c].inbox),
           \A d \in Clients \ {c} : client'[d].inbox = client[d].inbox,
           \A d \in Clients : link'[d].up = link[d].up,
           RequestsCome, RequestsStay, TerminalsAwait', ConnectionsHold'
    PROVE  DeliveryInv'
<1>. USE DEF DeliveryInv
<1>. DEFINE q == client[c].inbox
<1>1. /\ q \in Seq(Messages) /\ q # <<>> /\ client[c].inbox = q /\ client'[c].inbox = Tail(q)
      /\ Delivers(Head(q)) /\ Outcome(Head(q).claim)
  BY HeldClaims
<1>. HIDE DEF q
<1>2. /\ Comes(q, Tail(q))
      /\ \A j \in DOMAIN Tail(q) : j \in Nat /\ j + 1 \in DOMAIN q /\ Tail(q)[j] = q[j + 1]
      /\ \A j \in DOMAIN q : \/ j = 1
                             \/ j - 1 \in DOMAIN Tail(q) /\ Tail(q)[j - 1] = q[j]
      /\ 1 \in DOMAIN q /\ q[1] = Head(q)
  BY <1>1, TailComes
<1>3. PICK x \in Claims : x = Head(q).claim
  <2>1. Carries(c, 1) /\ 1 \in DOMAIN client[c].inbox /\ Carried(c, 1) = Head(q).claim
    BY <1>1, <1>2 DEF Carries, Carried
  <2>. QED
    BY <2>1, HeldClaims
<1>4. Carries(c, 1) /\ Carried(c, 1) = x /\ 1 \in DOMAIN client[c].inbox
  BY <1>1, <1>2, <1>3 DEF Carries, Carried
<1>5. Live(x) /\ x.id \in Ids
  BY <1>4 DEF ClaimsAreLive, Claims
<1>6. /\ fate' \in [Ids -> Fates]
      /\ \A i \in Ids : i # x.id => fate'[i] = fate[i]
      /\ \/ fate'[x.id] \in {"shown"} \cup Reasons
         \/ fate'[x.id] = fate[x.id] /\ fate[x.id] \notin {"open", "claimed"}
         \/ fate'[x.id] = "resolved" /\ ~IsPending(attention[x.session], x)
  BY <1>1, <1>3, <1>5, OutcomeFacts
<1>7. AttentionTypeOK' /\ Offers' = Offers
  BY <1>6 DEF AttentionTypeOK, Offers
<1>8. InboxesCome
  <2>1. \A d \in Clients \ {c} : SameClaims(client[d].inbox, client'[d].inbox)
    BY DEF SameClaims
  <2>2. \A d \in Clients \ {c} : Comes(client[d].inbox, client'[d].inbox)
    BY <2>1, HeldClaims, SameClaimsFacts
  <2>. QED
    BY <1>1, <1>2, <2>2 DEF InboxesCome
<1>9. OffersCome
  BY <1>7 DEF OffersCome, OnePlace
<1>10. OnePlace'
  BY <1>7, <1>8, <1>9, OnePlaceStays
<1>11. \A d \in Clients : \A j \in DOMAIN client'[d].inbox : Carries(d, j)' =>
         Carried(d, j)'.id # x.id
  <2>1. ASSUME NEW d \in Clients, d # c, NEW j \in DOMAIN client'[d].inbox, Carries(d, j)'
        PROVE  Carried(d, j)'.id # x.id
    <3>1. j \in DOMAIN client[d].inbox /\ Carries(d, j) /\ Carried(d, j)' = Carried(d, j)
      BY <2>1 DEF Carries, Carried
    <3>. QED
      BY <2>1, <3>1, <1>4 DEF OnePlace
  <2>2. ASSUME NEW j \in DOMAIN client'[c].inbox, Carries(c, j)'
        PROVE  Carried(c, j)'.id # x.id
    <3>1. PICK k \in Nat : k = j + 1
      BY <1>1, <1>2
    <3>2. k \in DOMAIN client[c].inbox /\ k # 1 /\ client'[c].inbox[j] = client[c].inbox[k]
      BY <1>1, <1>2, <3>1
    <3>3. Carries(c, k) /\ Carried(c, j)' = Carried(c, k)
      BY <2>2, <3>2 DEF Carries, Carried
    <3>. QED
      BY <3>2, <3>3, <1>4 DEF OnePlace
  <2>. QED
    BY <2>1, <2>2
<1>12. /\ \A s \in Sessions : Fresh(s)' <=> Fresh(s)
       /\ \A e \in Claims : Live(e) /\ e.id # x.id => Live(e)'
  <2>1. NextId' = NextId /\ \A s \in Sessions : Fresh(s)' <=> Fresh(s)
    BY DEF NextId, Fresh
  <2>. QED
    BY <2>1, <1>6 DEF Live, Claims
<1>13. ClaimsAreLive'
  <2>1. \A e \in Offers' : e.id # x.id
    BY <1>4, <1>7 DEF OnePlace
  <2>2. \A d \in Clients : Checks(d)' => Checked(d)'.id # x.id
    BY <1>4 DEF OnePlace, RequestsCome
  <2> DEFINE gone == x.id
  <2>3. /\ \A e \in Offers' : e.id # gone
        /\ \A d \in Clients : Checks(d)' => Checked(d)'.id # gone
        /\ \A d \in Clients : \A j \in DOMAIN client'[d].inbox :
             Carries(d, j)' => Carried(d, j)'.id # gone
        /\ \A e \in Claims : Live(e) /\ e.id # gone => Live(e)'
    BY <2>1, <2>2, <1>11, <1>12
  <2> HIDE DEF gone
  <2>. QED
    BY <2>3, <1>7, <1>8, <1>9, LiveClaimsStay
<1>14. EventsAreDistinct'
  <2>1. NextId' = NextId
    BY DEF NextId
  <2>2. \A s \in Sessions : Fresh(s) => attention[s].id # x.id
    BY <1>5 DEF Live
  <2>3. \A s \in Sessions : Fresh(s)' => attention'[s].id # 0 /\ fate'[attention'[s].id] = "open"
    BY <2>2, <1>6, <1>12 DEF EventsAreDistinct, AttentionTypeOK, Views, Events, Ids
  <2>. QED
    BY <2>1, <2>3 DEF EventsAreDistinct
<1>15. AtMostOnePresentation'
  BY <1>6 DEF AtMostOnePresentation, Reasons
<1>16. ASSUME NEW s \in Sessions, attention'[s].pending, ~Fresh(s)'
       PROVE  IsAccounted(attention[s].id)'
  <2>1. attention'[s] = attention[s] /\ ~Fresh(s) /\ attention[s].pending /\ attention[s].id \in Ids
    BY <1>12, <1>16 DEF EventsAreDistinct, AttentionTypeOK, Views, Events, Ids
  <2>2. IsAccounted(attention[s].id)
    BY <2>1 DEF EventsAreAccounted
  <2>3. PICK i \in Ids : i = attention[s].id /\ i = attention'[s].id
    BY <2>1
  <2>4. CASE i = x.id
    <3>1. s = x.session
      BY <2>3, <2>4, <1>5 DEF Live
    <3>2. IsPending(attention[x.session], x)
      BY <2>1, <2>3, <2>4, <3>1 DEF IsPending
    <3>3. \/ fate'[i] \in {"shown"} \cup Reasons
          \/ fate'[i] = fate[i] /\ fate[i] \notin {"open", "claimed"}
      BY <1>6, <2>4, <3>2
    <3>4. fate'[i] \in {"shown"} \cup Reasons
      BY <2>2, <2>3, <3>3 DEF IsAccounted
    <3>. QED
      BY <2>3, <3>4 DEF IsAccounted, Reasons
  <2>5. CASE i # x.id
    <3>1. ASSUME Flies(i) PROVE Flies(i)'
      <4>1. PICK d \in Clients :
              \/ Checks(d) /\ Checked(d).id = i
              \/ \E j \in DOMAIN client[d].inbox : Carries(d, j) /\ Carried(d, j).id = i
        BY <3>1 DEF Flies
      <4>2. CASE Checks(d) /\ Checked(d).id = i
        BY <4>2 DEF Flies, RequestsStay
      <4>3. CASE \E j \in DOMAIN client[d].inbox : Carries(d, j) /\ Carried(d, j).id = i
        <5>1. PICK j \in DOMAIN client[d].inbox : Carries(d, j) /\ Carried(d, j).id = i
          BY <4>3
        <5>2. CASE d # c
          <6>1. j \in DOMAIN client'[d].inbox /\ Carries(d, j)' /\ Carried(d, j)' = Carried(d, j)
            BY <5>1, <5>2 DEF Carries, Carried
          <6>. QED
            BY <5>1, <6>1 DEF Flies
        <5>3. CASE d = c
          <6>1. j # 1
            BY <5>1, <5>3, <1>4, <2>5
          <6>2. j \in DOMAIN q /\ j - 1 \in DOMAIN Tail(q) /\ Tail(q)[j - 1] = q[j]
            BY <1>1, <1>2, <5>1, <5>3, <6>1
          <6>3. PICK k \in DOMAIN client'[c].inbox : client'[c].inbox[k] = client[c].inbox[j]
            BY <1>1, <6>2
          <6>4. Carries(c, k)' /\ Carried(c, k)' = Carried(c, j)
            BY <5>1, <5>3, <6>3 DEF Carries, Carried
          <6>. QED
            BY <5>1, <5>3, <6>3, <6>4 DEF Flies
        <5>. QED
          BY <5>2, <5>3
      <4>. QED
        BY <4>1, <4>2, <4>3
    <3>2. fate'[i] = fate[i]
      BY <1>6, <2>5
    <3>3. IsAccounted(i)
      BY <2>2, <2>3
    <3>4. IsAccounted(i)'
      BY <1>7, <3>1, <3>2, <3>3, AccountStays
    <3>. QED
      BY <2>3, <3>4 DEF IsAccounted
  <2>. QED
    BY <2>4, <2>5
<1>17. EventsAreAccounted'
  BY <1>16 DEF EventsAreAccounted
<1>18. OffersAreClaimable'
  BY <1>7 DEF OffersAreClaimable
<1>. QED
  BY <1>7, <1>10, <1>13, <1>14, <1>15, <1>17, <1>18

(* A terminal or a desktop takes the answer to its claim.                  *)
LEMMA TerminalDeliversKeepsInv ==
    ASSUME DeliveryInv, NEW c \in Clients, TerminalDelivers(c)
    PROVE  DeliveryInv'
<1>. USE DEF DeliveryInv
<1>. DEFINE q == client[c].inbox
            m == Head(q)
            x == m.claim
<1>1. /\ c \in Terminals /\ q # <<>> /\ m.kind = "claim"
      /\ UNCHANGED <<attention, updating, claims, left>>
      /\ client' = [client EXCEPT ![c] = [client[c] EXCEPT
            !.inbox = <<>>, !.step = IF m.some THEN @ ELSE "wait"]]
      /\ IF m.some
         THEN /\ fate' = IF client[c].visible = x.session THEN Settle(x.id, "seen")
                         ELSE IF ~IsPending(attention[x.session], x)
                         THEN Settle(x.id, "resolved")
                         ELSE Presented(x.id)
              /\ Ask(c, [kind |-> "claim"])
         ELSE UNCHANGED <<fate, link>>
  BY DEF TerminalDelivers, SetClient
<1>2. /\ q \in Seq(Messages) /\ client[c] \in ClientStates /\ link[c] \in Links
      /\ Len(q) = 1 /\ link[c].request.kind = "none" /\ link[c].up = "on"
  BY <1>1, HeldClaims DEF TerminalsAwait, ConnectionsHold
<1>3. m \in Messages /\ m.some \in BOOLEAN /\ Tail(q) = <<>>
  BY <1>1, <1>2, TailComes, MessageParts
<1>4. /\ client' \in [Clients -> ClientStates]
      /\ client'[c].inbox = Tail(q) /\ client'[c].inbox = <<>>
      /\ \A d \in Clients \ {c} : client'[d].inbox = client[d].inbox
  <2> DEFINE w == IF m.some THEN client[c].step ELSE "wait"
             k == [client[c] EXCEPT !.inbox = <<>>, !.step = w]
  <2>1. client' = [client EXCEPT ![c] = k]
    BY <1>1
  <2>2. w \in Steps /\ <<>> \in Seq(Messages)
    BY <1>2 DEF ClientStates, Steps
  <2> HIDE DEF w
  <2>3. k \in ClientStates /\ k.inbox = <<>>
    BY <1>2, <2>2 DEF ClientStates
  <2> HIDE DEF k
  <2>. QED
    BY <2>1, <2>3, <1>3 DEF AttentionTypeOK
<1>5. CASE m.some = TRUE
  <2> DEFINE r == [kind |-> "claim"]
             l == [link[c] EXCEPT !.request = r]
  <2>1. l \in Links /\ l.up = link[c].up /\ l.request.kind = "claim"
    BY <1>2, RequestKinds DEF Links
  <2>2. link' = [link EXCEPT ![c] = l]
    BY <1>1, <1>5 DEF Ask, SetLink
  <2> HIDE DEF l
  <2>3. /\ link' \in [Clients -> Links] /\ link'[c] = l
        /\ \A d \in Clients \ {c} : link'[d] = link[d]
    BY <2>1, <2>2 DEF AttentionTypeOK
  <2>4. \A d \in Clients : link'[d].up = link[d].up
    BY <2>1, <2>3
  <2>5. RequestsCome /\ RequestsStay
    BY <1>2, <2>1, <2>3 DEF RequestsCome, RequestsStay, Checks, Checked
  <2>6. TerminalsAwait'
    BY <1>4, <2>3 DEF TerminalsAwait, Clients
  <2>7. ConnectionsHold'
    BY <1>2, <1>4, <2>1, <2>3, <2>4 DEF ConnectionsHold
  <2>8. Delivers(m)
    BY <1>1, <1>5 DEF Delivers
  <2>9. Outcome(x)
    BY <1>1, <1>5 DEF Outcome, Reasons
  <2>. QED
    BY <1>1, <1>4, <2>3, <2>4, <2>5, <2>6, <2>7, <2>8, <2>9, OutcomeKeepsInv
<1>6. CASE m.some # TRUE
  <2>1. UNCHANGED <<fate, link>>
    BY <1>1, <1>3, <1>6
  <2>2. ~Delivers(m)
    BY <1>6 DEF Delivers
  <2>3. \A d \in Clients : SameClaims(client[d].inbox, client'[d].inbox)
    BY <1>1, <1>4, <2>2 DEF SameClaims
  <2>4. \A d \in Terminals : Awaits(client'[d].inbox, link'[d].request)
    BY <1>4, <2>1 DEF TerminalsAwait, Awaits, Clients
  <2>5. ConnectionsHold'
    BY <1>4, <2>1 DEF ConnectionsHold
  <2>6. Passes
    BY <1>1, <1>4, <2>1, <2>3, <2>4, <2>5 DEF Passes, SameRequest, AttentionTypeOK
  <2>. QED
    BY <2>6, PassesKeepsInv
<1>. QED
  BY <1>5, <1>6

(* A desktop takes the first message of its inbox.                         *)
LEMMA DesktopHandlesKeepsInv ==
    ASSUME DeliveryInv, NEW c \in Clients, DesktopHandles(c)
    PROVE  DeliveryInv'
<1>. USE DEF DeliveryInv
<1>. DEFINE q == client[c].inbox
            m == Head(q)
            x == m.claim
            taken == [client[c] EXCEPT !.inbox = Tail(@)]
            k == Handled(taken, m)
<1>1. /\ c \in Desktops /\ link[c].up = "on" /\ q # <<>>
      /\ UNCHANGED <<attention, updating, claims, link, left>>
      /\ client' = [client EXCEPT ![c] = k]
      /\ fate' = IF m.kind = "claim" /\ m.some
                 THEN IF ~IsPending(client[c].view[x.session], x)
                      THEN Settle(x.id, "outdated")
                      ELSE IF client[c].visible = x.session
                      THEN Settle(x.id, "seen")
                      ELSE Presented(x.id)
                 ELSE fate
  BY DEF DesktopHandles, SetClient, Connected, Desktop
<1>2. /\ q \in Seq(Messages) /\ client[c] \in ClientStates /\ c \notin Terminals
  BY <1>1, HeldClaims, DeliveryAssumption
<1>3. m \in Messages /\ Tail(q) \in Seq(Messages)
  BY <1>1, <1>2, TailComes
<1>4. taken \in ClientStates /\ taken.inbox = Tail(q)
  BY <1>2, <1>3, ClientFields DEF ClientStates
<1>. HIDE DEF taken
<1>5. k \in ClientStates /\ k.inbox = Tail(q)
  BY <1>3, <1>4, UpdateLoop
<1>6. /\ client' \in [Clients -> ClientStates] /\ client'[c].inbox = Tail(q)
      /\ \A d \in Clients \ {c} : client'[d].inbox = client[d].inbox
  BY <1>1, <1>5 DEF AttentionTypeOK
<1>7. TerminalsAwait' /\ ConnectionsHold'
  BY <1>1, <1>2, <1>6 DEF TerminalsAwait, ConnectionsHold, Clients
<1>8. link' \in [Clients -> Links] /\ \A d \in Clients : link'[d].up = link[d].up
  BY <1>1 DEF AttentionTypeOK
<1>9. m.kind = "claim" => m.some \in BOOLEAN
  BY <1>3, MessageParts
<1>10. CASE m.kind = "claim" /\ m.some = TRUE
  <2>1. RequestsCome /\ RequestsStay
    BY <1>1 DEF RequestsCome, RequestsStay, Checks, Checked
  <2>2. Delivers(m)
    BY <1>10 DEF Delivers
  <2>3. Outcome(x)
    BY <1>1, <1>10 DEF Outcome, Reasons
  <2>. QED
    BY <1>1, <1>6, <1>7, <1>8, <2>1, <2>2, <2>3, OutcomeKeepsInv
<1>11. CASE ~(m.kind = "claim" /\ m.some = TRUE)
  <2>1. UNCHANGED fate /\ ~Delivers(m)
    BY <1>1, <1>9, <1>11 DEF Delivers
  <2>2. \A d \in Clients : SameClaims(client[d].inbox, client'[d].inbox)
    BY <1>1, <1>6, <2>1 DEF SameClaims
  <2>3. \A d \in Terminals : Awaits(client'[d].inbox, link'[d].request)
    BY <1>7 DEF TerminalsAwait, Awaits
  <2>. QED
    <3>1. Passes
      BY <1>1, <1>6, <1>7, <1>8, <2>1, <2>2, <2>3 DEF Passes, SameRequest, AttentionTypeOK
    <3>. QED
      BY <3>1, PassesKeepsInv
<1>. QED
  BY <1>10, <1>11

(* A Session's update leaves the claims, the connections and the clients.  *)
LEMMA UpdateKeepsInv ==
    ASSUME DeliveryInv, AttentionTypeOK', EventsAreDistinct', AtMostOnePresentation',
           UNCHANGED <<claims, link, client>>,
           \A e \in Claims : Live(e) => Live(e)',
           \A t \in Sessions : attention'[t].pending /\ ~Fresh(t)' =>
             /\ attention[t].pending /\ ~Fresh(t)
             /\ attention'[t].id = attention[t].id
             /\ fate'[attention[t].id] = fate[attention[t].id]
    PROVE  DeliveryInv'
<1>. USE DEF DeliveryInv
<1>1. Offers' = Offers
  BY DEF Offers
<1>2. /\ \A c \in Clients : Checks(c)' <=> Checks(c)
      /\ \A c \in Clients : Checked(c)' = Checked(c)
      /\ \A c \in Clients : SameClaims(client[c].inbox, client'[c].inbox)
  BY DEF Checks, Checked, SameClaims
<1>3. OffersCome
  BY <1>1 DEF OffersCome, OnePlace
<1>4. RequestsCome /\ RequestsStay
  BY <1>2 DEF RequestsCome, RequestsStay
<1>5. InboxesCome /\ InboxesStay
  BY <1>2, HeldClaims, SameClaimsFacts DEF InboxesCome, InboxesStay
<1>6. OnePlace' /\ ClaimsAreLive'
  BY <1>3, <1>4, <1>5, OnePlaceStays, ClaimsStayLive
<1>7. OffersAreClaimable' /\ TerminalsAwait' /\ ConnectionsHold'
  BY <1>1 DEF OffersAreClaimable, TerminalsAwait, ConnectionsHold
<1>8. ASSUME NEW t \in Sessions, attention'[t].pending, ~Fresh(t)'
      PROVE  IsAccounted(attention[t].id)' /\ attention'[t].id = attention[t].id
  <2>1. /\ attention[t].pending /\ ~Fresh(t) /\ attention'[t].id = attention[t].id
        /\ attention[t].id \in Ids
    BY <1>8 DEF EventsAreDistinct, AttentionTypeOK, Views, Events, Ids
  <2>2. PICK i \in Ids : i = attention[t].id /\ i = attention'[t].id
    BY <2>1
  <2>3. IsAccounted(i) /\ fate'[i] = fate[i]
    BY <1>8, <2>1, <2>2 DEF EventsAreAccounted
  <2>4. Flies(i) => Flies(i)'
    BY <1>4, <1>5, FliesOn
  <2>5. IsAccounted(i)'
    BY <1>1, <2>3, <2>4, AccountStays
  <2>. QED
    BY <2>1, <2>2, <2>5 DEF IsAccounted
<1>9. EventsAreAccounted'
  BY <1>8 DEF EventsAreAccounted, IsAccounted
<1>. QED
  BY <1>6, <1>7, <1>9

(* A new Attention Event is stored, under an id no claim has.              *)
LEMMA RaiseKeepsInv ==
    ASSUME DeliveryInv, NEW s \in Sessions, RaiseAttention(s)
    PROVE  DeliveryInv'
<1>. USE DEF DeliveryInv
<1>1. PICK e \in Events :
        /\ e.id = NextId /\ e.pending
        /\ attention' = [attention EXCEPT ![s] = e]
        /\ NextId \in Ids
  <2>1. PICK input \in BOOLEAN :
          attention' = [attention EXCEPT ![s] = [id |-> NextId, pending |-> TRUE, input |-> input]]
    BY DEF RaiseAttention
  <2>2. NextId \in Ids
    BY DeliveryAssumption DEF RaiseAttention, AttentionTypeOK, Bounds, NextId, Ids
  <2>3. [id |-> NextId, pending |-> TRUE, input |-> input] \in Events
    BY <2>2 DEF Events, Ids
  <2>. QED
    BY <2>1, <2>2, <2>3
<1>2. /\ updating[s] = Free /\ left.events > 0
      /\ updating' = [updating EXCEPT ![s] = attention[s].id]
      /\ left' = [left EXCEPT !.events = @ - 1]
      /\ UNCHANGED <<claims, link, client>>
  BY DEF RaiseAttention
<1>3. attention[s].id \in 0..MaxEvents /\ fate \in [Ids -> Fates] /\ attention[s].id < NextId
  BY DEF AttentionTypeOK, Views, Events, EventsAreDistinct
<1>4. /\ fate' \in [Ids -> Fates]
      /\ \A i \in Ids : i # NextId /\ i # attention[s].id => fate'[i] = fate[i]
      /\ fate'[NextId] = "open"
      /\ \A i \in Ids : fate'[i] = fate[i] \/ fate'[i] \in {"open", "resolved"}
  <2>1. fate' = [i \in Ids |-> CASE i = NextId -> "open"
                                [] i = attention[s].id -> Settle(i, "resolved")[i]
                                [] OTHER -> fate[i]]
    BY DEF RaiseAttention
  <2>2. "resolved" \in Fates /\ "open" \in Fates
    BY DEF Fates
  <2>3. \A i \in Ids : Settle(i, "resolved")[i] \in {fate[i], "resolved"}
    BY <1>3 DEF Settle
  <2>. QED
    BY <1>1, <1>3, <2>1, <2>2, <2>3
<1>5. /\ attention' \in Views /\ attention'[s].id = NextId /\ attention'[s].pending
      /\ \A t \in Sessions : t # s => attention'[t] = attention[t]
  BY <1>1 DEF AttentionTypeOK, Views
<1>6. NextId' = NextId + 1 /\ NextId \in Nat /\ left' \in Bounds
  BY <1>2, DeliveryAssumption DEF NextId, AttentionTypeOK, Bounds
<1>7. /\ updating' \in [Sessions -> 0..Free] /\ updating'[s] = attention[s].id
      /\ \A t \in Sessions : t # s => updating'[t] = updating[t]
  BY <1>2, <1>3, DeliveryAssumption DEF AttentionTypeOK, Free
<1>8. AttentionTypeOK'
  BY <1>2, <1>4, <1>5, <1>6, <1>7 DEF AttentionTypeOK
<1>9. Fresh(s)' /\ \A t \in Sessions : t # s => (Fresh(t)' <=> Fresh(t))
  BY <1>3, <1>5, <1>7, DeliveryAssumption DEF Fresh, Free
<1>10. ASSUME NEW x \in Claims, Live(x) PROVE Live(x)'
  <2>1. x.id \in Ids /\ x.id < NextId
    BY <1>10 DEF Live, Claims
  <2>2. fate'[x.id] \notin {"shown", "shown twice"}
    BY <1>4, <1>10, <2>1 DEF Live
  <2>3. ASSUME NEW t \in Sessions, attention'[t].id = x.id
        PROVE  t = x.session /\ ~Fresh(t)'
    <3>1. x.id # NextId
      BY <1>6, <2>1 DEF Ids
    <3>2. t # s
      BY <3>1, <1>5, <2>3
    <3>3. attention[t].id = x.id
      BY <3>2, <1>5, <2>3
    <3>4. t = x.session /\ ~Fresh(t)
      BY <3>3, <1>10 DEF Live
    <3>. QED
      BY <3>2, <3>4, <1>9
  <2>4. x.id < NextId'
    BY <1>6, <2>1 DEF Ids
  <2>. QED
    BY <2>2, <2>3, <2>4 DEF Live
<1>11. EventsAreDistinct'
  <2>1. ASSUME NEW t \in Sessions, t # s, NEW u \in Sessions, attention'[t].id # 0,
               attention'[t].id = attention'[u].id
        PROVE  t = u
    BY <2>1, <1>5, <1>6 DEF EventsAreDistinct
  <2>2. ASSUME NEW t \in Sessions, t # s, Fresh(t)'
        PROVE  attention'[t].id # 0 /\ fate'[attention'[t].id] = "open"
    <3>1. Fresh(t) /\ attention'[t] = attention[t] /\ attention[t].id \in Ids
      BY <2>2, <1>5, <1>9 DEF EventsAreDistinct, AttentionTypeOK, Views, Events, Ids
    <3>2. attention[t].id # attention[s].id /\ attention[t].id # NextId
      BY <2>2, <3>1, <1>6 DEF EventsAreDistinct, Ids
    <3>. QED
      BY <3>1, <3>2, <1>4 DEF EventsAreDistinct, Ids
  <2>3. \A t \in Sessions : attention'[t].id < NextId'
    BY <1>5, <1>6 DEF EventsAreDistinct, AttentionTypeOK, Views, Events
  <2>4. \A t \in Sessions : t # s /\ attention'[t].pending => attention'[t].id # 0
    BY <1>5 DEF EventsAreDistinct
  <2>5. attention'[s].id # 0
    BY <1>1, <1>5 DEF Ids
  <2>6. fate'[attention'[s].id] = "open"
    BY <1>4, <1>5
  <2>7. \A u \in Sessions : attention'[u].id = attention'[s].id => u = s
    BY <1>5, <1>6 DEF EventsAreDistinct
  <2>8. \A t \in Sessions :
          attention'[t].id # 0 => \A u \in Sessions : attention'[u].id = attention'[t].id => u = t
    BY <2>1, <2>7
  <2>9. \A t \in Sessions : /\ attention'[t].pending => attention'[t].id # 0
                            /\ Fresh(t)' => attention'[t].id # 0 /\ fate'[attention'[t].id] = "open"
    BY <2>2, <2>4, <2>5, <2>6
  <2>. QED
    BY <2>3, <2>8, <2>9 DEF EventsAreDistinct
<1>12. AtMostOnePresentation'
  BY <1>4 DEF AtMostOnePresentation
<1>13. ASSUME NEW t \in Sessions, attention'[t].pending, ~Fresh(t)'
       PROVE  /\ attention[t].pending /\ ~Fresh(t)
              /\ attention'[t].id = attention[t].id
              /\ fate'[attention[t].id] = fate[attention[t].id]
  <2>1. t # s /\ ~Fresh(t) /\ attention'[t] = attention[t]
    BY <1>5, <1>9, <1>13
  <2>2. attention[t].id \in Ids
    BY <1>13, <2>1 DEF EventsAreDistinct, AttentionTypeOK, Views, Events, Ids
  <2>3. attention[t].id # attention[s].id /\ attention[t].id # NextId
    BY <2>1, <2>2, <1>6 DEF EventsAreDistinct, Ids
  <2>. QED
    BY <1>4, <1>13, <2>1, <2>2, <2>3
<1>. QED
  BY <1>2, <1>8, <1>10, <1>11, <1>12, <1>13, UpdateKeepsInv

(* A status update leaves the event, or resolves it.                       *)
LEMMA UpdateStatusKeepsInv ==
    ASSUME DeliveryInv, NEW s \in Sessions, UpdateStatus(s)
    PROVE  DeliveryInv'
<1>. USE DEF DeliveryInv
<1>1. /\ updating[s] = Free
      /\ \/ UNCHANGED <<attention, fate>>
         \/ /\ attention[s].pending
            /\ attention' = [attention EXCEPT ![s].pending = FALSE]
            /\ fate' = Settle(attention[s].id, "resolved")
      /\ updating' = [updating EXCEPT ![s] = attention[s].id]
      /\ left' = [left EXCEPT !.updates = @ - 1] /\ left.updates > 0
      /\ UNCHANGED <<claims, link, client>>
  BY DEF UpdateStatus
<1>2. /\ attention[s] \in Events /\ attention[s].id \in 0..MaxEvents
      /\ fate \in [Ids -> Fates]
  BY DEF AttentionTypeOK, Views, Events
<1>3. /\ attention' \in Views
      /\ \A t \in Sessions : attention'[t].id = attention[t].id
      /\ \A t \in Sessions : t # s => attention'[t] = attention[t]
      /\ \A t \in Sessions : attention'[t].pending => attention[t].pending
  <2> DEFINE e == [attention[s] EXCEPT !.pending = FALSE]
  <2>1. e \in Events /\ e.id = attention[s].id /\ ~e.pending
    BY <1>2 DEF Events
  <2>2. attention \in [Sessions -> Events]
    BY DEF AttentionTypeOK, Views
  <2>3. \/ attention' = attention
        \/ attention' = [attention EXCEPT ![s] = e]
    BY <1>1, <2>2
  <2> HIDE DEF e
  <2>4. CASE attention' = attention
    BY <2>2, <2>4 DEF Views
  <2>5. CASE attention' = [attention EXCEPT ![s] = e]
    <3>1. attention' \in [Sessions -> Events] /\ attention'[s] = e
          /\ \A t \in Sessions : t # s => attention'[t] = attention[t]
      BY <2>1, <2>2, <2>5
    <3>. QED
      BY <2>1, <3>1 DEF Views
  <2>. QED
    BY <2>3, <2>4, <2>5
<1>4. /\ updating' \in [Sessions -> 0..Free] /\ updating'[s] = attention[s].id
      /\ \A t \in Sessions : t # s => updating'[t] = updating[t]
  BY <1>1, <1>2, DeliveryAssumption DEF AttentionTypeOK, Free
<1>5. NextId' = NextId /\ left' \in Bounds
  BY <1>1 DEF NextId, AttentionTypeOK, Bounds
<1>6. /\ fate' \in [Ids -> Fates]
      /\ \A i \in Ids : i # attention[s].id => fate'[i] = fate[i]
      /\ \A i \in Ids : fate'[i] = fate[i] \/ fate'[i] = "resolved"
      /\ attention'[s].pending => fate' = fate
  <2>1. CASE UNCHANGED <<attention, fate>>
    BY <1>2, <2>1
  <2>2. CASE /\ attention[s].pending
             /\ attention' = [attention EXCEPT ![s].pending = FALSE]
             /\ fate' = Settle(attention[s].id, "resolved")
    <3>1. "resolved" \in Fates
      BY DEF Fates
    <3>2. ~attention'[s].pending
      BY <1>2, <2>2 DEF AttentionTypeOK, Views, Events
    <3>3. fate' \in [Ids -> Fates] /\ \A i \in Ids : i # attention[s].id => fate'[i] = fate[i]
      BY <1>2, <2>2, <3>1 DEF Settle
    <3>4. \A i \in Ids : fate'[i] = fate[i] \/ fate'[i] = "resolved"
      BY <1>2, <2>2 DEF Settle
    <3>. QED
      BY <3>2, <3>3, <3>4
  <2>. QED
    BY <1>1, <2>1, <2>2
<1>7. AttentionTypeOK'
  BY <1>1, <1>3, <1>4, <1>5, <1>6 DEF AttentionTypeOK
<1>8. /\ ~Fresh(s)' /\ ~Fresh(s)
      /\ \A t \in Sessions : t # s => (Fresh(t)' <=> Fresh(t))
  BY <1>1, <1>3, <1>4 DEF Fresh
<1>9. ASSUME NEW x \in Claims, Live(x) PROVE Live(x)'
  BY <1>3, <1>5, <1>6, <1>8, <1>9 DEF Live, Claims
<1>10. attention[s].pending => attention[s].id # 0
  BY DEF EventsAreDistinct
<1>11. ASSUME NEW t \in Sessions, t # s, attention[t].id \in Ids
       PROVE  fate'[attention[t].id] = fate[attention[t].id]
  <2>1. CASE attention[t].id = attention[s].id
    BY <2>1, <1>11 DEF EventsAreDistinct, Ids
  <2>2. CASE attention[t].id # attention[s].id
    BY <2>2, <1>6, <1>11
  <2>. QED
    BY <2>1, <2>2
<1>12. EventsAreDistinct'
  <2>1. ASSUME NEW t \in Sessions, Fresh(t)'
        PROVE  attention'[t].id # 0 /\ fate'[attention'[t].id] = "open"
    <3>1. t # s /\ Fresh(t) /\ attention[t].id \in Ids /\ fate[attention[t].id] = "open"
      BY <2>1, <1>8 DEF EventsAreDistinct, AttentionTypeOK, Views, Events, Ids
    <3>. QED
      BY <3>1, <1>3, <1>11 DEF Ids
  <2>. QED
    BY <2>1, <1>3, <1>5 DEF EventsAreDistinct
<1>13. AtMostOnePresentation'
  BY <1>6 DEF AtMostOnePresentation
<1>14. ASSUME NEW t \in Sessions, attention'[t].pending, ~Fresh(t)'
       PROVE  /\ attention[t].pending /\ ~Fresh(t)
              /\ attention'[t].id = attention[t].id
              /\ fate'[attention[t].id] = fate[attention[t].id]
  <2>1. attention[t].pending /\ ~Fresh(t) /\ attention'[t].id = attention[t].id
    BY <1>3, <1>8, <1>14
  <2>2. attention[t].id \in Ids
    BY <2>1 DEF EventsAreDistinct, AttentionTypeOK, Views, Events, Ids
  <2>3. fate'[attention[t].id] = fate[attention[t].id]
    BY <2>2, <1>6, <1>11, <1>14
  <2>. QED
    BY <2>1, <2>3
<1>. QED
  BY <1>1, <1>7, <1>9, <1>12, <1>13, <1>14, UpdateKeepsInv

(* The event is recorded, or the Session's claim is withdrawn.             *)
LEMMA CoordinateKeepsInv ==
    ASSUME DeliveryInv, NEW s \in Sessions, CoordinateAttention(s)
    PROVE  DeliveryInv'
<1>. USE DEF DeliveryInv
<1>. DEFINE event == attention[s]
            fresh == attention[s].id # updating[s]
            offered == fresh /\ Offered(claims, s, event)
            others == {e \in Offers : e.session # s}
            evicted == IF offered /\ Full(others) THEN {Oldest(others)} ELSE {}
            settled == SettleAll(evicted, "evicted")
            told == IF DOMAIN claims.watermarks = {} THEN "unheard" ELSE "seen"
            note == [kind |-> "status", session |-> s, event |-> event]
            claim == [sequence |-> claims.sequence + 1, session |-> s, id |-> event.id,
                      ready |-> ~event.input, announced |-> FALSE]
<1>1. /\ claims \in Boards /\ Offers \subseteq Claims /\ fate \in [Ids -> Fates]
      /\ event \in Events /\ Offers = claims.pending
      /\ updating[s] # Free
  BY HeldClaims DEF AttentionTypeOK, Views, Offers, CoordinateAttention
<1>2. /\ claims' = Coordinated(s)
      /\ fate' = IF fresh /\ ~offered THEN [settled EXCEPT ![event.id] = told] ELSE settled
      /\ updating' = [updating EXCEPT ![s] = Free]
      /\ Broadcast(note)
      /\ UNCHANGED <<attention, client, left>>
  <2>1. Cancel(claims, s).pending = others
    BY <1>1 DEF Cancel, Boards
  <2>. QED
    BY <2>1 DEF CoordinateAttention
<1>3. fresh <=> Fresh(s)
  BY <1>1 DEF Fresh
<1>4. fresh => event.id \in Ids /\ fate[event.id] = "open" /\ event.id < NextId
  BY <1>1, <1>3 DEF EventsAreDistinct, Events, Ids
(* The oldest of the others makes room.                                    *)
<1>5. evicted \subseteq others /\ others \subseteq Offers
  <2>1. CASE offered /\ Full(others)
    <3>1. others # {}
      BY <2>1, ClaimCapacityAssumption, FS_EmptySet DEF Full
    <3>2. others \in SUBSET Claims
      BY <1>1
    <3> HIDE DEF others
    <3>3. Oldest(others) \in others
      BY <3>1, <3>2, OldestIsOfThem
    <3>. QED
      BY <3>3 DEF others
  <2>2. CASE ~(offered /\ Full(others))
    BY <2>2
  <2>. QED
    BY <2>1, <2>2
<1>6. /\ settled \in [Ids -> Fates]
      /\ \A i \in Ids : settled[i] = IF (\E e \in evicted : e.id = i) /\ fate[i] \in {"open", "claimed"}
                                     THEN "evicted" ELSE fate[i]
  <2>1. "evicted" \in Fates
    BY DEF Fates, Reasons
  <2> HIDE DEF evicted
  <2>. QED
    BY <1>1, <2>1, SettleFacts
<1>7. /\ claims' \in Boards
      /\ claims'.watermarks = claims.watermarks
      /\ offered => /\ Offers' = (others \ evicted) \cup {claim}
                    /\ claims'.sequence = claims.sequence + 1
      /\ ~offered => /\ Offers' = others \/ Offers' = Offers
                     /\ claims'.sequence = claims.sequence
                     /\ ~fresh /\ event.pending => Offers' = Offers
  <2>1. CASE fresh
    <3>1. claims' = Record(claims, s, event)
      BY <1>2, <2>1 DEF Coordinated
    <3>2. claims' \in Boards
      BY <1>1, <1>4, <2>1, <3>1, ClaimOperators DEF Ids
    <3>3. CASE Offered(claims, s, event)
      <4> DEFINE out == IF Full(others) THEN {Oldest(others)} ELSE {}
      <4>1. Cancel(claims, s) = [claims EXCEPT !.pending = others]
        BY <1>1 DEF Cancel
      <4>2. Cancel(claims, s).pending = others
        BY <1>1, <4>1 DEF Boards
      <4>3. claims' = [Cancel(claims, s) EXCEPT !.sequence = @ + 1, !.pending = (others \ out) \cup {claim}]
        BY <3>1, <3>3, <4>2 DEF Record
      <4>4. out = evicted
        BY <2>1, <3>3
      <4> HIDE DEF out, others, claim
      <4>5. /\ claims'.pending = (others \ out) \cup {claim}
            /\ claims'.sequence = claims.sequence + 1
            /\ claims'.watermarks = claims.watermarks
        BY <4>1, <4>3, <1>1 DEF Boards
      <4>. QED
        BY <2>1, <3>2, <3>3, <4>4, <4>5 DEF Offers
    <3>4. CASE ~Offered(claims, s, event)
      <4>1. claims' = Cancel(claims, s)
        BY <3>1, <3>4 DEF Record
      <4>2. /\ claims'.pending = others /\ claims'.sequence = claims.sequence
            /\ claims'.watermarks = claims.watermarks
        BY <4>1, <1>1 DEF Cancel, Boards
      <4>. QED
        BY <2>1, <3>2, <3>4, <4>2 DEF Offers
    <3>. QED
      BY <3>3, <3>4
  <2>2. CASE ~fresh /\ ~event.pending
    <3>1. claims' = Cancel(claims, s)
      BY <1>2, <2>2 DEF Coordinated
    <3>2. /\ claims'.pending = others /\ claims'.sequence = claims.sequence
          /\ claims'.watermarks = claims.watermarks
      BY <3>1, <1>1 DEF Cancel, Boards
    <3>. QED
      BY <1>1, <2>2, <3>1, <3>2, ClaimOperators DEF Offers
  <2>3. CASE ~fresh /\ event.pending
    <3>1. claims' = claims
      BY <1>2, <2>3 DEF Coordinated
    <3>. QED
      BY <1>1, <2>3, <3>1 DEF Offers
  <2>. QED
    BY <2>1, <2>2, <2>3
<1>8. note \in Notices
  BY <1>1, MessageKinds
<1>. HIDE DEF note
<1>9. /\ link' \in [Clients -> Links]
      /\ \A c \in Clients : link'[c].up = link[c].up
      /\ \A c \in Clients : link'[c].request = link[c].request
  BY <1>2, <1>8, BroadcastFacts
<1>10. RequestsCome /\ InboxesCome /\ \A i : Flies(i) => Flies(i)'
  BY <1>2, <1>9, QuietClients
<1>11. TerminalsAwait' /\ ConnectionsHold'
  BY <1>2, <1>9 DEF TerminalsAwait, ConnectionsHold, Clients
<1>12. OffersAreClaimable'
  <2>1. DOMAIN claims'.watermarks = {c \in Clients : link'[c].up # "off"}
    BY <1>7, <1>9 DEF OffersAreClaimable
  <2>2. \A c \in DOMAIN claims.watermarks : claims.watermarks[c] \in Nat
    BY <1>1 DEF Boards, Partial
  <2>3. claims.sequence \in Nat
    BY <1>1 DEF Boards
  <2>4. \A c \in DOMAIN claims'.watermarks : claims'.watermarks[c] <= claims'.sequence
    BY <1>7, <2>2, <2>3 DEF OffersAreClaimable
  <2>5. ASSUME NEW e \in Offers' PROVE \E c \in DOMAIN claims'.watermarks : claims'.watermarks[c] < e.sequence
    <3>1. CASE e \in Offers
      BY <3>1, <1>7 DEF OffersAreClaimable
    <3>2. CASE e = claim /\ offered
      <4>1. PICK c \in DOMAIN claims.watermarks : TRUE
        BY <3>2 DEF Offered
      <4>. QED
        BY <3>2, <4>1, <1>7, <2>2, <2>3 DEF OffersAreClaimable
    <3>. QED
      BY <3>1, <3>2, <1>5, <1>7, <2>5
  <2>. QED
    BY <2>1, <2>4, <2>5 DEF OffersAreClaimable
<1>13. /\ fate' \in [Ids -> Fates]
       /\ fresh /\ ~offered => fate'[event.id] \in {"unheard", "seen"}
       /\ \A i \in Ids : \/ fresh /\ ~offered /\ i = event.id
                         \/ fate'[i] = "evicted" /\ \E e \in evicted : e.id = i
                         \/ fate'[i] = fate[i]
       /\ \A i \in Ids : fate[i] = "open" /\ (\E e \in evicted : e.id = i)
                           => fate'[i] = "evicted" \/ (fresh /\ ~offered /\ i = event.id)
  <2>1. told \in {"unheard", "seen"} /\ told \in Fates
    BY DEF Fates, Reasons
  <2> HIDE DEF told, settled
  <2>. QED
    BY <1>2, <1>4, <1>6, <2>1
<1>14. /\ updating' \in [Sessions -> 0..Free] /\ ~Fresh(s)'
       /\ \A t \in Sessions : t # s => (Fresh(t)' <=> Fresh(t))
  BY <1>2, DeliveryAssumption DEF AttentionTypeOK, Free, Fresh
<1>15. AttentionTypeOK'
  BY <1>2, <1>7, <1>9, <1>13, <1>14 DEF AttentionTypeOK
<1>16. NextId' = NextId
  BY <1>2 DEF NextId
(* An event that is yet to be recorded has no claim.                       *)
<1>17. ASSUME NEW t \in Sessions, Fresh(t), NEW e \in Claims, Live(e) PROVE e.id # attention[t].id
  BY <1>17 DEF Live
<1>18. ASSUME NEW e \in Claims, Live(e) PROVE Live(e)'
  <2>1. e.id \in Ids
    BY DEF Claims
  <2>2. fate'[e.id] \notin {"shown", "shown twice"}
    BY <1>3, <1>13, <1>17, <1>18, <2>1 DEF Live
  <2>. QED
    BY <1>2, <1>14, <1>16, <1>18, <2>2 DEF Live
<1>19. \A e \in Offers : e \in Claims /\ Live(e)
  BY <1>1 DEF ClaimsAreLive
<1>20. EventsAreDistinct'
  <2>1. ASSUME NEW t \in Sessions, Fresh(t)'
        PROVE  attention[t].id # 0 /\ fate'[attention[t].id] = "open"
    <3>1. t # s /\ Fresh(t) /\ attention[t].id \in Ids /\ fate[attention[t].id] = "open"
      BY <2>1, <1>14 DEF EventsAreDistinct, AttentionTypeOK, Views, Events, Ids
    <3>2. fresh => attention[t].id # event.id
      BY <3>1 DEF EventsAreDistinct, Ids
    <3>3. \A e \in evicted : e.id # attention[t].id
      BY <3>1, <1>5, <1>17, <1>19
    <3>4. PICK i \in Ids : i = attention[t].id
      BY <3>1
    <3> HIDE DEF evicted, offered, fresh, event
    <3>5. fate'[i] = fate[i]
      BY <3>2, <3>3, <3>4, <1>13
    <3>. QED
      BY <3>1, <3>4, <3>5 DEF Ids
  <2>. QED
    BY <2>1, <1>2, <1>16 DEF EventsAreDistinct
<1>21. AtMostOnePresentation'
  BY <1>13 DEF AtMostOnePresentation
<1>22. ASSUME NEW t \in Sessions, attention'[t].pending, ~Fresh(t)', t # s \/ ~fresh
       PROVE  IsAccounted(attention[t].id)'
  <2>1. attention[t].pending /\ ~Fresh(t) /\ attention[t].id \in Ids
    BY <1>2, <1>3, <1>14, <1>22 DEF EventsAreDistinct, AttentionTypeOK, Views, Events, Ids
  <2>2. PICK i \in Ids : i = attention[t].id /\ i = attention'[t].id
    BY <2>1, <1>2
  <2>3. IsAccounted(i) /\ (t # s => i # event.id)
    BY <2>1, <2>2 DEF EventsAreAccounted, EventsAreDistinct, Ids
  <2>4. (fate'[i] = "evicted" /\ (\E e \in evicted : e.id = i)) \/ fate'[i] = fate[i]
    BY <1>13, <1>22, <2>2, <2>3
  <2>5. CASE fate'[i] = "evicted"
    BY <2>2, <2>5 DEF IsAccounted, Reasons
  <2>6. CASE fate'[i] = fate[i] /\ fate[i] # "evicted"
    <3>1. CASE fate[i] \notin {"open", "claimed"}
      <4>1. fate'[i] \in {"shown"} \cup Reasons
        BY <2>3, <2>6, <3>1 DEF IsAccounted
      <4>2. IsAccounted(i)'
        BY <1>15, <2>3, <4>1, AccountStays
      <4>. QED
        BY <2>2, <4>2 DEF IsAccounted
    <3>2. CASE fate[i] = "claimed"
      <4>1. Flies(i)
        BY <2>3, <3>2, <1>15, InFlightFlies DEF IsAccounted
      <4>2. InFlight(i)'
        BY <4>1, <1>10, <1>15, InFlightFlies
      <4>. QED
        BY <2>2, <2>6, <3>2, <4>2 DEF IsAccounted
    <3>3. CASE fate[i] = "open"
      <4>1. PICK e \in Offers : e.id = i
        BY <2>3, <3>3 DEF IsAccounted
      <4>2. e.session = t
        BY <1>19, <2>2, <4>1 DEF Live
      <4>3. e \notin evicted
        BY <1>13, <2>6, <3>3, <4>1, <1>22, <2>2, <2>3
      <4>4. e \in Offers'
        <5>1. CASE offered
          BY <5>1, <1>7, <1>22, <4>1, <4>2, <4>3
        <5>2. CASE ~offered /\ t # s
          BY <5>2, <1>7, <4>1, <4>2
        <5>3. CASE ~offered /\ t = s
          BY <5>3, <1>7, <1>22, <2>1, <4>1
        <5>. QED
          BY <5>1, <5>2, <5>3
      <4>. QED
        BY <2>2, <2>6, <3>3, <4>1, <4>4 DEF IsAccounted
    <3>. QED
      BY <3>1, <3>2, <3>3
  <2>. QED
    BY <2>4, <2>5, <2>6
<1>23. ASSUME fresh PROVE IsAccounted(event.id)'
  <2>1. PICK i \in Ids : i = event.id /\ i = event'.id
    BY <1>2, <1>4, <1>23
  <2>2. CASE offered
    <3>1. \A e \in evicted : e.id # i
      BY <1>3, <1>5, <1>17, <1>19, <1>23, <2>1
    <3>2. fate'[i] = "open"
      BY <1>4, <1>13, <1>23, <2>1, <2>2, <3>1
    <3>3. claim \in Offers' /\ claim.id = i
      BY <1>7, <2>1, <2>2
    <3> HIDE DEF claim
    <3>. QED
      BY <2>1, <3>2, <3>3 DEF IsAccounted
  <2>3. CASE ~offered
    <3>1. fate'[i] \in {"unheard", "seen"}
      BY <1>13, <1>23, <2>1, <2>3
    <3>. QED
      BY <2>1, <3>1 DEF IsAccounted, Reasons
  <2>. QED
    BY <2>2, <2>3
<1>24. EventsAreAccounted'
  <2>1. \A t \in Sessions : attention'[t].pending /\ ~Fresh(t)' => IsAccounted(attention[t].id)'
    BY <1>22, <1>23
  <2>. QED
    BY <2>1 DEF EventsAreAccounted, IsAccounted
<1>25. OnePlace' /\ ClaimsAreLive'
  <2>1. CASE ~offered
    <3>1. Offers' \subseteq Offers
      BY <2>1, <1>5, <1>7
    <3>2. OffersCome
      BY <3>1 DEF OffersCome, OnePlace
    <3>. QED
      BY <3>2, <1>10, <1>15, <1>18, OnePlaceStays, ClaimsStayLive
  <2>2. CASE offered
    <3>1. PICK i \in Ids : i = event.id
      BY <1>4, <2>2
    <3>2. \A e \in Claims : Live(e) => e.id # i
      BY <1>3, <1>17, <2>2, <3>1
    <3>3. /\ \A e \in Offers' : e \in Offers \/ (e = claim /\ e.id = i)
          /\ claim \in Claims
      <4>1. claims.sequence + 1 \in Nat /\ event.input \in BOOLEAN /\ event.id \in Ids
        BY <1>1, <3>1 DEF Boards, Events
      <4>2. claim \in Claims /\ claim.id = i
        BY <3>1, <4>1 DEF Claims
      <4> HIDE DEF claim, others, evicted
      <4>. QED
        BY <1>5, <1>7, <2>2, <4>2
    <3>0. PICK x \in Claims : x = claim /\ x.id = i /\ x.session = s
      BY <3>1, <3>3
    <3>4. Live(x)'
      <4>1. fate'[i] = "open"
        BY <1>3, <1>4, <1>5, <1>13, <1>17, <1>19, <2>2, <3>1
      <4>2. i < NextId'
        BY <1>4, <1>16, <2>2, <3>1
      <4>3. \A t \in Sessions : attention'[t].id = i => t = s /\ ~Fresh(t)'
        BY <1>2, <1>14, <3>1 DEF EventsAreDistinct, Ids
      <4>. QED
        BY <3>0, <4>1, <4>2, <4>3 DEF Live
    <3>5. \A e \in Offers' : e = x \/ (e \in Offers /\ e.id # i)
      BY <3>0, <3>2, <3>3, <1>19
    <3>6. /\ \A c \in Clients : Checks(c)' => Checks(c) /\ Checked(c)' = Checked(c) /\ Checked(c).id # i
          /\ \A c \in Clients : DOMAIN client'[c].inbox = DOMAIN client[c].inbox
          /\ \A c \in Clients : \A j \in DOMAIN client[c].inbox : Carries(c, j)' <=> Carries(c, j)
          /\ \A c \in Clients : \A j \in DOMAIN client[c].inbox : Carried(c, j)' = Carried(c, j)
          /\ \A c \in Clients : \A j \in DOMAIN client[c].inbox : Carries(c, j) => Carried(c, j).id # i
      <4>1. \A c \in Clients : Checks(c)' => Checks(c) /\ Checked(c)' = Checked(c)
        BY <1>10 DEF RequestsCome
      <4>2. \A c \in Clients : Checks(c) => Checked(c).id # i
        BY <3>2, HeldClaims DEF ClaimsAreLive
      <4>3. \A c \in Clients : \A j \in DOMAIN client[c].inbox : Carries(c, j) => Carried(c, j).id # i
        BY <3>2, HeldClaims DEF ClaimsAreLive
      <4>4. client' = client
        BY <1>2
      <4>5. /\ \A c \in Clients : \A j \in DOMAIN client[c].inbox : Carries(c, j)' <=> Carries(c, j)
            /\ \A c \in Clients : \A j \in DOMAIN client[c].inbox : Carried(c, j)' = Carried(c, j)
        BY <4>4 DEF Carries, Carried
      <4>. QED
        BY <4>1, <4>2, <4>3, <4>4, <4>5
    <3>7. OnePlace'
      <4>1. \A e, f \in Offers' : e.id = f.id => e = f
        BY <3>0, <3>5 DEF OnePlace
      <4>2. \A c \in Clients : Checks(c)' => \A e \in Offers' : e.id # Checked(c)'.id
        BY <3>0, <3>5, <3>6 DEF OnePlace
      <4>3. \A c, d \in Clients :
              Checks(c)' /\ Checks(d)' /\ Checked(c)'.id = Checked(d)'.id => c = d
        BY <3>6 DEF OnePlace
      <4>4. \A c \in Clients : \A j \in DOMAIN client'[c].inbox : Carries(c, j)' =>
              \A e \in Offers' : e.id # Carried(c, j)'.id
        BY <3>0, <3>5, <3>6 DEF OnePlace
      <4>5. \A c, d \in Clients : \A j \in DOMAIN client'[c].inbox :
              Carries(c, j)' /\ Checks(d)' => Checked(d)'.id # Carried(c, j)'.id
        BY <3>6 DEF OnePlace
      <4>6. \A c, d \in Clients :
              \A j \in DOMAIN client'[c].inbox, k \in DOMAIN client'[d].inbox :
                Carries(c, j)' /\ Carries(d, k)' /\ Carried(c, j)'.id = Carried(d, k)'.id
                  => c = d /\ j = k
        BY <3>6 DEF OnePlace
      <4>. QED
        BY <4>1, <4>2, <4>3, <4>4, <4>5, <4>6 DEF OnePlace
    <3>8. ClaimsAreLive'
      <4>1. \A e \in Offers' : Live(e)'
        BY <3>4, <3>5, <1>18, <1>19
      <4>2. ASSUME NEW c \in Clients, Checks(c)' PROVE Live(Checked(c))'
        <5>1. PICK e \in Claims : e = Checked(c)' /\ Live(e)
          BY <4>2, <3>6, HeldClaims DEF ClaimsAreLive
        <5>2. Live(e)'
          BY <5>1, <1>18
        <5>. QED
          BY <5>1, <5>2 DEF Live
      <4>3. ASSUME NEW c \in Clients, NEW j \in DOMAIN client'[c].inbox, Carries(c, j)'
            PROVE  Live(Carried(c, j))'
        <5>1. PICK e \in Claims : e = Carried(c, j)' /\ Live(e)
          BY <4>3, <3>6, HeldClaims DEF ClaimsAreLive
        <5>2. Live(e)'
          BY <5>1, <1>18
        <5>. QED
          BY <5>1, <5>2 DEF Live
      <4>. QED
        BY <4>1, <4>2, <4>3 DEF ClaimsAreLive
    <3>. QED
      BY <3>7, <3>8
  <2>. QED
    BY <2>1, <2>2
<1>. QED
  BY <1>11, <1>12, <1>15, <1>20, <1>21, <1>24, <1>25

----------------------------------------------------------------------------
(* The invariant holds at the start.                                       *)
LEMMA DeliveryInitInv ==
    ASSUME Init
    PROVE  DeliveryInv
<1>1. left \in Bounds
  BY DeliveryAssumption DEF Init, Bounds
<1>2. NoEvent \in Events
  BY DeliveryAssumption DEF NoEvent, Events
<1>3. claims \in Boards /\ DOMAIN claims.watermarks = {} /\ Offers = {}
  <2>1. \A S, T : <<>> \in Partial(S, T)
    <3>1. \A T : <<>> \in [{} -> T]
      OBVIOUS
    <3>. QED
      BY <3>1 DEF Partial
  <2>. QED
    BY <2>1 DEF Init, NoClaims, Boards, Offers
<1>4. AttentionTypeOK
  <2>1. attention \in Views /\ updating \in [Sessions -> 0..Free]
    BY <1>2, DeliveryAssumption DEF Init, Views, Free
  <2>2. link \in [Clients -> Links] /\ client \in [Clients -> ClientStates]
    BY Starting DEF Init
  <2>3. fate \in [Ids -> Fates]
    BY DEF Init, Fates
  <2>. QED
    BY <1>1, <1>3, <2>1, <2>2, <2>3 DEF AttentionTypeOK
<1>5. \A c \in Clients : /\ link[c].up = "off" /\ link[c].request.kind = "none"
                         /\ client[c].inbox = <<>>
  BY DEF Init, Offline, NewClient
<1>6. \A c \in Clients : ~Checks(c) /\ DOMAIN client[c].inbox = {}
  BY <1>5 DEF Checks
<1>7. OnePlace /\ ClaimsAreLive
  BY <1>3, <1>6 DEF OnePlace, ClaimsAreLive
<1>8. OffersAreClaimable /\ TerminalsAwait /\ ConnectionsHold
  BY <1>3, <1>5 DEF OffersAreClaimable, TerminalsAwait, ConnectionsHold, Clients
<1>9. EventsAreDistinct /\ EventsAreAccounted /\ AtMostOnePresentation
  <2>1. NextId > 0
    BY <1>1, DeliveryAssumption DEF NextId, Bounds
  <2>2. \A s \in Sessions : attention[s].id = 0 /\ ~attention[s].pending /\ ~Fresh(s)
    BY DEF Init, NoEvent, Fresh
  <2>3. AtMostOnePresentation
    BY DEF Init, AtMostOnePresentation
  <2>. QED
    BY <2>1, <2>2, <2>3 DEF EventsAreDistinct, EventsAreAccounted
<1>. QED
  BY <1>4, <1>7, <1>8, <1>9 DEF DeliveryInv

(* Nothing happens.                                                        *)
LEMMA DeliveryStutters ==
    ASSUME DeliveryInv, UNCHANGED vars
    PROVE  DeliveryInv'
<1>. USE DEF DeliveryInv
<1>1. UNCHANGED <<attention, updating, claims, link, client, fate, left>>
  BY DEF vars
<1>2. \A c \in Clients : c \in Terminals => Awaits(client'[c].inbox, link'[c].request)
  BY <1>1 DEF TerminalsAwait, Awaits
<1>3. ConnectionsHold'
  BY <1>1 DEF ConnectionsHold
<1>4. Passes
  BY <1>1, <1>2, <1>3 DEF Passes, SameRequest, SameClaims, AttentionTypeOK
<1>. QED
  BY <1>4, PassesKeepsInv

(* Every step of the daemon and of its clients.                            *)
LEMMA DeliveryStepInv ==
    ASSUME DeliveryInv, [Next]_vars
    PROVE  DeliveryInv'
<1>1. CASE \E s \in Sessions : SessionStep(s) \/ CoordinateAttention(s)
  BY <1>1, RaiseKeepsInv, UpdateStatusKeepsInv, CoordinateKeepsInv DEF SessionStep
<1>2. CASE Mature \/ NotificationTick
  BY <1>2, ClockKeepsInv
<1>3. ASSUME NEW c \in Clients, RegisterClient(c) \/ Depart(c)
      PROVE  DeliveryInv'
  BY <1>3, RegisterKeepsInv, DepartKeepsInv
<1>4. ASSUME NEW c \in Clients, ServerStep(c)
      PROVE  DeliveryInv'
  <2>1. CASE ServeSnapshot(c)
    BY <2>1, DesktopsPass, PassesKeepsInv DEF DeliveryInv
  <2>2. CASE ~ServeSnapshot(c)
    BY <1>4, <2>2, RegisterKeepsInv, UnregisterKeepsInv, FocusKeepsInv, ClaimKeepsInv,
       ValidateKeepsInv DEF ServerStep
  <2>. QED
    BY <2>1, <2>2
<1>5. ASSUME NEW c \in Clients, TerminalStep(c) \/ TerminalWakes(c)
      PROVE  DeliveryInv'
  <2>1. CASE TerminalDelivers(c)
    BY <2>1, TerminalDeliversKeepsInv
  <2>2. CASE \/ TerminalStart(c) \/ TerminalReports(c) \/ TerminalReported(c)
             \/ TerminalDrains(c) \/ TerminalRefreshes(c) \/ TerminalWakes(c)
    BY <2>2, TerminalsPass, PassesKeepsInv DEF DeliveryInv
  <2>. QED
    BY <1>5, <2>1, <2>2 DEF TerminalStep
<1>6. ASSUME NEW c \in Clients, DesktopStep(c) \/ BridgeTakes(c) \/ DesktopLooks(c)
      PROVE  DeliveryInv'
  <2>1. CASE DesktopHandles(c)
    BY <2>1, DesktopHandlesKeepsInv
  <2>2. CASE \/ DesktopLoads(c) \/ DesktopConnects(c) \/ BridgeTakes(c) \/ BridgeForwards(c)
             \/ ServeSnapshot(c) \/ SnapshotArrives(c) \/ DesktopTicks(c) \/ DesktopLooks(c)
    BY <2>2, DesktopsPass, PassesKeepsInv DEF DeliveryInv
  <2>. QED
    BY <1>6, <2>1, <2>2 DEF DesktopStep
<1>7. CASE UNCHANGED vars
  BY <1>7, DeliveryStutters
<1>. QED
  BY <1>1, <1>2, <1>3, <1>4, <1>5, <1>6, <1>7 DEF Next

(* The invariant of the notifications: a claim is in one place, of an      *)
(* event that was not presented, and every pending event is accounted for. *)
THEOREM DeliveryInvariance == Spec => []DeliveryInv
<1>1. Init => DeliveryInv
  BY DeliveryInitInv
<1>2. DeliveryInv /\ [Next]_vars => DeliveryInv'
  BY DeliveryStepInv
<1>. QED
  BY <1>1, <1>2, PTL DEF Spec

(* No Attention Event is presented twice, whatever the number of clients   *)
(* that ask for it, come and go while the daemon grants its claims.        *)
THEOREM PresentedAtMostOnce == Spec => []AtMostOnePresentation
<1>1. DeliveryInv => AtMostOnePresentation
  BY DEF DeliveryInv
<1>. QED
  BY <1>1, DeliveryInvariance, PTL

(* No pending event is forgotten between its recording and the client.     *)
THEOREM NoneIsForgotten == Spec => []PendingIsAccounted
<1>1. DeliveryInv => PendingIsAccounted
  BY DEF DeliveryInv, PendingIsAccounted, EventsAreAccounted, IsAccounted, Fresh, Reasons
<1>. QED
  BY <1>1, DeliveryInvariance, PTL

----------------------------------------------------------------------------
(***************************************************************************)
(* GitHub.                                                                 *)
(***************************************************************************)

(* What the desktop's surface holds, asks for and is answered.             *)

Items == [kind : Kinds, number : Nat]
Lists == [project : Projects, repository : Repositories, kind : Kinds,
          filters : Filters, cursor : Nat]
Details == [item : Items, comments : Seq(Nat)]
Loads(values) == [state : {"idle", "failed", "loading", "ready"},
                  value : values \cup {Nothing}]
Queries == [kind : Kinds, filters : Filters, cursor : Nat]

Surfaces ==
    [project : Projects \cup {Nothing}, kind : Kinds, filters : Filters,
     cursor : Nat, previous : Seq(Nat), list : Loads(Lists),
     detail : Loads(Details), selected : Items \cup {Nothing},
     mixed : BOOLEAN, stray : BOOLEAN]

GitHubRequests ==
    [op : {"list"}, project : Projects, query : Queries]
    \cup [op : {"view"}, project : Projects, item : Items, page : Nat]
    \cup [op : {"associate"}, project : Projects, repository : Repositories]
    \cup [op : {"status", "other"}, project : Projects]

GitHubAnswers ==
    [is : {"found"}, found : Lists \cup Details \cup Repositories]
    \cup [is : {"browse", "failure"}]

Slots == [request : GitHubRequests, answer : GitHubAnswers \cup {Nothing}, overtaken : BOOLEAN]
Askings == [slot : Slots \cup {Nothing}, deferred : Projects \cup {Nothing}]

SurfaceTypeOK ==
    /\ repository \in [Projects -> Repositories]
    /\ here \in Projects
    /\ status \in [project : Projects, repository : Repositories] \cup {Nothing}
    /\ surface \in Surfaces
    /\ asked \in Askings

(* What the daemon found is what it was asked for.                         *)
AnswersItsRequest(q) ==
    q.answer # Nothing /\ q.answer.is = "found" =>
        /\ q.request.op = "list" =>
              \E r \in Repositories :
                 q.answer.found =
                    [project |-> q.request.project, repository |-> r,
                     kind |-> q.request.query.kind, filters |-> q.request.query.filters,
                     cursor |-> q.request.query.cursor]
        /\ q.request.op = "view" =>
              q.answer.found = [item |-> q.request.item, comments |-> <<q.request.page>>]
        /\ q.request.op \in {"status", "associate"} => q.answer.found \in Repositories

(* A request that was not overtaken asks for what the surface stands for:  *)
(* its list, or the page that follows the comments it has.                 *)
AsksFor(q, s) ==
    ~q.overtaken =>
        /\ q.request.op = "list" => q.request.query = Query(s)
        /\ q.request.op = "view" /\ q.request.page # 1 =>
              /\ s.detail.value # Nothing
              /\ s.detail.value.item = q.request.item
              /\ q.request.page = Last(s.detail.value.comments) + 1

SlotFits(a, s) == a.slot # Nothing => AnswersItsRequest(a.slot) /\ AsksFor(a.slot, s)

(* SurfaceIsOfTheQuery, and that comments are there.                       *)
ListIsOfTheSurface(s) ==
    s.list.value # Nothing =>
        /\ s.list.value.project = s.project
        /\ s.list.value.kind = s.kind

ListIsOfTheQuery(s) ==
    s.list.state = "ready" /\ ~s.mixed =>
        /\ s.list.value.kind = s.kind
        /\ s.list.value.filters = s.filters
        /\ s.list.value.cursor = s.cursor

DetailIsOfTheItem(s) ==
    /\ s.project = Nothing => s.detail.value = Nothing
    /\ s.detail.value # Nothing =>
          /\ s.detail.value.item = s.selected
          /\ s.detail.value.comments # <<>>
          /\ ~s.stray => InOrder(s.detail.value.comments)

ShowsItsQuery(s) == ListIsOfTheSurface(s) /\ ListIsOfTheQuery(s) /\ DetailIsOfTheItem(s)

SurfaceInv == SurfaceTypeOK /\ ShowsItsQuery(surface) /\ SlotFits(asked, surface)

LEMMA LastTypes ==
    ASSUME NEW comments \in Seq(Nat), comments # <<>>
    PROVE  Last(comments) \in Nat
<1>1. Len(comments) \in 1 .. Len(comments)
  BY DEF Last
<1> QED BY <1>1 DEF Last

(* Comments in order, and the page that follows them.                      *)
LEMMA InOrderGrows ==
    ASSUME NEW comments \in Seq(Nat), comments # <<>>, InOrder(comments)
    PROVE  /\ Last(comments) = Len(comments)
           /\ InOrder(comments \o <<Last(comments) + 1>>)
<1>1. /\ Len(comments) \in Nat /\ Len(comments) > 0
      /\ \A i \in 1 .. Len(comments) : comments[i] = i
  BY DEF InOrder
<1>2. Last(comments) = Len(comments)
  BY <1>1 DEF Last
<1> DEFINE n == Len(comments)
           more == comments \o <<n + 1>>
<1>3. <<n + 1>> \in Seq(Nat) /\ Len(<<n + 1>>) = 1 /\ <<n + 1>>[1] = n + 1
  BY <1>1
<1>4. /\ more \in Seq(Nat) /\ Len(more) = n + 1
      /\ \A i \in 1 .. n + 1 : more[i] = IF i <= n THEN comments[i] ELSE <<n + 1>>[i - n]
  BY <1>3, ConcatProperties
<1>5. \A i \in 1 .. n + 1 : more[i] = i
  <2> SUFFICES ASSUME NEW i \in 1 .. n + 1 PROVE more[i] = i
    OBVIOUS
  <2>1. more[i] = IF i <= n THEN comments[i] ELSE <<n + 1>>[i - n]
    BY <1>4
  <2>2. CASE i <= n
    <3>1. i \in 1 .. Len(comments)
      BY <1>1, <2>2
    <3> QED BY <1>1, <2>1, <2>2, <3>1
  <2>3. CASE ~(i <= n)
    <3>1. i = n + 1 /\ i - n = 1
      BY <1>1, <2>3
    <3> QED BY <1>3, <2>1, <2>3, <3>1
  <2> QED BY <2>2, <2>3
<1>6. more \in [1 .. n + 1 -> Nat]
  BY <1>4, LenProperties
<1> HIDE DEF more, n
<1>7. more = [i \in 1 .. Len(more) |-> i]
  BY <1>4, <1>5, <1>6
<1> QED BY <1>2, <1>7 DEF InOrder, more, n

(* The slot after a request was sent, refreshed, overtaken or finished.    *)
LEMMA SentTypes ==
    ASSUME NEW a \in Askings, NEW request \in GitHubRequests
    PROVE  /\ Sent(a, request) \in Askings
           /\ \/ Sent(a, request).slot = a.slot
              \/ a.slot = Nothing /\ Sent(a, request).slot = Asked(request)
<1>1. Asked(request) \in Slots
  BY DEF Asked, Slots
<1>2. [a EXCEPT !.slot = Asked(request)] \in Askings
  BY <1>1 DEF Askings
<1>3. [a EXCEPT !.slot = Asked(request)].slot = Asked(request)
  BY DEF Askings
<1> QED BY <1>2, <1>3 DEF Sent

LEMMA RefreshedTypes ==
    ASSUME NEW a \in Askings, NEW p \in Projects
    PROVE  /\ Refreshed(a, p) \in Askings
           /\ \/ Refreshed(a, p).slot = a.slot
              \/ a.slot = Nothing /\ Refreshed(a, p).slot = Asked(StatusRequest(p))
<1>1. StatusRequest(p) \in GitHubRequests
  BY DEF StatusRequest, GitHubRequests
<1> DEFINE b == [a EXCEPT !.deferred = Nothing]
           c == [a EXCEPT !.deferred = p]
<1>2. b \in Askings /\ b.slot = a.slot /\ c \in Askings /\ c.slot = a.slot
  BY DEF Askings
<1>3. Refreshed(a, p) = IF a.slot # Nothing THEN c ELSE Sent(b, StatusRequest(p))
  BY DEF Refreshed
<1> HIDE DEF b, c
<1> QED BY <1>1, <1>2, <1>3, SentTypes

LEMMA OvertakenTypes ==
    ASSUME NEW a \in Askings
    PROVE  /\ Overtaken(a) \in Askings
           /\ \/ a.slot = Nothing /\ Overtaken(a) = a
              \/ a.slot \in Slots /\ Overtaken(a).slot = [a.slot EXCEPT !.overtaken = TRUE]
<1>1. CASE a.slot = Nothing
  BY <1>1 DEF Overtaken
<1>2. CASE a.slot # Nothing
  <2>1. a.slot \in Slots
    BY <1>2 DEF Askings
  <2>2. [a.slot EXCEPT !.overtaken = TRUE] \in Slots
    BY <2>1 DEF Slots
  <2>3. Overtaken(a) = [a EXCEPT !.slot = [a.slot EXCEPT !.overtaken = TRUE]]
    BY <1>2 DEF Overtaken, Askings
  <2> QED BY <2>1, <2>2, <2>3 DEF Askings
<1> QED BY <1>1, <1>2

LEMMA FinishedTypes ==
    ASSUME NEW a \in Askings, NEW p \in Projects
    PROVE  /\ Finished(a, p) \in Askings
           /\ Finished(a, p).slot \in {Nothing, Asked(StatusRequest(p))}
<1> DEFINE free == [a EXCEPT !.slot = Nothing, !.deferred = Nothing]
<1>1. free \in Askings /\ free.slot = Nothing
  BY DEF Askings
<1> HIDE DEF free
<1> QED BY <1>1, RefreshedTypes DEF Finished, free

(* A request that is sent now, and a status, fit; one that is overtaken    *)
(* has nothing to ask for any more.                                        *)
LEMMA StatusFits ==
    ASSUME NEW p, NEW s
    PROVE  AnswersItsRequest(Asked(StatusRequest(p))) /\ AsksFor(Asked(StatusRequest(p)), s)
  BY DEF Asked, StatusRequest, AnswersItsRequest, AsksFor

LEMMA OvertakenFits ==
    ASSUME NEW a \in Askings, NEW s, NEW t, SlotFits(a, s)
    PROVE  SlotFits(Overtaken(a), t)
<1>1. CASE a.slot = Nothing
  BY <1>1 DEF Overtaken, SlotFits
<1>2. CASE a.slot # Nothing
  <2>1. a.slot \in Slots /\ Overtaken(a).slot = [a.slot EXCEPT !.overtaken = TRUE]
    BY <1>2, OvertakenTypes
  <2>2. AnswersItsRequest(a.slot)
    BY <1>2 DEF SlotFits
  <2>3. /\ Overtaken(a).slot.overtaken = TRUE
        /\ Overtaken(a).slot.request = a.slot.request
        /\ Overtaken(a).slot.answer = a.slot.answer
    BY <2>1 DEF Slots
  <2> QED BY <2>2, <2>3 DEF SlotFits, AnswersItsRequest, AsksFor
<1> QED BY <1>1, <1>2

LEMMA RefreshedFits ==
    ASSUME NEW a \in Askings, NEW p \in Projects, NEW s, SlotFits(a, s)
    PROVE  SlotFits(Refreshed(a, p), s)
  BY RefreshedTypes, StatusFits DEF SlotFits

LEMMA FinishedFits ==
    ASSUME NEW a \in Askings, NEW p \in Projects, NEW s
    PROVE  SlotFits(Finished(a, p), s)
  BY FinishedTypes, StatusFits DEF SlotFits

LEMMA SentFits ==
    ASSUME NEW a \in Askings, NEW request \in GitHubRequests, NEW s, SlotFits(a, s),
           AsksFor(Asked(request), s)
    PROVE  SlotFits(Sent(a, request), s)
<1>1. AnswersItsRequest(Asked(request))
  BY DEF Asked, AnswersItsRequest
<1> QED BY <1>1, SentTypes DEF SlotFits

(* A surface that was opened shows nothing yet and asks for its list.      *)
LEMMA OpenedFits ==
    ASSUME NEW p \in Projects, NEW k \in Kinds
    PROVE  /\ Opened(p, k) \in Surfaces
           /\ ShowsItsQuery(Opened(p, k))
           /\ ListRequest(Opened(p, k)) \in GitHubRequests
           /\ AsksFor(Asked(ListRequest(Opened(p, k))), Opened(p, k))
<1> DEFINE s == Opened(p, k)
           b == Blank(p, k)
<1>0. b = [project |-> p, kind |-> k, filters |-> NoFilter, cursor |-> 1,
           previous |-> <<>>, list |-> Idle, detail |-> Idle, selected |-> Nothing,
           mixed |-> FALSE, stray |-> FALSE]
  BY DEF Blank
<1>a. s = [b EXCEPT !.list = Loading(b.list)]
  BY DEF Opened, BeginList
<1> HIDE DEF b
<1>b. s = [b EXCEPT !.list = Loading(Idle)]
  BY <1>0, <1>a
<1>1. s = [project |-> p, kind |-> k, filters |-> NoFilter, cursor |-> 1,
           previous |-> <<>>, list |-> [state |-> "loading", value |-> Nothing],
           detail |-> [state |-> "idle", value |-> Nothing], selected |-> Nothing,
           mixed |-> FALSE, stray |-> FALSE]
  BY <1>0, <1>b DEF Loading, Idle
<1>2. <<>> \in Seq(Nat) /\ NoFilter \in Filters /\ p # Nothing
  BY GitHubAssumption
<1> HIDE DEF s
<1>3. s \in Surfaces
  BY <1>1, <1>2 DEF Surfaces, Loads
<1>4. ShowsItsQuery(s)
  BY <1>1, <1>2 DEF ShowsItsQuery, ListIsOfTheSurface, ListIsOfTheQuery, DetailIsOfTheItem
<1>5. ListRequest(s) \in GitHubRequests
  BY <1>1, <1>2 DEF ListRequest, GitHubRequests, Query, Queries
<1>6. AsksFor(Asked(ListRequest(s)), s)
  BY DEF AsksFor, Asked, ListRequest
<1> QED BY <1>3, <1>4, <1>5, <1>6 DEF s

LEMMA SurfaceInitInv == SurfaceInit => SurfaceInv
<1> SUFFICES ASSUME SurfaceInit PROVE SurfaceInv
  OBVIOUS
<1>1. /\ surface = [project |-> Nothing, kind |-> "issue", filters |-> NoFilter,
                    cursor |-> 1, previous |-> <<>>, list |-> Idle, detail |-> Idle,
                    selected |-> Nothing, mixed |-> FALSE, stray |-> FALSE]
      /\ <<>> \in Seq(Nat) /\ NoFilter \in Filters
  BY GitHubAssumption DEF SurfaceInit, Blank
<1>2. surface \in Surfaces /\ ShowsItsQuery(surface)
  <2>1. surface \in Surfaces
    BY <1>1 DEF Surfaces, Loads, Idle, Kinds
  <2>2. ShowsItsQuery(surface)
    BY <1>1 DEF ShowsItsQuery, ListIsOfTheSurface, ListIsOfTheQuery, DetailIsOfTheItem, Idle
  <2> QED BY <2>1, <2>2
<1>3. here \in Projects /\ asked = [slot |-> Asked(StatusRequest(here)), deferred |-> Nothing]
  BY DEF SurfaceInit
<1>4. Asked(StatusRequest(here)) \in Slots
  BY <1>3 DEF Asked, StatusRequest, Slots, GitHubRequests
<1>5. asked \in Askings
  BY <1>3, <1>4 DEF Askings
<1>6. SlotFits(asked, surface)
  BY <1>3, StatusFits DEF SlotFits
<1> QED BY <1>2, <1>3, <1>5, <1>6 DEF SurfaceInv, SurfaceTypeOK, SurfaceInit

(* What the user does with the surface, which waits for nothing then.      *)
LEMMA BrowseInv ==
    ASSUME SurfaceInv, NEW next \in Surfaces, NEW request \in GitHubRequests,
           ShowsItsQuery(next), AsksFor(Asked(request), next), Browse(next, request)
    PROVE  SurfaceInv'
<1>1. /\ surface' = next /\ asked' = Sent(asked, request) /\ asked.slot = Nothing
      /\ UNCHANGED <<repository, here, status>>
  BY DEF Browse
<1>2. asked \in Askings
  BY DEF SurfaceInv, SurfaceTypeOK
<1>3. SlotFits(asked, next)
  BY <1>1 DEF SlotFits
<1>4. asked' \in Askings
  BY <1>1, <1>2, SentTypes
<1>5. SlotFits(asked, surface)'
  BY <1>1, <1>2, <1>3, SentFits
<1> QED BY <1>1, <1>4, <1>5 DEF SurfaceInv, SurfaceTypeOK

LEMMA BrowseListInv ==
    ASSUME SurfaceInv, NEW s \in Surfaces, s.project \in Projects,
           ListIsOfTheSurface(s), DetailIsOfTheItem(s), BrowseList(s)
    PROVE  SurfaceInv'
<1> DEFINE next == [BeginList(s) EXCEPT !.mixed = FALSE]
<1>1. /\ next \in Surfaces
      /\ next.list = Loading(s.list)
      /\ \A field \in {"project", "kind", "filters", "cursor", "detail", "selected", "stray"} :
            next[field] = s[field]
  <2> DEFINE loading == Loading(s.list)
  <2>1. loading \in Loads(Lists)
    BY DEF Surfaces, Loads, Loading
  <2>2. BeginList(s) = [s EXCEPT !.list = loading]
    BY DEF BeginList
  <2> HIDE DEF loading
  <2> QED BY <2>1, <2>2 DEF Surfaces, loading
<1> HIDE DEF next
<1>2. next.list.state = "loading" /\ next.list.value = s.list.value
  BY <1>1 DEF Loading
<1>3. /\ next.project = s.project /\ next.kind = s.kind /\ next.filters = s.filters
      /\ next.cursor = s.cursor /\ next.detail = s.detail /\ next.selected = s.selected
      /\ next.stray = s.stray
  BY <1>1
<1>4. ShowsItsQuery(next)
  BY <1>2, <1>3 DEF ShowsItsQuery, ListIsOfTheSurface, ListIsOfTheQuery, DetailIsOfTheItem
<1>5. Query(next) = Query(s) /\ Query(s) \in Queries
  BY <1>3 DEF Query, Queries, Surfaces
<1>6. ListRequest(s) \in GitHubRequests
  BY <1>5 DEF ListRequest, GitHubRequests
<1>7. AsksFor(Asked(ListRequest(s)), next)
  BY <1>5 DEF AsksFor, Asked, ListRequest
<1>8. Browse(next, ListRequest(s))
  BY DEF BrowseList, next
<1> QED BY <1>1, <1>4, <1>6, <1>7, <1>8, BrowseInv

(* An item is looked at from its first page on.                            *)
LEMMA ViewingFits ==
    ASSUME NEW s \in Surfaces, NEW item \in Items, ShowsItsQuery(s)
    PROVE  /\ Viewing(s, item) \in Surfaces
           /\ Viewing(s, item).project = s.project
           /\ s.project \in Projects => ShowsItsQuery(Viewing(s, item))
<1> DEFINE next == Viewing(s, item)
<1>1. Loading(Idle) \in Loads(Details) /\ Loading(Idle).value = Nothing
  BY DEF Loading, Idle, Loads
<1>2. next \in Surfaces
  BY <1>1 DEF Surfaces, Viewing
<1>3. /\ next.project = s.project /\ next.kind = s.kind
      /\ next.filters = s.filters /\ next.cursor = s.cursor
      /\ next.list = s.list /\ next.mixed = s.mixed
      /\ next.detail = Loading(Idle)
  BY DEF Surfaces, Viewing
<1> HIDE DEF next
<1>4. ShowsItsQuery(next)
  BY <1>1, <1>3 DEF ShowsItsQuery, ListIsOfTheSurface, ListIsOfTheQuery, DetailIsOfTheItem
<1> QED BY <1>2, <1>3, <1>4 DEF next

LEMMA FirstPageFits ==
    ASSUME NEW s, NEW t, NEW item
    PROVE  AsksFor(Asked(ViewRequest(s, item, 1)), t)
BY DEF AsksFor, Asked, ViewRequest

(* What every browsing finds.                                              *)
LEMMA SurfaceFacts ==
    ASSUME SurfaceInv
    PROVE  /\ here \in Projects /\ surface \in Surfaces /\ asked \in Askings
           /\ surface.project # Nothing => surface.project \in Projects
           /\ ListIsOfTheSurface(surface) /\ ListIsOfTheQuery(surface)
           /\ DetailIsOfTheItem(surface)
           /\ SlotFits(asked, surface)
  BY DEF SurfaceInv, SurfaceTypeOK, Surfaces, ShowsItsQuery

LEMMA ListsInv ==
    ASSUME SurfaceInv
    PROVE  /\ \A f \in Filters : ApplyGitHubFilters(f) => SurfaceInv'
           /\ RefreshGitHubItems \/ NextGitHubPage \/ PreviousGitHubPage => SurfaceInv'
<1>1. ASSUME NEW f \in Filters, ApplyGitHubFilters(f) PROVE SurfaceInv'
  <2> DEFINE s == [surface EXCEPT !.filters = f, !.cursor = 1, !.previous = <<>>,
                                  !.selected = Nothing, !.detail = Idle, !.stray = FALSE]
  <2>1. surface.project \in Projects /\ surface \in Surfaces
    BY <1>1, SurfaceFacts DEF ApplyGitHubFilters, BrowseList, Browse
  <2>2. <<>> \in Seq(Nat) /\ Idle \in Loads(Details)
    BY DEF Idle, Loads
  <2>3. s \in Surfaces
    BY <1>1, <2>1, <2>2 DEF Surfaces
  <2>4. /\ s.project = surface.project /\ s.kind = surface.kind /\ s.list = surface.list
        /\ s.detail = Idle
    BY <2>1 DEF Surfaces
  <2>5. BrowseList(s)
    BY <1>1 DEF ApplyGitHubFilters
  <2> HIDE DEF s
  <2>6. ListIsOfTheSurface(s) /\ DetailIsOfTheItem(s)
    BY <2>4, SurfaceFacts DEF ListIsOfTheSurface, DetailIsOfTheItem, Idle
  <2> QED BY <2>1, <2>3, <2>4, <2>5, <2>6, BrowseListInv
<1>2. ASSUME RefreshGitHubItems PROVE SurfaceInv'
  <2>1. BrowseList(surface) /\ surface.project \in Projects
    BY <1>2, SurfaceFacts DEF RefreshGitHubItems, BrowseList, Browse
  <2> QED BY <2>1, SurfaceFacts, BrowseListInv
<1>3. ASSUME NEW s, s \in Surfaces, BrowseList(s),
             s.project = surface.project, s.kind = surface.kind, s.list = surface.list,
             s.detail = surface.detail, s.selected = surface.selected,
             s.stray = surface.stray
      PROVE  SurfaceInv'
  <2>1. s.project \in Projects
    BY <1>3, SurfaceFacts DEF BrowseList, Browse
  <2>2. ListIsOfTheSurface(s) /\ DetailIsOfTheItem(s)
    BY <1>3, SurfaceFacts DEF ListIsOfTheSurface, DetailIsOfTheItem
  <2> QED BY <1>3, <2>1, <2>2, BrowseListInv
<1>4. ASSUME NextGitHubPage PROVE SurfaceInv'
  <2> DEFINE s == Forward(surface)
  <2>1. surface \in Surfaces /\ surface.list.value # Nothing /\ BrowseList(s)
    BY <1>4, SurfaceFacts DEF NextGitHubPage, HasNext
  <2>2. surface.list.value.cursor + 1 \in Nat
    <3>1. surface.list.value \in Lists
      BY <2>1 DEF Surfaces, Loads
    <3> QED BY <3>1 DEF Lists
  <2>3. Append(surface.previous, surface.cursor) \in Seq(Nat)
    BY <2>1 DEF Surfaces
  <2>4. s = [surface EXCEPT !.previous = Append(surface.previous, surface.cursor),
                            !.cursor = surface.list.value.cursor + 1]
    BY DEF Forward
  <2> HIDE DEF s
  <2>5. s \in Surfaces
    BY <2>1, <2>2, <2>3, <2>4 DEF Surfaces
  <2>6. /\ s.project = surface.project /\ s.kind = surface.kind /\ s.list = surface.list
        /\ s.detail = surface.detail /\ s.selected = surface.selected
        /\ s.stray = surface.stray
    BY <2>1, <2>4 DEF Surfaces
  <2> QED BY <1>3, <2>1, <2>5, <2>6
<1>5. ASSUME PreviousGitHubPage PROVE SurfaceInv'
  <2> DEFINE s == Backward(surface)
  <2>1. surface \in Surfaces /\ surface.previous # <<>> /\ BrowseList(s)
    BY <1>5, SurfaceFacts DEF PreviousGitHubPage
  <2>2. surface.previous \in Seq(Nat)
    BY <2>1 DEF Surfaces
  <2>3. Front(surface.previous) \in Seq(Nat) /\ Last(surface.previous) \in Nat
    BY <2>1, <2>2 DEF Front, Last
  <2>4. s = [surface EXCEPT !.previous = Front(surface.previous),
                            !.cursor = Last(surface.previous)]
    BY DEF Backward
  <2> HIDE DEF s
  <2>5. s \in Surfaces
    BY <2>1, <2>3, <2>4 DEF Surfaces
  <2>6. /\ s.project = surface.project /\ s.kind = surface.kind /\ s.list = surface.list
        /\ s.detail = surface.detail /\ s.selected = surface.selected
        /\ s.stray = surface.stray
    BY <2>1, <2>4 DEF Surfaces
  <2> QED BY <1>3, <2>1, <2>5, <2>6
<1> QED BY <1>1, <1>2, <1>4, <1>5

(* A load that goes on shows what it showed.                               *)
LEMMA DetailsInv ==
    ASSUME SurfaceInv
    PROVE  SelectGitHubItem \/ RefreshGitHubDetail \/ LoadMoreGitHubComments => SurfaceInv'
<1>1. ASSUME NEW item \in Items, View(item) PROVE SurfaceInv'
  <2>1. surface \in Surfaces /\ surface.project \in Projects /\ ShowsItsQuery(surface)
    BY <1>1, SurfaceFacts DEF View, Browse, ShowsItsQuery
  <2>2. Browse(Viewing(surface, item), ViewRequest(surface, item, 1))
    BY <1>1 DEF View
  <2>3. ViewRequest(surface, item, 1) \in GitHubRequests
    BY <2>1 DEF ViewRequest, GitHubRequests
  <2>4. AsksFor(Asked(ViewRequest(surface, item, 1)), Viewing(surface, item))
    BY FirstPageFits
  <2> QED BY <2>1, <2>2, <2>3, <2>4, ViewingFits, BrowseInv
<1>2. ASSUME SelectGitHubItem PROVE SurfaceInv'
  <2>1. surface \in Surfaces /\ surface.list.value # Nothing
        /\ View(ItemOf(surface.list.value))
    BY <1>2, SurfaceFacts DEF SelectGitHubItem
  <2>2. surface.list.value \in Lists
    BY <2>1 DEF Surfaces, Loads
  <2>3. ItemOf(surface.list.value) \in Items
    BY <2>2 DEF ItemOf, Lists, Items
  <2> QED BY <1>1, <2>1, <2>3
<1>3. ASSUME RefreshGitHubDetail PROVE SurfaceInv'
  <2>1. surface.selected \in Items /\ View(surface.selected)
    BY <1>3, SurfaceFacts DEF RefreshGitHubDetail, Surfaces
  <2> QED BY <1>1, <2>1
<1>4. ASSUME LoadMoreGitHubComments PROVE SurfaceInv'
  <2> DEFINE next == [surface EXCEPT !.detail = Loading(surface.detail)]
             page == Last(surface.detail.value.comments) + 1
             request == ViewRequest(surface, surface.selected, page)
  <2>1. /\ surface \in Surfaces /\ surface.project \in Projects
        /\ surface.selected \in Items /\ surface.detail.value # Nothing
        /\ Browse(next, request)
    BY <1>4, SurfaceFacts DEF LoadMoreGitHubComments, HasMoreComments, Browse, Surfaces
  <2>2. surface.detail \in Loads(Details) /\ surface.detail.value \in Details
    BY <2>1 DEF Surfaces, Loads
  <2>3. DetailIsOfTheItem(surface)
    BY SurfaceFacts
  <2>4. surface.detail.value.comments \in Seq(Nat) /\ surface.detail.value.comments # <<>>
    BY <2>1, <2>2, <2>3 DEF Details, DetailIsOfTheItem
  <2>5. page \in Nat
    BY <2>4, LastTypes
  <2>6. Loading(surface.detail) \in Loads(Details)
        /\ Loading(surface.detail).value = surface.detail.value
    BY <2>2 DEF Loading, Loads
  <2>7. next \in Surfaces
    BY <2>1, <2>6 DEF Surfaces
  <2>8. /\ next.project = surface.project /\ next.kind = surface.kind
        /\ next.filters = surface.filters /\ next.cursor = surface.cursor
        /\ next.list = surface.list /\ next.mixed = surface.mixed
        /\ next.stray = surface.stray /\ next.selected = surface.selected
        /\ next.detail = Loading(surface.detail)
    BY <2>1 DEF Surfaces
  <2> HIDE DEF next
  <2>9. next.detail.value = surface.detail.value
    BY <2>6, <2>8
  <2>10. ShowsItsQuery(next)
    BY <2>8, <2>9, SurfaceFacts
       DEF ShowsItsQuery, ListIsOfTheSurface, ListIsOfTheQuery, DetailIsOfTheItem
  <2>11. /\ request.op = "view" /\ request.page = page /\ request.item = surface.selected
         /\ Asked(request).request = request
    BY DEF ViewRequest, Asked
  <2>12. request \in GitHubRequests
    BY <2>1, <2>5 DEF ViewRequest, GitHubRequests
  <2> HIDE DEF request
  <2>13. AsksFor(Asked(request), next)
    BY <2>1, <2>3, <2>9, <2>11 DEF AsksFor, DetailIsOfTheItem
  <2> QED BY <2>1, <2>7, <2>10, <2>12, <2>13, BrowseInv
<1> QED BY <1>2, <1>3, <1>4

(* Opening the surface of a Project, with a request for its list or none,  *)
(* or at the issue of a Worktree.                                          *)
LEMMA OpenedInv ==
    ASSUME SurfaceInv, NEW p \in Projects, NEW k \in Kinds, NEW a \in Askings,
           NEW s, SlotFits(a, s)
    PROVE  /\ Sent(Overtaken(a), ListRequest(Opened(p, k))) \in Askings
           /\ SlotFits(Sent(Overtaken(a), ListRequest(Opened(p, k))), Opened(p, k))
           /\ Refreshed(Overtaken(a), p) \in Askings
           /\ SlotFits(Refreshed(Overtaken(a), p), Opened(p, k))
<1>1. Overtaken(a) \in Askings /\ SlotFits(Overtaken(a), Opened(p, k))
  BY OvertakenTypes, OvertakenFits
<1> QED BY <1>1, OpenedFits, SentTypes, SentFits, RefreshedTypes, RefreshedFits

LEMMA WorkSourceInv ==
    ASSUME SurfaceInv, NEW p \in Projects, NEW item \in Items,
           OpenWorkSourceIssue(p, item)
    PROVE  SurfaceInv'
<1> DEFINE s == Viewing(Opened(p, item.kind), item)
           request == ViewRequest(s, item, 1)
<1>1. /\ asked \in Askings /\ SlotFits(asked, surface)
      /\ surface' = s /\ asked' = Sent(Overtaken(asked), request)
      /\ here' = p /\ UNCHANGED <<repository, status>>
  BY SurfaceFacts DEF OpenWorkSourceIssue
<1>2. Opened(p, item.kind) \in Surfaces /\ ShowsItsQuery(Opened(p, item.kind))
  BY OpenedFits DEF Items
<1>3. Opened(p, item.kind).project = p
  BY DEF Opened, BeginList, Blank
<1>4. s \in Surfaces /\ ShowsItsQuery(s) /\ s.project = p
  BY <1>2, <1>3, ViewingFits
<1>5. request \in GitHubRequests
  BY <1>4 DEF ViewRequest, GitHubRequests
<1>6. AsksFor(Asked(request), s)
  BY FirstPageFits
<1> HIDE DEF s, request
<1>7. asked' \in Askings /\ SlotFits(asked', s)
  BY <1>1, <1>5, <1>6, OvertakenTypes, OvertakenFits, SentTypes, SentFits
<1> QED BY <1>1, <1>4, <1>7 DEF SurfaceInv, SurfaceTypeOK

LEMMA SelectProjectInv ==
    ASSUME SurfaceInv, NEW p \in Projects, SelectProject(p)
    PROVE  SurfaceInv'
<1>1. /\ asked \in Askings /\ SlotFits(asked, surface) /\ surface \in Surfaces
      /\ surface.kind \in Kinds /\ ShowsItsQuery(surface)
  BY DEF SurfaceInv, SurfaceTypeOK, Surfaces
<1>2. CASE onGitHub
  <2>1. surface' = Opened(p, surface.kind) /\ asked' = Refreshed(Overtaken(asked), p)
    BY <1>2 DEF SelectProject
  <2>2. asked' \in Askings /\ SlotFits(asked', surface')
    BY <1>1, <2>1, OpenedInv
  <2>3. surface' \in Surfaces /\ ShowsItsQuery(surface')
    BY <1>1, <2>1, OpenedFits
  <2> QED BY <2>2, <2>3 DEF SurfaceInv, SurfaceTypeOK, SelectProject
<1>3. CASE ~onGitHub
  <2>1. surface' = surface /\ asked' = Refreshed(asked, p)
    BY <1>3 DEF SelectProject
  <2>2. asked' \in Askings /\ SlotFits(asked', surface)
    BY <1>1, <2>1, RefreshedTypes, RefreshedFits
  <2> QED BY <1>1, <2>1, <2>2 DEF SurfaceInv, SurfaceTypeOK, SelectProject
<1> QED BY <1>2, <1>3

LEMMA SelectWorktreeInv ==
    ASSUME SurfaceInv, NEW p \in Projects, SelectWorktreeOf(p)
    PROVE  SurfaceInv'
<1>1. asked \in Askings /\ SlotFits(asked, surface)
  BY SurfaceFacts
<1>2. asked' \in Askings /\ SlotFits(asked', surface)
  <2>1. asked' \in {asked, Overtaken(asked)}
    BY DEF SelectWorktreeOf
  <2> QED BY <1>1, <2>1, OvertakenTypes, OvertakenFits
<1> QED BY <1>2 DEF SurfaceInv, SurfaceTypeOK, SelectWorktreeOf

LEMMA OpenTabInv ==
    ASSUME SurfaceInv, NEW k \in Kinds, OpenTab(k)
    PROVE  SurfaceInv'
<1>1. here \in Projects /\ asked \in Askings /\ SlotFits(asked, surface)
  BY SurfaceFacts
<1>2. /\ surface' = Opened(here, k)
      /\ asked' \in {Sent(Overtaken(asked), ListRequest(Opened(here, k))),
                     Refreshed(Overtaken(asked), here)}
      /\ status' \in {status, Nothing} /\ UNCHANGED <<repository, here>>
  BY DEF OpenTab
<1>3. asked' \in Askings /\ SlotFits(asked', surface')
  BY <1>1, <1>2, OpenedInv
<1>4. surface' \in Surfaces /\ ShowsItsQuery(surface')
  BY <1>1, <1>2, OpenedFits
<1> QED BY <1>2, <1>3, <1>4 DEF SurfaceInv, SurfaceTypeOK

LEMMA BackToListInv ==
    ASSUME SurfaceInv, BackToList
    PROVE  SurfaceInv'
<1> DEFINE next == [surface EXCEPT !.selected = Nothing, !.detail = Idle, !.stray = FALSE]
<1>1. /\ asked \in Askings /\ SlotFits(asked, surface) /\ surface \in Surfaces
      /\ surface' = next /\ asked' = Overtaken(asked)
      /\ UNCHANGED <<repository, here, status>>
  BY SurfaceFacts DEF BackToList
<1>2. asked' \in Askings /\ SlotFits(asked', next)
  BY <1>1, OvertakenTypes, OvertakenFits
<1>3. Idle \in Loads(Details) /\ Idle.value = Nothing
  BY DEF Idle, Loads
<1>4. next \in Surfaces
  BY <1>1, <1>3 DEF Surfaces
<1>5. /\ next.project = surface.project /\ next.kind = surface.kind
      /\ next.filters = surface.filters /\ next.cursor = surface.cursor
      /\ next.list = surface.list /\ next.mixed = surface.mixed
      /\ next.detail = Idle
  BY <1>1 DEF Surfaces
<1> HIDE DEF next
<1>6. ShowsItsQuery(next)
  BY <1>3, <1>5, SurfaceFacts
     DEF ShowsItsQuery, ListIsOfTheSurface, ListIsOfTheQuery, DetailIsOfTheItem
<1> QED BY <1>1, <1>2, <1>4, <1>6 DEF SurfaceInv, SurfaceTypeOK

(* GitHubRequests that leave the surface as it is.                               *)
LEMMA AskingInv ==
    ASSUME SurfaceInv, UNCHANGED <<here, status, surface>>,
           repository' \in [Projects -> Repositories],
           asked' \in Askings, SlotFits(asked', surface)
    PROVE  SurfaceInv'
  BY DEF SurfaceInv, SurfaceTypeOK

LEMMA RequestsInv ==
    ASSUME SurfaceInv
    PROVE  /\ AskStatus \/ OtherRequest \/ ReceiveOther => SurfaceInv'
           /\ \A r \in Repositories : Associate(r) => SurfaceInv'
           /\ \A p \in Projects : AssociationNews(p) => SurfaceInv'
           /\ \A p \in Projects, r \in Repositories : OtherClientAssociates(p, r) => SurfaceInv'
<1>1. /\ here \in Projects /\ asked \in Askings /\ SlotFits(asked, surface)
      /\ repository \in [Projects -> Repositories] /\ surface \in Surfaces
  BY DEF SurfaceInv, SurfaceTypeOK
<1>2. ASSUME AskStatus PROVE SurfaceInv'
  BY <1>1, <1>2, RefreshedTypes, RefreshedFits, AskingInv DEF AskStatus
<1>3. ASSUME OtherRequest PROVE SurfaceInv'
  <2> DEFINE request == [op |-> "other", project |-> surface.project]
  <2>1. surface.project \in Projects
    <3>1. DetailIsOfTheItem(surface) /\ surface.detail.value # Nothing
      BY <1>3, SurfaceFacts DEF OtherRequest
    <3> QED BY <1>1, <3>1, SurfaceFacts DEF DetailIsOfTheItem
  <2>2. request \in GitHubRequests /\ AsksFor(Asked(request), surface)
    BY <2>1 DEF GitHubRequests, AsksFor, Asked
  <2>3. asked' = Sent(asked, request) /\ UNCHANGED <<here, status, surface, repository>>
    BY <1>3 DEF OtherRequest
  <2> HIDE DEF request
  <2> QED BY <1>1, <2>2, <2>3, SentTypes, SentFits, AskingInv
<1>4. ASSUME ReceiveOther PROVE SurfaceInv'
  BY <1>1, <1>4, FinishedTypes, FinishedFits, AskingInv DEF ReceiveOther, Answered
<1>5. ASSUME NEW r \in Repositories, Associate(r) PROVE SurfaceInv'
  <2> DEFINE request == [op |-> "associate", project |-> here, repository |-> r]
  <2>1. request \in GitHubRequests /\ AsksFor(Asked(request), surface)
    BY <1>1 DEF GitHubRequests, AsksFor, Asked
  <2>2. asked' = Sent(asked, request) /\ UNCHANGED <<here, status, surface, repository>>
    BY <1>5 DEF Associate
  <2> HIDE DEF request
  <2> QED BY <1>1, <2>1, <2>2, SentTypes, SentFits, AskingInv
<1>6. ASSUME NEW p \in Projects, AssociationNews(p) PROVE SurfaceInv'
  <2>1. asked' \in {asked, Refreshed(asked, p)} /\ UNCHANGED <<here, status, surface, repository>>
    BY <1>6 DEF AssociationNews
  <2> QED BY <1>1, <2>1, RefreshedTypes, RefreshedFits, AskingInv
<1>7. ASSUME NEW p \in Projects, NEW r \in Repositories, OtherClientAssociates(p, r)
      PROVE  SurfaceInv'
  BY <1>1, <1>7, AskingInv DEF OtherClientAssociates, SetAssociation
<1> QED BY <1>2, <1>3, <1>4, <1>5, <1>6, <1>7

(* What the daemon finds.                                                  *)
LEMMA FoundAnswers ==
    ASSUME NEW q \in Slots, repository \in [Projects -> Repositories],
           NEW said, said = [is |-> "found", found |-> Found(q.request)]
    PROVE  /\ said \in GitHubAnswers
           /\ AnswersItsRequest([q EXCEPT !.answer = said])
<1> DEFINE r == q.request
           t == [q EXCEPT !.answer = said]
<1>1. r \in GitHubRequests /\ t.request = r /\ t.answer = said
  BY DEF Slots
<1>2. said.is = "found" /\ said.found = Found(r)
  BY DEF Found
<1> HIDE DEF r, t
<1>3. CASE r \in [op : {"list"}, project : Projects, query : Queries]
  <2> DEFINE list == [project |-> r.project, repository |-> repository[r.project],
                      kind |-> r.query.kind, filters |-> r.query.filters,
                      cursor |-> r.query.cursor]
  <2>1. Found(r) = list /\ r.op = "list" /\ repository[r.project] \in Repositories
    BY <1>3 DEF Found
  <2>2. list \in Lists
    BY <1>3 DEF Lists, Queries
  <2> HIDE DEF list
  <2>3. said \in GitHubAnswers
    BY <2>1, <2>2 DEF GitHubAnswers, r
  <2>4. AnswersItsRequest(t)
    BY <1>1, <1>2, <2>1 DEF AnswersItsRequest, list
  <2> QED BY <2>3, <2>4 DEF t
<1>4. CASE r \in [op : {"view"}, project : Projects, item : Items, page : Nat]
  <2> DEFINE detail == [item |-> r.item, comments |-> <<r.page>>]
  <2>1. Found(r) = detail /\ r.op = "view"
    BY <1>4 DEF Found
  <2>2. detail \in Details
    <3>1. <<r.page>> \in Seq(Nat)
      BY <1>4
    <3> QED BY <1>4, <3>1 DEF Details
  <2> HIDE DEF detail
  <2>3. said \in GitHubAnswers
    BY <2>1, <2>2 DEF GitHubAnswers, r
  <2>4. AnswersItsRequest(t)
    BY <1>1, <1>2, <2>1 DEF AnswersItsRequest, detail
  <2> QED BY <2>3, <2>4 DEF t
<1>5. CASE r \in [op : {"associate"}, project : Projects, repository : Repositories]
               \cup [op : {"status", "other"}, project : Projects]
  <2>1. Found(r) \in Repositories /\ r.op \in {"associate", "status", "other"}
    BY <1>5 DEF Found
  <2>2. said \in GitHubAnswers
    BY <2>1 DEF GitHubAnswers, r
  <2>3. AnswersItsRequest(t)
    BY <1>1, <1>2, <2>1 DEF AnswersItsRequest
  <2> QED BY <2>2, <2>3 DEF t
<1> QED BY <1>1, <1>3, <1>4, <1>5 DEF GitHubRequests

LEMMA DaemonAnswersInv ==
    ASSUME SurfaceInv, DaemonAnswers
    PROVE  SurfaceInv'
<1>1. /\ asked \in Askings /\ SlotFits(asked, surface) /\ asked.slot # Nothing
      /\ repository \in [Projects -> Repositories]
      /\ UNCHANGED <<here, status, surface>>
  BY DEF SurfaceInv, SurfaceTypeOK, DaemonAnswers
<1>2. asked.slot \in Slots /\ asked.slot.request \in GitHubRequests
  BY <1>1 DEF Askings, Slots
<1>3. PICK said : /\ asked' = [asked EXCEPT !.slot.answer = said]
                  /\ \/ said = [is |-> "found", found |-> Found(asked.slot.request)]
                     \/ said \in [is : {"browse", "failure"}]
  BY ZenonT(60) DEF DaemonAnswers
<1> DEFINE q == [asked.slot EXCEPT !.answer = said]
<1>4. said \in GitHubAnswers /\ AnswersItsRequest(q)
  <2>1. CASE said = [is |-> "found", found |-> Found(asked.slot.request)]
    BY <1>1, <1>2, <2>1, FoundAnswers
  <2>2. CASE said \in [is : {"browse", "failure"}]
    <3>1. q.answer = said
      BY <1>2 DEF Slots
    <3> QED BY <2>2, <3>1 DEF GitHubAnswers, AnswersItsRequest
  <2> QED BY <1>3, <2>1, <2>2
<1>5. q \in Slots /\ q.request = asked.slot.request /\ q.overtaken = asked.slot.overtaken
  BY <1>2, <1>4 DEF Slots
<1>6. asked' = [asked EXCEPT !.slot = q]
  BY <1>1, <1>3 DEF Askings
<1> HIDE DEF q
<1>7. asked' \in Askings /\ asked'.slot = q
  BY <1>1, <1>5, <1>6 DEF Askings
<1>8. AsksFor(q, surface)
  BY <1>1, <1>5 DEF SlotFits, AsksFor
<1>9. repository' \in [Projects -> Repositories]
  <2>1. CASE repository' = repository
    BY <1>1, <2>1
  <2>2. CASE /\ asked.slot.request.op = "associate"
             /\ SetAssociation(asked.slot.request.project, asked.slot.request.repository)
    <3>1. asked.slot.request.repository \in Repositories
      BY <1>2, <2>2 DEF GitHubRequests
    <3> QED BY <1>1, <2>2, <3>1 DEF SetAssociation
  <2> QED BY <2>1, <2>2 DEF DaemonAnswers
<1> QED BY <1>1, <1>4, <1>7, <1>8, <1>9, AskingInv DEF SlotFits

(* What every answer finds: it is the one of the request.                  *)
LEMMA AnsweredFacts ==
    ASSUME SurfaceInv, NEW op, Answered(op)
    PROVE  /\ asked.slot \in Slots /\ Requested \in GitHubRequests /\ Requested.op = op
           /\ Answer # Nothing
           /\ AnswersItsRequest(asked.slot) /\ AsksFor(asked.slot, surface)
           /\ Finished(asked, here) \in Askings
           /\ \A s : SlotFits(Finished(asked, here), s)
           /\ UNCHANGED <<repository, here>>
<1>1. /\ asked \in Askings /\ SlotFits(asked, surface) /\ asked.slot # Nothing
      /\ here \in Projects
  BY SurfaceFacts DEF Answered
<1>2. asked.slot \in Slots
  BY <1>1 DEF Askings
<1>3. Requested \in GitHubRequests
  BY <1>2 DEF Slots, Requested
<1> QED BY <1>1, <1>2, <1>3, FinishedTypes, FinishedFits
        DEF Answered, Requested, Answer, SlotFits

(* The surface is reopened, and asks for its list.                         *)
LEMMA ReopenInv ==
    ASSUME SurfaceInv, NEW a \in Askings, NEW s, SlotFits(a, s), Reopen(a)
    PROVE  /\ surface' \in Surfaces /\ ShowsItsQuery(surface')
           /\ asked' \in Askings /\ SlotFits(asked', surface')
<1>1. here \in Projects /\ surface.kind \in Kinds
  BY SurfaceFacts DEF Surfaces
<1> QED BY <1>1, OpenedFits, OpenedInv DEF Reopen

LEMMA ReceiveStatusInv ==
    ASSUME SurfaceInv, ReceiveStatus
    PROVE  SurfaceInv'
<1>1. Answered("status")
  BY DEF ReceiveStatus
<1> DEFINE a == Finished(asked, here)
<1>2. /\ a \in Askings /\ SlotFits(a, surface) /\ UNCHANGED <<repository, here>>
      /\ here \in Projects /\ surface \in Surfaces /\ ShowsItsQuery(surface)
  BY <1>1, AnsweredFacts, SurfaceFacts DEF ShowsItsQuery
<1>3. CASE Came
  <2>1. Answer.found \in Repositories
    BY <1>1, <1>3, AnsweredFacts DEF Came, AnswersItsRequest, Answer, Requested
  <2>2. status' = [project |-> here, repository |-> Answer.found]
    BY <1>3 DEF ReceiveStatus
  <2>3. status' \in [project : Projects, repository : Repositories]
    BY <1>2, <2>1, <2>2
  <2>4. \/ Reopen(a)
        \/ asked' = a /\ UNCHANGED surface
    BY <1>3 DEF ReceiveStatus
  <2> HIDE DEF a
  <2>5. /\ surface' \in Surfaces /\ ShowsItsQuery(surface')
        /\ asked' \in Askings /\ SlotFits(asked', surface')
    BY <1>2, <2>4, ReopenInv
  <2> QED BY <1>2, <2>3, <2>5 DEF SurfaceInv, SurfaceTypeOK
<1>4. CASE ~Came
  BY <1>2, <1>4 DEF ReceiveStatus, SurfaceInv, SurfaceTypeOK
<1> QED BY <1>3, <1>4

LEMMA ReceiveAssociationInv ==
    ASSUME SurfaceInv, ReceiveAssociation
    PROVE  SurfaceInv'
<1>1. Answered("associate")
  BY DEF ReceiveAssociation
<1> DEFINE a == Finished(asked, here)
           b == IF status = Nothing THEN Refreshed(a, here) ELSE a
<1>2. /\ a \in Askings /\ SlotFits(a, surface) /\ UNCHANGED <<repository, here>>
      /\ here \in Projects /\ surface \in Surfaces /\ ShowsItsQuery(surface)
  BY <1>1, AnsweredFacts, SurfaceFacts DEF ShowsItsQuery
<1>3. b \in Askings /\ SlotFits(b, surface)
  <2> HIDE DEF a
  <2> QED BY <1>2, RefreshedTypes, RefreshedFits
<1>4. CASE Came
  <2>1. Answer.found \in Repositories
    BY <1>1, <1>4, AnsweredFacts DEF Came, AnswersItsRequest, Answer, Requested
  <2>2. status' \in {Nothing, [project |-> here, repository |-> Answer.found]}
    BY <1>4 DEF ReceiveAssociation
  <2>3. status' \in [project : Projects, repository : Repositories] \cup {Nothing}
    BY <1>2, <2>1, <2>2
  <2>4. \/ Reopen(b)
        \/ asked' = b /\ UNCHANGED surface
    BY <1>4 DEF ReceiveAssociation
  <2> HIDE DEF a, b
  <2>5. /\ surface' \in Surfaces /\ ShowsItsQuery(surface')
        /\ asked' \in Askings /\ SlotFits(asked', surface')
    BY <1>2, <1>3, <2>4, ReopenInv
  <2> QED BY <1>2, <2>3, <2>5 DEF SurfaceInv, SurfaceTypeOK
<1>5. CASE ~Came
  BY <1>2, <1>5 DEF ReceiveAssociation, SurfaceInv, SurfaceTypeOK
<1> QED BY <1>4, <1>5

LEMMA ReceiveListInv ==
    ASSUME SurfaceInv, ReceiveList
    PROVE  SurfaceInv'
<1>1. Answered("list") /\ asked' = Finished(asked, here) /\ UNCHANGED status
  BY DEF ReceiveList
<1>2. /\ asked' \in Askings /\ SlotFits(asked', surface') /\ UNCHANGED <<repository, here>>
      /\ here \in Projects /\ surface \in Surfaces /\ ShowsItsQuery(surface)
  BY <1>1, AnsweredFacts, SurfaceFacts DEF ShowsItsQuery
<1>3. surface' \in Surfaces /\ ShowsItsQuery(surface')
  <2>1. CASE surface' = surface
    BY <1>2, <2>1
  <2>2. CASE surface' = [surface EXCEPT !.list = Failed]
    <3>1. Failed \in Loads(Lists) /\ Failed.value = Nothing /\ Failed.state = "failed"
      BY DEF Failed, Loads
    <3>2. surface' \in Surfaces
      BY <1>2, <2>2, <3>1 DEF Surfaces
    <3>3. /\ surface'.project = surface.project /\ surface'.detail = surface.detail
          /\ surface'.selected = surface.selected /\ surface'.stray = surface.stray
          /\ surface'.list = Failed
      BY <1>2, <2>2 DEF Surfaces
    <3> QED BY <1>2, <3>1, <3>2, <3>3
            DEF ShowsItsQuery, ListIsOfTheSurface, ListIsOfTheQuery, DetailIsOfTheItem
  <2>3. CASE /\ Requested.project = here /\ surface.project = here
             /\ surface.kind = Requested.query.kind /\ Answer.is = "found"
             /\ surface' = [surface EXCEPT !.list = Ready(Answer.found),
                                           !.mixed = asked.slot.overtaken]
    <3>1. PICK r \in Repositories :
             Answer.found = [project |-> Requested.project, repository |-> r,
                             kind |-> Requested.query.kind,
                             filters |-> Requested.query.filters,
                             cursor |-> Requested.query.cursor]
      BY <1>1, <2>3, AnsweredFacts DEF AnswersItsRequest, Answer, Requested
    <3>2. /\ Requested.project \in Projects /\ Requested.query \in Queries
          /\ asked.slot.overtaken \in BOOLEAN
      <4>1. Requested \in GitHubRequests /\ Requested.op = "list" /\ asked.slot \in Slots
        BY <1>1, AnsweredFacts
      <4> QED BY <4>1 DEF GitHubRequests, Slots
    <3>3. Answer.found \in Lists
      BY <3>1, <3>2 DEF Lists, Queries
    <3>4. Ready(Answer.found) \in Loads(Lists) /\ Ready(Answer.found).value = Answer.found
      BY <3>3 DEF Ready, Loads
    <3>5. surface' \in Surfaces
      BY <1>2, <2>3, <3>2, <3>4 DEF Surfaces
    <3>6. /\ surface'.project = surface.project /\ surface'.detail = surface.detail
          /\ surface'.kind = surface.kind /\ surface'.filters = surface.filters
          /\ surface'.cursor = surface.cursor
          /\ surface'.selected = surface.selected /\ surface'.stray = surface.stray
          /\ surface'.list = Ready(Answer.found) /\ surface'.mixed = asked.slot.overtaken
      BY <1>2, <2>3 DEF Surfaces
    <3>7. surface'.list.value = Answer.found
      BY <3>4, <3>6
    <3>8. ListIsOfTheSurface(surface')
      BY <2>3, <3>1, <3>6, <3>7 DEF ListIsOfTheSurface
    <3>9. ListIsOfTheQuery(surface')
      <4>1. ~asked.slot.overtaken => Requested.query = Query(surface)
        BY <1>1, AnsweredFacts DEF AsksFor, Requested
      <4> QED BY <3>1, <3>6, <3>7, <4>1 DEF ListIsOfTheQuery, Query
    <3>10. DetailIsOfTheItem(surface')
      BY <1>2, <3>6 DEF ShowsItsQuery, DetailIsOfTheItem
    <3> QED BY <3>5, <3>8, <3>9, <3>10 DEF ShowsItsQuery
  <2>4. CASE ~(/\ Requested.project = here /\ surface.project = here
               /\ surface.kind = Requested.query.kind)
    <3>1. surface' = surface
      BY <2>4 DEF ReceiveList
    <3> QED BY <2>1, <3>1
  <2>5. CASE /\ Requested.project = here /\ surface.project = here
             /\ surface.kind = Requested.query.kind
    <3>1. CASE Answer.is = "found"
      <4>1. surface' = [surface EXCEPT !.list = Ready(Answer.found),
                                       !.mixed = asked.slot.overtaken]
        BY <2>5, <3>1 DEF ReceiveList
      <4> QED BY <2>3, <2>5, <3>1, <4>1
    <3>2. CASE Answer.is # "found"
      <4>1. surface' \in {surface, [surface EXCEPT !.list = Failed]}
        BY <2>5, <3>2 DEF ReceiveList
      <4> QED BY <2>1, <2>2, <4>1
    <3> QED BY <3>1, <3>2
  <2> QED BY <2>4, <2>5
<1> QED BY <1>1, <1>2, <1>3 DEF SurfaceInv, SurfaceTypeOK

LEMMA ReceiveDetailInv ==
    ASSUME SurfaceInv, ReceiveDetail
    PROVE  SurfaceInv'
<1>1. Answered("view") /\ asked' = Finished(asked, here) /\ UNCHANGED status
  BY DEF ReceiveDetail
<1>2. /\ asked' \in Askings /\ SlotFits(asked', surface') /\ UNCHANGED <<repository, here>>
      /\ here \in Projects /\ surface \in Surfaces /\ ShowsItsQuery(surface)
  BY <1>1, AnsweredFacts, SurfaceFacts DEF ShowsItsQuery
<1> DEFINE shown == IF Requested.page = 1 THEN Answer.found
                    ELSE Appended(surface.detail, Answer.found)
           stray == asked.slot.overtaken \/ (surface.stray /\ Requested.page # 1)
<1>3. surface' \in Surfaces /\ ShowsItsQuery(surface')
  <2>1. CASE surface' = surface
    BY <1>2, <2>1
  <2>2. CASE surface' = [surface EXCEPT !.detail = Failed]
    <3>1. Failed \in Loads(Details) /\ Failed.value = Nothing
      BY DEF Failed, Loads
    <3>2. surface' \in Surfaces
      BY <1>2, <2>2, <3>1 DEF Surfaces
    <3>3. /\ surface'.project = surface.project /\ surface'.kind = surface.kind
          /\ surface'.filters = surface.filters /\ surface'.cursor = surface.cursor
          /\ surface'.list = surface.list /\ surface'.mixed = surface.mixed
          /\ surface'.detail = Failed
      BY <1>2, <2>2 DEF Surfaces
    <3> QED BY <1>2, <3>1, <3>2, <3>3
            DEF ShowsItsQuery, ListIsOfTheSurface, ListIsOfTheQuery, DetailIsOfTheItem
  <2>3. CASE /\ surface.project = here /\ Answer.is = "found"
             /\ surface' = [surface EXCEPT !.selected = shown.item, !.detail = Ready(shown),
                                           !.stray = stray]
    <3>1. /\ Requested.item \in Items /\ Requested.page \in Nat /\ Requested.op = "view"
          /\ asked.slot.overtaken \in BOOLEAN
      <4>1. Requested \in GitHubRequests /\ Requested.op = "view" /\ asked.slot \in Slots
        BY <1>1, AnsweredFacts
      <4> QED BY <4>1 DEF GitHubRequests, Slots
    <3>2. Answer.found = [item |-> Requested.item, comments |-> <<Requested.page>>]
      BY <1>1, <2>3, AnsweredFacts DEF AnswersItsRequest, Answer, Requested
    <3>3. /\ <<Requested.page>> \in Seq(Nat) /\ Len(<<Requested.page>>) = 1
          /\ <<Requested.page>> # <<>>
      BY <3>1
    <3>4. Answer.found \in Details
      BY <3>1, <3>2, <3>3 DEF Details
    <3>5. /\ shown \in Details /\ shown.comments # <<>>
          /\ ~stray => InOrder(shown.comments)
      <4>1. CASE Requested.page = 1
        <5>1. InOrder(<<1>>)
          BY DEF InOrder
        <5> QED BY <3>2, <3>3, <3>4, <4>1, <5>1
      <4>2. CASE Requested.page # 1 /\ surface.detail.value # Nothing
                 /\ surface.detail.value.item = Requested.item
        <5> DEFINE old == surface.detail.value.comments
                   page == <<Requested.page>>
        <5>1. shown = [Answer.found EXCEPT !.comments = old \o Answer.found.comments]
          BY <3>2, <4>2 DEF Appended
        <5>2. old \in Seq(Nat) /\ old # <<>>
          BY <1>2, <4>2 DEF Surfaces, Loads, Details, ShowsItsQuery, DetailIsOfTheItem
        <5>3. Answer.found.comments = page /\ page \in Seq(Nat) /\ Len(page) = 1
          BY <3>2, <3>3
        <5>4. ~stray => InOrder(old) /\ Requested.page = Last(old) + 1
          <6>1. ~stray => ~asked.slot.overtaken /\ ~surface.stray
            BY <3>1, <4>2
          <6>2. ~surface.stray => InOrder(old)
            BY <1>2, <4>2 DEF ShowsItsQuery, DetailIsOfTheItem
          <6>3. ~asked.slot.overtaken => Requested.page = Last(old) + 1
            BY <1>1, <3>1, <4>2, AnsweredFacts DEF AsksFor, Requested
          <6> QED BY <6>1, <6>2, <6>3
        <5>5. ~stray => InOrder(old \o page)
          BY <5>2, <5>4, InOrderGrows
        <5> HIDE DEF old, page, stray
        <5>6. old \o page \in Seq(Nat) /\ old \o page # <<>>
          <6>1. Len(old \o page) = Len(old) + Len(page) /\ old \o page \in Seq(Nat)
            BY <5>2, <5>3, ConcatProperties
          <6>2. Len(old) \in Nat
            BY <5>2
          <6>3. Len(old \o page) # 0
            BY <5>3, <6>1, <6>2
          <6> QED BY <6>1, <6>3
        <5>7. shown = [Answer.found EXCEPT !.comments = old \o page]
          BY <5>1, <5>3
        <5> HIDE DEF shown
        <5>8. shown \in Details /\ shown.comments = old \o page
          BY <3>4, <5>6, <5>7 DEF Details
        <5> QED BY <5>5, <5>6, <5>8
      <4>3. CASE Requested.page # 1
                 /\ ~(surface.detail.value # Nothing
                      /\ surface.detail.value.item = Requested.item)
        <5>1. shown = Answer.found
          BY <3>2, <4>3 DEF Appended
        <5>2. asked.slot.overtaken
          BY <1>1, <3>1, <4>3, AnsweredFacts DEF AsksFor, Requested
        <5>3. stray
          BY <5>2
        <5> HIDE DEF shown, stray
        <5>4. shown.comments = <<Requested.page>>
          BY <3>2, <5>1
        <5> QED BY <3>3, <3>4, <5>1, <5>3, <5>4
      <4> QED BY <4>1, <4>2, <4>3
    <3>6. stray \in BOOLEAN
      BY <1>2, <3>1 DEF Surfaces
    <3> HIDE DEF shown, stray
    <3>7. Ready(shown) \in Loads(Details) /\ Ready(shown).value = shown /\ shown.item \in Items
      BY <3>5 DEF Ready, Loads, Details
    <3>8. surface' \in Surfaces
      BY <1>2, <2>3, <3>6, <3>7 DEF Surfaces
    <3>9. /\ surface'.project = surface.project /\ surface'.kind = surface.kind
          /\ surface'.filters = surface.filters /\ surface'.cursor = surface.cursor
          /\ surface'.list = surface.list /\ surface'.mixed = surface.mixed
          /\ surface'.detail = Ready(shown) /\ surface'.selected = shown.item
          /\ surface'.stray = stray
      BY <1>2, <2>3 DEF Surfaces
    <3>10. ListIsOfTheSurface(surface') /\ ListIsOfTheQuery(surface')
      BY <1>2, <3>9 DEF ShowsItsQuery, ListIsOfTheSurface, ListIsOfTheQuery
    <3>11. DetailIsOfTheItem(surface')
      <4>1. surface'.project # Nothing
        BY <1>2, <2>3, <3>9, GitHubAssumption
      <4> QED BY <3>5, <3>7, <3>9, <4>1 DEF DetailIsOfTheItem
    <3> QED BY <3>8, <3>10, <3>11 DEF ShowsItsQuery
  <2> HIDE DEF shown, stray
  <2>4. CASE /\ Requested.project = here /\ surface.project = here /\ Answer.is = "found"
    <3>1. surface' = [surface EXCEPT !.selected = shown.item, !.detail = Ready(shown),
                                     !.stray = stray]
      BY <2>4 DEF ReceiveDetail, shown, stray
    <3> QED BY <2>3, <2>4, <3>1
  <2>5. CASE ~(/\ Requested.project = here /\ surface.project = here /\ Answer.is = "found")
    <3>1. surface' \in {surface, [surface EXCEPT !.detail = Failed]}
      BY <2>5 DEF ReceiveDetail
    <3> QED BY <2>1, <2>2, <3>1
  <2> QED BY <2>4, <2>5
<1> QED BY <1>1, <1>2, <1>3 DEF SurfaceInv, SurfaceTypeOK

(* The surface, its requests and their answers keep to the query.          *)
THEOREM SurfaceInvariance == SurfaceSpec => []SurfaceInv
<1>1. SurfaceInit => SurfaceInv
  BY SurfaceInitInv
<1>2. ASSUME SurfaceInv, [SurfaceNext]_surfaceVars PROVE SurfaceInv'
  <2>1. CASE UNCHANGED <<repository, here, status, surface, asked>>
    BY <1>2, <2>1 DEF SurfaceInv, SurfaceTypeOK
  <2>2. CASE UNCHANGED surfaceVars \/ BridgeFills \/ BridgeDrains \/ LeaveGitHub
    BY <2>1, <2>2 DEF surfaceVars, BridgeFills, BridgeDrains, LeaveGitHub
  <2>3. CASE \E p \in Projects : SelectProject(p) \/ SelectWorktreeOf(p) \/ AssociationNews(p)
    BY <1>2, <2>3, SelectProjectInv, SelectWorktreeInv, RequestsInv
  <2>4. CASE \/ \E k \in Kinds : OpenTab(k)
             \/ \E p \in Projects, n \in 1..Pages :
                   OpenWorkSourceIssue(p, [kind |-> "issue", number |-> n])
    <3>1. \A n \in 1..Pages : [kind |-> "issue", number |-> n] \in Items
      BY DEF Items, Kinds
    <3> QED BY <1>2, <2>4, <3>1, OpenTabInv, WorkSourceInv
  <2>5. CASE \/ \E f \in Filters : ApplyGitHubFilters(f)
             \/ RefreshGitHubItems \/ NextGitHubPage \/ PreviousGitHubPage
    BY <1>2, <2>5, ListsInv
  <2>6. CASE SelectGitHubItem \/ RefreshGitHubDetail \/ LoadMoreGitHubComments
    BY <1>2, <2>6, DetailsInv
  <2>7. CASE \/ AskStatus \/ OtherRequest \/ ReceiveOther
             \/ \E r \in Repositories : Associate(r)
             \/ \E p \in Projects, r \in Repositories : OtherClientAssociates(p, r)
    BY <1>2, <2>7, RequestsInv
  <2>8. CASE BackToList \/ DaemonAnswers
    BY <1>2, <2>8, BackToListInv, DaemonAnswersInv
  <2>9. CASE ReceiveStatus \/ ReceiveAssociation \/ ReceiveList \/ ReceiveDetail
    BY <1>2, <2>9, ReceiveStatusInv, ReceiveAssociationInv, ReceiveListInv, ReceiveDetailInv
  <2> QED BY <1>2, <2>2, <2>3, <2>4, <2>5, <2>6, <2>7, <2>8, <2>9 DEF SurfaceNext
<1> QED BY <1>1, <1>2, PTL DEF SurfaceSpec

(* The list of the desktop's surface is the answer to its query, and the   *)
(* comments of an item are in order, however late the answers come         *)
(* (handle_response, github_surface.rs).                                   *)
THEOREM SurfaceKeepsToTheQuery == SurfaceSpec => []SurfaceIsOfTheQuery
<1>1. SurfaceInv => SurfaceIsOfTheQuery
  <2> SUFFICES ASSUME SurfaceInv PROVE SurfaceIsOfTheQuery
    OBVIOUS
  <2>1. surface \in Surfaces /\ ListIsOfTheSurface(surface) /\ ListIsOfTheQuery(surface)
        /\ DetailIsOfTheItem(surface)
    BY SurfaceFacts
  <2> QED BY <2>1 DEF SurfaceIsOfTheQuery, ListIsOfTheSurface, ListIsOfTheQuery,
                      DetailIsOfTheItem
<1> QED BY <1>1, SurfaceInvariance, PTL

----------------------------------------------------------------------------
(* What the modal of the terminal UI holds, its tasks and their results.   *)

Modals ==
    [kind : Kinds, depth : {"list", "detail", "work", "recovery"}, filters : Filters,
     cursor : Nat, previous : Seq(Nat), list : Loads(Queries), detail : Loads(Details),
     selected : Items \cup {Nothing}, active : [Purposes -> Nat],
     form : {"none", "pending", "open", "moved"}, preparing : BOOLEAN,
     refused : BOOLEAN, recovery : {"none", "open", "pending"}]

ListRequests == [op : {"list"}, query : Queries]
ViewRequests == [op : {"view"}, item : Items, page : Nat]
WorkRequests == [op : {"prepare"}, another : BOOLEAN] \cup [op : {"start", "retry"}]
ModalRequests == ListRequests \cup ViewRequests \cup WorkRequests

RequestsFor(q) ==
    IF q = "list" THEN ListRequests ELSE IF q = "detail" THEN ViewRequests ELSE WorkRequests

ModalTasks == [id : Nat, request : ModalRequests]
ModalOutcomes == {"found", "browse", "failure", "existing", "partial", "moved", "error"}
ModalResults == [purpose : Purposes, is : ModalOutcomes, id : Nat, request : ModalRequests]

(* What the modal wants of a purpose: its list, or the page that follows   *)
(* the comments it has.                                                    *)
Wants(s, q, request) ==
    /\ q = "list" => request.query = Query(s)
    /\ q = "detail" /\ request.page # 1 =>
          /\ s.detail.value # Nothing
          /\ s.detail.value.item = request.item
          /\ request.page = Last(s.detail.value.comments) + 1

(* A request fits a modal s when it is not the one that s waits for, or it *)
(* is what s wants.                                                        *)
Fits(s, q, id, request) ==
    /\ q \in Purposes /\ request \in RequestsFor(q)
    /\ s # Nothing /\ s.active[q] = id => Wants(s, q, request)

TasksFit(s) ==
    \A q \in Purposes : tasks[q] # Nothing =>
        tasks[q].id \in 1 .. ids /\ Fits(s, q, tasks[q].id, tasks[q].request)

ResultsFit(s) ==
    \A i \in 1 .. Len(results) :
        /\ results[i].id \in 1 .. ids
        /\ results[i].is \in Outcomes(results[i].request)
        /\ Fits(s, results[i].purpose, results[i].id, results[i].request)

(* ModalIsOfTheQuery, that comments are there, and that the list is in     *)
(* sight only without an item.                                             *)
ShowsItsChoice(s) ==
    /\ s.list.state = "ready" => s.list.value = Query(s)
    /\ s.detail.value # Nothing =>
          /\ s.detail.value.item = s.selected
          /\ s.detail.value.comments # <<>>
          /\ InOrder(s.detail.value.comments)
    /\ s.depth = "list" => s.detail.value = Nothing /\ s.active["detail"] = 0

ModalTypeOK ==
    /\ modal # Nothing => modal \in Modals
    /\ tasks \in [Purposes -> ModalTasks \cup {Nothing}]
    /\ results \in Seq(ModalResults)
    /\ ids \in Nat

ModalInv ==
    /\ ModalTypeOK
    /\ modal # Nothing => ShowsItsChoice(modal)
    /\ TasksFit(modal) /\ ResultsFit(modal)

(* A modal t that comes after s waits, for a purpose, for nothing, or for  *)
(* what s waited for.                                                      *)
Kept(s, t, q) ==
    \/ t.active[q] = 0
    \/ /\ s # Nothing /\ t.active[q] = s.active[q]
       /\ q = "list" => Query(t) = Query(s)
       /\ q = "detail" => t.detail.value = s.detail.value

LEMMA KeptFits ==
    ASSUME NEW s, NEW t, NEW q, NEW n \in Nat, NEW id \in 1 .. n, NEW request,
           Kept(s, t, q), Fits(s, q, id, request)
    PROVE  Fits(t, q, id, request)
<1>1. id # 0
  OBVIOUS
<1>2. CASE t.active[q] = 0
  BY <1>1, <1>2 DEF Fits
<1>3. CASE t.active[q] # 0
  BY <1>3 DEF Fits, Kept, Wants
<1> QED BY <1>2, <1>3

(* The modal goes on, or is left; tasks go on or are aborted; a result is  *)
(* taken or none.                                                          *)
LEMMA StepInv ==
    ASSUME ModalInv, ids' = ids,
           \/ results' = results
           \/ results # <<>> /\ results' = Tail(results),
           \/ tasks' = tasks
           \/ tasks' = NoTasks,
           \/ modal' = Nothing
           \/ /\ modal' \in Modals /\ ShowsItsChoice(modal')
              /\ \A q \in Purposes : Kept(modal, modal', q)
    PROVE  ModalInv'
<1>1. ModalTypeOK /\ TasksFit(modal) /\ ResultsFit(modal) /\ ids \in Nat
      /\ results \in Seq(ModalResults)
  BY DEF ModalInv, ModalTypeOK
<1>2. ASSUME NEW q, NEW id \in 1 .. ids, NEW request, Fits(modal, q, id, request)
      PROVE  Fits(modal', q, id, request)
  <2>1. CASE modal' = Nothing
    BY <1>2, <2>1 DEF Fits
  <2>2. CASE \A p \in Purposes : Kept(modal, modal', p)
    BY <1>1, <1>2, <2>2, KeptFits DEF Fits
  <2> QED BY <2>1, <2>2
<1>3. ModalTypeOK'
  <2>1. results' \in Seq(ModalResults)
    BY <1>1
  <2>2. tasks' \in [Purposes -> ModalTasks \cup {Nothing}]
    BY <1>1 DEF ModalTypeOK, NoTasks
  <2> QED BY <1>1, <2>1, <2>2 DEF ModalTypeOK
<1>4. TasksFit(modal)'
  <2> SUFFICES ASSUME NEW q \in Purposes, tasks'[q] # Nothing
               PROVE  /\ tasks'[q].id \in 1 .. ids
                      /\ Fits(modal', q, tasks'[q].id, tasks'[q].request)
    BY DEF TasksFit, Fits
  <2>1. tasks'[q] = tasks[q]
    BY DEF NoTasks
  <2> QED BY <1>1, <1>2, <2>1 DEF TasksFit
<1>5. ResultsFit(modal)'
  <2> SUFFICES ASSUME NEW i \in 1 .. Len(results')
               PROVE  /\ results'[i].id \in 1 .. ids
                      /\ results'[i].is \in Outcomes(results'[i].request)
                      /\ Fits(modal', results'[i].purpose, results'[i].id, results'[i].request)
    BY DEF ResultsFit, Fits, Outcomes
  <2>1. PICK j \in 1 .. Len(results) : results'[i] = results[j]
    <3>1. CASE results' = results
      BY <3>1
    <3>2. CASE results' = Tail(results) /\ results # <<>>
      <4>1. Len(results') = Len(results) - 1 /\ Len(results) \in Nat
        BY <1>1, <3>2
      <4>2. i + 1 \in 1 .. Len(results)
        BY <4>1
      <4>3. results'[i] = results[i + 1]
        <5>1. i \in 1 .. Len(results) - 1
          BY <4>1
        <5> QED BY <1>1, <3>2, <5>1, HeadTailProperties
      <4> QED BY <4>2, <4>3
    <3> QED BY <3>1, <3>2
  <2>2. /\ results[j].id \in 1 .. ids /\ results[j].is \in Outcomes(results[j].request)
        /\ Fits(modal, results[j].purpose, results[j].id, results[j].request)
    BY <1>1 DEF ResultsFit
  <2> QED BY <1>2, <2>1, <2>2
<1> QED BY <1>3, <1>4, <1>5 DEF ModalInv, ModalTypeOK

(* A modal s is queued for, with a new identity.                           *)
LEMMA QueueInv ==
    ASSUME ModalInv, NEW s \in Modals, ShowsItsChoice(s), NEW purpose \in Purposes,
           NEW request \in RequestsFor(purpose), Wants(s, purpose, request), NEW aborted,
           purpose = "detail" => s.depth # "list",
           \A q \in Purposes \ {purpose} : Kept(modal, s, q),
           Queue(s, purpose, request, aborted)
    PROVE  ModalInv'
<1> DEFINE n == ids + 1
           t == [s EXCEPT !.active[purpose] = n]
<1>1. /\ ModalTypeOK /\ TasksFit(modal) /\ ResultsFit(modal) /\ ids \in Nat
      /\ ids' = n /\ modal' = t /\ results' = results
      /\ tasks' = [q \in Purposes |->
                     IF q = purpose THEN [id |-> n, request |-> request]
                     ELSE IF q \in aborted THEN Nothing ELSE tasks[q]]
  BY DEF ModalInv, ModalTypeOK, Queue
<1>2. n \in Nat /\ n \in 1 .. n /\ 1 .. ids \subseteq 1 .. n /\ n \notin 1 .. ids
  BY <1>1
<1> HIDE DEF n
<1>3. s.active \in [Purposes -> Nat]
  BY DEF Modals
<1>4. t \in Modals /\ t.active = [s.active EXCEPT ![purpose] = n]
      /\ t.kind = s.kind /\ t.filters = s.filters /\ t.cursor = s.cursor
      /\ t.list = s.list /\ t.detail = s.detail /\ t.selected = s.selected
      /\ t.depth = s.depth
  <2>1. [s.active EXCEPT ![purpose] = n] \in [Purposes -> Nat]
    BY <1>2, <1>3
  <2>2. t = [s EXCEPT !.active = [s.active EXCEPT ![purpose] = n]]
    OBVIOUS
  <2> QED BY <2>1, <2>2 DEF Modals
<1> HIDE DEF t
<1>5. ShowsItsChoice(t)
  <2>1. t.depth = "list" => t.active["detail"] = s.active["detail"]
    BY <1>3, <1>4 DEF Purposes
  <2> QED BY <1>4, <2>1 DEF ShowsItsChoice, Query
<1>6. Wants(t, purpose, request)
  BY <1>4 DEF Wants, Query
<1>7. ASSUME NEW q, NEW id \in 1 .. ids, NEW r, Fits(modal, q, id, r)
      PROVE  Fits(t, q, id, r)
  <2>1. q \in Purposes
    BY <1>7 DEF Fits
  <2>2. CASE q = purpose
    <3>1. t.active[q] = n
      BY <1>3, <1>4, <2>2
    <3> QED BY <1>2, <1>7, <3>1 DEF Fits
  <2>3. CASE q # purpose
    <3>1. t.active[q] = s.active[q]
      BY <1>3, <1>4, <2>1, <2>3
    <3>2. Kept(modal, t, q)
      <4>1. Kept(modal, s, q)
        BY <2>1, <2>3
      <4> QED BY <1>4, <3>1, <4>1 DEF Kept, Query
    <3> QED BY <1>1, <1>7, <3>2, KeptFits
  <2> QED BY <2>2, <2>3
<1>8. request \in ModalRequests
  BY DEF RequestsFor, ModalRequests
<1>9. ModalTypeOK'
  <2>1. [id |-> n, request |-> request] \in ModalTasks
    BY <1>2, <1>8 DEF ModalTasks
  <2>2. tasks' \in [Purposes -> ModalTasks \cup {Nothing}]
    BY <1>1, <2>1 DEF ModalTypeOK
  <2> QED BY <1>1, <1>2, <1>4, <2>2 DEF ModalTypeOK
<1>10. TasksFit(modal)'
  <2> SUFFICES ASSUME NEW q \in Purposes, tasks'[q] # Nothing
               PROVE  /\ tasks'[q].id \in 1 .. n
                      /\ Fits(t, q, tasks'[q].id, tasks'[q].request)
    BY <1>1 DEF TasksFit, Fits
  <2>1. CASE q = purpose
    <3>1. tasks'[q] = [id |-> n, request |-> request]
      BY <1>1, <2>1
    <3>2. tasks'[q].id = n /\ tasks'[q].request = request
      BY <3>1
    <3> QED BY <1>2, <1>6, <2>1, <3>2 DEF Fits
  <2>2. CASE q # purpose
    <3>1. tasks'[q] = tasks[q]
      BY <1>1, <2>2
    <3>2. tasks[q].id \in 1 .. ids /\ Fits(modal, q, tasks[q].id, tasks[q].request)
      BY <1>1, <3>1 DEF TasksFit
    <3> QED BY <1>2, <1>7, <3>1, <3>2
  <2> QED BY <2>1, <2>2
<1>11. ResultsFit(modal)'
  <2> SUFFICES ASSUME NEW i \in 1 .. Len(results)
               PROVE  /\ results[i].id \in 1 .. n
                      /\ results[i].is \in Outcomes(results[i].request)
                      /\ Fits(t, results[i].purpose, results[i].id, results[i].request)
    BY <1>1 DEF ResultsFit, Fits, Outcomes
  <2> QED BY <1>1, <1>2, <1>7 DEF ResultsFit
<1> QED BY <1>1, <1>4, <1>5, <1>9, <1>10, <1>11 DEF ModalInv

(* What every key finds.                                                   *)
LEMMA AtFacts ==
    ASSUME ModalInv, NEW depths, At(depths)
    PROVE  modal # Nothing /\ modal \in Modals /\ ShowsItsChoice(modal) /\ modal.depth \in depths
  BY DEF ModalInv, ModalTypeOK, At

(* A list is asked for, with no item in sight.                             *)
LEMMA QueueListInv ==
    ASSUME ModalInv, NEW s \in Modals, NEW aborted, QueueList(s, aborted),
           s.detail.value = Nothing, s.active["detail"] = 0, Kept(modal, s, "work")
    PROVE  ModalInv'
<1> DEFINE t == BeginList(s)
           request == [op |-> "list", query |-> Query(s)]
<1>1. Loading(s.list) \in Loads(Queries) /\ Loading(s.list).state = "loading"
  BY DEF Modals, Loads, Loading
<1>2. /\ t \in Modals /\ t.list.state = "loading"
      /\ t.kind = s.kind /\ t.filters = s.filters /\ t.cursor = s.cursor
      /\ t.detail = s.detail /\ t.active = s.active
  <2>1. t = [s EXCEPT !.list = Loading(s.list)]
    BY DEF BeginList
  <2> QED BY <1>1, <2>1 DEF Modals
<1>3. Query(s) \in Queries /\ Query(t) = Query(s)
  BY <1>2 DEF Query, Queries, Modals
<1>4. request \in RequestsFor("list") /\ Wants(t, "list", request)
  BY <1>3 DEF RequestsFor, ListRequests, Wants
<1>5. Queue(t, "list", request, {"detail"} \cup aborted)
  BY DEF QueueList
<1> HIDE DEF t, request
<1>6. ShowsItsChoice(t)
  BY <1>2 DEF ShowsItsChoice
<1>7. \A q \in Purposes \ {"list"} : Kept(modal, t, q)
  BY <1>2 DEF Kept, Purposes
<1>8. "list" \in Purposes
  BY DEF Purposes
<1> QED BY <1>2, <1>4, <1>5, <1>6, <1>7, <1>8, QueueInv

LEMMA QueueDetailInv ==
    ASSUME ModalInv, NEW s \in Modals, ShowsItsChoice(s), NEW item \in Items,
           NEW page \in Nat, QueueDetail(s, item, page), s.depth # "list",
           \/ page = 1
           \/ /\ s.detail.value # Nothing /\ s.detail.value.item = item
              /\ page = Last(s.detail.value.comments) + 1,
           Kept(modal, s, "list"), Kept(modal, s, "work")
    PROVE  ModalInv'
<1> DEFINE t == [s EXCEPT !.detail = Loading(s.detail)]
           request == [op |-> "view", item |-> item, page |-> page]
<1>1. Loading(s.detail) \in Loads(Details) /\ Loading(s.detail).value = s.detail.value
  BY DEF Modals, Loads, Loading
<1>2. /\ t \in Modals /\ t.detail.value = s.detail.value
      /\ t.kind = s.kind /\ t.filters = s.filters /\ t.cursor = s.cursor
      /\ t.list = s.list /\ t.active = s.active /\ t.selected = s.selected
      /\ t.depth = s.depth
  BY <1>1 DEF Modals
<1>3. request \in RequestsFor("detail")
  BY DEF RequestsFor, ViewRequests
<1>4. Wants(t, "detail", request)
  BY <1>2 DEF Wants
<1>5. Queue(t, "detail", request, {})
  BY DEF QueueDetail
<1> HIDE DEF t, request
<1>6. ShowsItsChoice(t)
  BY <1>2 DEF ShowsItsChoice, Query
<1>7. \A q \in Purposes \ {"detail"} : Kept(modal, t, q)
  BY <1>2 DEF Kept, Purposes, Query
<1>8. "detail" \in Purposes
  BY DEF Purposes
<1> QED BY <1>2, <1>3, <1>4, <1>5, <1>6, <1>7, <1>8, QueueInv

LEMMA NewModalFits ==
    /\ NewModal \in Modals /\ NewModal.list.state = "loading"
    /\ NewModal.detail.value = Nothing
    /\ \A q \in Purposes : NewModal.active[q] = 0
<1>1. /\ <<>> \in Seq(Nat) /\ NoFilter \in Filters
      /\ Loading(Idle) \in Loads(Queries) /\ Idle \in Loads(Details)
      /\ [q \in Purposes |-> 0] \in [Purposes -> Nat]
  BY GitHubAssumption DEF Loads, Loading, Idle
<1>2. NewModal \in Modals
  BY <1>1 DEF NewModal, Modals, Kinds
<1> QED BY <1>2 DEF NewModal, Loading, Idle

LEMMA OpenGitHubInv ==
    ASSUME ModalInv, OpenGitHub
    PROVE  ModalInv'
<1>1. QueueList(NewModal, Purposes) /\ "detail" \in Purposes /\ "work" \in Purposes
  BY DEF OpenGitHub, Purposes
<1> QED BY <1>1, NewModalFits, QueueListInv DEF Kept

LEMMA OpenWorkSourceInv ==
    ASSUME ModalInv, NEW k \in Kinds, OpenWorkSource([kind |-> k, number |-> 1])
    PROVE  ModalInv'
<1> DEFINE item == [kind |-> k, number |-> 1]
           opened == [NewModal EXCEPT !.kind = item.kind, !.depth = "detail",
                                      !.selected = item]
           t == [opened EXCEPT !.detail = Loading(opened.detail)]
<1>1. item \in Items /\ item.kind = k
  BY DEF Items
<1> HIDE DEF item
<1>2. /\ opened \in Modals /\ opened.depth = "detail"
      /\ opened.list = NewModal.list /\ opened.detail = NewModal.detail
      /\ opened.active = NewModal.active
  BY <1>1, NewModalFits DEF Modals
<1> HIDE DEF opened
<1>3. Loading(opened.detail) \in Loads(Details) /\ Loading(opened.detail).value = Nothing
  BY <1>2, NewModalFits DEF Modals, Loads, Loading
<1>4. /\ t \in Modals /\ t.depth = "detail" /\ t.list = NewModal.list
      /\ t.detail.value = Nothing /\ t.active = NewModal.active
  BY <1>2, <1>3 DEF Modals
<1> HIDE DEF t
<1>5. \A q \in Purposes : Kept(modal, t, q)
  BY <1>4, NewModalFits DEF Kept
<1>6. ShowsItsChoice(t)
  BY <1>4, NewModalFits DEF ShowsItsChoice
<1>7. CASE Queue(t, "detail", [op |-> "view", item |-> item, page |-> 1], Purposes)
  <2> DEFINE request == [op |-> "view", item |-> item, page |-> 1]
  <2>1. request \in RequestsFor("detail") /\ Wants(t, "detail", request)
    BY <1>1 DEF RequestsFor, ViewRequests, Wants
  <2>2. Queue(t, "detail", request, Purposes) /\ "detail" \in Purposes
    BY <1>7 DEF Purposes
  <2> HIDE DEF request
  <2> QED BY <1>4, <1>5, <1>6, <2>1, <2>2, QueueInv
<1>8. CASE modal' = t /\ tasks' = NoTasks /\ UNCHANGED <<results, ids>>
  <2>1. ModalInv /\ ids' = ids /\ results' = results
    BY <1>8
  <2> QED BY <1>4, <1>5, <1>6, <1>8, <2>1, StepInv
<1> QED BY <1>7, <1>8 DEF OpenWorkSource, t, opened, item

LEMMA SwitchKindInv ==
    ASSUME ModalInv, NEW k \in Kinds, SwitchKind(k)
    PROVE  ModalInv'
<1> DEFINE s == [NewModal EXCEPT !.kind = k, !.list = Idle]
<1>1. Idle \in Loads(Queries)
  BY DEF Idle, Loads
<1>2. s \in Modals /\ s.detail = NewModal.detail /\ s.active = NewModal.active
  BY <1>1, NewModalFits DEF Modals
<1>3. QueueList(s, {}) /\ "detail" \in Purposes /\ "work" \in Purposes
  BY DEF SwitchKind, Purposes
<1> HIDE DEF s
<1>4. s.detail.value = Nothing /\ s.active["detail"] = 0 /\ Kept(modal, s, "work")
  BY <1>2, <1>3, NewModalFits DEF Kept
<1> QED BY <1>2, <1>3, <1>4, QueueListInv

(* Keys of the list, where no item is in sight.                            *)
LEMMA ListKeysInv ==
    ASSUME ModalInv
    PROVE  /\ RefreshList \/ NextPage \/ PreviousPage => ModalInv'
           /\ \A f \in Filters : ApplyFilter(f) => ModalInv'
<1>1. ASSUME NEW s \in Modals, At({"list"}), QueueList(s, {}),
             s.detail = modal.detail \/ s.detail = Idle, s.active = modal.active
      PROVE  ModalInv'
  <2>1. /\ modal # Nothing /\ modal.detail.value = Nothing /\ modal.active["detail"] = 0
    BY <1>1, AtFacts DEF ShowsItsChoice
  <2>2. s.detail.value = Nothing /\ s.active["detail"] = 0 /\ Kept(modal, s, "work")
    BY <1>1, <2>1 DEF Kept, Idle
  <2> QED BY <1>1, <2>2, QueueListInv
<1>2. ASSUME RefreshList PROVE ModalInv'
  BY <1>1, <1>2, AtFacts DEF RefreshList
<1>3. ASSUME NextPage PROVE ModalInv'
  <2> DEFINE s == Forward(modal)
  <2>1. modal \in Modals /\ modal.list.value # Nothing /\ At({"list"}) /\ QueueList(s, {})
    BY <1>3, AtFacts DEF NextPage, HasNext
  <2>2. modal.list.value.cursor + 1 \in Nat
    <3>1. modal.list.value \in Queries
      BY <2>1 DEF Modals, Loads
    <3> QED BY <3>1 DEF Queries
  <2>3. Append(modal.previous, modal.cursor) \in Seq(Nat)
    BY <2>1 DEF Modals
  <2>4. s = [modal EXCEPT !.previous = Append(modal.previous, modal.cursor),
                          !.cursor = modal.list.value.cursor + 1]
    BY DEF Forward
  <2> HIDE DEF s
  <2>5. s \in Modals /\ s.detail = modal.detail /\ s.active = modal.active
    BY <2>1, <2>2, <2>3, <2>4 DEF Modals
  <2> QED BY <1>1, <2>1, <2>5
<1>4. ASSUME PreviousPage PROVE ModalInv'
  <2> DEFINE s == Backward(modal)
  <2>1. modal \in Modals /\ modal.previous # <<>> /\ At({"list"}) /\ QueueList(s, {})
    BY <1>4, AtFacts DEF PreviousPage
  <2>2. modal.previous \in Seq(Nat)
    BY <2>1 DEF Modals
  <2>3. Front(modal.previous) \in Seq(Nat) /\ Last(modal.previous) \in Nat
    BY <2>1, <2>2 DEF Front, Last
  <2>4. s = [modal EXCEPT !.previous = Front(modal.previous),
                          !.cursor = Last(modal.previous)]
    BY DEF Backward
  <2> HIDE DEF s
  <2>5. s \in Modals /\ s.detail = modal.detail /\ s.active = modal.active
    BY <2>1, <2>3, <2>4 DEF Modals
  <2> QED BY <1>1, <2>1, <2>5
<1>5. ASSUME NEW f \in Filters, ApplyFilter(f) PROVE ModalInv'
  <2> DEFINE s == [modal EXCEPT !.filters = f, !.cursor = 1, !.previous = <<>>,
                                !.detail = Idle, !.selected = Nothing]
  <2>1. modal \in Modals /\ At({"list"}) /\ QueueList(s, {})
    BY <1>5, AtFacts DEF ApplyFilter
  <2>2. <<>> \in Seq(Nat) /\ Idle \in Loads(Details)
    BY DEF Idle, Loads
  <2>3. s \in Modals /\ s.detail = Idle /\ s.active = modal.active
    BY <2>1, <2>2 DEF Modals
  <2> HIDE DEF s
  <2> QED BY <1>1, <2>1, <2>3
<1> QED BY <1>2, <1>3, <1>4, <1>5

(* Keys that ask for an item.                                              *)
LEMMA DetailKeysInv ==
    ASSUME ModalInv
    PROVE  OpenSelected \/ RefreshDetail \/ MoreComments => ModalInv'
<1>1. ASSUME OpenSelected PROVE ModalInv'
  <2> DEFINE item == ItemOf(modal.list.value)
             s == [modal EXCEPT !.selected = item, !.depth = "detail"]
  <2>1. /\ modal # Nothing /\ modal \in Modals /\ ShowsItsChoice(modal)
        /\ modal.depth = "list" /\ modal.list.value # Nothing
        /\ QueueDetail(s, item, 1)
    BY <1>1, AtFacts DEF OpenSelected
  <2>2. item \in Items
    <3>1. modal.list.value \in Queries
      BY <2>1 DEF Modals, Loads
    <3> QED BY <3>1 DEF Queries, ItemOf, Items
  <2> HIDE DEF item
  <2>3. /\ s \in Modals /\ s.depth = "detail" /\ s.detail = modal.detail
        /\ s.list = modal.list /\ s.active = modal.active /\ s.kind = modal.kind
        /\ s.filters = modal.filters /\ s.cursor = modal.cursor
    BY <2>1, <2>2 DEF Modals
  <2> HIDE DEF s
  <2>4. ShowsItsChoice(s)
    BY <2>1, <2>3 DEF ShowsItsChoice, Query
  <2>5. Kept(modal, s, "list") /\ Kept(modal, s, "work")
    BY <2>1, <2>3 DEF Kept, Query
  <2> QED BY <2>1, <2>2, <2>3, <2>4, <2>5, QueueDetailInv
<1>2. ASSUME NEW item \in Items, NEW page \in Nat, At({"detail"}),
             QueueDetail(modal, item, page),
             \/ page = 1
             \/ /\ modal.detail.value # Nothing /\ modal.detail.value.item = item
                /\ page = Last(modal.detail.value.comments) + 1
      PROVE  ModalInv'
  <2>1. /\ modal # Nothing /\ modal \in Modals /\ ShowsItsChoice(modal)
        /\ modal.depth # "list"
    BY <1>2, AtFacts
  <2>2. Kept(modal, modal, "list") /\ Kept(modal, modal, "work")
    BY <2>1 DEF Kept
  <2> QED BY <1>2, <2>1, <2>2, QueueDetailInv
<1>3. ASSUME RefreshDetail PROVE ModalInv'
  <2>1. modal \in Modals /\ modal.selected # Nothing /\ At({"detail"})
        /\ QueueDetail(modal, modal.selected, 1)
    BY <1>3, AtFacts DEF RefreshDetail
  <2>2. modal.selected \in Items
    BY <2>1 DEF Modals
  <2> QED BY <1>2, <2>1, <2>2
<1>4. ASSUME MoreComments PROVE ModalInv'
  <2> DEFINE page == Last(modal.detail.value.comments) + 1
  <2>1. /\ modal \in Modals /\ ShowsItsChoice(modal) /\ At({"detail"})
        /\ modal.detail.value # Nothing
        /\ QueueDetail(modal, modal.detail.value.item, page)
    BY <1>4, AtFacts DEF MoreComments, HasMoreComments
  <2>2. modal.detail.value \in Details
    BY <2>1 DEF Modals, Loads
  <2>3. /\ modal.detail.value.item \in Items /\ modal.detail.value.comments \in Seq(Nat)
        /\ modal.detail.value.comments # <<>>
    BY <2>1, <2>2 DEF Details, ShowsItsChoice
  <2>4. page \in Nat
    BY <2>3, LastTypes
  <2> QED BY <1>2, <2>1, <2>3, <2>4
<1> QED BY <1>1, <1>3, <1>4

(* A modal t that shows what s shows, at a depth of its own, and waits for *)
(* nothing new.                                                            *)
SameShown(s, t) ==
    /\ t.kind = s.kind /\ t.filters = s.filters /\ t.cursor = s.cursor
    /\ t.list = s.list /\ t.detail = s.detail /\ t.selected = s.selected
    /\ t.depth = "list" => s.depth = "list"
    /\ \A q \in Purposes : t.active[q] \in {0, s.active[q]}

LEMMA SameShownFits ==
    ASSUME NEW s, NEW t, s # Nothing, ShowsItsChoice(s), SameShown(s, t)
    PROVE  ShowsItsChoice(t) /\ \A q \in Purposes : Kept(s, t, q)
<1>1. ShowsItsChoice(t)
  <2>1. t.depth = "list" => t.active["detail"] = 0
    BY DEF SameShown, ShowsItsChoice, Purposes
  <2> QED BY <2>1 DEF SameShown, ShowsItsChoice, Query
<1>2. \A q \in Purposes : Kept(s, t, q)
  BY DEF SameShown, Kept, Query
<1> QED BY <1>1, <1>2

LEMMA ShownInv ==
    ASSUME ModalInv, ids' = ids,
           \/ results' = results
           \/ results # <<>> /\ results' = Tail(results),
           \/ tasks' = tasks
           \/ tasks' = NoTasks,
           \/ modal' = Nothing
           \/ modal # Nothing /\ modal' \in Modals /\ SameShown(modal, modal')
    PROVE  ModalInv'
<1>1. modal # Nothing => ShowsItsChoice(modal)
  BY DEF ModalInv
<1>2. \/ modal' = Nothing
      \/ /\ modal' \in Modals /\ ShowsItsChoice(modal')
         /\ \A q \in Purposes : Kept(modal, modal', q)
  BY <1>1, SameShownFits
<1> QED BY <1>2, StepInv

(* The form and what is submitted from it.                                 *)
LEMMA QueueWorkInv ==
    ASSUME ModalInv, modal # Nothing, NEW s \in Modals, SameShown(modal, s),
           NEW request \in WorkRequests, Queue(s, "work", request, {})
    PROVE  ModalInv'
<1>1. ShowsItsChoice(s) /\ \A q \in Purposes : Kept(modal, s, q)
  BY SameShownFits DEF ModalInv
<1>2. "work" \in Purposes /\ request \in RequestsFor("work") /\ Wants(s, "work", request)
  BY DEF Purposes, RequestsFor, Wants
<1> QED BY <1>1, <1>2, QueueInv

LEMMA PrepareWorkInv ==
    ASSUME ModalInv, modal # Nothing, NEW s \in Modals, SameShown(modal, s),
           NEW another \in BOOLEAN, PrepareWork(s, another)
    PROVE  ModalInv'
<1> DEFINE form == IF s.form = "none" THEN s.form ELSE "pending"
           preparing == s.preparing \/ s.form = "none"
           t == [s EXCEPT !.refused = FALSE, !.form = form, !.preparing = preparing]
           request == [op |-> "prepare", another |-> another]
<1>1. form \in {"none", "pending", "open", "moved"} /\ preparing \in BOOLEAN
  BY DEF Modals
<1>2. Queue(t, "work", request, {})
  BY DEF PrepareWork
<1> HIDE DEF form, preparing
<1>3. /\ t \in Modals /\ t.kind = s.kind /\ t.filters = s.filters /\ t.cursor = s.cursor
      /\ t.list = s.list /\ t.detail = s.detail /\ t.selected = s.selected
      /\ t.depth = s.depth /\ t.active = s.active
  BY <1>1 DEF Modals
<1> HIDE DEF t
<1>4. SameShown(modal, t)
  BY <1>3 DEF SameShown
<1>5. request \in WorkRequests
  BY DEF WorkRequests
<1> HIDE DEF request
<1> QED BY <1>2, <1>3, <1>4, <1>5, QueueWorkInv

LEMMA WorkKeysInv ==
    ASSUME ModalInv
    PROVE  /\ \A another \in BOOLEAN : StartWork(another) => ModalInv'
           /\ RetryPrepare \/ RefreshBase \/ SubmitStartWork \/ RetrySession => ModalInv'
<1>1. ASSUME NEW another \in BOOLEAN, StartWork(another) PROVE ModalInv'
  <2> DEFINE s == [modal EXCEPT !.depth = "work", !.form = "none"]
  <2>1. modal # Nothing /\ modal \in Modals /\ PrepareWork(s, another)
    BY <1>1, AtFacts DEF StartWork
  <2>2. s \in Modals /\ SameShown(modal, s)
    BY <2>1 DEF Modals, SameShown
  <2> HIDE DEF s
  <2> QED BY <2>1, <2>2, PrepareWorkInv
<1>2. modal # Nothing => SameShown(modal, modal)
  BY DEF SameShown
<1>3. ASSUME RetryPrepare PROVE ModalInv'
  <2>1. modal # Nothing /\ modal \in Modals /\ PrepareWork(modal, TRUE)
    BY <1>3, AtFacts DEF RetryPrepare
  <2> QED BY <1>2, <2>1, PrepareWorkInv
<1>4. ASSUME RefreshBase PROVE ModalInv'
  <2>1. /\ modal # Nothing /\ modal \in Modals
        /\ \E another \in BOOLEAN : PrepareWork(modal, another)
    BY <1>4, AtFacts DEF RefreshBase
  <2> QED BY <1>2, <2>1, PrepareWorkInv
<1>5. ASSUME SubmitStartWork PROVE ModalInv'
  <2> DEFINE s == [modal EXCEPT !.form = "pending"]
  <2>1. modal # Nothing /\ modal \in Modals /\ Queue(s, "work", [op |-> "start"], {})
    BY <1>5 DEF SubmitStartWork, ModalInv, ModalTypeOK
  <2>2. s \in Modals /\ SameShown(modal, s)
    BY <2>1 DEF Modals, SameShown
  <2>3. [op |-> "start"] \in WorkRequests
    BY DEF WorkRequests
  <2> HIDE DEF s
  <2> QED BY <2>1, <2>2, <2>3, QueueWorkInv
<1>6. ASSUME RetrySession PROVE ModalInv'
  <2> DEFINE s == [modal EXCEPT !.recovery = "pending"]
  <2>1. modal # Nothing /\ modal \in Modals /\ Queue(s, "work", [op |-> "retry"], {})
    BY <1>6 DEF RetrySession, ModalInv, ModalTypeOK
  <2>2. s \in Modals /\ SameShown(modal, s)
    BY <2>1 DEF Modals, SameShown
  <2>3. [op |-> "retry"] \in WorkRequests
    BY DEF WorkRequests
  <2> HIDE DEF s
  <2> QED BY <2>1, <2>2, <2>3, QueueWorkInv
<1> QED BY <1>1, <1>3, <1>4, <1>5, <1>6

(* What forgets the work shows what was shown.                             *)
LEMMA WithoutWorkTypes ==
    ASSUME NEW s \in Modals
    PROVE  /\ WithoutWork(s) \in Modals
           /\ WithoutWork(s).kind = s.kind /\ WithoutWork(s).filters = s.filters
           /\ WithoutWork(s).cursor = s.cursor /\ WithoutWork(s).list = s.list
           /\ WithoutWork(s).detail = s.detail /\ WithoutWork(s).selected = s.selected
           /\ WithoutWork(s).depth = s.depth
           /\ WithoutWork(s).active = [s.active EXCEPT !["work"] = 0]
<1> DEFINE active == [s.active EXCEPT !["work"] = 0]
<1>1. active \in [Purposes -> Nat]
  BY DEF Modals
<1>2. WithoutWork(s) = [s EXCEPT !.form = "none", !.preparing = FALSE, !.refused = FALSE,
                                 !.recovery = "none", !.active = active]
  BY DEF WithoutWork
<1> HIDE DEF active
<1>3. /\ WithoutWork(s) \in Modals
      /\ WithoutWork(s).kind = s.kind /\ WithoutWork(s).filters = s.filters
      /\ WithoutWork(s).cursor = s.cursor /\ WithoutWork(s).list = s.list
      /\ WithoutWork(s).detail = s.detail /\ WithoutWork(s).selected = s.selected
      /\ WithoutWork(s).depth = s.depth
      /\ WithoutWork(s).active = active
  BY <1>1, <1>2 DEF Modals
<1> QED BY <1>3 DEF active

LEMMA ModalKeysInv ==
    ASSUME ModalInv
    PROVE  OpenWorktree \/ CloseGitHub \/ CycleBase \/ EscapeWork \/ EscapeDetail => ModalInv'
<1>1. ASSUME OpenWorktree \/ CloseGitHub PROVE ModalInv'
  BY <1>1, ShownInv DEF OpenWorktree, CloseGitHub, Left
<1>2. ASSUME CycleBase PROVE ModalInv'
  <2>1. /\ modal # Nothing /\ modal \in Modals /\ modal' = [modal EXCEPT !.form = "moved"]
        /\ UNCHANGED <<tasks, results, ids>>
    BY <1>2, AtFacts DEF CycleBase
  <2>2. modal' \in Modals /\ SameShown(modal, modal')
    BY <2>1 DEF Modals, SameShown
  <2> QED BY <2>1, <2>2, ShownInv
<1>3. ASSUME EscapeWork PROVE ModalInv'
  <2>1. /\ modal # Nothing /\ modal \in Modals
        /\ modal' = [WithoutWork(modal) EXCEPT !.depth = "detail"]
        /\ UNCHANGED <<tasks, results, ids>>
    BY <1>3, AtFacts DEF EscapeWork
  <2> DEFINE s == WithoutWork(modal)
  <2>2. /\ s \in Modals /\ s.kind = modal.kind /\ s.filters = modal.filters
        /\ s.cursor = modal.cursor /\ s.list = modal.list /\ s.detail = modal.detail
        /\ s.selected = modal.selected /\ s.active = [modal.active EXCEPT !["work"] = 0]
    BY <2>1, WithoutWorkTypes
  <2> HIDE DEF s
  <2>3. /\ modal' \in Modals /\ modal'.kind = s.kind /\ modal'.filters = s.filters
        /\ modal'.cursor = s.cursor /\ modal'.list = s.list /\ modal'.detail = s.detail
        /\ modal'.selected = s.selected /\ modal'.active = s.active
        /\ modal'.depth = "detail"
    BY <2>1, <2>2 DEF Modals, s
  <2>4. \A q \in Purposes : modal'.active[q] \in {0, modal.active[q]}
    BY <2>1, <2>2, <2>3 DEF Modals
  <2>5. SameShown(modal, modal')
    BY <2>2, <2>3, <2>4 DEF SameShown
  <2> QED BY <2>1, <2>3, <2>5, ShownInv
<1>4. ASSUME EscapeDetail PROVE ModalInv'
  <2> DEFINE s == WithoutWork(modal)
             active == [s.active EXCEPT !["detail"] = 0]
  <2>1. /\ modal # Nothing /\ modal \in Modals /\ ShowsItsChoice(modal)
        /\ modal' = [s EXCEPT !.depth = "list", !.detail = Idle, !.selected = Nothing,
                              !.active = active]
        /\ UNCHANGED <<tasks, results, ids>>
    BY <1>4, AtFacts DEF EscapeDetail
  <2>2. /\ s \in Modals /\ s.kind = modal.kind /\ s.filters = modal.filters
        /\ s.cursor = modal.cursor /\ s.list = modal.list
        /\ s.active = [modal.active EXCEPT !["work"] = 0]
    BY <2>1, WithoutWorkTypes
  <2>3. modal.active \in [Purposes -> Nat]
    BY <2>1 DEF Modals
  <2>4. /\ active \in [Purposes -> Nat] /\ active["detail"] = 0 /\ active["work"] = 0
        /\ active["list"] = modal.active["list"]
    BY <2>2, <2>3 DEF Purposes
  <2>5. Idle \in Loads(Details) /\ Idle.value = Nothing
    BY DEF Idle, Loads
  <2> HIDE DEF s, active
  <2>6. /\ modal' \in Modals /\ modal'.kind = s.kind /\ modal'.filters = s.filters
        /\ modal'.cursor = s.cursor /\ modal'.list = s.list /\ modal'.detail = Idle
        /\ modal'.active = active
    BY <2>1, <2>2, <2>4, <2>5 DEF Modals
  <2>7. ShowsItsChoice(modal')
    BY <2>1, <2>2, <2>4, <2>5, <2>6 DEF ShowsItsChoice, Query
  <2>8. \A q \in Purposes : Kept(modal, modal', q)
    BY <2>1, <2>2, <2>4, <2>6 DEF Kept, Query, Purposes
  <2> QED BY <2>1, <2>6, <2>7, <2>8, StepInv
<1> QED BY <1>1, <1>2, <1>3, <1>4

(* What every result finds.                                                *)
LEMMA TakenFacts ==
    ASSUME ModalInv, NEW op, Taken(op)
    PROVE  /\ modal # Nothing /\ modal \in Modals /\ ShowsItsChoice(modal)
           /\ results # <<>> /\ results' = Tail(results) /\ UNCHANGED <<tasks, ids>>
           /\ Result.request.op = op /\ Result.is \in Outcomes(Result.request)
           /\ Result.request \in RequestsFor(Result.purpose)
           /\ Wants(modal, Result.purpose, Result.request)
<1>1. /\ modal # Nothing /\ modal.active[Result.purpose] = Result.id
      /\ results # <<>> /\ results' = Tail(results) /\ UNCHANGED <<tasks, ids>>
      /\ Result.request.op = op
  BY DEF Taken, Accepts
<1>2. Result = results[1] /\ 1 \in 1 .. Len(results)
  <2>1. results \in Seq(ModalResults)
    BY DEF ModalInv, ModalTypeOK
  <2> QED BY <1>1, <2>1 DEF Result
<1>3. /\ Result.is \in Outcomes(Result.request)
      /\ Fits(modal, Result.purpose, Result.id, Result.request)
  BY <1>2 DEF ModalInv, ResultsFit
<1> QED BY <1>1, <1>3 DEF Fits, ModalInv, ModalTypeOK

(* A failure is shown at the depth of the user, or in place of what failed.*)
LEMMA FailuresFit ==
    ASSUME NEW s \in Modals, s # Nothing, ShowsItsChoice(s),
           NEW t, t \in {ConfigurationError(s), Fail(s, "list"), Fail(s, "detail")}
    PROVE  t \in Modals /\ ShowsItsChoice(t) /\ \A q \in Purposes : Kept(s, t, q)
<1>1. s.active \in [Purposes -> Nat]
  BY DEF Modals
<1>2. ASSUME NEW load \in Loads(Queries), load.state # "ready",
             t = [s EXCEPT !.list = load, !.active = [s.active EXCEPT !["list"] = 0]]
      PROVE  t \in Modals /\ ShowsItsChoice(t) /\ \A q \in Purposes : Kept(s, t, q)
  <2> DEFINE active == [s.active EXCEPT !["list"] = 0]
  <2>1. /\ active \in [Purposes -> Nat] /\ active["list"] = 0
        /\ active["detail"] = s.active["detail"] /\ active["work"] = s.active["work"]
    BY <1>1 DEF Purposes
  <2> HIDE DEF active
  <2>2. t = [s EXCEPT !.list = load, !.active = active]
    BY <1>2 DEF active
  <2>3. /\ t \in Modals /\ t.list = load /\ t.active = active /\ t.detail = s.detail
        /\ t.depth = s.depth /\ t.selected = s.selected
    BY <1>2, <2>1, <2>2 DEF Modals
  <2>4. ShowsItsChoice(t)
    BY <1>2, <2>1, <2>3 DEF ShowsItsChoice
  <2>5. \A q \in Purposes : Kept(s, t, q)
    BY <2>1, <2>3 DEF Kept, Purposes
  <2> QED BY <2>3, <2>4, <2>5
<1>3. ASSUME NEW load \in Loads(Details), load.value = Nothing,
             t = [s EXCEPT !.detail = load, !.active = [s.active EXCEPT !["detail"] = 0]]
      PROVE  t \in Modals /\ ShowsItsChoice(t) /\ \A q \in Purposes : Kept(s, t, q)
  <2> DEFINE active == [s.active EXCEPT !["detail"] = 0]
  <2>1. /\ active \in [Purposes -> Nat] /\ active["detail"] = 0
        /\ active["list"] = s.active["list"] /\ active["work"] = s.active["work"]
    BY <1>1 DEF Purposes
  <2> HIDE DEF active
  <2>2. t = [s EXCEPT !.detail = load, !.active = active]
    BY <1>3 DEF active
  <2>3. /\ t \in Modals /\ t.list = s.list /\ t.active = active /\ t.detail = load
        /\ t.depth = s.depth /\ t.selected = s.selected
        /\ t.kind = s.kind /\ t.filters = s.filters /\ t.cursor = s.cursor
    BY <1>3, <2>1, <2>2 DEF Modals
  <2>4. ShowsItsChoice(t)
    BY <1>3, <2>1, <2>3 DEF ShowsItsChoice, Query
  <2>5. \A q \in Purposes : Kept(s, t, q)
    BY <2>1, <2>3 DEF Kept, Purposes, Query
  <2> QED BY <2>3, <2>4, <2>5
<1>4. /\ Idle \in Loads(Queries) /\ Idle \in Loads(Details)
      /\ Idle.state # "ready" /\ Idle.value = Nothing
      /\ Failed \in Loads(Queries) /\ Failed \in Loads(Details)
      /\ Failed.state # "ready" /\ Failed.value = Nothing
  BY DEF Idle, Failed, Loads
<1>5. CASE t = ConfigurationError(s)
  <2>1. \/ t = [s EXCEPT !.list = Idle, !.active["list"] = 0]
        \/ t = [s EXCEPT !.detail = Idle, !.active["detail"] = 0]
    BY <1>5 DEF ConfigurationError
  <2>2. CASE t = [s EXCEPT !.list = Idle, !.active["list"] = 0]
    BY <1>2, <1>4, <2>2
  <2>3. CASE t = [s EXCEPT !.detail = Idle, !.active["detail"] = 0]
    BY <1>3, <1>4, <2>3
  <2> QED BY <2>1, <2>2, <2>3
<1>6. CASE t = Fail(s, "list")
  <2>1. t = [s EXCEPT !.list = Failed, !.active["list"] = 0]
    BY <1>6 DEF Fail
  <2> QED BY <1>2, <1>4, <2>1
<1>7. CASE t = Fail(s, "detail")
  <2>1. t = [s EXCEPT !.detail = Failed, !.active["detail"] = 0]
    BY <1>7 DEF Fail
  <2> QED BY <1>3, <1>4, <2>1
<1> QED BY <1>5, <1>6, <1>7

LEMMA ReceiveListResultInv ==
    ASSUME ModalInv, ReceiveListResult
    PROVE  ModalInv'
<1>1. Taken("list")
  BY DEF ReceiveListResult
<1>2. /\ modal # Nothing /\ modal \in Modals /\ ShowsItsChoice(modal)
      /\ results # <<>> /\ results' = Tail(results) /\ UNCHANGED <<tasks, ids>>
      /\ Result.request.op = "list" /\ Result.is \in Outcomes(Result.request)
      /\ Result.request \in RequestsFor(Result.purpose)
      /\ Wants(modal, Result.purpose, Result.request)
  BY <1>1, TakenFacts
<1>3. Result.is \in {"found", "browse", "failure"}
  BY <1>2 DEF Outcomes
<1>4. CASE Result.is = "found"
  <2> DEFINE load == Ready(Result.request.query)
             active == [modal.active EXCEPT !["list"] = 0]
  <2>1. Result.purpose = "list" /\ Result.request.query \in Queries
    BY <1>2 DEF RequestsFor, ListRequests, ViewRequests, WorkRequests
  <2>2. Result.request.query = Query(modal)
    BY <1>2, <2>1 DEF Wants
  <2>3. load \in Loads(Queries) /\ load.value = Query(modal)
    BY <2>1, <2>2 DEF Ready, Loads
  <2>4. modal.active \in [Purposes -> Nat]
    BY <1>2 DEF Modals
  <2>5. /\ active \in [Purposes -> Nat] /\ active["list"] = 0
        /\ active["detail"] = modal.active["detail"] /\ active["work"] = modal.active["work"]
    BY <2>4 DEF Purposes
  <2>6. modal' = [modal EXCEPT !.list = load, !.active = active]
    BY <1>4 DEF ReceiveListResult
  <2> HIDE DEF load, active
  <2>7. /\ modal' \in Modals /\ modal'.list = load /\ modal'.active = active
        /\ modal'.detail = modal.detail /\ modal'.depth = modal.depth
        /\ modal'.selected = modal.selected /\ modal'.kind = modal.kind
        /\ modal'.filters = modal.filters /\ modal'.cursor = modal.cursor
    BY <1>2, <2>3, <2>5, <2>6 DEF Modals
  <2>8. ShowsItsChoice(modal')
    BY <1>2, <2>3, <2>5, <2>7 DEF ShowsItsChoice, Query
  <2>9. \A q \in Purposes : Kept(modal, modal', q)
    BY <1>2, <2>5, <2>7 DEF Kept, Purposes
  <2> QED BY <1>2, <2>7, <2>8, <2>9, StepInv
<1>5. CASE Result.is \in {"browse", "failure"}
  <2>1. modal' \in {Fail(modal, "list"), ConfigurationError(modal)}
    BY <1>5 DEF ReceiveListResult
  <2>2. /\ modal' \in Modals /\ ShowsItsChoice(modal')
        /\ \A q \in Purposes : Kept(modal, modal', q)
    BY <1>2, <2>1, FailuresFit
  <2> QED BY <1>2, <2>2, StepInv
<1> QED BY <1>3, <1>4, <1>5

LEMMA ReceiveDetailResultInv ==
    ASSUME ModalInv, ReceiveDetailResult
    PROVE  ModalInv'
<1>1. Taken("view")
  BY DEF ReceiveDetailResult
<1>2. /\ modal # Nothing /\ modal \in Modals /\ ShowsItsChoice(modal)
      /\ results # <<>> /\ results' = Tail(results) /\ UNCHANGED <<tasks, ids>>
      /\ Result.request.op = "view" /\ Result.is \in Outcomes(Result.request)
      /\ Result.request \in RequestsFor(Result.purpose)
      /\ Wants(modal, Result.purpose, Result.request)
  BY <1>1, TakenFacts
<1>3. Result.is \in {"found", "browse", "failure"}
  BY <1>2 DEF Outcomes
<1>4. CASE Result.is = "found"
  <2> DEFINE request == Result.request
             page == [item |-> request.item, comments |-> <<request.page>>]
             shown == IF request.page = 1 THEN page ELSE Appended(modal.detail, page)
             active == [modal.active EXCEPT !["detail"] = 0]
  <2>1. Result.purpose = "detail" /\ request.item \in Items /\ request.page \in Nat
    BY <1>2 DEF RequestsFor, ListRequests, ViewRequests, WorkRequests
  <2>2. request.page # 1 =>
           /\ modal.detail.value # Nothing
           /\ modal.detail.value.item = request.item
           /\ request.page = Last(modal.detail.value.comments) + 1
    BY <1>2, <2>1 DEF Wants
  <2>3. modal' = [modal EXCEPT !.detail = Ready(shown), !.selected = shown.item,
                              !.depth = "detail", !.active = active]
    BY <1>4 DEF ReceiveDetailResult
  <2> HIDE DEF request
  <2>4. <<request.page>> \in Seq(Nat) /\ <<request.page>> # <<>> /\ Len(<<request.page>>) = 1
    BY <2>1
  <2>5. page \in Details /\ page.item = request.item /\ page.comments = <<request.page>>
    BY <2>1, <2>4 DEF Details
  <2> HIDE DEF page
  <2>6. shown \in Details /\ shown.comments # <<>> /\ InOrder(shown.comments)
    <3>1. CASE request.page = 1
      <4>1. InOrder(<<1>>)
        BY DEF InOrder
      <4>2. shown = page
        BY <3>1
      <4> HIDE DEF shown
      <4> QED BY <2>4, <2>5, <3>1, <4>1, <4>2
    <3>2. CASE request.page # 1
      <4> DEFINE old == modal.detail.value.comments
                 next == <<request.page>>
      <4>1. shown = [page EXCEPT !.comments = old \o next]
        BY <2>2, <2>5, <3>2 DEF Appended
      <4>2. old \in Seq(Nat) /\ old # <<>> /\ InOrder(old)
        BY <1>2, <2>2, <3>2 DEF Modals, Loads, Details, ShowsItsChoice
      <4>3. next = <<Last(old) + 1>>
        BY <2>2, <3>2
      <4>4. InOrder(old \o next)
        BY <4>2, <4>3, InOrderGrows
      <4>5. next \in Seq(Nat) /\ Len(next) = 1
        BY <2>4
      <4> HIDE DEF old, next, shown
      <4>6. Len(old \o next) = Len(old) + Len(next) /\ old \o next \in Seq(Nat)
        BY <4>2, <4>5, ConcatProperties
      <4>7. Len(old) \in Nat
        BY <4>2
      <4>8. Len(old \o next) # 0
        BY <4>5, <4>6, <4>7
      <4>9. shown \in Details /\ shown.comments = old \o next
        BY <2>5, <4>1, <4>6 DEF Details
      <4> QED BY <4>4, <4>6, <4>8, <4>9
    <3> QED BY <3>1, <3>2
  <2> HIDE DEF shown
  <2>7. Ready(shown) \in Loads(Details) /\ Ready(shown).value = shown /\ shown.item \in Items
    BY <2>6 DEF Ready, Loads, Details
  <2>8. modal.active \in [Purposes -> Nat]
    BY <1>2 DEF Modals
  <2>9. /\ active \in [Purposes -> Nat] /\ active["detail"] = 0
        /\ active["list"] = modal.active["list"] /\ active["work"] = modal.active["work"]
    BY <2>8 DEF Purposes
  <2> HIDE DEF active
  <2>10. /\ modal' \in Modals /\ modal'.list = modal.list /\ modal'.active = active
         /\ modal'.detail = Ready(shown) /\ modal'.depth = "detail"
         /\ modal'.selected = shown.item /\ modal'.kind = modal.kind
         /\ modal'.filters = modal.filters /\ modal'.cursor = modal.cursor
    BY <1>2, <2>3, <2>7, <2>9 DEF Modals
  <2>11. ShowsItsChoice(modal')
    BY <1>2, <2>6, <2>7, <2>10 DEF ShowsItsChoice, Query
  <2>12. \A q \in Purposes : Kept(modal, modal', q)
    BY <1>2, <2>9, <2>10 DEF Kept, Purposes, Query
  <2> QED BY <1>2, <2>10, <2>11, <2>12, StepInv
<1>5. CASE Result.is \in {"browse", "failure"}
  <2>1. modal' \in {Fail(modal, "detail"), ConfigurationError(modal)}
    BY <1>5 DEF ReceiveDetailResult
  <2>2. /\ modal' \in Modals /\ ShowsItsChoice(modal')
        /\ \A q \in Purposes : Kept(modal, modal', q)
    BY <1>2, <2>1, FailuresFit
  <2> QED BY <1>2, <2>2, StepInv
<1> QED BY <1>3, <1>4, <1>5

(* The work's own results leave the list and the item alone.               *)
LEMMA FailStartWorkFits ==
    ASSUME NEW s \in Modals, NEW moved
    PROVE  FailStartWork(s, moved) \in Modals /\ SameShown(s, FailStartWork(s, moved))
<1> DEFINE active == [s.active EXCEPT !["work"] = 0]
           refused == s.refused \/ s.form = "none"
           form == IF s.form = "none" THEN s.form ELSE IF moved THEN "moved" ELSE "open"
           t == FailStartWork(s, moved)
<1>1. /\ active \in [Purposes -> Nat] /\ \A q \in Purposes : active[q] \in {0, s.active[q]}
  BY DEF Modals
<1>2. refused \in BOOLEAN /\ form \in {"none", "pending", "open", "moved"}
  BY DEF Modals
<1>3. t = [s EXCEPT !.active = active, !.preparing = FALSE, !.refused = refused, !.form = form]
  BY DEF FailStartWork
<1> HIDE DEF active, refused, form, t
<1>4. /\ t \in Modals /\ t.kind = s.kind /\ t.filters = s.filters /\ t.cursor = s.cursor
      /\ t.list = s.list /\ t.detail = s.detail /\ t.selected = s.selected
      /\ t.depth = s.depth /\ t.active = active
  BY <1>1, <1>2, <1>3 DEF Modals
<1>5. SameShown(s, t)
  BY <1>1, <1>4 DEF SameShown
<1> QED BY <1>4, <1>5 DEF t

LEMMA ReceiveWorkInv ==
    ASSUME ModalInv
    PROVE  ReceivePreparation \/ ReceiveStartWork \/ ReceiveRetry => ModalInv'
<1>1. ASSUME NEW op, Taken(op), modal' # Nothing => modal' \in Modals /\ SameShown(modal, modal')
      PROVE  ModalInv'
  BY <1>1, TakenFacts, ShownInv
<1>2. ASSUME ReceivePreparation PROVE ModalInv'
  <2>1. Taken("prepare")
    BY <1>2 DEF ReceivePreparation
  <2>2. modal \in Modals /\ Result.is \in {"found", "failure", "existing"}
    BY <2>1, TakenFacts DEF Outcomes
  <2>3. CASE Result.is = "found"
    <3> DEFINE active == [modal.active EXCEPT !["work"] = 0]
    <3>1. /\ active \in [Purposes -> Nat]
          /\ \A q \in Purposes : active[q] \in {0, modal.active[q]}
      BY <2>2 DEF Modals
    <3>2. modal' = [modal EXCEPT !.depth = "work", !.preparing = FALSE, !.active = active,
                                !.refused = FALSE, !.form = "open"]
      BY <1>2, <2>3 DEF ReceivePreparation
    <3> HIDE DEF active
    <3>3. /\ modal' \in Modals /\ modal'.kind = modal.kind /\ modal'.filters = modal.filters
          /\ modal'.cursor = modal.cursor /\ modal'.list = modal.list
          /\ modal'.detail = modal.detail /\ modal'.selected = modal.selected
          /\ modal'.depth = "work" /\ modal'.active = active
      BY <2>2, <3>1, <3>2 DEF Modals
    <3>4. SameShown(modal, modal')
      BY <3>1, <3>3 DEF SameShown
    <3> QED BY <1>1, <2>1, <3>3, <3>4
  <2>4. CASE Result.is = "existing"
    BY <1>1, <1>2, <2>1, <2>4 DEF ReceivePreparation
  <2>5. CASE Result.is = "failure"
    <3>1. modal' = FailStartWork(modal, FALSE)
      BY <1>2, <2>5 DEF ReceivePreparation
    <3> QED BY <1>1, <2>1, <2>2, <3>1, FailStartWorkFits
  <2> QED BY <2>2, <2>3, <2>4, <2>5
<1>3. ASSUME ReceiveStartWork PROVE ModalInv'
  <2>1. Taken("start")
    BY <1>3 DEF ReceiveStartWork
  <2>2. modal \in Modals /\ Result.is \in {"found", "partial", "failure", "moved", "error"}
    BY <2>1, TakenFacts DEF Outcomes
  <2>3. CASE Result.is \in {"found", "error"}
    BY <1>1, <1>3, <2>1, <2>3 DEF ReceiveStartWork
  <2>4. CASE Result.is = "partial"
    <3> DEFINE s == WithoutWork(modal)
    <3>1. modal' = [s EXCEPT !.depth = "recovery", !.recovery = "open"]
      BY <1>3, <2>4 DEF ReceiveStartWork
    <3>2. /\ s \in Modals /\ s.kind = modal.kind /\ s.filters = modal.filters
          /\ s.cursor = modal.cursor /\ s.list = modal.list /\ s.detail = modal.detail
          /\ s.selected = modal.selected /\ s.active = [modal.active EXCEPT !["work"] = 0]
      BY <2>2, WithoutWorkTypes
    <3> HIDE DEF s
    <3>3. /\ modal' \in Modals /\ modal'.kind = s.kind /\ modal'.filters = s.filters
          /\ modal'.cursor = s.cursor /\ modal'.list = s.list /\ modal'.detail = s.detail
          /\ modal'.selected = s.selected /\ modal'.active = s.active
          /\ modal'.depth = "recovery"
      BY <3>1, <3>2 DEF Modals
    <3>4. \A q \in Purposes : modal'.active[q] \in {0, modal.active[q]}
      BY <2>2, <3>2, <3>3 DEF Modals
    <3>5. SameShown(modal, modal')
      BY <3>2, <3>3, <3>4 DEF SameShown
    <3> QED BY <1>1, <2>1, <3>3, <3>5
  <2>5. CASE Result.is \in {"failure", "moved"}
    <3>1. modal' = FailStartWork(modal, Result.is = "moved")
      BY <1>3, <2>5 DEF ReceiveStartWork
    <3> QED BY <1>1, <2>1, <2>2, <3>1, FailStartWorkFits
  <2> QED BY <2>2, <2>3, <2>4, <2>5
<1>4. ASSUME ReceiveRetry PROVE ModalInv'
  <2> DEFINE recovery == IF modal.recovery = "none" THEN modal.recovery ELSE "open"
  <2>1. Taken("retry")
    BY <1>4 DEF ReceiveRetry
  <2>2. modal \in Modals /\ recovery \in {"none", "open"}
    BY <2>1, TakenFacts
  <2>3. modal' \in {Nothing, [modal EXCEPT !.recovery = recovery]}
    BY <1>4 DEF ReceiveRetry
  <2> HIDE DEF recovery
  <2>4. CASE modal' = Nothing
    BY <1>1, <2>1, <2>4
  <2>5. CASE modal' = [modal EXCEPT !.recovery = recovery]
    <3>1. /\ modal' \in Modals /\ modal'.kind = modal.kind /\ modal'.filters = modal.filters
          /\ modal'.cursor = modal.cursor /\ modal'.list = modal.list
          /\ modal'.detail = modal.detail /\ modal'.selected = modal.selected
          /\ modal'.depth = modal.depth /\ modal'.active = modal.active
      BY <2>2, <2>5 DEF Modals
    <3>2. SameShown(modal, modal')
      BY <3>1 DEF SameShown
    <3> QED BY <1>1, <2>1, <3>1, <3>2
  <2> QED BY <2>3, <2>4, <2>5
<1> QED BY <1>2, <1>3, <1>4

(* A task's result is what the task was for.                               *)
LEMMA TaskAnswersInv ==
    ASSUME ModalInv, NEW purpose \in Purposes, TaskAnswers(purpose)
    PROVE  ModalInv'
<1>1. /\ ModalTypeOK /\ TasksFit(modal) /\ ResultsFit(modal)
      /\ results \in Seq(ModalResults) /\ tasks[purpose] # Nothing
      /\ tasks' = [tasks EXCEPT ![purpose] = Nothing]
      /\ UNCHANGED <<modal, ids>>
  BY DEF ModalInv, ModalTypeOK, TaskAnswers
<1> DEFINE task == tasks[purpose]
<1>2. /\ task \in ModalTasks /\ task.id \in 1 .. ids
      /\ Fits(modal, purpose, task.id, task.request)
  BY <1>1 DEF ModalTypeOK, TasksFit
<1>3. PICK outcome \in Outcomes(task.request) :
         results' = Append(results, [purpose |-> purpose, is |-> outcome,
                                     id |-> task.id, request |-> task.request])
  BY DEF TaskAnswers
<1> HIDE DEF task
<1> DEFINE result == [purpose |-> purpose, is |-> outcome,
                      id |-> task.id, request |-> task.request]
<1>4. /\ result.purpose = purpose /\ result.is = outcome /\ result.id = task.id
      /\ result.request = task.request
  OBVIOUS
<1>5. result \in ModalResults
  <2>1. task.request \in ModalRequests /\ task.id \in Nat
    BY <1>2 DEF ModalTasks
  <2>2. task.request.op \in {"list", "view", "prepare", "start", "retry"}
    BY <2>1 DEF ModalRequests, ListRequests, ViewRequests, WorkRequests
  <2>3. Outcomes(task.request) \subseteq ModalOutcomes
    <3>1. CASE task.request.op \in {"list", "view"}
      BY <3>1 DEF Outcomes, ModalOutcomes
    <3>2. CASE task.request.op = "prepare"
      BY <3>2 DEF Outcomes, ModalOutcomes
    <3>3. CASE task.request.op \in {"start", "retry"}
      BY <3>3 DEF Outcomes, ModalOutcomes
    <3> QED BY <2>2, <3>1, <3>2, <3>3
  <2> QED BY <1>3, <2>1, <2>3 DEF ModalResults
<1>6. results' = Append(results, result)
  BY <1>3
<1> HIDE DEF result
<1>7. /\ results' \in Seq(ModalResults) /\ Len(results') = Len(results) + 1
      /\ Len(results) \in Nat
      /\ \A i \in 1 .. Len(results) : results'[i] = results[i]
      /\ results'[Len(results) + 1] = result
  BY <1>1, <1>5, <1>6
<1>8. tasks' \in [Purposes -> ModalTasks \cup {Nothing}]
  BY <1>1 DEF ModalTypeOK
<1>9. ModalTypeOK'
  BY <1>1, <1>7, <1>8 DEF ModalTypeOK
<1>10. TasksFit(modal)'
  <2> SUFFICES ASSUME NEW q \in Purposes, tasks'[q] # Nothing
               PROVE  /\ tasks'[q].id \in 1 .. ids
                      /\ Fits(modal, q, tasks'[q].id, tasks'[q].request)
    BY <1>1 DEF TasksFit, Fits
  <2>1. tasks'[q] = tasks[q]
    BY <1>1 DEF ModalTypeOK
  <2> QED BY <1>1, <2>1 DEF TasksFit
<1>11. ResultsFit(modal)'
  <2> SUFFICES ASSUME NEW i \in 1 .. Len(results) + 1
               PROVE  /\ results'[i].id \in 1 .. ids
                      /\ results'[i].is \in Outcomes(results'[i].request)
                      /\ Fits(modal, results'[i].purpose, results'[i].id, results'[i].request)
    BY <1>1, <1>7 DEF ResultsFit, Fits, Outcomes
  <2>1. CASE i \in 1 .. Len(results)
    <3>1. results'[i] = results[i]
      BY <1>7, <2>1
    <3> QED BY <1>1, <2>1, <3>1 DEF ResultsFit
  <2>2. CASE i = Len(results) + 1
    <3>1. results'[i] = result
      BY <1>7, <2>2
    <3> QED BY <1>2, <1>3, <1>4, <3>1
  <2> QED BY <1>7, <2>1, <2>2
<1>12. modal' # Nothing => ShowsItsChoice(modal')
  BY <1>1 DEF ModalInv
<1> QED BY <1>9, <1>10, <1>11, <1>12 DEF ModalInv

(* The modal, its tasks and their results keep to the query.               *)
THEOREM ModalInvariance == ModalSpec => []ModalInv
<1>1. ModalInit => ModalInv
  <2> SUFFICES ASSUME ModalInit PROVE ModalInv
    OBVIOUS
  <2>1. /\ modal = Nothing /\ results = <<>> /\ ids = 0
        /\ tasks = [q \in Purposes |-> Nothing]
    BY DEF ModalInit, NoTasks
  <2>2. <<>> \in Seq(ModalResults)
    OBVIOUS
  <2>3. ModalTypeOK
    BY <2>1, <2>2 DEF ModalTypeOK
  <2>4. TasksFit(modal) /\ ResultsFit(modal)
    BY <2>1 DEF TasksFit, ResultsFit
  <2> QED BY <2>1, <2>3, <2>4 DEF ModalInv
<1>2. ASSUME ModalInv, [ModalNext]_modalVars PROVE ModalInv'
  <2>1. CASE UNCHANGED modalVars
    BY <1>2, <2>1, ShownInv DEF modalVars, ModalInv, ModalTypeOK, SameShown
  <2>2. CASE \/ OpenGitHub
             \/ \E k \in Kinds : OpenWorkSource([kind |-> k, number |-> 1]) \/ SwitchKind(k)
    BY <1>2, <2>2, OpenGitHubInv, OpenWorkSourceInv, SwitchKindInv
  <2>3. CASE \/ RefreshList \/ NextPage \/ PreviousPage
             \/ \E f \in Filters : ApplyFilter(f)
    BY <1>2, <2>3, ListKeysInv
  <2>4. CASE OpenSelected \/ RefreshDetail \/ MoreComments
    BY <1>2, <2>4, DetailKeysInv
  <2>5. CASE OpenWorktree \/ CloseGitHub \/ CycleBase \/ EscapeWork \/ EscapeDetail
    BY <1>2, <2>5, ModalKeysInv
  <2>6. CASE \/ \E another \in BOOLEAN : StartWork(another)
             \/ RetryPrepare \/ RefreshBase \/ SubmitStartWork \/ RetrySession
    BY <1>2, <2>6, WorkKeysInv
  <2>7. CASE \E purpose \in Purposes : TaskAnswers(purpose)
    BY <1>2, <2>7, TaskAnswersInv
  <2>8. CASE ResultDropped
    <3>1. /\ results # <<>> /\ results' = Tail(results)
          /\ UNCHANGED <<modal, tasks, ids>>
      BY <2>8 DEF ResultDropped
    <3>2. modal # Nothing => modal \in Modals /\ SameShown(modal, modal)
      BY <1>2 DEF ModalInv, ModalTypeOK, SameShown
    <3> QED BY <1>2, <3>1, <3>2, ShownInv
  <2>9. CASE ReceiveListResult \/ ReceiveDetailResult
    BY <1>2, <2>9, ReceiveListResultInv, ReceiveDetailResultInv
  <2>10. CASE ReceivePreparation \/ ReceiveStartWork \/ ReceiveRetry
    BY <1>2, <2>10, ReceiveWorkInv
  <2> QED BY <1>2, <2>1, <2>2, <2>3, <2>4, <2>5, <2>6, <2>7, <2>8, <2>9, <2>10 DEF ModalNext
<1> QED BY <1>1, <1>2, PTL DEF ModalSpec

(* The list in the terminal UI's modal is the answer to what is chosen by  *)
(* now, and the comments are those of the selected item, in order, however *)
(* late the results of replaced tasks come (apply_github_result).          *)
THEOREM ModalKeepsToTheQuery == ModalSpec => []ModalIsOfTheQuery
<1>1. ModalInv => ModalIsOfTheQuery
  BY DEF ModalInv, ShowsItsChoice, ModalIsOfTheQuery
<1> QED BY <1>1, ModalInvariance, PTL

(***************************************************************************)
(* The review of local changes.                                            *)

(* A review has these fields, a generation and flags.                      *)
ReviewFields ==
    {"checkout", "files", "listed", "selected", "file", "generation",
     "paused", "hidden", "error", "pending", "sent", "queued", "load",
     "refresh", "discard"}

IsReview(r) ==
    /\ r = [f \in ReviewFields |-> r[f]]
    /\ r.generation \in Nat
    /\ {r.paused, r.queued, r.load, r.refresh, r.discard} \subseteq BOOLEAN

(* The pending request is no newer than the review.                        *)
AskedBefore(r) ==
    Awaiting(r) => r.pending.generation \in 0 .. r.generation

(* On the desktop the list of a Checkout is asked for when the request of  *)
(* the Checkout before has come back.                                      *)
Unlisted(r) ==
    Awaiting(r) /\ r.pending.checkout # r.checkout =>
        r.files = {} /\ r.selected = NoKey

ReviewOK(r) ==
    IsReview(r) /\ AskedBefore(r) /\ (reviewer = "desktop" => Unlisted(r))

(* Its reply will not be thrown away.                                      *)
Open(r) == Awaiting(r) /\ ~r.discard
Outdated(r) == r.pending.generation < r.generation

(* A paused review that the user let alone, or of which only files were    *)
(* chosen: what is under way is the diff of a file.                        *)
Unchosen(r) == ~Open(r) /\ (reviewer = "terminal" => ~r.load)

OfFiles(r) ==
    /\ reviewer = "terminal" => ~r.refresh /\ (Open(r) => r.pending.key # List)
    /\ reviewer = "desktop" /\ Open(r) =>
         /\ r.pending.checkout = r.checkout
         /\ r.pending.key # List \/ Outdated(r)
    /\ reviewer = "desktop" /\ r.queued => Awaiting(r) /\ Outdated(r)

(* What a request leaves alone.                                            *)
Same(r, s) ==
    /\ s.checkout = r.checkout /\ s.generation = r.generation
    /\ s.files = r.files /\ s.listed = r.listed /\ s.file = r.file
    /\ s.selected = r.selected /\ s.paused = r.paused
    /\ s.discard = r.discard /\ s.load = r.load /\ s.refresh = r.refresh

(* What choosing a file leaves alone.                                      *)
Chosen(r, s) ==
    /\ s.checkout = r.checkout /\ s.files = r.files /\ s.listed = r.listed
    /\ s.paused = r.paused /\ s.discard = r.discard
    /\ s.load = r.load /\ s.refresh = r.refresh /\ s.queued = r.queued
    /\ s.pending = r.pending /\ s.sent = r.sent
    /\ s.generation = IF s.selected = r.selected THEN r.generation
                      ELSE r.generation + 1

(* A request goes out when none is under way.                              *)
Sends(r, s) ==
    \/ s.pending = r.pending /\ s.sent = r.sent
    \/ ~Awaiting(r) /\ s.sent = s.pending

(* Entering another Checkout begins a review that is not paused.             *)
LEMMA EnterReview ==
    ASSUME NEW r, NEW c, ReviewOK(r)
    PROVE  LET s == Enter(r, c) IN
           /\ ReviewOK(s)
           /\ s.checkout = c
           /\ s.pending = r.pending /\ s.sent = r.sent
           /\ s.paused => s = r
<1> DEFINE s == Enter(r, c)
<1>1. CASE r.checkout = c
  BY <1>1 DEF Enter
<1>2. CASE r.checkout # c
  <2>1. s = [FreshReview EXCEPT
            !.checkout = c, !.generation = r.generation + 1,
            !.pending = r.pending, !.sent = r.sent, !.queued = r.queued,
            !.load = r.load, !.refresh = r.refresh, !.discard = r.discard]
    BY <1>2 DEF Enter
  <2> HIDE DEF s
  <2>2. /\ FreshReview = [f \in ReviewFields |-> FreshReview[f]]
        /\ ~FreshReview.paused /\ FreshReview.files = {}
        /\ FreshReview.selected = NoKey
    BY DEF FreshReview, ReviewFields
  <2>3. s = [f \in ReviewFields |-> s[f]]
    BY <2>1, <2>2 DEF ReviewFields
  <2>4. s.checkout = c /\ s.generation = r.generation + 1
    BY <2>1, <2>2 DEF ReviewFields
  <2>5. s.pending = r.pending /\ s.sent = r.sent
    BY <2>1, <2>2 DEF ReviewFields
  <2>6. s.queued = r.queued /\ s.load = r.load /\ s.refresh = r.refresh
        /\ s.discard = r.discard
    BY <2>1, <2>2 DEF ReviewFields
  <2>7. ~s.paused /\ s.files = {} /\ s.selected = NoKey
    BY <2>1, <2>2 DEF ReviewFields
  <2>8. s.paused \in BOOLEAN
    BY <2>1, <2>2 DEF FreshReview, ReviewFields
  <2>9. IsReview(s) /\ AskedBefore(s) /\ Unlisted(s)
    BY <2>3, <2>4, <2>5, <2>6, <2>7, <2>8
    DEF ReviewOK, IsReview, AskedBefore, Awaiting, Unlisted
  <2> QED BY <2>9, <2>4, <2>5, <2>7 DEF s, ReviewOK
<1> QED BY <1>1, <1>2

(* Selecting a file overtakes the request that is under way.                 *)
LEMMA SelectReview ==
    ASSUME NEW r, NEW key, ReviewOK(r),
           reviewer = "desktop" /\ r.files = {} => key = NoKey
    PROVE  LET s == Select(r, key) IN
           ReviewOK(s) /\ Chosen(r, s) /\ s.selected = key
<1> DEFINE s == Select(r, key)
<1>1. CASE r.selected = key
  BY <1>1 DEF Select, Chosen
<1>2. CASE r.selected # key
  <2>1. s = [r EXCEPT !.selected = key, !.file = NoReview,
                      !.generation = r.generation + 1]
    BY <1>2 DEF Select
  <2> HIDE DEF s
  <2>2. /\ s = [f \in ReviewFields |-> s[f]]
        /\ Chosen(r, s) /\ s.selected = key
    BY <1>2, <2>1 DEF ReviewOK, IsReview, Chosen, ReviewFields
  <2>3. IsReview(s) /\ AskedBefore(s)
    BY <2>2 DEF ReviewOK, IsReview, AskedBefore, Awaiting, Chosen
  <2>4. reviewer = "desktop" => Unlisted(s)
    BY <2>2 DEF ReviewOK, Unlisted, Awaiting, Chosen
  <2> QED BY <2>2, <2>3, <2>4 DEF s, ReviewOK
<1> QED BY <1>1, <1>2

(* So does selecting what is at a place of the list.                         *)
LEMMA SelectAtReview ==
    ASSUME NEW r, NEW i, ReviewOK(r)
    PROVE  LET s == SelectAt(r, i) IN ReviewOK(s) /\ Chosen(r, s)
<1> DEFINE key == IF Shown(r) = {} THEN NoKey
                  ELSE Visible(r)[Min({i, Len(Visible(r))})]
<1>1. SelectAt(r, i) = Select(r, key)
  BY DEF SelectAt
<1>2. r.files = {} => key = NoKey
  BY DEF Shown
<1> HIDE DEF key
<1> QED BY <1>1, <1>2, SelectReview

(* A request leaves with what is shown as it was.                            *)
LEMMA AskForReview ==
    ASSUME NEW r, NEW c, NEW key, ReviewOK(r), ~Awaiting(r),
           reviewer = "desktop" => c = r.checkout
    PROVE  LET s == AskFor(r, c, key) IN
           /\ ReviewOK(s) /\ Same(r, s) /\ Sends(r, s)
           /\ s.queued = r.queued
           /\ s.pending = [checkout |-> c, generation |-> r.generation,
                           key |-> key]
<1> DEFINE s == AskFor(r, c, key)
           request == [checkout |-> c, generation |-> r.generation,
                       key |-> key]
<1>1. s = [r EXCEPT !.pending = request, !.sent = request]
  BY DEF AskFor
<1>2. /\ request.checkout = c /\ request.generation = r.generation
      /\ request.key = key
  OBVIOUS
<1> HIDE DEF s, request
<1>3. IsReview(s) /\ Same(r, s) /\ s.queued = r.queued
      /\ s.pending = request /\ s.sent = request
  BY <1>1 DEF ReviewOK, IsReview, ReviewFields, Same
<1>4. AskedBefore(s)
  BY <1>2, <1>3 DEF IsReview, AskedBefore, Same
<1>5. reviewer = "desktop" => Unlisted(s)
  BY <1>2, <1>3 DEF Unlisted, Same
<1> QED BY <1>3, <1>4, <1>5 DEF ReviewOK, Sends, s, request

(* A bridge that is full takes no request.                                   *)
LEMMA SendTheReview ==
    ASSUME NEW r, NEW key, NEW full, ReviewOK(r), ~Awaiting(r)
    PROVE  LET s == SendReview(r, key, full) IN
           /\ ReviewOK(s) /\ Same(r, s) /\ Sends(r, s)
           /\ s.queued = r.queued
           /\ \/ s.pending = r.pending
              \/ s.pending = [checkout |-> r.checkout,
                              generation |-> r.generation, key |-> key]
<1> DEFINE s == [r EXCEPT !.error = TRUE]
<1>1. /\ ReviewOK(s) /\ Same(r, s) /\ Sends(r, s)
      /\ s.queued = r.queued /\ s.pending = r.pending
  <2>1. /\ IsReview(s) /\ Same(r, s) /\ s.queued = r.queued
        /\ s.pending = r.pending /\ s.sent = r.sent
    BY DEF ReviewOK, IsReview, ReviewFields, Same
  <2> HIDE DEF s
  <2> QED BY <2>1 DEF ReviewOK, AskedBefore, Unlisted, Awaiting, Same, Sends
<1>2. CASE full
  BY <1>1, <1>2 DEF SendReview
<1>3. CASE ~full
  BY <1>3, AskForReview DEF SendReview
<1> QED BY <1>2, <1>3

(* The reply of a request has come.                                          *)
LEMMA IdleReview ==
    ASSUME NEW r, ReviewOK(r)
    PROVE  LET s == [r EXCEPT !.pending = NoReview] IN
           /\ ReviewOK(s) /\ ~Awaiting(s) /\ Same(r, s)
           /\ s.sent = r.sent /\ s.queued = r.queued
<1> DEFINE s == [r EXCEPT !.pending = NoReview]
<1>1. /\ IsReview(s) /\ Same(r, s) /\ s.queued = r.queued
      /\ s.pending = NoReview /\ s.sent = r.sent
  BY DEF ReviewOK, IsReview, ReviewFields, Same
<1> HIDE DEF s
<1>2. ReviewOK(s) /\ ~Awaiting(s)
  BY <1>1 DEF ReviewOK, AskedBefore, Unlisted, Awaiting
<1> QED BY <1>1, <1>2 DEF s

(* A request is queued behind another, or not any more.                      *)
LEMMA QueuedReview ==
    ASSUME NEW r, NEW b \in BOOLEAN, ReviewOK(r)
    PROVE  LET s == [r EXCEPT !.queued = b] IN
           /\ ReviewOK(s) /\ Same(r, s) /\ s.queued = b
           /\ s.pending = r.pending /\ s.sent = r.sent
<1> DEFINE s == [r EXCEPT !.queued = b]
<1>1. /\ s = [f \in ReviewFields |-> s[f]]
      /\ Same(r, s) /\ s.queued = b
      /\ s.pending = r.pending /\ s.sent = r.sent
  BY DEF ReviewOK, IsReview, ReviewFields, Same
<1> HIDE DEF s
<1>2. IsReview(s)
  BY <1>1 DEF ReviewOK, IsReview, Same
<1>3. ReviewOK(s)
  BY <1>1, <1>2 DEF ReviewOK, AskedBefore, Unlisted, Awaiting, Same
<1> QED BY <1>1, <1>3 DEF s

(* The diff of the selected file is asked for, or will be.                   *)
LEMMA LoadTheFile ==
    ASSUME NEW r, NEW full, ReviewOK(r)
    PROVE  LET s == LoadReviewFile(r, full) IN
           /\ ReviewOK(s) /\ Same(r, s) /\ Sends(r, s)
           /\ Awaiting(r) => s.pending = r.pending
           /\ ~Awaiting(r) =>
                /\ s.queued = r.queued
                /\ \/ s.pending = r.pending
                   \/ /\ r.selected # NoKey
                      /\ s.pending = [checkout |-> r.checkout,
                                      generation |-> r.generation,
                                      key |-> r.selected]
<1>1. CASE Awaiting(r)
  BY <1>1, QueuedReview DEF LoadReviewFile, Sends
<1>2. CASE ~Awaiting(r) /\ r.selected = NoKey
  BY <1>2 DEF LoadReviewFile, Sends, Same
<1>3. CASE ~Awaiting(r) /\ r.selected # NoKey
  <2>1. LoadReviewFile(r, full) = SendReview(r, r.selected, full)
    BY <1>3 DEF LoadReviewFile
  <2> QED BY <1>3, <2>1, SendTheReview
<1> QED BY <1>1, <1>2, <1>3

(* The review of another Checkout begins anew.                             *)
LEMMA RefreshTheReview ==
    ASSUME NEW r, NEW full, ReviewOK(r)
    PROVE  LET s == RefreshReview(r, full) IN
           /\ ReviewOK(s) /\ Sends(r, s)
           /\ s.paused => r.paused /\ r.checkout = screen.checkout
<1> DEFINE c == screen.checkout
           kept == IF r.checkout = c THEN r ELSE [r EXCEPT !.discard = FALSE]
           entered == Enter(kept, c)
           s == RefreshReview(r, full)
<1>1. /\ ReviewOK(kept) /\ kept.pending = r.pending /\ kept.sent = r.sent
      /\ kept.checkout = r.checkout /\ kept.paused = r.paused
  <2> DEFINE d == [r EXCEPT !.discard = FALSE]
  <2>1. /\ d = [f \in ReviewFields |-> d[f]]
        /\ d.discard \in BOOLEAN
        /\ d.checkout = r.checkout /\ d.generation = r.generation
        /\ d.files = r.files /\ d.selected = r.selected
        /\ d.paused = r.paused /\ d.queued = r.queued /\ d.load = r.load
        /\ d.refresh = r.refresh /\ d.pending = r.pending
        /\ d.sent = r.sent
    BY DEF ReviewOK, IsReview, ReviewFields
  <2> HIDE DEF d
  <2>2. ReviewOK(d)
    BY <2>1 DEF ReviewOK, IsReview, AskedBefore, Unlisted, Awaiting
  <2> QED BY <2>1, <2>2 DEF d
<1> HIDE DEF kept
<1>2. /\ ReviewOK(entered)
      /\ entered.pending = r.pending /\ entered.sent = r.sent
      /\ entered.paused => entered = kept /\ r.checkout = c
  <2>1. /\ ReviewOK(entered) /\ entered.checkout = c
        /\ entered.pending = kept.pending /\ entered.sent = kept.sent
        /\ entered.paused => entered = kept
    BY <1>1, EnterReview
  <2> HIDE DEF entered
  <2> QED BY <1>1, <2>1
<1> HIDE DEF entered
<1>3. CASE Awaiting(entered)
  <2>1. s = [entered EXCEPT !.queued = TRUE]
    BY <1>3 DEF RefreshReview, entered, kept
  <2> HIDE DEF s
  <2>2. /\ ReviewOK(s) /\ s.paused = entered.paused
        /\ s.pending = entered.pending /\ s.sent = entered.sent
    BY <1>2, <2>1, QueuedReview DEF Same
  <2>3. ReviewOK(s) /\ Sends(r, s)
    BY <1>2, <2>2 DEF Sends
  <2>4. s.paused => r.paused /\ r.checkout = screen.checkout
    BY <1>1, <1>2, <2>2
  <2> QED BY <2>3, <2>4 DEF s
<1>4. CASE ~Awaiting(entered)
  <2> DEFINE e == [entered EXCEPT !.queued = FALSE]
  <2>1. s = SendReview(e, List, full)
    BY <1>4 DEF RefreshReview, entered, kept
  <2>2. /\ ReviewOK(e) /\ e.paused = entered.paused
        /\ e.pending = entered.pending /\ e.sent = entered.sent
    BY <1>2, QueuedReview DEF Same
  <2> HIDE DEF e
  <2>3. ~Awaiting(e) /\ ~Awaiting(r)
    BY <1>2, <1>4, <2>2 DEF Awaiting
  <2> HIDE DEF s
  <2>4. ReviewOK(s) /\ s.paused = e.paused /\ Sends(e, s)
    <3>1. /\ ReviewOK(SendReview(e, List, full))
          /\ Same(e, SendReview(e, List, full))
          /\ Sends(e, SendReview(e, List, full))
      BY <2>2, <2>3, SendTheReview
    <3> QED BY <2>1, <3>1 DEF Same
  <2>5. ReviewOK(s) /\ Sends(r, s)
    BY <1>2, <2>2, <2>3, <2>4 DEF Sends
  <2>6. s.paused => r.paused /\ r.checkout = screen.checkout
    BY <1>1, <1>2, <2>2, <2>4
  <2> QED BY <2>5, <2>6 DEF s
<1> QED BY <1>3, <1>4

(* A list and a file replace what is shown, and nothing of the requests.   *)
LEMMA ApplyTheList ==
    ASSUME NEW r, NEW list, ReviewOK(r), ~Awaiting(r)
    PROVE  LET s == ApplyList(r, list) IN
           /\ ReviewOK(s) /\ ~Awaiting(s)
           /\ s.sent = r.sent /\ s.pending = r.pending
           /\ s.paused = r.paused /\ s.queued = r.queued
<1> DEFINE listed == [r EXCEPT !.files = list.files, !.listed = list.version]
           before == {i \in DOMAIN Visible(r) : Visible(r)[i] = r.selected}
           moved == SelectAt(listed, Max(before \cup {1}))
<1>1. /\ ReviewOK(listed) /\ listed.pending = r.pending
      /\ listed.sent = r.sent /\ listed.paused = r.paused
      /\ listed.queued = r.queued
  <2>1. /\ IsReview(listed)
        /\ listed.pending = r.pending
        /\ listed.sent = r.sent /\ listed.paused = r.paused
        /\ listed.queued = r.queued
    BY DEF ReviewOK, IsReview, ReviewFields
  <2> HIDE DEF listed
  <2> QED BY <2>1 DEF ReviewOK, AskedBefore, Unlisted, Awaiting
<1> HIDE DEF listed
<1>2. /\ ReviewOK(moved) /\ moved.pending = r.pending
      /\ moved.sent = r.sent /\ moved.paused = r.paused
      /\ moved.queued = r.queued
  BY <1>1, SelectAtReview DEF Chosen
<1>3. ASSUME NEW q, ReviewOK(q), q.pending = r.pending, q.sent = r.sent,
             q.paused = r.paused, q.queued = r.queued
      PROVE  LET s == [q EXCEPT !.error = FALSE] IN
             /\ ReviewOK(s) /\ ~Awaiting(s)
             /\ s.sent = r.sent /\ s.pending = r.pending
             /\ s.paused = r.paused /\ s.queued = r.queued
  <2> DEFINE s == [q EXCEPT !.error = FALSE]
  <2>1. /\ IsReview(s) /\ s.pending = q.pending /\ s.sent = q.sent
        /\ s.paused = q.paused /\ s.queued = q.queued
    BY <1>3 DEF ReviewOK, IsReview, ReviewFields
  <2> HIDE DEF s
  <2>2. ReviewOK(s) /\ ~Awaiting(s)
    BY <1>3, <2>1 DEF ReviewOK, AskedBefore, Unlisted, Awaiting
  <2> QED BY <1>3, <2>1, <2>2 DEF s
<1> HIDE DEF moved
<1>4. \/ ApplyList(r, list) = r
      \/ ApplyList(r, list) = [listed EXCEPT !.error = FALSE]
      \/ ApplyList(r, list) = [moved EXCEPT !.error = FALSE]
  BY DEF ApplyList, listed, moved
<1> QED BY <1>1, <1>2, <1>3, <1>4

(* A diff replaces the one that is shown, and nothing else.                  *)
LEMMA ApplyTheFile ==
    ASSUME NEW r, NEW file, ReviewOK(r)
    PROVE  LET s == ApplyFile(r, file) IN
           /\ ReviewOK(s)
           /\ s.sent = r.sent /\ s.pending = r.pending
           /\ s.paused = r.paused /\ s.queued = r.queued
           /\ s.checkout = r.checkout /\ s.generation = r.generation
           /\ s.files = r.files /\ s.listed = r.listed
           /\ s.discard = r.discard /\ s.load = r.load
           /\ s.refresh = r.refresh
<1> DEFINE s == [r EXCEPT !.file = file, !.error = FALSE]
<1>1. /\ IsReview(s)
      /\ s.sent = r.sent /\ s.pending = r.pending
      /\ s.paused = r.paused /\ s.queued = r.queued
      /\ s.checkout = r.checkout /\ s.generation = r.generation
      /\ s.files = r.files /\ s.listed = r.listed
      /\ s.selected = r.selected
      /\ s.discard = r.discard /\ s.load = r.load /\ s.refresh = r.refresh
  BY DEF ReviewOK, IsReview, ReviewFields
<1> HIDE DEF s
<1>2. ReviewOK(s)
  BY <1>1 DEF ReviewOK, AskedBefore, Unlisted, Awaiting
<1>3. ApplyFile(r, file) = r \/ ApplyFile(r, file) = s
  BY DEF ApplyFile, s
<1> QED BY <1>1, <1>2, <1>3

(* What holds of a paused review until the user asks for more.             *)
LetAlone(r, chosen) == OfFiles(r) /\ (~chosen => Unchosen(r))

Calm(r, s, chosen) ==
    /\ s.files = r.files /\ s.listed = r.listed
    /\ chosen \/ s.file = r.file

Reacts(r, s, chosen) ==
    /\ s.paused => r.paused
    /\ s.paused /\ LetAlone(r, chosen) =>
         /\ LetAlone(s, chosen)
         /\ s.checkout = r.checkout => Calm(r, s, chosen)

(* A request for the file that is selected, in the place of one that was   *)
(* answered.                                                               *)
LEMMA LoadsQuietly ==
    ASSUME NEW r, NEW s, NEW chosen \in BOOLEAN, reviewer = "desktop",
           ReviewOK(r), ReviewOK(s), Same(r, s), Awaiting(r),
           s.queued = FALSE,
           \/ s.pending = NoReview
           \/ /\ r.selected # NoKey
              /\ s.pending = [checkout |-> r.checkout,
                              generation |-> r.generation,
                              key |-> r.selected]
    PROVE  Reacts(r, s, chosen)
<1> SUFFICES ASSUME s.paused, LetAlone(r, chosen)
             PROVE  LetAlone(s, chosen) /\ Calm(r, s, chosen)
  BY DEF Reacts, Same
<1>1. Calm(r, s, chosen)
  BY DEF Calm, Same
<1>2. OfFiles(s)
  <2>1. CASE s.pending = NoReview
    BY <2>1 DEF OfFiles, Open, Awaiting
  <2>2. CASE /\ r.selected # NoKey
             /\ s.pending = [checkout |-> r.checkout,
                             generation |-> r.generation,
                             key |-> r.selected]
    BY <2>2 DEF OfFiles, Same, List, NoKey
  <2> QED BY <2>1, <2>2
<1>3. ~chosen => Unchosen(s)
  BY DEF LetAlone, Unchosen, Open, Same, Awaiting
<1> QED BY <1>1, <1>2, <1>3 DEF LetAlone

(* The failure of a request leaves a paused review as it is.                 *)
LEMMA FailureIsQuiet ==
    ASSUME NEW r, NEW full, NEW chosen \in BOOLEAN, reviewer = "desktop",
           ReviewOK(r), Awaiting(r)
    PROVE  LET s == ReviewFailure(r, r.pending, full) IN
           /\ ReviewOK(s) /\ Reacts(r, s, chosen)
           /\ s.sent \in {r.sent, s.pending}
<1> DEFINE idle == [r EXCEPT !.pending = NoReview]
           quiet == [idle EXCEPT !.queued = FALSE]
           s == ReviewFailure(r, r.pending, full)
<1>1. /\ ReviewOK(idle) /\ ~Awaiting(idle) /\ Same(r, idle)
      /\ idle.sent = r.sent /\ idle.queued = r.queued
  BY IdleReview
<1>2. /\ ReviewOK(quiet) /\ ~Awaiting(quiet) /\ Same(r, quiet)
      /\ quiet.sent = r.sent /\ quiet.queued = FALSE
      /\ quiet.pending = NoReview
  <2> HIDE DEF idle
  <2>1. /\ ReviewOK(quiet) /\ Same(idle, quiet) /\ quiet.queued = FALSE
        /\ quiet.pending = idle.pending /\ quiet.sent = idle.sent
    BY <1>1, QueuedReview
  <2> HIDE DEF quiet
  <2> QED BY <1>1, <2>1 DEF Same, Awaiting
<1>3. CASE /\ screen.checkout = r.pending.checkout
           /\ r.checkout = r.pending.checkout
           /\ r.generation = r.pending.generation
  <2>1. s = [idle EXCEPT !.error = TRUE]
    BY <1>3 DEF ReviewFailure
  <2> HIDE DEF idle, s
  <2>2. /\ IsReview(s) /\ Same(idle, s) /\ s.queued = idle.queued
        /\ s.pending = idle.pending /\ s.sent = idle.sent
    BY <1>1, <2>1 DEF ReviewOK, IsReview, ReviewFields, Same
  <2>3. ReviewOK(s) /\ ~Awaiting(s)
    BY <1>1, <2>2 DEF ReviewOK, AskedBefore, Unlisted, Awaiting
  <2>4. Reacts(r, s, chosen)
    <3>1. LetAlone(r, chosen) => ~r.queued
      BY <1>3 DEF LetAlone, OfFiles, Outdated, ReviewOK, IsReview
    <3>2. Calm(r, s, chosen) /\ s.paused = r.paused
      BY <1>1, <2>2 DEF Calm, Same
    <3>3. LetAlone(r, chosen) => LetAlone(s, chosen)
      BY <1>1, <2>2, <2>3, <3>1 DEF LetAlone, OfFiles, Unchosen, Open
    <3> QED BY <3>2, <3>3 DEF Reacts
  <2> QED BY <1>1, <2>2, <2>3, <2>4 DEF s
<1>4. CASE /\ ~ /\ screen.checkout = r.pending.checkout
                /\ r.checkout = r.pending.checkout
                /\ r.generation = r.pending.generation
           /\ r.checkout = screen.checkout
  <2>1. s = LoadReviewFile(quiet, full)
    BY <1>4 DEF ReviewFailure
  <2> HIDE DEF quiet, s
  <2>2. /\ ReviewOK(s) /\ Same(quiet, s) /\ Sends(quiet, s)
        /\ s.queued = quiet.queued
        /\ \/ s.pending = quiet.pending
           \/ /\ quiet.selected # NoKey
              /\ s.pending = [checkout |-> quiet.checkout,
                              generation |-> quiet.generation,
                              key |-> quiet.selected]
    BY <1>2, <2>1, LoadTheFile
  <2>3. Same(r, s) /\ s.sent \in {r.sent, s.pending} /\ s.queued = FALSE
    BY <1>2, <2>2 DEF Same, Sends
  <2>4. \/ s.pending = NoReview
        \/ /\ r.selected # NoKey
           /\ s.pending = [checkout |-> r.checkout,
                           generation |-> r.generation,
                           key |-> r.selected]
    BY <1>2, <2>2 DEF Same
  <2>5. Reacts(r, s, chosen)
    BY <2>2, <2>3, <2>4, LoadsQuietly
  <2> QED BY <2>2, <2>3, <2>5 DEF s
<1>5. CASE /\ ~ /\ screen.checkout = r.pending.checkout
                /\ r.checkout = r.pending.checkout
                /\ r.generation = r.pending.generation
           /\ r.checkout # screen.checkout
  <2>1. s = RefreshReview(quiet, full)
    BY <1>5 DEF ReviewFailure
  <2> HIDE DEF quiet, s
  <2>2. /\ ReviewOK(s) /\ Sends(quiet, s)
        /\ s.paused => quiet.checkout = screen.checkout
    BY <1>2, <2>1, RefreshTheReview
  <2>3. ~s.paused
    BY <1>2, <1>5, <2>2 DEF Same
  <2>4. s.sent \in {r.sent, s.pending}
    BY <1>2, <2>2 DEF Sends
  <2> QED BY <2>2, <2>3, <2>4 DEF s, Reacts
<1> QED BY <1>3, <1>4, <1>5

(* So does its response, unless it was asked for since the pause.            *)
LEMMA ResponseIsQuiet ==
    ASSUME NEW r, NEW response, NEW full, NEW chosen \in BOOLEAN,
           reviewer = "desktop", ReviewOK(r), Awaiting(r),
           response.type \in {"list", "file", "error"},
           response.type = "list" => r.pending.key = List
    PROVE  LET s == ReviewResponse(r, r.pending, response, full) IN
           /\ ReviewOK(s) /\ Reacts(r, s, chosen)
           /\ s.sent \in {r.sent, s.pending}
<1> DEFINE idle == [r EXCEPT !.pending = NoReview]
           quiet == [idle EXCEPT !.queued = FALSE]
           s == ReviewResponse(r, r.pending, response, full)
<1>1. /\ ReviewOK(idle) /\ ~Awaiting(idle) /\ Same(r, idle)
      /\ idle.sent = r.sent /\ idle.queued = r.queued
      /\ idle.pending = NoReview
  BY IdleReview DEF Awaiting
<1>2. /\ ReviewOK(quiet) /\ ~Awaiting(quiet) /\ Same(r, quiet)
      /\ quiet.sent = r.sent /\ quiet.queued = FALSE
      /\ quiet.pending = NoReview
  <2> HIDE DEF idle
  <2>1. /\ ReviewOK(quiet) /\ Same(idle, quiet) /\ quiet.queued = FALSE
        /\ quiet.pending = idle.pending /\ quiet.sent = idle.sent
    BY <1>1, QueuedReview
  <2> HIDE DEF quiet
  <2> QED BY <1>1, <2>1 DEF Same, Awaiting
<1>3. CASE r.discard
  <2>1. s = [idle EXCEPT !.discard = FALSE, !.queued = FALSE]
    BY <1>3 DEF ReviewResponse
  <2> HIDE DEF idle, s
  <2>2. /\ s = [f \in ReviewFields |-> s[f]]
        /\ s.generation = idle.generation /\ s.paused = idle.paused
        /\ s.load = idle.load /\ s.refresh = idle.refresh
        /\ s.pending = idle.pending /\ s.sent = idle.sent
        /\ s.files = idle.files /\ s.listed = idle.listed
        /\ s.file = idle.file
        /\ ~s.queued
    BY <1>1, <2>1 DEF ReviewOK, IsReview, ReviewFields
  <2>3. {s.queued, s.discard} \subseteq BOOLEAN
    BY <1>1, <2>1 DEF ReviewOK, IsReview, ReviewFields
  <2>4. ReviewOK(s) /\ ~Awaiting(s)
    BY <1>1, <2>2, <2>3
      DEF ReviewOK, IsReview, AskedBefore, Unlisted, Awaiting
  <2>5. Reacts(r, s, chosen)
    <3>1. Calm(r, s, chosen) /\ s.paused = r.paused
      BY <1>1, <2>2 DEF Calm, Same
    <3>2. LetAlone(r, chosen) => LetAlone(s, chosen)
      BY <2>2, <2>4 DEF LetAlone, OfFiles, Unchosen, Open
    <3> QED BY <3>1, <3>2 DEF Reacts
  <2> QED BY <1>1, <2>2, <2>4, <2>5 DEF s
<1>4. CASE ~r.discard /\ {screen.checkout, r.checkout} # {r.pending.checkout}
  <2>1. s = RefreshReview(idle, full)
    BY <1>4 DEF ReviewResponse
  <2> HIDE DEF idle, s
  <2>2. /\ ReviewOK(s) /\ Sends(idle, s)
        /\ s.paused => idle.paused /\ idle.checkout = screen.checkout
    BY <1>1, <2>1, RefreshTheReview
  <2>3. s.sent \in {r.sent, s.pending}
    BY <1>1, <2>2 DEF Sends
  <2>4. s.paused => r.paused /\ ~LetAlone(r, chosen)
    BY <1>1, <1>4, <2>2 DEF LetAlone, OfFiles, Open, Same
  <2> QED BY <2>2, <2>3, <2>4 DEF s, Reacts
<1>5. CASE /\ ~r.discard
           /\ {screen.checkout, r.checkout} = {r.pending.checkout}
           /\ r.generation # r.pending.generation
  <2>1. s = LoadReviewFile(quiet, full)
    BY <1>5 DEF ReviewResponse
  <2> HIDE DEF quiet, s
  <2>2. /\ ReviewOK(s) /\ Same(quiet, s) /\ Sends(quiet, s)
        /\ s.queued = quiet.queued
        /\ \/ s.pending = quiet.pending
           \/ /\ quiet.selected # NoKey
              /\ s.pending = [checkout |-> quiet.checkout,
                              generation |-> quiet.generation,
                              key |-> quiet.selected]
    BY <1>2, <2>1, LoadTheFile
  <2>3. Same(r, s) /\ s.sent \in {r.sent, s.pending} /\ s.queued = FALSE
    BY <1>2, <2>2 DEF Same, Sends
  <2>4. \/ s.pending = NoReview
        \/ /\ r.selected # NoKey
           /\ s.pending = [checkout |-> r.checkout,
                           generation |-> r.generation,
                           key |-> r.selected]
    BY <1>2, <2>2 DEF Same
  <2>5. Reacts(r, s, chosen)
    BY <2>2, <2>3, <2>4, LoadsQuietly
  <2> QED BY <2>2, <2>3, <2>5 DEF s
<1>6. CASE /\ ~r.discard
           /\ {screen.checkout, r.checkout} = {r.pending.checkout}
           /\ r.generation = r.pending.generation
  <2>0. LetAlone(r, chosen) => chosen /\ ~r.queued /\ r.pending.key # List
    BY <1>6 DEF LetAlone, OfFiles, Unchosen, Outdated, Open, ReviewOK, IsReview
  <2>1. CASE response.type = "list"
    <3> DEFINE a == ApplyList(idle, response)
    <3>1. s = LoadReviewFile(a, full)
      BY <1>6, <2>1 DEF ReviewResponse
    <3> HIDE DEF idle, s
    <3>2. /\ ReviewOK(a) /\ ~Awaiting(a) /\ a.sent = r.sent
          /\ a.paused = r.paused
      BY <1>1, ApplyTheList DEF Same
    <3> HIDE DEF a
    <3>3. ReviewOK(s) /\ Same(a, s) /\ Sends(a, s)
      BY <3>1, <3>2, LoadTheFile
    <3>4. ~LetAlone(r, chosen)
      BY <2>0, <2>1
    <3>5. s.sent \in {r.sent, s.pending} /\ s.paused = r.paused
      BY <3>2, <3>3 DEF Sends, Same
    <3> QED BY <3>3, <3>4, <3>5 DEF s, Reacts
  <2>2. CASE response.type = "file"
    <3> DEFINE a == ApplyFile(idle, response)
    <3>1. s = IF r.queued THEN RefreshReview(a, full) ELSE a
      BY <1>6, <2>2 DEF ReviewResponse
    <3> HIDE DEF idle, s
    <3>2. /\ ReviewOK(a) /\ ~Awaiting(a) /\ a.sent = r.sent
          /\ a.paused = r.paused /\ a.files = r.files
          /\ a.listed = r.listed /\ a.queued = r.queued
          /\ a.refresh = r.refresh
      BY <1>1, ApplyTheFile DEF Same, Awaiting
    <3> HIDE DEF a
    <3>3. CASE r.queued
      <4>1. s = RefreshReview(a, full)
        BY <3>1, <3>3
      <4>2. ReviewOK(s) /\ Sends(a, s) /\ (s.paused => a.paused)
        BY <3>2, <4>1, RefreshTheReview
      <4>3. s.sent \in {r.sent, s.pending}
        BY <3>2, <4>2 DEF Sends
      <4> QED BY <2>0, <3>2, <3>3, <4>2, <4>3 DEF s, Reacts
    <3>4. CASE ~r.queued
      <4>1. s = a
        BY <3>1, <3>4
      <4>2. LetAlone(r, chosen) => LetAlone(s, chosen) /\ Calm(r, s, chosen)
        BY <2>0, <3>2, <4>1 DEF LetAlone, OfFiles, Open, Calm
      <4> QED BY <3>2, <4>1, <4>2 DEF s, Reacts
    <3> QED BY <3>3, <3>4
  <2>3. CASE response.type = "error"
    <3>1. s = [idle EXCEPT !.error = TRUE]
      BY <1>6, <2>3 DEF ReviewResponse
    <3> HIDE DEF idle, s
    <3>2. /\ IsReview(s) /\ Same(idle, s) /\ s.queued = idle.queued
          /\ s.pending = idle.pending /\ s.sent = idle.sent
      BY <1>1, <3>1 DEF ReviewOK, IsReview, ReviewFields, Same
    <3>3. ReviewOK(s) /\ ~Awaiting(s)
      BY <1>1, <3>2 DEF ReviewOK, AskedBefore, Unlisted, Awaiting
    <3>4. LetAlone(r, chosen) => LetAlone(s, chosen) /\ Calm(r, s, chosen)
      BY <1>1, <2>0, <3>2, <3>3 DEF LetAlone, OfFiles, Open, Calm, Same
    <3>5. s.paused = r.paused /\ s.sent = r.sent
      BY <1>1, <3>2 DEF Same
    <3> QED BY <3>3, <3>4, <3>5 DEF s, Reacts
  <2> QED BY <2>1, <2>2, <2>3
<1> QED BY <1>3, <1>4, <1>5, <1>6

(* Polling a paused review asks for nothing.                                 *)
LEMMA PollIsQuiet ==
    ASSUME NEW r, NEW full, NEW chosen \in BOOLEAN, ReviewOK(r)
    PROVE  LET s == PollReview(r, full) IN
           ReviewOK(s) /\ Reacts(r, s, chosen) /\ Sends(r, s)
<1> DEFINE s == PollReview(r, full)
<1>1. CASE screen.shown /\ (screen.checkout # r.checkout \/ ~r.paused)
  <2>1. s = RefreshReview(r, full)
    BY <1>1 DEF PollReview
  <2> HIDE DEF s
  <2>2. /\ ReviewOK(s) /\ Sends(r, s)
        /\ s.paused => r.paused /\ r.checkout = screen.checkout
    BY <2>1, RefreshTheReview
  <2> QED BY <1>1, <2>2 DEF s, Reacts
<1>2. CASE ~(screen.shown /\ (screen.checkout # r.checkout \/ ~r.paused))
  <2>1. s = r
    BY <1>2 DEF PollReview
  <2> QED BY <2>1 DEF Reacts, Calm, Sends
<1> QED BY <1>1, <1>2

(* The next request of a paused review is for a diff that was chosen.      *)
LEMMA NextIsQuiet ==
    ASSUME NEW r, NEW due, NEW chosen \in BOOLEAN, reviewer = "terminal",
           ReviewOK(r)
    PROVE  LET s == NextRequest(r, due) IN
           /\ ReviewOK(s) /\ Reacts(r, s, chosen) /\ Sends(r, s)
           /\ s.checkout = r.checkout
<1> DEFINE s == NextRequest(r, due)
           loading == [r EXCEPT !.load = FALSE]
           asking == [r EXCEPT !.refresh = FALSE]
<1>1. /\ ReviewOK(loading) /\ ~loading.load /\ loading.refresh = r.refresh
      /\ loading.pending = r.pending /\ loading.sent = r.sent
      /\ loading.paused = r.paused /\ loading.discard = r.discard
      /\ loading.files = r.files /\ loading.listed = r.listed
      /\ loading.selected = r.selected
      /\ loading.checkout = r.checkout
  <2>1. /\ loading = [f \in ReviewFields |-> loading[f]]
        /\ loading.generation = r.generation
        /\ loading.load \in BOOLEAN
        /\ ~loading.load /\ loading.refresh = r.refresh
        /\ loading.pending = r.pending /\ loading.sent = r.sent
        /\ loading.paused = r.paused /\ loading.discard = r.discard
        /\ loading.files = r.files /\ loading.listed = r.listed
        /\ loading.selected = r.selected
        /\ loading.checkout = r.checkout /\ loading.queued = r.queued
    BY DEF ReviewOK, IsReview, ReviewFields
  <2> HIDE DEF loading
  <2>2. ReviewOK(loading)
    BY <2>1 DEF ReviewOK, IsReview, AskedBefore, Awaiting
  <2> QED BY <2>1, <2>2
<1>2. /\ ReviewOK(asking)
      /\ asking.pending = r.pending /\ asking.sent = r.sent
      /\ asking.paused = r.paused /\ asking.checkout = r.checkout
  <2>1. /\ asking = [f \in ReviewFields |-> asking[f]]
        /\ asking.generation = r.generation
        /\ asking.refresh \in BOOLEAN
        /\ asking.pending = r.pending /\ asking.sent = r.sent
        /\ asking.paused = r.paused /\ asking.discard = r.discard
        /\ asking.load = r.load
        /\ asking.checkout = r.checkout /\ asking.queued = r.queued
    BY DEF ReviewOK, IsReview, ReviewFields
  <2> HIDE DEF asking
  <2>2. ReviewOK(asking)
    BY <2>1 DEF ReviewOK, IsReview, AskedBefore, Awaiting
  <2> QED BY <2>1, <2>2
<1> HIDE DEF loading, asking
<1>3. CASE s = r
  BY <1>3 DEF Reacts, Calm, Sends
<1>4. CASE ~Awaiting(r) /\ r.load /\ r.selected = NoKey /\ s = loading
  <2>1. LetAlone(r, chosen) => chosen
    BY <1>4 DEF LetAlone, Unchosen
  <2>2. LetAlone(r, chosen) => LetAlone(loading, chosen)
    BY <1>1, <2>1 DEF LetAlone, OfFiles, Open, Awaiting
  <2> QED BY <1>1, <1>4, <2>1, <2>2 DEF Reacts, Calm, Sends
<1>5. CASE /\ ~Awaiting(r) /\ r.load /\ r.selected # NoKey
           /\ s = AskFor(loading, screen.checkout, r.selected)
  <2> HIDE DEF s
  <2>0. ~Awaiting(loading)
    BY <1>1, <1>5 DEF Awaiting
  <2>1. /\ ReviewOK(s) /\ Same(loading, s) /\ Sends(loading, s)
        /\ s.pending = [checkout |-> screen.checkout,
                        generation |-> loading.generation,
                        key |-> r.selected]
    BY <1>1, <1>5, <2>0, AskForReview
  <2>2. Sends(r, s)
    BY <1>1, <1>5, <2>1 DEF Sends
  <2>3. LetAlone(r, chosen) => chosen
    BY <1>5 DEF LetAlone, Unchosen
  <2>4. s.pending.key = r.selected
    BY <2>1
  <2>5. LetAlone(r, chosen) => LetAlone(s, chosen)
    BY <1>1, <1>5, <2>1, <2>3, <2>4 DEF LetAlone, OfFiles, Same, List, NoKey
  <2> QED BY <1>1, <2>1, <2>2, <2>3, <2>5 DEF s, Reacts, Calm, Same
<1>6. CASE /\ ~Awaiting(r) /\ ~r.load /\ (r.refresh \/ ~r.paused)
           /\ s = AskFor(asking, screen.checkout, List)
  <2> HIDE DEF s
  <2>0. ~Awaiting(asking)
    BY <1>2, <1>6 DEF Awaiting
  <2>1. ReviewOK(s) /\ Same(asking, s) /\ Sends(asking, s)
    BY <1>2, <1>6, <2>0, AskForReview
  <2>2. Sends(r, s)
    BY <1>2, <1>6, <2>1 DEF Sends
  <2>3. s.paused => r.paused /\ ~LetAlone(r, chosen)
    BY <1>2, <1>6, <2>1 DEF LetAlone, OfFiles, Same
  <2> QED BY <1>2, <2>1, <2>2, <2>3 DEF s, Reacts, Same
<1>7. \/ s = r
      \/ ~Awaiting(r) /\ r.load /\ r.selected = NoKey /\ s = loading
      \/ /\ ~Awaiting(r) /\ r.load /\ r.selected # NoKey
         /\ s = AskFor(loading, screen.checkout, r.selected)
      \/ /\ ~Awaiting(r) /\ ~r.load /\ (r.refresh \/ ~r.paused)
         /\ s = AskFor(asking, screen.checkout, List)
  <2>1. CASE ~screen.shown \/ Awaiting(r)
    BY <2>1 DEF NextRequest
  <2>2. CASE screen.shown /\ ~Awaiting(r) /\ r.load
    BY <1>1, <2>2 DEF NextRequest, loading
  <2>3. CASE screen.shown /\ ~Awaiting(r) /\ ~r.load
    BY <2>3 DEF NextRequest, asking
  <2> QED BY <2>1, <2>2, <2>3
<1> QED BY <1>3, <1>4, <1>5, <1>6, <1>7

(* A reply that is received replaces at most the diff that was chosen.       *)
LEMMA ReceivesQuietly ==
    ASSUME NEW r, NEW response, NEW chosen \in BOOLEAN,
           reviewer = "terminal", ReviewOK(r), Awaiting(r), ~r.discard,
           response.type = "list" => r.pending.key = List
    PROVE  LET s == Receive(r, r.pending, response) IN
           /\ ReviewOK(s) /\ Reacts(r, s, chosen)
           /\ s.sent = r.sent
<1> DEFINE idle == [r EXCEPT !.pending = NoReview]
           s == Receive(r, r.pending, response)
<1>1. /\ ReviewOK(idle) /\ ~Awaiting(idle) /\ Same(r, idle)
      /\ idle.sent = r.sent /\ idle.queued = r.queued
      /\ idle.pending = NoReview
  BY IdleReview DEF Awaiting
<1>2. LetAlone(r, chosen) => chosen /\ ~r.refresh /\ r.pending.key # List
  BY DEF LetAlone, OfFiles, Unchosen, Open
<1>3. ASSUME NEW q, ReviewOK(q), ~Awaiting(q), q.sent = r.sent,
             q.paused = r.paused
      PROVE  LET t == [q EXCEPT !.load = TRUE] IN
             /\ ReviewOK(t) /\ ~Awaiting(t) /\ t.sent = r.sent
             /\ t.paused = r.paused /\ t.refresh = q.refresh
             /\ t.files = q.files /\ t.listed = q.listed
  <2> DEFINE t == [q EXCEPT !.load = TRUE]
  <2>1. /\ t = [f \in ReviewFields |-> t[f]]
        /\ t.generation = q.generation /\ t.load \in BOOLEAN
        /\ t.paused = q.paused /\ t.queued = q.queued
        /\ t.refresh = q.refresh /\ t.discard = q.discard
        /\ t.pending = q.pending /\ t.sent = q.sent
        /\ t.files = q.files /\ t.listed = q.listed
    BY <1>3 DEF ReviewOK, IsReview, ReviewFields
  <2> HIDE DEF t
  <2>2. ReviewOK(t) /\ ~Awaiting(t)
    BY <1>3, <2>1 DEF ReviewOK, IsReview, AskedBefore, Awaiting
  <2> QED BY <1>3, <2>1, <2>2 DEF t
<1>4. CASE s = [ApplyList(idle, response) EXCEPT !.load = TRUE]
           /\ response.type = "list"
  <2> DEFINE a == ApplyList(idle, response)
  <2>1. /\ ReviewOK(a) /\ ~Awaiting(a) /\ a.sent = r.sent
        /\ a.paused = r.paused
    BY <1>1, ApplyTheList DEF Same
  <2>2. s = [a EXCEPT !.load = TRUE]
    BY <1>4
  <2> HIDE DEF a, s
  <2>3. ReviewOK(s) /\ s.sent = r.sent /\ s.paused = r.paused
    BY <1>3, <2>1, <2>2
  <2> QED BY <1>2, <1>4, <2>3 DEF s, Reacts
<1>5. CASE s = ApplyFile(idle, response)
  <2> HIDE DEF idle, s
  <2>1. /\ ReviewOK(s) /\ ~Awaiting(s) /\ s.sent = r.sent
        /\ s.paused = r.paused /\ s.refresh = r.refresh
        /\ s.files = r.files /\ s.listed = r.listed
    BY <1>1, <1>5, ApplyTheFile DEF Same, Awaiting
  <2>2. LetAlone(r, chosen) => LetAlone(s, chosen) /\ Calm(r, s, chosen)
    BY <1>2, <2>1 DEF LetAlone, OfFiles, Open, Calm
  <2> QED BY <2>1, <2>2 DEF s, Reacts
<1>6. CASE s = [idle EXCEPT !.error = TRUE]
  <2> HIDE DEF idle, s
  <2>1. /\ IsReview(s) /\ Same(idle, s)
        /\ s.pending = idle.pending /\ s.sent = idle.sent
    BY <1>1, <1>6 DEF ReviewOK, IsReview, ReviewFields, Same
  <2>2. ReviewOK(s) /\ ~Awaiting(s)
    BY <1>1, <2>1 DEF ReviewOK, AskedBefore, Awaiting
  <2>3. LetAlone(r, chosen) => LetAlone(s, chosen) /\ Calm(r, s, chosen)
    BY <1>1, <1>2, <2>1, <2>2 DEF LetAlone, OfFiles, Open, Calm, Same
  <2> QED BY <1>1, <2>1, <2>2, <2>3 DEF s, Reacts, Same
<1>7. CASE s = [idle EXCEPT !.load = TRUE]
  <2> HIDE DEF idle, s
  <2>1. /\ ReviewOK(s) /\ ~Awaiting(s) /\ s.sent = r.sent
        /\ s.paused = r.paused /\ s.refresh = r.refresh
        /\ s.files = r.files /\ s.listed = r.listed
    BY <1>1, <1>3, <1>7 DEF Same
  <2>2. LetAlone(r, chosen) => LetAlone(s, chosen) /\ Calm(r, s, chosen)
    BY <1>2, <2>1 DEF LetAlone, OfFiles, Open, Calm
  <2> QED BY <2>1, <2>2 DEF s, Reacts
<1>8. \/ s = [ApplyList(idle, response) EXCEPT !.load = TRUE]
         /\ response.type = "list"
      \/ s = ApplyFile(idle, response)
      \/ s = [idle EXCEPT !.error = TRUE]
      \/ s = [idle EXCEPT !.load = TRUE]
  <2> HIDE DEF idle
  <2>1. CASE /\ {screen.checkout, r.checkout} = {r.pending.checkout}
             /\ r.generation = r.pending.generation
    <3>1. CASE response.type = "list"
      BY <2>1, <3>1 DEF Receive, idle
    <3>2. CASE response.type = "file"
      BY <2>1, <3>2 DEF Receive, idle
    <3>3. CASE response.type # "list" /\ response.type # "file"
      BY <2>1, <3>3 DEF Receive, idle
    <3> QED BY <3>1, <3>2, <3>3
  <2>2. CASE ~ /\ {screen.checkout, r.checkout} = {r.pending.checkout}
               /\ r.generation = r.pending.generation
    BY <2>2 DEF Receive, idle
  <2> QED BY <2>1, <2>2
<1> QED BY <1>4, <1>5, <1>6, <1>7, <1>8

(* One turn of the event loop of the terminal UI.                            *)
LEMMA PollOfTerminal ==
    ASSUME NEW r, NEW due, NEW chosen \in BOOLEAN, reviewer = "terminal",
           ReviewOK(r),
           r.sent # NoReview => r.sent = r.pending,
           answer # NoReview =>
               /\ Awaiting(r) /\ r.sent = NoReview
               /\ answer.type = "list" => r.pending.key = List
    PROVE  LET s == Poll(r, due) IN
           /\ ReviewOK(s) /\ Reacts(r, s, chosen)
           /\ s.sent # NoReview => s.sent = s.pending
<1> DEFINE fresh == Enter(r, screen.checkout)
           entered == IF screen.shown /\ r.checkout # screen.checkout
                      THEN [fresh EXCEPT !.refresh = TRUE] ELSE r
           s == Poll(r, due)
<1>1. /\ ReviewOK(entered)
      /\ entered.pending = r.pending /\ entered.sent = r.sent
      /\ entered.paused => entered = r
      /\ entered.discard \in BOOLEAN
  <2>1. CASE ~(screen.shown /\ r.checkout # screen.checkout)
    BY <2>1 DEF ReviewOK, IsReview
  <2>2. CASE screen.shown /\ r.checkout # screen.checkout
    <3>1. /\ ReviewOK(fresh) /\ fresh.checkout = screen.checkout
          /\ fresh.pending = r.pending /\ fresh.sent = r.sent
          /\ fresh.paused => fresh = r
      BY EnterReview
    <3>2. ~fresh.paused
      BY <2>2, <3>1
    <3> HIDE DEF fresh
    <3>3. entered = [fresh EXCEPT !.refresh = TRUE]
      BY <2>2
    <3> HIDE DEF entered
    <3>4. /\ entered = [f \in ReviewFields |-> entered[f]]
          /\ entered.generation = fresh.generation
          /\ entered.refresh \in BOOLEAN
          /\ entered.paused = fresh.paused /\ entered.queued = fresh.queued
          /\ entered.load = fresh.load /\ entered.discard = fresh.discard
          /\ entered.pending = fresh.pending /\ entered.sent = fresh.sent
      BY <3>1, <3>3 DEF ReviewOK, IsReview, ReviewFields
    <3>5. ReviewOK(entered)
      BY <3>1, <3>4 DEF ReviewOK, IsReview, AskedBefore, Awaiting
    <3> QED BY <3>1, <3>2, <3>4, <3>5 DEF ReviewOK, IsReview
  <2> QED BY <2>1, <2>2
<1>2. Reacts(r, entered, chosen)
  BY <1>1 DEF Reacts, Calm
<1>3. ASSUME answer = NoReview
      PROVE  s = NextRequest(entered, due)
  BY <1>3 DEF Poll
<1>4. ASSUME answer # NoReview, r.discard
      PROVE  s = [entered EXCEPT !.pending = NoReview, !.discard = FALSE]
  BY <1>4 DEF Poll
<1>5. ASSUME answer # NoReview, ~r.discard
      PROVE  s = NextRequest(Receive(entered, r.pending, answer), due)
  BY <1>5 DEF Poll
<1>6. entered.discard = r.discard
  <2>1. CASE ~(screen.shown /\ r.checkout # screen.checkout)
    BY <2>1
  <2>2. CASE screen.shown /\ r.checkout # screen.checkout
    <3>1. fresh = [FreshReview EXCEPT
            !.checkout = screen.checkout, !.generation = r.generation + 1,
            !.pending = r.pending, !.sent = r.sent, !.queued = r.queued,
            !.load = r.load, !.refresh = r.refresh, !.discard = r.discard]
      BY <2>2 DEF Enter
    <3> HIDE DEF fresh
    <3>2. FreshReview = [f \in ReviewFields |-> FreshReview[f]]
      BY DEF FreshReview, ReviewFields
    <3>3. fresh = [f \in ReviewFields |-> fresh[f]]
      BY <3>1, <3>2 DEF ReviewFields
    <3>4. fresh.discard = r.discard
      BY <3>1, <3>2 DEF ReviewFields
    <3>5. entered = [fresh EXCEPT !.refresh = TRUE]
      BY <2>2
    <3> HIDE DEF entered
    <3> QED BY <3>3, <3>4, <3>5 DEF ReviewFields
  <2> QED BY <2>1, <2>2
<1> HIDE DEF entered, s
<1>7. ASSUME NEW e, ReviewOK(e), Reacts(r, e, chosen),
             e.sent # NoReview => e.sent = e.pending,
             s = NextRequest(e, due)
      PROVE  /\ ReviewOK(s) /\ Reacts(r, s, chosen)
             /\ s.sent # NoReview => s.sent = s.pending
  <2>1. /\ ReviewOK(s) /\ Reacts(e, s, chosen) /\ Sends(e, s)
        /\ s.checkout = e.checkout
    BY <1>7, NextIsQuiet
  <2>2. Reacts(r, s, chosen)
    BY <1>7, <2>1 DEF Reacts, Calm
  <2> QED BY <1>7, <2>1, <2>2 DEF Sends
<1>8. CASE answer = NoReview
  BY <1>1, <1>2, <1>3, <1>7, <1>8 DEF s
<1>9. CASE answer # NoReview /\ r.discard
  <2>1. s = [entered EXCEPT !.pending = NoReview, !.discard = FALSE]
    BY <1>4, <1>9
  <2>2. /\ s = [f \in ReviewFields |-> s[f]]
        /\ s.generation = entered.generation
        /\ s.paused = entered.paused /\ s.queued = entered.queued
        /\ s.load = entered.load /\ s.refresh = entered.refresh
        /\ s.pending = NoReview /\ s.sent = entered.sent
        /\ s.files = entered.files /\ s.listed = entered.listed
        /\ s.file = entered.file
        /\ s.discard \in BOOLEAN
    BY <1>1, <2>1 DEF ReviewOK, IsReview, ReviewFields
  <2>3. ReviewOK(s) /\ ~Awaiting(s)
    BY <1>1, <2>2 DEF ReviewOK, IsReview, AskedBefore, Awaiting
  <2>4. LetAlone(entered, chosen) => LetAlone(s, chosen)
    BY <2>2, <2>3 DEF LetAlone, OfFiles, Unchosen, Open
  <2>5. Reacts(r, s, chosen)
    BY <1>1, <2>2, <2>4 DEF Reacts, Calm
  <2>6. s.sent = NoReview
    BY <1>1, <1>9, <2>2
  <2> QED BY <2>3, <2>5, <2>6 DEF s
<1>10. CASE answer # NoReview /\ ~r.discard
  <2> DEFINE e == Receive(entered, r.pending, answer)
  <2>1. s = NextRequest(e, due)
    BY <1>5, <1>10
  <2>2. /\ ReviewOK(e) /\ Reacts(entered, e, chosen) /\ e.sent = entered.sent
    <3>1. Awaiting(entered) /\ ~entered.discard
      BY <1>1, <1>6, <1>10 DEF Awaiting
    <3> DEFINE f == Receive(entered, entered.pending, answer)
    <3>2. ReviewOK(f) /\ Reacts(entered, f, chosen) /\ f.sent = entered.sent
      BY <1>1, <1>10, <3>1, ReceivesQuietly
    <3>3. e = f
      BY <1>1
    <3> HIDE DEF e, f
    <3> QED BY <3>2, <3>3
  <2> HIDE DEF e
  <2>3. Reacts(r, e, chosen)
    BY <1>1, <2>2 DEF Reacts
  <2>4. e.sent = NoReview
    BY <1>1, <1>10, <2>2
  <2> QED BY <1>7, <2>1, <2>2, <2>3, <2>4 DEF s
<1> QED BY <1>8, <1>9, <1>10

----------------------------------------------------------------------------
Pasts == [renew : BOOLEAN, chosen : BOOLEAN, again : BOOLEAN,
          choices : Nat, edits : Nat, faults : Nat]

(* The user asked for a new list; on the desktop also by the way.          *)
AskedForMore == past.renew \/ (reviewer = "desktop" /\ past.again)

(* The answer is that to the pending request, which was served.            *)
AnswerFits ==
    /\ review.sent # NoReview => review.sent = review.pending
    /\ answer # NoReview =>
         /\ Awaiting(review) /\ review.sent = NoReview
         /\ answer.type \in {"list", "file"} \cup Failures
         /\ answer.type = "list" => review.pending.key = List

ReviewInv ==
    /\ reviewer \in {"desktop", "terminal"}
    /\ past \in Pasts
    /\ ReviewOK(review)
    /\ AnswerFits
    /\ review.paused /\ ~AskedForMore => LetAlone(review, past.chosen)

(* What PauseFreezes says of a step.                                       *)
Freezes ==
    review.paused /\ review'.paused /\ review'.checkout = review.checkout =>
         \/ past.renew \/ past'.renew
         \/ reviewer = "desktop" /\ (past.again \/ past'.again)
         \/ /\ review'.files = review.files
            /\ review'.listed = review.listed
            /\ \/ past.chosen \/ past'.chosen
               \/ review'.file = review.file

(* A step of the program reacts, and forgets what is settled.              *)
LEMMA ProgramReacts ==
    ASSUME ReviewInv, reviewer' = reviewer, ReviewOK(review'),
           Reacts(review, review', past.chosen),
           NEW full \in BOOLEAN, Remember(full)
    PROVE  /\ past' \in Pasts
           /\ ReviewOK(review)'
           /\ (review.paused /\ ~AskedForMore =>
                  LetAlone(review, past.chosen))'
           /\ Freezes
<1>1. /\ past' \in Pasts
      /\ past'.renew <=> past.renew /\ ~ReviewSettled(review')
      /\ past'.chosen <=> past.chosen /\ ~ReviewSettled(review')
      /\ past'.again <=> past.again /\ ~ReviewSettled(review')
  <2> DEFINE unsettled == ~ReviewSettled(review')
             n == IF full THEN past.faults + 1 ELSE past.faults
  <2>1. past' = [past EXCEPT !.renew = @ /\ unsettled,
                             !.chosen = @ /\ unsettled,
                             !.again = @ /\ unsettled, !.faults = n]
    BY DEF Remember
  <2>2. past \in Pasts /\ n \in Nat /\ unsettled \in BOOLEAN
    BY DEF ReviewInv, Pasts
  <2> HIDE DEF n, unsettled
  <2>3. /\ past' \in Pasts
        /\ past'.renew <=> past.renew /\ unsettled
        /\ past'.chosen <=> past.chosen /\ unsettled
        /\ past'.again <=> past.again /\ unsettled
    BY <2>1, <2>2 DEF Pasts
  <2> QED BY <2>3 DEF unsettled
<1>2. ReviewOK(review)'
  BY DEF ReviewOK
<1>3. Freezes
  BY <1>1 DEF Freezes, Reacts, Calm, ReviewInv, AskedForMore
<1>4. ASSUME review'.paused, ~AskedForMore'
      PROVE  LetAlone(review, past.chosen)'
  <2>1. CASE ReviewSettled(review')
    BY <2>1 DEF ReviewSettled, AtRest, LetAlone, OfFiles, Unchosen, Open
  <2>2. CASE ~ReviewSettled(review')
    <3>1. ~AskedForMore /\ (past'.chosen <=> past.chosen)
      BY <1>1, <1>4, <2>2 DEF AskedForMore
    <3>2. review.paused /\ LetAlone(review', past.chosen)
      BY <1>4, <3>1 DEF Reacts, ReviewInv
    <3> QED BY <3>1, <3>2 DEF LetAlone, OfFiles, Unchosen
  <2> QED BY <2>1, <2>2
<1> QED BY <1>1, <1>2, <1>3, <1>4

(* What the user asks is noted while the review is paused.                 *)
LEMMA NoteIsKept ==
    ASSUME ReviewInv, NEW asks, Note(asks), review'.paused \in BOOLEAN
    PROVE  /\ past' \in Pasts
           /\ past'.renew <=>
                (past.renew \/ {"refresh", "renew"} \cap asks # {})
                /\ review'.paused
           /\ past'.chosen <=> (past.chosen \/ "file" \in asks)
                               /\ review'.paused
           /\ past'.again <=> (past.again \/ "again" \in asks)
                              /\ review'.paused
<1> DEFINE a == {"refresh", "renew"} \cap asks # {}
           b == "file" \in asks
           c == "again" \in asks
           n == IF "show" \in asks THEN past.choices ELSE past.choices + 1
           p == review'.paused
<1>1. past' = [past EXCEPT !.choices = n, !.renew = (@ \/ a) /\ p,
                           !.chosen = (@ \/ b) /\ p,
                           !.again = (@ \/ c) /\ p]
  BY DEF Note
<1>2. past \in Pasts /\ n \in Nat /\ {a, b, c, p} \subseteq BOOLEAN
  BY DEF ReviewInv, Pasts
<1> HIDE DEF a, b, c, n, p
<1>3. /\ past' \in Pasts
      /\ past'.renew <=> (past.renew \/ a) /\ p
      /\ past'.chosen <=> (past.chosen \/ b) /\ p
      /\ past'.again <=> (past.again \/ c) /\ p
  BY <1>1, <1>2 DEF Pasts
<1> QED BY <1>3 DEF a, b, c, p

(* A file that was chosen on the desktop is asked for, now or when the     *)
(* request that is under way comes back.                                   *)
LEMMA ChoosesQuietly ==
    ASSUME NEW r, NEW t, reviewer = "desktop", ReviewOK(r), ReviewOK(t),
           LetAlone(r, past.chosen),
           Awaiting(r) => t.selected # r.selected,
           Awaiting(r) => r.pending.checkout = r.checkout,
           t.checkout = r.checkout, t.pending = r.pending,
           t.queued = r.queued, t.sent = r.sent,
           t.generation = IF t.selected = r.selected THEN r.generation
                          ELSE r.generation + 1
    PROVE  LET s == LoadReviewFile(t, FALSE) IN OfFiles(s)
<1> DEFINE s == LoadReviewFile(t, FALSE)
<1>1. CASE Awaiting(r)
  <2>1. Awaiting(t)
    BY <1>1 DEF Awaiting
  <2>2. s = [t EXCEPT !.queued = TRUE]
    BY <2>1 DEF LoadReviewFile
  <2>3. Same(t, s) /\ s.pending = t.pending
    BY <2>2, QueuedReview
  <2> HIDE DEF s
  <2>4. s.pending = r.pending /\ s.checkout = r.checkout
        /\ s.generation = r.generation + 1
    BY <1>1, <2>3 DEF Same
  <2>5. r.pending.checkout = r.checkout
    BY <1>1
  <2>6. r.pending.generation \in 0 .. r.generation
    BY <1>1 DEF ReviewOK, AskedBefore
  <2>7. Outdated(s)
    BY <2>4, <2>6 DEF Outdated, ReviewOK, IsReview
  <2>8. OfFiles(s)
    BY <1>1, <2>4, <2>5, <2>7 DEF OfFiles, Awaiting
  <2> QED BY <2>8 DEF s
<1>2. CASE ~Awaiting(r)
  <2>1. ~Awaiting(t)
    BY <1>2 DEF Awaiting
  <2>2. /\ Same(t, s) /\ s.queued = t.queued
        /\ \/ s.pending = t.pending
           \/ /\ t.selected # NoKey
              /\ s.pending = [checkout |-> t.checkout,
                              generation |-> t.generation,
                              key |-> t.selected]
    BY <2>1, LoadTheFile
  <2> HIDE DEF s
  <2>3. ~s.queued
    BY <1>2, <2>2 DEF LetAlone, OfFiles
  <2>4. ASSUME s.pending = t.pending
        PROVE  OfFiles(s)
    BY <1>2, <2>3, <2>4 DEF OfFiles, Open, Awaiting
  <2>5. ASSUME t.selected # NoKey,
               s.pending = [checkout |-> t.checkout,
                            generation |-> t.generation,
                            key |-> t.selected]
        PROVE  OfFiles(s)
    <3>1. s.pending.checkout = s.checkout /\ s.pending.key # List
      BY <2>2, <2>5 DEF Same, List, NoKey
    <3> QED BY <2>3, <3>1 DEF OfFiles
  <2>6. OfFiles(s)
    BY <2>2, <2>4, <2>5
  <2> QED BY <2>6 DEF s
<1> QED BY <1>1, <1>2

(* The reply that is under way is not to be thrown away any more.            *)
LEMMA UndiscardedReview ==
    ASSUME NEW r, ReviewOK(r)
    PROVE  LET s == [r EXCEPT !.discard = FALSE] IN
           /\ ReviewOK(s)
           /\ s.checkout = r.checkout /\ s.files = r.files
           /\ s.listed = r.listed /\ s.paused = r.paused
           /\ s.load = r.load /\ s.refresh = r.refresh
           /\ s.queued = r.queued /\ s.pending = r.pending
           /\ s.sent = r.sent /\ s.generation = r.generation
           /\ s.selected = r.selected /\ s.file = r.file
<1> DEFINE s == [r EXCEPT !.discard = FALSE]
<1>1. /\ s = [f \in ReviewFields |-> s[f]]
      /\ s.discard \in BOOLEAN
      /\ s.checkout = r.checkout /\ s.files = r.files
      /\ s.listed = r.listed /\ s.paused = r.paused
      /\ s.load = r.load /\ s.refresh = r.refresh
      /\ s.queued = r.queued /\ s.pending = r.pending
      /\ s.sent = r.sent /\ s.generation = r.generation
      /\ s.selected = r.selected /\ s.file = r.file
  BY DEF ReviewOK, IsReview, ReviewFields
<1> HIDE DEF s
<1>2. ReviewOK(s)
  BY <1>1 DEF ReviewOK, IsReview, AskedBefore, Unlisted, Awaiting
<1> QED BY <1>1, <1>2 DEF s

(* The invariant holds at the start.                                         *)
LEMMA ReviewInitially ==
    ReviewInit => ReviewInv
<1> SUFFICES ASSUME ReviewInit PROVE ReviewInv
  OBVIOUS
<1>1. reviewer \in {"desktop", "terminal"}
  BY ReviewAssumption DEF ReviewInit
<1>2. past \in Pasts
  BY DEF ReviewInit, Pasts
<1>3. /\ ~Awaiting(review) /\ review.sent = NoReview
      /\ ~review.paused /\ answer = NoReview
  BY DEF ReviewInit, FreshReview, Awaiting
<1>4. IsReview(review)
  <2>1. review = [f \in ReviewFields |-> review[f]]
    BY DEF ReviewInit, FreshReview, ReviewFields
  <2>2. review.generation \in Nat
    BY DEF ReviewInit, FreshReview
  <2>3. {review.paused, review.queued, review.load, review.refresh,
         review.discard} \subseteq BOOLEAN
    BY DEF ReviewInit, FreshReview
  <2> QED BY <2>1, <2>2, <2>3 DEF IsReview
<1> QED BY <1>1, <1>2, <1>3, <1>4
         DEF ReviewInv, ReviewOK, AskedBefore, Unlisted, AnswerFits

(* The steps of the program, and those of the user.                          *)
LEMMA PollReacts ==
    ReviewInv /\ PollStep => ReviewInv' /\ Freezes
<1> SUFFICES ASSUME ReviewInv, PollStep PROVE ReviewInv' /\ Freezes
  OBVIOUS
<1>0. reviewer' = reviewer /\ past.chosen \in BOOLEAN /\ ReviewOK(review)
  BY DEF PollStep, ReviewInv, Pasts
<1>1. CASE reviewer = "desktop"
  <2>1. PICK full \in BOOLEAN :
             review' = PollReview(review, full) /\ Remember(full)
    BY <1>1 DEF PollStep
  <2>2. answer' = answer
    BY <1>1 DEF PollStep
  <2>3. /\ ReviewOK(review') /\ Reacts(review, review', past.chosen)
        /\ Sends(review, review')
    BY <1>0, <2>1, PollIsQuiet
  <2>4. AnswerFits'
    BY <2>2, <2>3 DEF AnswerFits, ReviewInv, Sends, Awaiting
  <2> QED BY <1>0, <2>1, <2>3, <2>4, ProgramReacts DEF ReviewInv
<1>2. CASE reviewer = "terminal"
  <2>1. PICK due \in BOOLEAN : review' = Poll(review, due)
    BY <1>2 DEF PollStep
  <2>2. answer' = NoReview /\ Remember(FALSE)
    BY <1>2 DEF PollStep
  <2>3. /\ ReviewOK(review') /\ Reacts(review, review', past.chosen)
        /\ review'.sent # NoReview => review'.sent = review'.pending
    BY <1>0, <1>2, <2>1, PollOfTerminal DEF ReviewInv, AnswerFits
  <2>4. AnswerFits'
    BY <2>2, <2>3 DEF AnswerFits
  <2> QED BY <1>0, <2>2, <2>3, <2>4, ProgramReacts DEF ReviewInv
<1> QED BY <1>1, <1>2 DEF ReviewInv

(* The desktop takes a reply, or loses it.                                   *)
LEMMA TakeReacts ==
    ReviewInv /\ TakeReview => ReviewInv' /\ Freezes
<1> SUFFICES ASSUME ReviewInv, TakeReview PROVE ReviewInv' /\ Freezes
  OBVIOUS
<1>0. /\ reviewer' = reviewer /\ reviewer = "desktop"
      /\ past.chosen \in BOOLEAN /\ ReviewOK(review)
      /\ answer # NoReview /\ answer' = NoReview
      /\ Awaiting(review) /\ review.sent = NoReview
      /\ answer.type \in {"list", "file"} \cup Failures
      /\ answer.type = "list" => review.pending.key = List
  BY DEF TakeReview, ReviewInv, Pasts, AnswerFits
<1>1. ASSUME NEW full \in BOOLEAN, Remember(full),
             review' = IF answer.type = "failure"
                       THEN ReviewFailure(review, review.pending, full)
                       ELSE ReviewResponse(review, review.pending, answer,
                                           full)
      PROVE  ReviewInv' /\ Freezes
  <2>1. /\ ReviewOK(review') /\ Reacts(review, review', past.chosen)
        /\ review'.sent \in {review.sent, review'.pending}
    <3>1. CASE answer.type = "failure"
      BY <1>0, <1>1, <3>1, FailureIsQuiet
    <3>2. CASE answer.type # "failure"
      <4>1. answer.type \in {"list", "file", "error"}
        BY <1>0, <3>2 DEF Failures
      <4> QED BY <1>0, <1>1, <3>2, <4>1, ResponseIsQuiet
    <3> QED BY <3>1, <3>2
  <2>2. AnswerFits'
    BY <1>0, <2>1 DEF AnswerFits
  <2> QED BY <1>0, <1>1, <2>1, <2>2, ProgramReacts DEF ReviewInv
<1>2. ASSUME past' = [past EXCEPT !.faults = @ + 1], UNCHANGED review
      PROVE  ReviewInv' /\ Freezes
  <2>1. /\ past' \in Pasts /\ past'.renew = past.renew
        /\ past'.chosen = past.chosen /\ past'.again = past.again
    BY <1>2 DEF ReviewInv, Pasts
  <2>2. Freezes
    BY <1>2 DEF Freezes
  <2>3. AnswerFits'
    BY <1>0, <1>2 DEF AnswerFits, Awaiting
  <2>4. ReviewOK(review)' /\ (OfFiles(review) => OfFiles(review)')
        /\ (Unchosen(review) => Unchosen(review)')
    BY <1>0, <1>2 DEF ReviewOK, OfFiles, Unchosen
  <2> QED BY <1>0, <1>2, <2>1, <2>2, <2>3, <2>4
           DEF ReviewInv, AskedForMore, LetAlone
<1> QED BY <1>1, <1>2 DEF TakeReview

(* What the user does in a review: what it has to leave behind.            *)
LEMMA UserReacts ==
    ASSUME ReviewInv, reviewer' = reviewer, answer' = answer,
           NEW asks, Note(asks), ReviewOK(review'), Sends(review, review'),
           review'.paused /\ ~AskedForMore
             /\ {"refresh", "renew"} \cap asks = {}
             /\ (reviewer = "desktop" => "again" \notin asks) =>
               /\ OfFiles(review')
               /\ \/ "file" \in asks
                  \/ past.chosen
                  \/ Unchosen(review')
               /\ review.paused => Calm(review, review',
                                        past.chosen \/ "file" \in asks)
    PROVE  ReviewInv' /\ Freezes
<1>0. review'.paused \in BOOLEAN
  BY DEF ReviewOK, IsReview
<1>1. /\ past' \in Pasts
      /\ past'.renew <=>
           (past.renew \/ {"refresh", "renew"} \cap asks # {})
           /\ review'.paused
      /\ past'.chosen <=> (past.chosen \/ "file" \in asks) /\ review'.paused
      /\ past'.again <=> (past.again \/ "again" \in asks) /\ review'.paused
  BY <1>0, NoteIsKept
<1>2. ReviewOK(review)'
  BY DEF ReviewOK
<1>3. AnswerFits'
  BY DEF AnswerFits, ReviewInv, Sends, Awaiting
<1>4. ASSUME review'.paused, ~AskedForMore'
      PROVE  LetAlone(review, past.chosen)'
  <2>1. /\ ~AskedForMore /\ {"refresh", "renew"} \cap asks = {}
        /\ reviewer = "desktop" => "again" \notin asks
    BY <1>1, <1>4 DEF AskedForMore
  <2>2. /\ OfFiles(review')
        /\ past'.chosen \/ Unchosen(review')
    BY <1>1, <1>4, <2>1
  <2> QED BY <2>2 DEF LetAlone, OfFiles, Unchosen
<1>5. Freezes
  <2> SUFFICES ASSUME review.paused, review'.paused, ~past.renew, ~past'.renew,
                      ~(reviewer = "desktop" /\ (past.again \/ past'.again))
               PROVE  Calm(review, review', past.chosen \/ past'.chosen)
    BY DEF Freezes, Calm
  <2>1. /\ ~AskedForMore /\ {"refresh", "renew"} \cap asks = {}
        /\ reviewer = "desktop" => "again" \notin asks
    BY <1>1 DEF AskedForMore
  <2>2. Calm(review, review', past.chosen \/ "file" \in asks)
    BY <2>1
  <2> QED BY <1>1, <2>2 DEF Calm
<1> QED BY <1>1, <1>2, <1>3, <1>4, <1>5 DEF ReviewInv

(* Choosing a file, in the list or through a filter.                       *)
LEMMA ChosenReacts ==
    ASSUME ReviewInv, reviewer' = reviewer, answer' = answer,
           Note(IF Again THEN {"file", "again"} ELSE {"file"}),
           NEW t, ReviewOK(t), Chosen(review, t),
           reviewer = "desktop" /\ Awaiting(review)
             /\ t.selected # review.selected =>
               review.pending.checkout = review.checkout,
           \/ /\ reviewer = "terminal"
              /\ review' = [t EXCEPT !.load = TRUE]
           \/ /\ reviewer = "desktop"
              /\ review' = LoadReviewFile([t EXCEPT !.discard = FALSE], FALSE)
           \/ /\ reviewer = "desktop" /\ review' = t
              /\ t.selected = review.selected
    PROVE  ReviewInv' /\ Freezes
<1> DEFINE asks == IF Again THEN {"file", "again"} ELSE {"file"}
           safe == /\ OfFiles(review')
                   /\ review.paused => Calm(review, review', TRUE)
<1>0. /\ ReviewOK(review) /\ past.chosen \in BOOLEAN
      /\ "file" \in asks /\ {"refresh", "renew"} \cap asks = {}
      /\ "again" \notin asks => ~Again
      /\ reviewer \in {"desktop", "terminal"}
      /\ t.paused = review.paused /\ t.selected = t.selected
  BY DEF ReviewInv, Pasts, Chosen
<1>1. CASE reviewer = "terminal" /\ review' = [t EXCEPT !.load = TRUE]
  <2>1. /\ review' = [f \in ReviewFields |-> review'[f]]
        /\ review'.load \in BOOLEAN
        /\ review'.generation = t.generation /\ review'.paused = t.paused
        /\ review'.queued = t.queued /\ review'.refresh = t.refresh
        /\ review'.discard = t.discard /\ review'.pending = t.pending
        /\ review'.sent = t.sent /\ review'.files = t.files
        /\ review'.listed = t.listed
    BY <1>1 DEF ReviewOK, IsReview, ReviewFields
  <2>2. ReviewOK(review') /\ Sends(review, review')
    BY <1>1, <2>1 DEF ReviewOK, IsReview, AskedBefore, Awaiting, Sends, Chosen
  <2>3. Calm(review, review', TRUE)
    BY <2>1 DEF Calm, Chosen
  <2>4. LetAlone(review, past.chosen) => OfFiles(review')
    BY <1>1, <2>1 DEF LetAlone, OfFiles, Open, Awaiting, Chosen
  <2>5. review'.paused => review.paused
    BY <1>0, <2>1
  <2>6. review'.paused /\ ~AskedForMore => OfFiles(review')
    BY <2>4, <2>5 DEF ReviewInv
  <2>7. Calm(review, review', past.chosen \/ "file" \in asks)
    BY <1>0, <2>3 DEF Calm
  <2> HIDE DEF asks
  <2> QED BY <1>0, <2>2, <2>6, <2>7, UserReacts DEF asks
<1>2. CASE /\ reviewer = "desktop"
           /\ review' = LoadReviewFile([t EXCEPT !.discard = FALSE], FALSE)
  <2> DEFINE u == [t EXCEPT !.discard = FALSE]
  <2>1. /\ ReviewOK(u) /\ u.paused = review.paused
        /\ u.checkout = review.checkout /\ u.files = review.files
        /\ u.listed = review.listed /\ u.queued = review.queued
        /\ u.pending = review.pending /\ u.sent = review.sent
        /\ u.selected = t.selected
        /\ u.generation = IF u.selected = review.selected
                          THEN review.generation ELSE review.generation + 1
    BY UndiscardedReview DEF Chosen
  <2> HIDE DEF u
  <2>2. /\ ReviewOK(review') /\ Same(u, review') /\ Sends(u, review')
    BY <1>2, <2>1, LoadTheFile DEF u
  <2>3. Sends(review, review') /\ Calm(review, review', TRUE)
    BY <2>1, <2>2 DEF Sends, Calm, Same, Awaiting
  <2>4. review'.paused = review.paused /\ review'.selected = t.selected
    BY <2>1, <2>2 DEF Same
  <2>5. ASSUME review'.paused, ~AskedForMore, "again" \notin asks
        PROVE  OfFiles(review')
    <3>1. LetAlone(review, past.chosen)
      BY <2>4, <2>5 DEF ReviewInv
    <3>2. Awaiting(review) => t.selected # review.selected
      BY <1>0, <2>4, <2>5 DEF Again
    <3>3. Awaiting(review) => review.pending.checkout = review.checkout
      BY <1>2, <3>2
    <3>4. OfFiles(LoadReviewFile(u, FALSE))
      BY <1>0, <1>2, <2>1, <3>1, <3>2, <3>3, ChoosesQuietly
    <3> QED BY <1>2, <3>4 DEF u
  <2>6. Calm(review, review', past.chosen \/ "file" \in asks)
    BY <1>0, <2>3 DEF Calm
  <2> HIDE DEF asks
  <2> QED BY <1>0, <1>2, <2>2, <2>3, <2>5, <2>6, UserReacts DEF asks
<1>3. CASE reviewer = "desktop" /\ review' = t /\ t.selected = review.selected
  <2>1. /\ ReviewOK(review') /\ Sends(review, review')
        /\ Calm(review, review', TRUE) /\ review'.paused = review.paused
    BY <1>3 DEF Chosen, Sends, Calm
  <2>2. LetAlone(review, past.chosen) => OfFiles(review')
    BY <1>3 DEF LetAlone, OfFiles, Open, Awaiting, Outdated, Chosen
  <2>3. review'.paused /\ ~AskedForMore => OfFiles(review')
    BY <2>1, <2>2 DEF ReviewInv
  <2>4. Calm(review, review', past.chosen \/ "file" \in asks)
    BY <1>0, <2>1 DEF Calm
  <2> HIDE DEF asks
  <2> QED BY <1>0, <2>1, <2>3, <2>4, UserReacts DEF asks
<1> QED BY <1>1, <1>2, <1>3

(* A file of the list is on it.                                              *)
LEMMA ChooseFileReacts ==
    ASSUME ReviewInv, NEW key, ChooseFile(key)
    PROVE  ReviewInv' /\ Freezes
<1> DEFINE t == Select(review, key)
<1>0. /\ ReviewOK(review) /\ reviewer' = reviewer /\ answer' = answer
      /\ key \in Choosable
      /\ reviewer \in {"desktop", "terminal"}
      /\ Note(IF Again THEN {"file", "again"} ELSE {"file"})
  BY DEF ChooseFile, ReviewInv
<1>1. reviewer = "desktop" => review.files # {}
  BY <1>0 DEF Choosable, Shown
<1>2. ReviewOK(t) /\ Chosen(review, t)
  BY <1>0, <1>1, SelectReview
<1>3. \/ /\ reviewer = "terminal"
         /\ review' = [t EXCEPT !.load = TRUE]
      \/ /\ reviewer = "desktop"
         /\ review' = LoadReviewFile([t EXCEPT !.discard = FALSE], FALSE)
  BY <1>0 DEF ChooseFile
<1> HIDE DEF t
<1>4. reviewer = "desktop" /\ Awaiting(review) =>
        review.pending.checkout = review.checkout
  BY <1>0, <1>1 DEF ReviewOK, Unlisted
<1> QED BY <1>0, <1>2, <1>3, <1>4, ChosenReacts

(* Hiding files leaves the selection alone.                                  *)
LEMMA HiddenReview ==
    ASSUME NEW r, NEW hidden, ReviewOK(r)
    PROVE  LET s == [r EXCEPT !.hidden = hidden] IN
           /\ ReviewOK(s) /\ Chosen(r, s)
           /\ s.selected = r.selected /\ s.file = r.file
<1> DEFINE s == [r EXCEPT !.hidden = hidden]
<1>1. /\ IsReview(s) /\ Chosen(r, s) /\ s.selected = r.selected
      /\ s.file = r.file
  BY DEF ReviewOK, IsReview, ReviewFields, Chosen
<1> HIDE DEF s
<1>2. ReviewOK(s)
  BY <1>1 DEF ReviewOK, AskedBefore, Unlisted, Awaiting, Chosen
<1> QED BY <1>1, <1>2 DEF s

(* A filter selects a file, and no other of an empty list.                   *)
LEMMA FilterReacts ==
    ASSUME ReviewInv, NEW hidden, Filter(hidden)
    PROVE  ReviewInv' /\ Freezes
<1> DEFINE filtered == [review EXCEPT !.hidden = hidden]
           moved == SelectAt(filtered, 1)
<1>0. /\ ReviewOK(review) /\ reviewer' = reviewer /\ answer' = answer
      /\ reviewer \in {"desktop", "terminal"}
      /\ Note(IF Again THEN {"file", "again"} ELSE {"file"})
  BY DEF Filter, ReviewInv
<1>1. /\ ReviewOK(filtered) /\ Chosen(review, filtered)
      /\ filtered.selected = review.selected
  BY <1>0, HiddenReview
<1>2. review' = IF reviewer = "terminal" THEN [moved EXCEPT !.load = TRUE]
                ELSE IF review.selected \in Shown(filtered) THEN filtered
                ELSE LoadReviewFile([moved EXCEPT !.discard = FALSE], FALSE)
  BY DEF Filter
<1> HIDE DEF filtered
<1>3. ReviewOK(moved) /\ Chosen(filtered, moved)
  BY <1>1, SelectAtReview
<1>4. Chosen(review, moved)
  BY <1>1, <1>3 DEF Chosen
<1>5. reviewer = "desktop" /\ Awaiting(review)
        /\ moved.selected # review.selected =>
          review.pending.checkout = review.checkout
  <2> SUFFICES ASSUME reviewer = "desktop", Awaiting(review),
                      review.pending.checkout # review.checkout
               PROVE  moved.selected = review.selected
    OBVIOUS
  <2>0. review.files = {} /\ review.selected = NoKey
    BY <1>0 DEF ReviewOK, Unlisted
  <2>1. filtered.files = {}
    BY <1>1, <2>0 DEF Chosen
  <2>2. moved = Select(filtered, NoKey)
    BY <2>1 DEF SelectAt, Shown
  <2>3. moved.selected = NoKey
    BY <1>1, <2>2, SelectReview
  <2> QED BY <2>0, <2>3
<1> HIDE DEF moved
<1>6. \/ /\ reviewer = "terminal" /\ review' = [moved EXCEPT !.load = TRUE]
      \/ /\ reviewer = "desktop" /\ review' = filtered
      \/ /\ reviewer = "desktop"
         /\ review' = LoadReviewFile([moved EXCEPT !.discard = FALSE], FALSE)
  BY <1>0, <1>2
<1>7. CASE \/ /\ reviewer = "terminal"
              /\ review' = [moved EXCEPT !.load = TRUE]
           \/ /\ reviewer = "desktop"
              /\ review' = LoadReviewFile([moved EXCEPT !.discard = FALSE],
                                          FALSE)
  BY <1>0, <1>3, <1>4, <1>5, <1>7, ChosenReacts
<1>8. CASE reviewer = "desktop" /\ review' = filtered
  BY <1>0, <1>1, <1>8, ChosenReacts
<1> QED BY <1>6, <1>7, <1>8

(* Folding a group changes nothing of the review.                            *)
LEMMA GroupReacts ==
    ASSUME ReviewInv, NEW hidden, Group(hidden)
    PROVE  ReviewInv' /\ Freezes
<1>0. /\ ReviewOK(review) /\ reviewer' = reviewer /\ answer' = answer
      /\ Note({}) /\ review' = [review EXCEPT !.hidden = hidden]
  BY DEF Group, ReviewInv
<1>1. /\ ReviewOK(review') /\ Chosen(review, review')
      /\ review'.selected = review.selected /\ review'.file = review.file
  BY <1>0, HiddenReview
<1>2. Sends(review, review') /\ Calm(review, review', past.chosen)
  BY <1>1 DEF Sends, Calm, Chosen
<1>3. /\ OfFiles(review) => OfFiles(review')
      /\ Unchosen(review) => Unchosen(review')
      /\ review'.paused = review.paused
  BY <1>1 DEF OfFiles, Unchosen, Open, Awaiting, Outdated, Chosen
<1>4. review'.paused /\ ~AskedForMore =>
        /\ OfFiles(review')
        /\ "file" \in {} \/ past.chosen \/ Unchosen(review')
  BY <1>3 DEF ReviewInv, LetAlone
<1>5. Calm(review, review', past.chosen \/ "file" \in {})
  BY <1>2 DEF Calm
<1> QED BY <1>0, <1>1, <1>2, <1>4, <1>5, UserReacts

(* A pause throws away the reply that is under way.                          *)
LEMMA PauseReacts ==
    ASSUME ReviewInv, Pause
    PROVE  ReviewInv' /\ Freezes
<1> DEFINE asks == IF review.refresh THEN {"renew"} ELSE {}
<1>0. /\ ReviewOK(review) /\ reviewer' = reviewer /\ answer' = answer
      /\ Note(asks) /\ ~review.paused /\ Awaiting(review) \in BOOLEAN
      /\ review' = [review EXCEPT !.paused = TRUE, !.queued = FALSE,
                                  !.load = FALSE,
                                  !.discard = Awaiting(review)]
      /\ "again" \notin asks
  BY DEF Pause, ReviewInv, Awaiting
<1>1. /\ review' = [f \in ReviewFields |-> review'[f]]
      /\ {review'.paused, review'.queued, review'.load, review'.discard}
           \subseteq BOOLEAN
      /\ ~review'.queued /\ ~review'.load
      /\ review'.discard <=> Awaiting(review)
      /\ review'.refresh = review.refresh
      /\ review'.generation = review.generation
      /\ review'.checkout = review.checkout
      /\ review'.files = review.files /\ review'.selected = review.selected
      /\ review'.pending = review.pending /\ review'.sent = review.sent
  <2> DEFINE a == Awaiting(review)
  <2> HIDE DEF a
  <2>1. /\ a \in BOOLEAN
        /\ review' = [review EXCEPT !.paused = TRUE, !.queued = FALSE,
                                    !.load = FALSE, !.discard = a]
    BY <1>0 DEF a
  <2>2. review' = [f \in ReviewFields |-> review'[f]]
    BY <1>0, <2>1 DEF ReviewOK, IsReview, ReviewFields
  <2>3. /\ {review'.paused, review'.queued, review'.load} \subseteq BOOLEAN
        /\ ~review'.queued /\ ~review'.load
    BY <1>0, <2>1 DEF ReviewOK, IsReview, ReviewFields
  <2>4. review'.discard = a
    BY <1>0, <2>1 DEF ReviewOK, IsReview, ReviewFields
  <2>5. /\ review'.refresh = review.refresh
        /\ review'.generation = review.generation
        /\ review'.checkout = review.checkout
        /\ review'.files = review.files
        /\ review'.selected = review.selected
        /\ review'.pending = review.pending /\ review'.sent = review.sent
    BY <1>0, <2>1 DEF ReviewOK, IsReview, ReviewFields
  <2> QED BY <2>1, <2>2, <2>3, <2>4, <2>5 DEF a
<1>2. ReviewOK(review') /\ Sends(review, review')
  BY <1>0, <1>1
    DEF ReviewOK, IsReview, AskedBefore, Unlisted, Awaiting, Sends
<1>3. ~Open(review') /\ Unchosen(review')
  BY <1>1 DEF Open, Unchosen, Awaiting
<1>4. {"refresh", "renew"} \cap asks = {} => OfFiles(review')
  <2>1. {"refresh", "renew"} \cap asks = {} => ~review.refresh
    OBVIOUS
  <2> HIDE DEF asks
  <2> QED BY <1>1, <1>3, <2>1 DEF OfFiles
<1> HIDE DEF asks
<1> QED BY <1>0, <1>2, <1>3, <1>4, UserReacts

(* A refresh by hand asks for a new list.                                    *)
LEMMA RefreshReacts ==
    ASSUME ReviewInv, NEW resume \in BOOLEAN, Refresh(resume)
    PROVE  ReviewInv' /\ Freezes
<1> DEFINE inquiry ==
      [review EXCEPT !.discard = FALSE, !.paused = @ /\ ~resume]
<1>0. /\ ReviewOK(review) /\ reviewer' = reviewer /\ answer' = answer
      /\ Note({"refresh"})
      /\ review' = IF reviewer = "desktop" THEN RefreshReview(inquiry, FALSE)
                   ELSE [inquiry EXCEPT !.refresh = TRUE]
  BY DEF Refresh, ReviewInv
<1>1. /\ ReviewOK(inquiry) /\ inquiry.pending = review.pending
      /\ inquiry.sent = review.sent
  <2> DEFINE p == review.paused /\ ~resume
  <2>1. inquiry = [review EXCEPT !.discard = FALSE, !.paused = p]
    OBVIOUS
  <2>2. p \in BOOLEAN
    OBVIOUS
  <2> HIDE DEF inquiry, p
  <2>3. /\ inquiry = [f \in ReviewFields |-> inquiry[f]]
        /\ inquiry.discard \in BOOLEAN /\ inquiry.paused = p
        /\ inquiry.generation = review.generation
        /\ inquiry.checkout = review.checkout
        /\ inquiry.files = review.files /\ inquiry.selected = review.selected
        /\ inquiry.queued = review.queued /\ inquiry.load = review.load
        /\ inquiry.refresh = review.refresh
        /\ inquiry.pending = review.pending /\ inquiry.sent = review.sent
    BY <1>0, <2>1, <2>2 DEF ReviewOK, IsReview, ReviewFields
  <2>4. ReviewOK(inquiry)
    BY <1>0, <2>2, <2>3
      DEF ReviewOK, IsReview, AskedBefore, Unlisted, Awaiting
  <2> QED BY <2>3, <2>4
<1> HIDE DEF inquiry
<1>2. CASE reviewer = "desktop"
  <2>1. review' = RefreshReview(inquiry, FALSE)
    BY <1>0, <1>2
  <2>2. ReviewOK(review') /\ Sends(inquiry, review')
    BY <1>1, <2>1, RefreshTheReview
  <2>3. Sends(review, review')
    BY <1>1, <2>2 DEF Sends, Awaiting
  <2> QED BY <1>0, <2>2, <2>3, UserReacts
<1>3. CASE reviewer # "desktop"
  <2>1. review' = [inquiry EXCEPT !.refresh = TRUE]
    BY <1>0, <1>3
  <2>2. /\ review' = [f \in ReviewFields |-> review'[f]]
        /\ review'.refresh \in BOOLEAN
        /\ review'.generation = inquiry.generation
        /\ review'.paused = inquiry.paused /\ review'.queued = inquiry.queued
        /\ review'.load = inquiry.load /\ review'.discard = inquiry.discard
        /\ review'.pending = inquiry.pending /\ review'.sent = inquiry.sent
    BY <1>1, <2>1 DEF ReviewOK, IsReview, ReviewFields
  <2>3. ReviewOK(review') /\ Sends(review, review')
    BY <1>1, <1>3, <2>2 DEF ReviewOK, IsReview, AskedBefore, Awaiting, Sends
  <2> QED BY <1>0, <2>3, UserReacts
<1> QED BY <1>2, <1>3

(* Opening the Changes tab asks for a new list.                              *)
LEMMA ShowReacts ==
    ASSUME ReviewInv, ShowChanges
    PROVE  ReviewInv' /\ Freezes
<1>0. /\ ReviewOK(review) /\ reviewer' = reviewer /\ answer' = answer
  BY DEF ShowChanges, ReviewInv
<1>1. CASE screen.shown
  <2>1. Note({}) /\ review' = review
    BY <1>1 DEF ShowChanges
  <2>2. /\ ReviewOK(review') /\ Sends(review, review')
        /\ Calm(review, review', past.chosen \/ "file" \in {})
    BY <1>0, <2>1 DEF Sends, Calm
  <2>3. review'.paused /\ ~AskedForMore =>
          /\ OfFiles(review')
          /\ "file" \in {} \/ past.chosen \/ Unchosen(review')
    BY <2>1 DEF ReviewInv, LetAlone
  <2> QED BY <1>0, <2>1, <2>2, <2>3, UserReacts
<1>2. CASE ~screen.shown
  <2>1. /\ Note({"renew", "show"})
        /\ review' = IF reviewer = "desktop" THEN RefreshReview(review, FALSE)
                     ELSE [review EXCEPT !.refresh = TRUE]
    BY <1>2 DEF ShowChanges
  <2>2. CASE reviewer = "desktop"
    <3>1. ReviewOK(review') /\ Sends(review, review')
      BY <1>0, <2>1, <2>2, RefreshTheReview
    <3> QED BY <1>0, <2>1, <3>1, UserReacts
  <2>3. CASE reviewer # "desktop"
    <3>1. review' = [review EXCEPT !.refresh = TRUE]
      BY <2>1, <2>3
    <3>2. /\ review' = [f \in ReviewFields |-> review'[f]]
          /\ review'.refresh \in BOOLEAN
          /\ review'.generation = review.generation
          /\ review'.paused = review.paused /\ review'.queued = review.queued
          /\ review'.load = review.load /\ review'.discard = review.discard
          /\ review'.pending = review.pending /\ review'.sent = review.sent
      BY <1>0, <3>1 DEF ReviewOK, IsReview, ReviewFields
    <3>3. ReviewOK(review') /\ Sends(review, review')
      BY <1>0, <2>3, <3>2 DEF ReviewOK, IsReview, AskedBefore, Awaiting, Sends
    <3> QED BY <1>0, <2>1, <3>3, UserReacts
  <2> QED BY <2>2, <2>3
<1> QED BY <1>1, <1>2

(* Serving a request leaves its reply to the client.                         *)
LEMMA ServeReacts ==
    ASSUME ReviewInv, ServeReview
    PROVE  ReviewInv' /\ Freezes
<1>0. /\ ReviewOK(review) /\ reviewer' = reviewer
      /\ review.sent # NoReview /\ review.sent = review.pending
      /\ Awaiting(review)
      /\ review' = [review EXCEPT !.sent = NoReview]
  BY DEF ServeReview, ReviewInv, AnswerFits, Awaiting
<1>1. /\ IsReview(review') /\ Same(review, review')
      /\ review'.pending = review.pending /\ review'.sent = NoReview
      /\ review'.queued = review.queued
  BY <1>0 DEF ReviewOK, IsReview, ReviewFields, Same
<1>2. ReviewOK(review)'
  BY <1>0, <1>1 DEF ReviewOK, AskedBefore, Unlisted, Awaiting, Same
<1>3. AnswerFits' /\ past' \in Pasts
      /\ past'.renew = past.renew /\ past'.chosen = past.chosen
      /\ past'.again = past.again
  <2> DEFINE inquiry == review.sent
             now == disk[inquiry.checkout]
  <2>0. review'.sent = NoReview /\ Awaiting(review')
        /\ review'.pending = inquiry
    BY <1>0, <1>1 DEF Awaiting
  <2>1. CASE /\ answer' = [type |-> IF inquiry.key = List THEN "list"
                                                       ELSE "file",
                           checkout |-> inquiry.checkout, key |-> inquiry.key,
                           files |-> now.files, version |-> now.version]
             /\ UNCHANGED past
    <3> HIDE DEF now, inquiry
    <3>1. answer'.type = IF inquiry.key = List THEN "list" ELSE "file"
      BY <2>1
    <3>2. AnswerFits'
      BY <2>0, <3>1 DEF AnswerFits, Awaiting
    <3> QED BY <2>1, <3>2 DEF ReviewInv
  <2>2. CASE /\ \E type \in Failures :
                   answer' = [type |-> type, key |-> inquiry.key]
             /\ past' = [past EXCEPT !.faults = @ + 1]
    <3>1. answer'.type \in Failures
      BY <2>2
    <3>2. AnswerFits'
      BY <2>0, <3>1 DEF AnswerFits, Awaiting, Failures
    <3>3. past' \in Pasts
          /\ past'.renew = past.renew /\ past'.chosen = past.chosen
          /\ past'.again = past.again
      BY <2>2 DEF ReviewInv, Pasts
    <3> QED BY <3>2, <3>3
  <2> QED BY <2>1, <2>2 DEF ServeReview
<1>4. /\ OfFiles(review) => OfFiles(review)'
      /\ Unchosen(review) => Unchosen(review)'
  BY <1>0, <1>1 DEF OfFiles, Unchosen, Open, Awaiting, Outdated, Same
<1>5. Freezes
  BY <1>1 DEF Freezes, Same
<1>6. review'.paused = review.paused
  BY <1>1 DEF Same
<1> QED BY <1>0, <1>2, <1>3, <1>4, <1>5, <1>6
         DEF ReviewInv, AskedForMore, LetAlone

(* What goes on elsewhere leaves the review alone.                           *)
LEMMA UnchangedReview ==
    ASSUME ReviewInv, UNCHANGED <<reviewer, review, answer>>,
           past' \in Pasts,
           past'.renew = past.renew, past'.chosen = past.chosen,
           past'.again = past.again
    PROVE  ReviewInv' /\ Freezes
<1>1. ReviewOK(review)' /\ AnswerFits'
  BY DEF ReviewInv, ReviewOK, AnswerFits, Awaiting
<1>2. /\ OfFiles(review) => OfFiles(review)'
      /\ Unchosen(review) => Unchosen(review)'
  BY DEF OfFiles, Unchosen
<1>3. Freezes
  BY DEF Freezes
<1> QED BY <1>1, <1>2, <1>3 DEF ReviewInv, AskedForMore, LetAlone

(* The invariant is inductive, and no step breaks the pause.                 *)
LEMMA ReviewStep ==
    ReviewInv /\ [ReviewNext]_reviewVars => ReviewInv' /\ Freezes
<1> SUFFICES ASSUME ReviewInv, [ReviewNext]_reviewVars
             PROVE  ReviewInv' /\ Freezes
  OBVIOUS
<1>1. CASE PollStep
  BY <1>1, PollReacts
<1>2. CASE ServeReview
  BY <1>2, ServeReacts
<1>3. CASE TakeReview
  BY <1>3, TakeReacts
<1>4. ASSUME NEW c \in ReviewCheckouts, EditFiles(c) \/ SelectCheckout(c)
      PROVE  ReviewInv' /\ Freezes
  <2>1. UNCHANGED <<reviewer, review, answer>>
    BY <1>4 DEF EditFiles, SelectCheckout
  <2>2. \/ past' = [past EXCEPT !.edits = @ + 1]
        \/ past' = [past EXCEPT !.choices = @ + 1]
    BY <1>4 DEF EditFiles, SelectCheckout
  <2>3. /\ past' \in Pasts
        /\ past'.renew = past.renew /\ past'.chosen = past.chosen
        /\ past'.again = past.again
    BY <2>2 DEF ReviewInv, Pasts
  <2> QED BY <2>1, <2>3, UnchangedReview
<1>5. ASSUME NEW key \in FileKeys \cup {NoKey}, ChooseFile(key)
      PROVE  ReviewInv' /\ Freezes
  BY <1>5, ChooseFileReacts
<1>6. ASSUME NEW hidden \in SUBSET FileKeys, Filter(hidden) \/ Group(hidden)
      PROVE  ReviewInv' /\ Freezes
  BY <1>6, FilterReacts, GroupReacts
<1>7. ASSUME NEW resume \in BOOLEAN, Refresh(resume)
      PROVE  ReviewInv' /\ Freezes
  BY <1>7, RefreshReacts
<1>8. CASE Pause
  BY <1>8, PauseReacts
<1>9. CASE ShowChanges
  BY <1>9, ShowReacts
<1>10. CASE UNCHANGED reviewVars
  BY <1>10, UnchangedReview DEF reviewVars, ReviewInv
<1> QED BY <1>1, <1>2, <1>3, <1>4, <1>5, <1>6, <1>7, <1>8, <1>9, <1>10
         DEF ReviewNext

(* The inductive invariant of a review: from a pause on, what is under way   *)
(* is to be thrown away, or is for a file that was chosen since, or was      *)
(* overtaken.                                                                *)
THEOREM ReviewInvariance == ReviewSpec => []ReviewInv
<1>1. ReviewInit => ReviewInv
  BY ReviewInitially
<1>2. ReviewInv /\ [ReviewNext]_reviewVars => ReviewInv'
  BY ReviewStep
<1> QED BY <1>1, <1>2, PTL DEF ReviewSpec

(* A paused review keeps its list until the user asks for a refresh, and     *)
(* its diff until the user chooses a file (PauseFreezes), for any            *)
(* Checkouts, files and choices.                                             *)
THEOREM PauseIsKept == ReviewSpec => PauseFreezes
<1>1. ReviewInv /\ [ReviewNext]_reviewVars => [Freezes]_reviewVars
  BY ReviewStep
<1> QED BY <1>1, ReviewInvariance, PTL DEF ReviewSpec, PauseFreezes, Freezes
=============================================================================
