-------------------------- MODULE AttentionClaims --------------------------
(***************************************************************************)
(* AttentionNotificationClaims of daemon.rs: the notifications the daemon  *)
(* offers to its clients, as operators on the record                       *)
(*    sequence    claims recorded so far                                   *)
(*    watermarks  client -> the sequence at its registration               *)
(*    foreground  client -> the Session it last reported as visible        *)
(*    pending     the claims nobody has taken.  The queue is in the order  *)
(*                of their sequence numbers: record appends the highest,   *)
(*                and everything else only removes.                        *)
(* Each operator is one critical section of the claims mutex.              *)
(***************************************************************************)
EXTENDS Naturals, FiniteSets, Sequences, SequencesExt, Functions

CONSTANT
    ClaimCapacity      \* ATTENTION_NOTIFICATION_CLAIM_CAPACITY

ASSUME ClaimCapacityAssumption == ClaimCapacity \in Nat \ {0}

NoClaims == [sequence |-> 0, watermarks |-> <<>>, foreground |-> <<>>, pending |-> {}]

Without(f, c) == Restrict(f, DOMAIN f \ {c})

With(f, c, v) == [x \in DOMAIN f \cup {c} |-> IF x = c THEN v ELSE f[x]]

InForeground(claims, s) == \E c \in DOMAIN claims.foreground : claims.foreground[c] = s

(* With no client left the test is false of every claim: all are dropped.  *)
PruneUnclaimable(claims) ==
    [claims EXCEPT !.pending = {e \in @ : \E c \in DOMAIN claims.watermarks :
                                             claims.watermarks[c] < e.sequence}]

Register(claims, c) ==
    PruneUnclaimable([claims EXCEPT !.watermarks = With(@, c, claims.sequence)])

(* Mutant: a client that leaves takes every claim along.                   *)
UnregisterClears(claims, c) ==
    [claims EXCEPT !.watermarks = Without(@, c), !.foreground = Without(@, c), !.pending = {}]

Unregister(claims, c) ==
    PruneUnclaimable([claims EXCEPT !.watermarks = Without(@, c), !.foreground = Without(@, c)])

Cancel(claims, s) == [claims EXCEPT !.pending = {e \in @ : e.session # s}]

ReportFocus(claims, c, s) ==
    IF c \notin DOMAIN claims.watermarks THEN claims
    ELSE [Cancel(claims, s) EXCEPT !.foreground = With(@, c, s)]

ReportNoFocus(claims, c) == [claims EXCEPT !.foreground = Without(@, c)]

(* What becomes of an event that record is given: it is offered, or        *)
(* suppressed because nobody is connected or somebody looks at it.         *)
Offered(claims, s, event) ==
    event.pending /\ DOMAIN claims.watermarks # {} /\ ~InForeground(claims, s)

Oldest(given) == CHOOSE e \in given : \A f \in given : e.sequence <= f.sequence

Full(given) == Cardinality(given) >= ClaimCapacity

Record(claims, s, event) ==
    LET cancelled == Cancel(claims, s)
        kept == cancelled.pending \ (IF Full(cancelled.pending)
                                     THEN {Oldest(cancelled.pending)} ELSE {})
        claim == [sequence |-> claims.sequence + 1, session |-> s, id |-> event.id,
                  ready |-> ~event.input, announced |-> FALSE]
    IN  IF Offered(claims, s, event)
        THEN [cancelled EXCEPT !.sequence = @ + 1, !.pending = kept \cup {claim}]
        ELSE cancelled

(* The claims client c may take; it is given the first of them.            *)
Claimable(claims, c) ==
    {e \in claims.pending :
        c \in DOMAIN claims.watermarks /\ e.sequence > claims.watermarks[c] /\ e.ready}

ClaimFor(claims, c) == Oldest(Claimable(claims, c))

(* Mutant: a claim that was given stays on offer.                          *)
ClaimedStays(claims, c) == claims

Claimed(claims, c) == [claims EXCEPT !.pending = @ \ {ClaimFor(claims, c)}]

(* One second after an input request its claim becomes ready.              *)
Matured(claims, e) ==
    [claims EXCEPT !.pending = (@ \ {e}) \cup {[e EXCEPT !.ready = TRUE]}]

Due(claims) == {e \in claims.pending : e.ready /\ ~e.announced}

AnnounceDue(claims) ==
    [claims EXCEPT !.pending = {[e EXCEPT !.announced = @ \/ e.ready] : e \in @}]
=============================================================================
