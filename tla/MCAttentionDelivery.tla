------------------------ MODULE MCAttentionDelivery ------------------------
(* Model checking of AttentionDelivery.                                    *)
EXTENDS AttentionDelivery

CONSTANTS t1, t2, d1, s1, s2

Scenario(clients, sessions, events, updates, looks, departures) ==
    [clients |-> clients, sessions |-> sessions, events |-> events, updates |-> updates,
     looks |-> looks, departures |-> departures]

(* A terminal and a desktop compete; two terminals compete and one leaves; *)
(* one client follows two Sessions, or looks away, or leaves; an event is  *)
(* resolved on its way.                                                    *)
MCScenarios ==
    {Scenario({t1, d1}, {s1}, 1, 0, 0, 0),
     Scenario({t1, t2}, {s1}, 1, 0, 0, 1),
     Scenario({t1}, {s1, s2}, 2, 0, 1, 0),
     Scenario({t1}, {s1}, 1, 1, 1, 1),
     Scenario({d1}, {s1}, 1, 1, 0, 0),
     Scenario({d1}, {s1}, 1, 0, 1, 1),
     Scenario({d1}, {s1}, 1, 0, 2, 0)}
=============================================================================
