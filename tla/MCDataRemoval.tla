--------------------------- MODULE MCDataRemoval ---------------------------
(* DataRemoval for TLC: a client that removes, a request that creates a    *)
(* Session, and the three directories with a checkout below the first.     *)
EXTENDS DataRemoval

CONSTANTS w1, q1, data, config, runtime

MCWorkers == {w1}
MCQuiescers == {q1}
MCRoots == <<data, config, runtime>>
MCCheckouts == {data}
============================================================================
