SPECIFICATION RemovalFairSpec
CONSTANTS
    w1 = w1
    q1 = q1
    data = data
    config = config
    runtime = runtime
    Workers <- MCWorkers
    Quiescers <- MCQuiescers
    Roots <- MCRoots
    Checkouts <- MCCheckouts
    MaxReservations = 2
    MaxBoots = 2
    MaxBusyBoots = 1
    MaxFaults = 1
INVARIANTS
    Exclusion
    NoLostWakeup
PROPERTIES
    DataIsQuietWhenDeleted
    RemovalEnds
CHECK_DEADLOCK FALSE
