SPECIFICATION BothSpec
CONSTANTS
    f1 = f1
    f2 = f2
    s1 = s1
    s2 = s2
    space1 = space1
    space2 = space2
    Told = {s1, s2}
    Spaces = {space1, space2}
    SpaceOf <- MCSpaceOf
    Nobody = Nobody
    QueueCapacity = 1
    MaxMoves = 2
    Mutators <- MCMutators
    Finalizers <- MCFinalizers
    Faults = {"helper", "watchdog", "daemon", "user", "response", "spawn", "clients", "prepare", "installer", "launch", "health", "desktop", "restore", "reopen", "timeout", "overlap"}
    MaxFaults = 1
INVARIANT
    RollbackIsReported
CHECK_DEADLOCK FALSE
