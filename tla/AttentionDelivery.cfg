SPECIFICATION FairSpec
CONSTANTS
    t1 = t1
    t2 = t2
    d1 = d1
    s1 = s1
    s2 = s2
    Terminals = {t1, t2}
    Desktops = {d1}
    Sessions = {s1, s2}
    None = None
    ClaimCapacity = 1
    MaxEvents = 2
    Scenarios <- MCScenarios
INVARIANTS
    AtMostOnePresentation
    PendingIsAccounted
PROPERTIES
    OffersAreTaken
CHECK_DEADLOCK FALSE
