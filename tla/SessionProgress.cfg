CONSTANTS
    Callers <- TwoClients
    MaxFaults = 2
    a1 = a1
    c1 = c1
    c2 = c2
    NoRecord = NoRecord
    Agents <- MCAgents
    Categories <- MCCategories
    MaxSubagents = 1
    MaxAttentionId = 4
    Clients <- TwoClients
    Delivered <- MCFewDelivered
    MaxDeliveries = 2
    Requests = {r1, r2, r3}
    Attaches = {r1}
    Inputs = {r2}
    CommandCapacity = 1
    WriterCapacity = 1
    WireCapacity = 1
    SinkCapacity = 1
    MaxAnnounced = 1
    MaxMishaps = 2
SPECIFICATION ProgressSpec
INVARIANTS
    StopLeavesNothing
PROPERTIES
    StopIsAnswered
    ExitIsRecorded
    RequestsAreAnswered
CHECK_DEADLOCK FALSE
