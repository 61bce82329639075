SPECIFICATION FairSpec
CONSTANTS
    NoRecord = NoRecord
    Agents = {a1}
    Categories = {"rate_limit"}
    MaxSubagents = 1
    MaxAttentionId = 4
    Clients = {}
    Attachers = {c3}
    PlainShell = TRUE
    Structured = FALSE
    Delivered = {}
    MaxDeliveries = 0
    DatabaseFaults = FALSE
PROPERTY
    ExitIsRecorded
