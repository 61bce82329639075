CONSTANTS
    a1 = a1
    a2 = a2
    a3 = a3
    Agents <- MCAgents
    MaxSubagents = 2
    Categories <- MCCategories
    MaxAttentionId = 5
    Threads = {"main", "child"}
    Turns = {t1, t2}
    Requests = {q1, q2, q3}
    Items = {i1, i2}
    ThreadIds = {"d1"}
    Hooks <- MCHooks
    RequestLimit = 2
    RequestIdLimit = 2
    EventCapacity = 2
    None = None
SYMMETRY MCSymmetry
SPECIFICATION BridgeSpec
INVARIANTS
    CompletionHasNoOutstandingWork
    TrackingCoversOutstanding
    WaitingIsShown
PROPERTIES
    DismissedFailureStaysQuiet
    OnlyAReplyResumes
