SPECIFICATION DaemonSpec
CONSTANTS
    a1 = a1
    c1 = c1
    c3 = c3
    NoRecord = NoRecord
    Agents = {a1}
    Categories = {"rate_limit"}
    MaxSubagents = 1
    MaxAttentionId = 3
    Clients = {c1}
    Attachers = {c3}
    PlainShell = FALSE
    Structured = TRUE
    Delivered <- MCDelivered
    MaxDeliveries = 3
    DatabaseFaults = TRUE
    Daemons = {d0, d1, d2}
    Former = d0
    Starters = {s1, s2}
    Nobody = Nobody
    MaxMishaps = 1
    p1 = p1
    r1 = r1
    Projects = {p1, p2}
    Repositories = {r1, r2}
    Filters = {"open", "mine"}
    NoFilter = "open"
    Pages = 2
    CommentPages = 2
    Nothing = Nothing
    MaxSteps = 5
    MaxRequests = 3
    Probers = {q1, q2}
    Paths <- MCPaths
    NoPath = NoPath
    MaxUpdates = 1
    MaxLives = 2
INVARIANTS
    StoresAgree
    DeletionOrphansNothing
    AcceptedHooksPrecedeExit
    OneDaemonUnlessStolen
    SurfaceIsOfTheQuery
    ModalIsOfTheQuery
    ManagedIsBridged
PROPERTIES
    ImplementsContract
CHECK_DEADLOCK FALSE
