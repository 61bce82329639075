CONSTANTS
    ScrollbackChunks = 2
    LiveCapacity = 1
    QueueCapacity = 2
    MaxUpdates = 5
    MaxAttachments = 2
    Clients = {"desktop", "terminal"}
    ClientScrollback = 3
    LocalCapacity = 2
    MaxOutput = 8
    MaxReattachments = 3
    Sessions <- TwoSessions
    CheckoutOf <- OneCheckout
    NoSession = NoSession
    MaxOpen = 2
    MaxCalls = 2
    MaxEvents = 2
    MaxIncidents = 2
    MaxActions = 2
    InputSessions <- TwoSessions
    Nowhere = NoSession
    BatchKeys = 2
    InputCapacity = 2
    MaxKeys = 4
    MaxMoves = 3
    MaxFailures = 2
    Reviewers = {"desktop", "terminal"}
    ReviewCheckouts = {1, 2}
    FileKeys = {1, 2}
    MaxChoices = 3
    MaxEdits = 1
    MaxReviewFaults = 1
SPECIFICATION PathsSpec
INVARIANTS
    MissingIsExplained
    TerminalViewIsExact
    InputInOrder
    KeyboardStays
PROPERTIES
    PauseFreezes
CHECK_DEADLOCK FALSE
