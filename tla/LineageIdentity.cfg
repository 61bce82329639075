SPECIFICATION BothSpec
CONSTANTS
    c1 = c1
    c2 = c2
    p1 = p1
    p2 = p2
    r1 = r1
    r2 = r2
    w1 = w1
    w2 = w2
    s1 = s1
    s2 = s2
    s3 = s3
    s4 = s4
    k1 = k1
    k2 = k2
    Free = Free
    NoSession = NoSession
    NoConversation = NoConversation
    Clients = {c1, c2}
    Projects = {p1, p2}
    Roots = {r1, r2}
    Worktrees = {w1, w2}
    Home <- MCHome
    Sessions = {s1, s2, s3, s4}
    Conversations = {k1, k2}
    Capacity = 1
    Workloads <- MCWorkloads
    MaxEdits = 1
    MaxSwitches = 1
    MaxBoots = 1
    MaxFaults = 1
    space1 = space1
    space2 = space2
    Root = Root
    Tree <- MCTree
    Depth <- MCDepth
    Preorder <- MCPreorder
    MaxChanges = 2
    MaxKeysHit = 3
INVARIANT SnapshotLoads
CHECK_DEADLOCK FALSE
