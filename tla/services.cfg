SPECIFICATION ServicesSpec
CONSTANTS
    NoName = NoName
    NoKey = NoKey
    New = New
    Callers = {c1, c2}
    n1 = n1
    n2 = n2
    Names = {n1, n2}
    Rank <- MCRank
    SweepLimits = {1, 2}
    Keys = {k1}
    Values = {v}
    Kinds = {"create", "fork", "rename", "replace", "sweep"}
    Overlaps <- Carefully
    MaxEnvs = 3
    MaxCalls = 4
    MaxCrashes = 1
    x1 = x1
    x2 = x2
    x3 = x3
    m1 = m1
    m2 = m2
    m3 = m3
    h1 = h1
    h2 = h2
    label = label
    None = None
    Environments = {x1, x2, x3}
    EnvNames = {m1, m2, m3}
    Labels = {label}
    Commits = {h1, h2}
    Parents <- MCParents
    Swept = {}
    Roots <- MCRoots
    FirstNames <- MCNames
    FirstRefs <- MCRefs
    Clients = {q1, q2}
    MaxWalk = 3
    MaxAnswers = 1
    TicketLife = 1
    MintOps = {{"read"}}
    MintPins = {x2}
    MaxClock = 1
    MaxRequests = 3
    Uploaders = {u1, u2}
    Uploadable = {o1, o2}
    PageSize = 1
    ListLimit = 2
    Lifetime = 1
    MaxSessions = 2
    MaxSessionCalls = 3
    MaxTime = 2
SYMMETRY Symmetry
INVARIANTS NamesInv GateInv SessionsInv
PROPERTIES SweptClean PinHolds
CHECK_DEADLOCK FALSE
