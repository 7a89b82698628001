SPECIFICATION BranchesSpec
CONSTANTS
    NoTarget = NoTarget
    NoKey = NoKey
    NoChange = NoChange
    Clients = {c1, c2}
    Refs = {main, tag}
    Tags = {tag}
    Targets = {t1}
    Keys = {k1}
    Changes = {x}
    Kinds = {"create", "update", "delete", "undo"}
    Guesses = {}
    CounterRetries = 2
    MaxCalls = 4
    Branchings = {r1, r2, r3}
    Passes = {p1, p2}
    Ttl = 1
    ScanLimit = 2
    MaxBranchOps = 3
    MaxScans = 2
    MaxContention = 1
    MaxDay = 2
SYMMETRY Symmetry
INVARIANTS TypeOK OneEventPerOperation LogAgrees AppliedOnce AnsweredTruly ChangeComplete
    ReclaimInv
PROPERTY TagsFrozen
CHECK_DEADLOCK FALSE
