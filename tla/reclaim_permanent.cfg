SPECIFICATION ReclaimSpec
CONSTANTS
    Branchings = {r}
    Passes = {p}
    Ttl = 1
    ScanLimit = 2
    MaxBranchOps = 3
    MaxScans = 2
    MaxContention = 1
    MaxDay = 2
INVARIANT PermanentStays
CHECK_DEADLOCK FALSE
