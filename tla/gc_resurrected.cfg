SPECIFICATION CollectorSpec

CONSTANTS
    NoTree = NoTree
    w1 = w1
    Writers = {w1}
    Refs = {main}
    Blobs = {b}
    Trees = {t}
    Leaves <- Shared
    Brings = {"import"}
    Moves = {}
    Does <- TwoParts
    Allowed = {"orphan"}
    MaxCommits = 1
    Absence = Absence
    Envs = {e1, e2}
    Tips = {good, fine}
    Good = {good, fine}
    Workers = {k1, k2}
    MaxAttempts = 2
    Pauses = FALSE
    MaxOps = 0
    MaxDeliveries = 0
    MaxReruns = 0
    MaxWorkerCrashes = 0
    MaxFaults = 0

SYMMETRY Symmetry
INVARIANT RootsIntact
CHECK_DEADLOCK FALSE
