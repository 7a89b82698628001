SPECIFICATION CollectorSpec

CONSTANTS
    NoTree = NoTree
    w1 = w1
    Writers = {w1, w2}
    Refs = {main}
    Blobs = {b1, b2}
    Trees = {t}
    Leaves <- Shared
    Brings = {"publish", "upload"}
    Moves = {"import", "discard", "undo"}
    Does <- TwoParts
    Allowed = {}
    MaxCommits = 2
    Absence = Absence
    Envs = {e1, e2}
    Tips = {good, fine}
    Good = {good, fine}
    Workers = {k1, k2}
    MaxAttempts = 2
    Pauses = FALSE
    MaxOps = 2
    MaxDeliveries = 3
    MaxReruns = 1
    MaxWorkerCrashes = 1
    MaxFaults = 0

SYMMETRY Symmetry
INVARIANTS RootsIntact CollectorInv QueueInv WorkIsAnswered
CHECK_DEADLOCK FALSE
