SPECIFICATION LiveSpec
CONSTANTS
    NoTarget = NoTarget
    NoKey = NoKey
    NoChange = NoChange
    Clients = {c1, c2}
    Refs = {main}
    Tags = {}
    Targets = {t1, t2}
    Keys = {k1}
    Changes = {}
    Kinds = {"create", "update"}
    Guesses = {}
    CounterRetries = 2
    MaxCalls = 4
    Absence = Absence
    Envs = {e1, e2}
    Tips = {good, bad}
    Good = {good}
    Workers = {w1}
    MaxAttempts = 2
    Pauses = FALSE
    MaxOps = 2
    MaxDeliveries = 3
    MaxReruns = 0
    MaxWorkerCrashes = 1
    MaxFaults = 1
INVARIANTS DecidedOnLatest VerdictsEarned
PROPERTIES RetriesReplay ImplementsRefLog CallsReturn Drained
CHECK_DEADLOCK FALSE
