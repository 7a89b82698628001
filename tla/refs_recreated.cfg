SPECIFICATION Spec
CONSTANTS
    NoTarget = NoTarget
    NoKey = NoKey
    NoChange = NoChange
    Clients = {c1, c2}
    Refs = {main}
    Tags = {}
    Targets = {t1}
    Keys = {}
    Changes = {}
    Kinds = {"create", "update", "delete"}
    Guesses = {}
    CounterRetries = 2
    MaxCalls = 4
SYMMETRY Symmetry
INVARIANT DecidedOnLatest
CHECK_DEADLOCK FALSE
