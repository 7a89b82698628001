SPECIFICATION Spec
CONSTANTS
    e1 = e1
    e2 = e2
    Envs = {e1, e2}
    ShardCount = 2
    ShardOf <- TwoShards
    Writers = {w1, w2}
    Dispatchers = {d1}
    Limits = {2}
    MaxEvents = 3
    MaxClock = 1
    MaxCrashes = 0
INVARIANT NothingSkipped
CHECK_DEADLOCK FALSE
