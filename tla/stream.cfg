SPECIFICATION FairActors
CONSTANTS
    e1 = e1
    e2 = e2
    Envs = {e1, e2}
    ShardCount = 2
    ShardOf <- TwoShards
    Writers = {w1}
    Dispatchers = {d1, d2}
    Limits = {1, 2}
    MaxEvents = 2
    MaxClock = 1
    MaxCrashes = 1
    text = text
    name = name
    Texts = {text}
    EmptyText = EmptyText
    TextLength <- MCLength
    EntryNames = {name}
    Signatures <- MCSignatures
    RootId = RootId
    Nothing = Nothing
    Slots = {s1, s2}
    LocalMicros = 1500
    MaxJjWrites = 3
    MaxJjLosses = 1
    MaxUpkeeps = 1
INVARIANTS NothingSkipped StreamInv JjInv
PROPERTY EveryBuildQueued
CHECK_DEADLOCK FALSE
