SPECIFICATION BothSpec
CONSTANTS
    Clients = {c1, c2}
    partA = partA
    partB = partB
    partC = partC
    shard1 = shard1
    shard2 = shard2
    keyA = keyA
    nextA = nextA
    keyB = keyB
    keyC = keyC
    Keys = {keyA, nextA, keyB, keyC}
    PartitionOf <- MCPartitionOf
    ShardOf <- MCShardOf
    NoItem = NoItem
    Nobody = Nobody
    Wanted <- MCWanted
    MaxTransactions = 4
    top = top
    latest = latest
    vendored = vendored
    shared = shared
    sub = sub
    readme = readme
    script = script
    pointer = pointer
    first = first
    left = left
    right = right
    merge = merge
    elsewhere = elsewhere
    Trees = {top, latest, vendored, shared, sub}
    Blobs = {readme, script, pointer}
    Commits = {first, left, right, merge}
    Listing <- MCListing
    Pointers = {pointer}
    RootOf <- MCRootOf
    ParentsOf <- MCParentsOf
    RevList <- MCRevList
    Quoted <- PlainNames
    Importers = {strict, skipping}
    Skips = {skipping}
    Mortal = {strict, skipping}
    Requests <- MCImports
    NoObject = NoObject
    Refreshing = {TRUE, FALSE}
    MaxImports = 2
    MaxSwept = 3
SYMMETRY Symmetry
INVARIANTS  HeadIsHistory
PROPERTIES AllAtOnce ReplacesWhatItRead PublishedIsWhole
CHECK_DEADLOCK FALSE
