SPECIFICATION Spec
CONSTANTS
    obj1 = obj1
    obj2 = obj2
    blob1 = blob1
    Targets = {obj1, obj2}
    Texts = {0, 1, 2, 3, 4}
    BadText = 9
    ForbiddenNames = {3}
    ChunkLimit = 2
    NodeSize = 17
    MaxCount = 2
    IsBoundary <- MCBoundary
    MinEntries = 2
    MaxEntries = 3
    MaxNodeBytes = 200
    Bytes = {0, 1}
    Gear <- MCGear
    WordBits = 4
    ShortBits = 2
    LongBits = 1
    MinChunk = 1
    AvgChunk = 2
    MaxChunk = 3
    Window = 3
    Digest <- MCDigest
    MaxLength = 9
    Names <- MCNames
    NameBytes <- ShortNames
    Paths <- MCPaths
    Start <- MCNames
    Leaves <- MCLeaves
    PageLimit = 2
    MaxEdits = 2
    base = base
    app = app
    other = other
    gzbase = gzbase
    one = one
    two = two
    wrong = wrong
    main = main
    dev = dev
    key1 = key1
    Adders = {a1, a2}
    Branches = {main, dev}
    ImageNames = {1, 2}
    AddRequests <- MCRequests
    DiffIds <- MCDiffIds
    BlobSize <- MCBlobSize
    AddKeys = {key1}
    NoAddKey = NoAddKey
    Nowhere = Nowhere
    MaxAdds = 3
    MaxReverts = 1
    MaxDeaths = 1
    Processes = {p1, p2}
    FirstSource <- MCSource
    FirstDestinations <- MCDestinations
    Rewrites <- MCRewrites
    ExcludedNames = {3}
    FileSize <- MCFileSize
    ExecModes = {"700", "755"}
    NoTree = NoTree
    MaxIngests = 2
    MaxCheckouts = 2
    MaxRewrites = 1
    MaxFailures = 1
    MaxLosses = 1
SYMMETRY Symmetry
INVARIANTS CodecInv FileInv VersionInv ListingIsStable ImagesInv CheckoutInv RoundTrips
PROPERTY AddsCompose
CHECK_DEADLOCK FALSE
