SPECIFICATION Spec
CONSTANTS
    c0 = c0
    c1 = c1
    c2 = c2
    c3 = c3
    master = master
    hexc0 = hexc0
    hexc1 = hexc1
    hexc2 = hexc2
    hexc3 = hexc3
    nocommit = nocommit
    noname = noname
    p1 = p1
    Commits <- MCCommits
    Parents <- MCParents
    Root <- c0
    InitialBooks <- MCInitialBooks
    BookmarkNames <- MCBookmarkNames
    HexName <- MCHexName
    NoCommit = nocommit
    NoName = noname
    Pushers <- MCPushers
    MaxMoves = 2
    MaxLookups = 1
    RawBundleCaps <- MCRawBundleCaps
    MaxBundleCaps = 2
INVARIANTS
    TypeOK
    PulledBookmarksResolve
    LookupFindsStoredChangeset
    PhasesFollowBundlecaps
PROPERTIES
    OnlyAcceptedPushesWrite
