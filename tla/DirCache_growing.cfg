SPECIFICATION Spec
CONSTANTS
    p1 = p1
    p2 = p2
    w1 = w1
    w2 = w2
    a = a
    b = b
    i1 = i1
    i2 = i2
    i3 = i3
    Profiles = {p1}
    Workers = {w1, w2}
    Names = {a, b}
    MaxDepth = 2
    DirIds = {i1, i2}
    RootId = RootId
    NoDir = NoDir
    NoRequest = NoRequest
    Requests <- Making
    Persistent = TRUE
    TableFails = TRUE
    MaxCrashes = 1
SYMMETRY Symmetry
INVARIANT TypeOK
INVARIANT CacheAccurate
INVARIANT EnsuredDirExists
PROPERTY CreatesOnlyRequested
PROPERTY CachingInvisible
