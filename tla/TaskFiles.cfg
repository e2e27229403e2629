SPECIFICATION FairSpec
CONSTANTS
    w1 = w1
    d = d t = t s = s f = f g = g
    x = x y = y
    Workers = {w1}
    Ids = {d, t, s, f, g}
    Dirs = {d, t, s}
    Names = {x, y}
    RootId = RootId
    Gone = Gone
    NoId = NoId
    NoDir = NoDir
    NoName = NoName
    MaxExpand = 2
    MaxChanges = 1
    Scenarios <- Situations
INVARIANTS
    TypeOK
    ListComplete
    NothingForeign
    PathsAreTrue
PROPERTIES
    EveryQueryAnswered
    ListingsRunOut
