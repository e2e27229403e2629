SPECIFICATION Spec
CONSTANTS
    h1 = h1 h2 = h2 h3 = h3
    p1 = p1 p2 = p2
    c1 = c1 c2 = c2
    t1 = t1 t2 = t2 t3 = t3
    NoClient = NoClient
    NoTask = NoTask
    NoRecord = NoRecord
    NoHandler = NoHandler
    NoRequest = NoRequest
    Backend = "memory"
    Handlers = {h1, h2}
    Profiles = {p1}
    Clients = {c1, c2}
    Tasks = {t1, t2, t3}
    Orders <- OwnAndSharedOrders
    CloudSteps <- ShortProgress
    StoreFaults = FALSE
    LostAnswers = FALSE
    LegacyIds = TRUE
    MaxCrashes = 0
SYMMETRY HandlerSymmetry
INVARIANTS
    TypeOK
    SubmittedOnce
    IndexSound
