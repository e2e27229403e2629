SPECIFICATION FairSpec
CONSTANTS
    h1 = h1 h2 = h2 h3 = h3
    p1 = p1 p2 = p2
    c1 = c1 c2 = c2
    t1 = t1 t2 = t2 t3 = t3
    NoClient = NoClient
    NoTask = NoTask
    NoRecord = NoRecord
    NoHandler = NoHandler
    NoRequest = NoRequest
    Backend = "sqlite"
    Handlers = {h1, h2}
    Profiles = {p1}
    Clients = {c1}
    Tasks = {t1, t2}
    Orders <- OneKeyOrders
    CloudSteps <- NoProgress
    StoreFaults = FALSE
    LostAnswers = TRUE
    LegacyIds = FALSE
    MaxCrashes = 1
INVARIANTS
    MutexHeldByAdd
PROPERTIES
    IdempotencyPromise
    EveryRequestAnswered
