SPECIFICATION Spec
CONSTANTS
    h1 = h1 h2 = h2 h3 = h3
    p1 = p1 p2 = p2
    c1 = c1 c2 = c2
    t1 = t1 t2 = t2 t3 = t3
    NoClient = NoClient
    NoTask = NoTask
    NoRecord = NoRecord
    NoHandler = NoHandler
    NoRequest = NoRequest
    Backend = "postgres"
    Handlers = {h1, h2}
    Profiles = {p1}
    Clients = {c1}
    Tasks = {t1}
    Orders <- SingleOrder
    CloudSteps <- NoProgress
    StoreFaults = FALSE
    LostAnswers = FALSE
    LegacyIds = FALSE
    MaxCrashes = 0
INVARIANTS
    SubmittedOnce
