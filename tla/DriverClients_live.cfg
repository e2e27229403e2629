SPECIFICATION FairSpec
CONSTANTS
    p1 = p1
    p2 = p2
    h1 = h1
    h2 = h2
    h3 = h3
    d1 = d1
    d2 = d2
    Drivers = {d1, d2}
    Callers = {h1, h2}
    NoCaller = NoCaller
    NoCall = NoCall
    NoProfile = NoProfile
    Profiles = {p1}
    UserActs = TRUE
    LostAnswers = FALSE
    StopFails = FALSE
    MaxCrashes = 0
PROPERTY EveryCallReturns
INVARIANT NothingLeftRunning
