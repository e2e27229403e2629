SPECIFICATION Spec
CONSTANTS
    p1 = p1
    p2 = p2
    h1 = h1
    h2 = h2
    h3 = h3
    d1 = d1
    d2 = d2
    Drivers = {d1, d2}
    Callers = {h1, h2, h3}
    NoCaller = NoCaller
    NoCall = NoCall
    NoProfile = NoProfile
    Profiles = {p1, p2}
    UserActs = FALSE
    LostAnswers = TRUE
    StopFails = TRUE
    MaxCrashes = 1
SYMMETRY Symmetry
INVARIANT TypeOK
INVARIANT ClientCreatedOnce
INVARIANT OneSessionPerDriver
INVARIANT WaitsEnd
INVARIANT ConnectedBrowserRuns
PROPERTY StopsOnlyItsOwn
