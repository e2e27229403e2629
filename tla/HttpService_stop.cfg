SPECIFICATION FairHttpSpec
CONSTANTS
    h1 = h1
    h2 = h2
    Handlers = {h1, h2}
    NoDriver = NoDriver
    MaxInstances = 2
    CloseFails = TRUE
    Operations = {"add", "getTask", "mkdir"}
    Burst = 1
    NoOperation = NoOperation
    NoReply = NoReply
    NoCode = NoCode
CHECK_DEADLOCK FALSE
INVARIANTS
    TypeOK
    RecordedUnlessGivenUp
    ServedByOpenDriver
    OnlyLosersStayOpen
    HttpTypeOK
    ClientErrorsChangeNothing
PROPERTIES
    ExitsOnceAsked
