SPECIFICATION FairSpec
CONSTANTS
    c1 = c1
    c2 = c2
    Client = {c1, c2}
    NoClient = NoClient
    Fd <- Fd7
    Listener = 1
    RLimit = 4
    Kinds = {"bigfile", "chunked", "cgi"}
    RequestLength = 2
    MaxSegments = 2
    OutputSizes = {0, 2, 3}
    ReadSize = 2
    PipeSize = 1
    Faults = {"fin", "signal"}
INVARIANTS OwnAnswer SocketAccounted
PROPERTIES EveryoneLetGo SignalStops
CHECK_DEADLOCK FALSE
