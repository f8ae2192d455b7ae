SPECIFICATION Spec
CONSTANTS
    c1 = c1
    c2 = c2
    NoClient = NoClient
    Listener = 1
    RequestLength = 1
    MaxSegments = 1
    OutputSizes = {1}
    ReadSize = 2
    PipeSize = 2
    Fd <- Fd7
    RLimit = 9
    Kinds = {"cgi"}
    Faults = {"fin"}
    Client = {c1}
INVARIANT ConnectionOutlivesCGI
CHECK_DEADLOCK FALSE
