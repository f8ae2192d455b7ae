SPECIFICATION Spec
CONSTANTS
    c1 = c1
    c2 = c2
    Client = {c1, c2}
    NoClient = NoClient
    Fd <- Fd11
    Listener = 1
    RLimit = 14
    Kinds = {"cgi", "cgifail", "file", "nohost", "absent", "bigfile"}
    RequestLength = 1
    MaxSegments = 1
    OutputSizes = {3}
    ReadSize = 2
    PipeSize = 2
    Faults = {"fin", "rst", "fork", "signal"}
INVARIANTS Inv PolledOnce AnsweredIsDropped
PROPERTIES CGIReplyAfterExit EntryKeepsOwner ImplementsExchange
SYMMETRY Symmetry
CHECK_DEADLOCK FALSE
