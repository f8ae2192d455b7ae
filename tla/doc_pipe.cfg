SPECIFICATION FairSpec
CONSTANTS
    r1 = r1
    r2 = r2
    Request = {r1, r2}
    Server = Server
    Port = {1}
    Runs <- LargeRuns
    ReadSize = 2
    PipeSize = 3
    Faults = {}
PROPERTY LargeBodyRead
CHECK_DEADLOCK FALSE
