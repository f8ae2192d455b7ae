SPECIFICATION FairSpec
CONSTANTS
    r1 = r1
    r2 = r2
    Request = {r1, r2}
    Server = Server
    Port = {1, 2}
    Runs <- MixedRuns
    ReadSize = 2
    PipeSize = 3
    Faults = {"fork", "read"}
INVARIANTS Inv WholeIfAtOnce
PROPERTIES ImplementsProgram EveryProgramAnswered ConnectionsEnd
CHECK_DEADLOCK FALSE
