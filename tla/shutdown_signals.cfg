SPECIFICATION FairSpec
CONSTANTS
    N = 2
    MaxSignals = 2
    Faults = {"create", "bind", "poll", "memory", "file", "throw", "block"}
INVARIANTS Inv ExitsLast FlagGuarded
PROPERTY SignalEndsServer
CHECK_DEADLOCK FALSE
