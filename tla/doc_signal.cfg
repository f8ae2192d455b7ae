SPECIFICATION FairSpec
CONSTANTS
    N = 2
    MaxSignals = 1
    Faults = {}
PROPERTY HandlerRaisesFlag
CHECK_DEADLOCK FALSE
