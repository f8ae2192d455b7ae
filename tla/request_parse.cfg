SPECIFICATION FairSpec
CONSTANTS
    Char <- Characters
    Requests <- EveryRequest
INVARIANTS Inv WholeUnderstood CutIsPrefix ChunksWholeOrNone DeadWithoutTarget
PROPERTY ParseEnds
CHECK_DEADLOCK FALSE
