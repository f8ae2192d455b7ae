SPECIFICATION FairSpec
CONSTANTS
    Char <- Characters
    Requests <- InChunksOnly
PROPERTY ParseInitialises
CHECK_DEADLOCK FALSE
