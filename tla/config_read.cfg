SPECIFICATION Spec
CONSTANTS
    ListenArgs <- EveryArg
    MaxPort = 65535
    DefaultPort = 8080
    MaxBraces = 7
    MaxBlocks = 3
    MaxRoutes = 3
INVARIANTS TypeOK PortsDistinct EveryBlockServed ServedHaveRoutes OwnedOnce WellDefined
CHECK_DEADLOCK FALSE
