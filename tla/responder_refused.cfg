SPECIFICATION Spec
CONSTANTS
    c1 = c1
    c2 = c2
    c3 = c3
    p1 = p1
    p2 = p2
    Client = {c1, c2, c3}
    Port = {p1, p2}
    PortOf <- TwoPorts
    Requests <- RefusedOrFatal
    Blocks <- TwoBlocks
    Documents <- Index
    Dir = {"html", "locked"}
    Name = {"index", "home", "script", "test"}
    UploadName = "test"
    Locked = {"locked"}
    Codes = {200, 201, 301, 400, 404, 405, 413, 417, 418, 500, 505}
    NoName = NoName
    NoHost = NoHost
    NoRedirect = NoRedirect
    NoLength = NoLength
    Junk = Junk
    Spare = 5
    Million = 10
    Word = 64
INVARIANTS Vetted 
PROPERTY EffectsPermitted
CHECK_DEADLOCK FALSE
