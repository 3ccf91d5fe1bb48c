SPECIFICATION FairSpec
CONSTANTS
    None = None
    Worker = {w1, w2}
    Conn = {c1}
    BatchLen = 2
    ChanCap = 1
    Report = 1
    MaxRequests = 1
    MaxDup = 1
CHECK_DEADLOCK FALSE
PROPERTIES
    ShutdownCompletes
    BatchServed
