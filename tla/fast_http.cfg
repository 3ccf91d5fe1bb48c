SPECIFICATION MCSpec
CONSTANTS
    None = None
    Conn = {c1, c2}
    Worker = {w1, w2}
    BatchLen = 2
    ChanCap = 1
    Report = 1
    MaxRequests = 1
    MaxDup = 1
    MBuf = {m1, m2}
    HBuf = {h1, h2}
    Request <- MCRequest
    MiniSize = 1
    MethodSize = 1
    HeaderSize = 2
    TailSize = 1
SYMMETRY MCSymmetry
CHECK_DEADLOCK FALSE
INVARIANTS
    NoSendOnClosed
    LastReport
    KeepAliveSound
