SPECIFICATION MCSpec
CONSTANTS
    None = None
    Junk = Junk
    Scheme = Scheme
    Names = {n1}
    NoName = NoName
    Zero = Zero
    Last = {1, 2, 4}
    PortsPerHost = 5
    Threshold = 7
    Reserve = 2
    MaxConns = {0, 1, 3, 6, 9, 40}
    MaxEntries = 2
    Limits = {1, 2, 3, 7, 9, 17, 33}
    Horizon = 2100
    MaxLen = 5
    MinBytes = 3
    MaxSkip = 2
    Limit = 3
    RawTries = 5
    HeaderLen = 3
    BodyLen = 2
    WriteTries = 5
    MaxWire = 8
    MethodSize = 4
    HeaderSize = 6
    MiniSize = 2
    TailSize = 1
    MaxRead = 7
    MaxEmpty = 1
CHECK_DEADLOCK FALSE
INVARIANTS
    
    PlanFits
    RateSound
    VerdictSound
    HeaderEndExact
    ResponseWhole
PROPERTY ReturnsUnlessSpinning
