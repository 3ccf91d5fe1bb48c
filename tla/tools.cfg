SPECIFICATION MCSpec
CONSTANTS
    Bytes = 2
    Rounds = 2
    SockBuf = 1
    PipeBuf = 3
    Pages = 2
    MaxFaults = 1
    Proc = {"master", "worker"}
    ChanSize = 1
    NumWorker = 2
    MaxForkFails = 1
    MaxSignals = 2
    BufSize = 6
    MinFields = 2
    MaxFields = 3
    StatSize = 2
    Width = 6
    Seeds = {30, 31, 37, 46}
    LineLen = 15
    FieldLen = 5
    GenLines = 40
    Name = {"a", "b"}
    MaxHits = 2
    NCpu = 2
    InCap = 1
    OutCap = 1
    Block = 2
    MaxLists = 4
    NAcceptor = 2
    Sock = {"c1", "c2"}
INVARIANT PeerKnown StopSound SplitExact ReportComplete SearchComplete OneLeftBehind
PROPERTY EchoReturns HangupCloses MasterEnds StopsTogether MainReturns SearchReturns
CHECK_DEADLOCK FALSE
