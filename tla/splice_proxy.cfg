SPECIFICATION FairSpec
CONSTANTS
    Bytes1 = 2
    Bytes2 = 0
    SockBuf = 1
    PipeBuf = 2
    MaxFaults = 1
CHECK_DEADLOCK FALSE
INVARIANT ClosedOnReturn
PROPERTIES
    TransferReturns
    DeliveredUnlessStalled
    RelaySpec
