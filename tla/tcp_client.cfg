SPECIFICATION Spec
CONSTANTS
    None = None
    Cpus = 2
    Conn = {c1, c2, c3}
    NAddr = 3
    MaxConcurrent = 2
    QPSLimit = 0
    ForceExit = 0
    ListenMode = FALSE
    SharedListener = FALSE
    NoMap = FALSE
    NoWorkload = FALSE
    ExitMax = FALSE
    Duration = FALSE
SYMMETRY ConnSymmetry
CHECK_DEADLOCK FALSE
INVARIANTS
    AddressesDistinct
    PoolNeverBlocks
    EntriesCurrent
