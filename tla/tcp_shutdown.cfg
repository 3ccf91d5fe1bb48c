SPECIFICATION FairSpec
CONSTANTS
    None = None
    Cpus = 2
    Conn = {c1, c2}
    NAddr = 0
    MaxConcurrent = 1
    QPSLimit = 0
    ForceExit = 0
    ListenMode = TRUE
    SharedListener = TRUE
    NoMap = FALSE
    NoWorkload = FALSE
    ExitMax = FALSE
    Duration = TRUE
CHECK_DEADLOCK FALSE
PROPERTY ShutdownCompletes
