SPECIFICATION Spec
CONSTANTS
    None = None
    Cpus = 1
    Conn = {c1, c2, c3}
    NAddr = 2
    MaxConcurrent = 1
    QPSLimit = 0
    ForceExit = 0
    ListenMode = FALSE
    SharedListener = FALSE
    NoMap = FALSE
    NoWorkload = FALSE
    ExitMax = FALSE
    Duration = FALSE
CHECK_DEADLOCK FALSE
INVARIANT ConnsTracked
