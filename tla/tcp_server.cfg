SPECIFICATION Spec
CONSTANTS
    None = None
    Cpus = 2
    Conn = {c1, c2, c3}
    NAddr = 0
    MaxConcurrent = 2
    QPSLimit = 1
    ForceExit = 0
    ListenMode = TRUE
    SharedListener = FALSE
    NoMap = FALSE
    NoWorkload = FALSE
    ExitMax = FALSE
    Duration = TRUE
SYMMETRY ConnSymmetry
CHECK_DEADLOCK FALSE
INVARIANTS
    SwitchedOnce
    ConnsTracked
    CleanShutdown
PROPERTY GateSpec
