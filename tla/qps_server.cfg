SPECIFICATION Spec
CONSTANTS
    None = None
    Conn = {c1, c2}
    MaxConn = 1
    Slack = 1
    Modes = {"keepalive", "readlonly"}
    ReadDelay = FALSE
    WriteDelay = TRUE
    FirstTries = 2
    KeepaliveTries = 1
    Fragments = TRUE
    MaxTicks = 1
SYMMETRY ConnSymmetry
CHECK_DEADLOCK FALSE
INVARIANTS
    CounterExact
PROPERTY GateSpec
