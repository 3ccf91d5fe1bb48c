SPECIFICATION FairSpec
CONSTANTS
    None = None
    Conn = {c1, c2}
    MaxConn = 1
    Slack = 1
    Modes = {"short"}
    ReadDelay = FALSE
    WriteDelay = FALSE
    FirstTries = 1
    KeepaliveTries = 1
    Fragments = FALSE
    MaxTicks = 0
CHECK_DEADLOCK FALSE
PROPERTY BusyAnswered
