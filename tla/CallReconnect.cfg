SPECIFICATION Spec
CONSTANTS
    Modes = {FALSE}
    Early = FALSE
    Events <- OwnDisconnect
    MaxCall = 1
    MaxConnect = 2
INVARIANTS
    ConnectLasts
CHECK_DEADLOCK FALSE
