SPECIFICATION FairSpec
CONSTANTS
    Modes = {TRUE}
    Early = FALSE
    Events <- ServerStops
    MaxCall = 2
    MaxConnect = 1
PROPERTIES
    StopWakes
CHECK_DEADLOCK FALSE
