SPECIFICATION FairSpec
CONSTANTS
    Modes = {TRUE}
    Early = FALSE
    Events <- Undisturbed
    MaxCall = 4
    MaxConnect = 1
PROPERTIES
    CallReturns
    RequestEnds
CHECK_DEADLOCK FALSE
