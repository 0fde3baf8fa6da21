SPECIFICATION FairSpec
CONSTANTS
    Modes = {TRUE}
    Early = TRUE
    Events <- Undisturbed
    MaxCall = 2
    MaxConnect = 1
PROPERTIES
    CallReturns
CHECK_DEADLOCK FALSE
