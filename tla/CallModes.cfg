SPECIFICATION Spec
CONSTANTS
    Modes = {TRUE, FALSE}
    Early = FALSE
    Events <- Everything
    MaxCall = 3
    MaxConnect = 2
INVARIANTS
    TypeOK
    NoLostWakeup
    AnswerDelivered
    PageExclusive
    HandlerMatches
    ServerView
CHECK_DEADLOCK FALSE
