\* Two processes, one connection at a time, queues up to five notifications:
\* a connection is ended and made again while its notifications are unread.
SPECIFICATION Spec
CONSTANTS
    t1 = t1  t2 = t2
    n1 = n1
    c1 = c1
    NULL = NULL
    Task = {t1, t2}
    EarlyExit = {}
    Name = {n1}
    Conn = {c1}
    MaxId = 4
    MAX_PROCESSES = 2
    MAX_SERVERS_PER_PID = 1
    MAX_CLIENTS_PER_PID = 1
    SHM_POOL_SIZE = 1
    LateAnswers = FALSE
    MaxNotif = 1
SYMMETRY Symmetry
INVARIANTS
    TypeOK
    MonitorAlone
    PendingIsLive
    ServerLastWord
PROPERTIES
    ImplementsLinks
CHECK_DEADLOCK FALSE
