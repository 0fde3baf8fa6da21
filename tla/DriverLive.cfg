\* Two processes and two connections, pools of one sub-area with ids for a pool
\* more than there are connections, late answers; the opener of one device
\* file may end before the file is closed; no symmetry.
SPECIFICATION FairSpec
CONSTANTS
    t1 = t1  t2 = t2
    n1 = n1
    c1 = c1  c2 = c2
    NULL = NULL
    Task = {t1, t2}
    EarlyExit = {t1}
    Name = {n1}
    Conn = {c1, c2}
    MaxId = 7
    MAX_PROCESSES = 2
    MAX_SERVERS_PER_PID = 1
    MAX_CLIENTS_PER_PID = 1
    SHM_POOL_SIZE = 1
    LateAnswers = TRUE
    MaxNotif = 0
INVARIANTS
    IdsExact
    NamesUnique
    CountsExact
    ReleaseClean
    PointersAgree
    OwnersRegistered
    PoolsBounded
PROPERTIES
    EndIsAnnounced
    OpEnds
CHECK_DEADLOCK FALSE
