\* Ids are freed and taken again before the first pool is made.
SPECIFICATION Spec
CONSTANTS
    t1 = t1
    n1 = n1  n2 = n2
    c1 = c1  c2 = c2
    NULL = NULL
    Task = {t1}
    EarlyExit = {t1}
    Name = {n1, n2}
    Conn = {c1, c2}
    MaxId = 6
    MAX_PROCESSES = 2
    MAX_SERVERS_PER_PID = 2
    MAX_CLIENTS_PER_PID = 2
    SHM_POOL_SIZE = 2
    LateAnswers = FALSE
    MaxNotif = 0
SYMMETRY Symmetry
INVARIANTS
    SubmemIdNotZero
CHECK_DEADLOCK FALSE
