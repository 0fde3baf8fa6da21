\* A server answers after its client has disconnected.
SPECIFICATION Spec
CONSTANTS
    t1 = t1  t2 = t2
    n1 = n1
    c1 = c1
    NULL = NULL
    Task = {t1, t2}
    EarlyExit = {}
    Name = {n1}
    Conn = {c1}
    MaxId = 4
    MAX_PROCESSES = 2
    MAX_SERVERS_PER_PID = 1
    MAX_CLIENTS_PER_PID = 1
    SHM_POOL_SIZE = 1
    LateAnswers = TRUE
    MaxNotif = 1
SYMMETRY Symmetry
INVARIANTS
    EndWritingRefuses
CHECK_DEADLOCK FALSE
