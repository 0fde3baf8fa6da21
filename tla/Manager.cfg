SPECIFICATION FairSpec
CONSTANTS
    Thread <- MCThread
    Keeper = "main"
    Id = {1, 2}
    Type = {"NEW_MESSAGE"}
    MAX_SERVERS_PER_PID = 1
    MAX_CLIENTS_PER_PID = 2
    MaxInit = 2
INVARIANTS
    TypeOK
    MapsAgree
    NoCollision
    HandlerAlive
    DeviceHeld
PROPERTIES
    ShutdownReturns
CHECK_DEADLOCK FALSE
