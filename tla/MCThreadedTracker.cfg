SPECIFICATION Spec
CONSTANTS
    MaxClients = 2
    Connections = 4
    MaxFd = 2
INVARIANTS
    TypeOK
    SerialSafe
    HandlersKept
VIEW Relevant
CHECK_DEADLOCK FALSE
