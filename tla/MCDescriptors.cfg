\* Three incarnations of Thread_TCP and as many clients.
CONSTANTS
    MaxTcp = 3
    MaxConns = 3
    MaxFd = 13
SPECIFICATION Spec
INVARIANT TypeOK
INVARIANT PortKept
INVARIANT NoLeak
INVARIANT ListenerUp
CONSTRAINT Excused
CHECK_DEADLOCK FALSE
