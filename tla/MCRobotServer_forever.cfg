\* Two TCP sessions, the first expiring while its thread answers.
CONSTANTS
    Frames <- OneFrame
    Crc <- MCCrc
    DatagramLens <- NoLen
    Limit = 1
    Debug = 0
    PortOpens <- Fails
    MaxSends = 2
    MaxConns = 2
    MaxKeys = 0
    MaxTcp = 5
SPECIFICATION Spec
INVARIANT LockOwnerRuns
CHECK_DEADLOCK FALSE
