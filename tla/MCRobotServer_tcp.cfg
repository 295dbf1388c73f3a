\* One operator message of either kind: partial reads, hang-ups, cancellation and
\* replacement threads, with the serial thread and fair scheduling.
CONSTANTS
    Frames <- OneFrame
    Crc <- MCCrc
    DatagramLens <- FullLen
    Limit = 2
    Debug = 0
    PortOpens <- EitherWay
    MaxSends = 1
    MaxConns = 1
    MaxKeys = 0
    MaxTcp = 5
SPECIFICATION FairSpec
PROPERTY ImplementsDeadMan
PROPERTY StopsEventually
CHECK_DEADLOCK FALSE
