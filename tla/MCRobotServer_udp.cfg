\* UDP operators (short, stale and garbled datagrams) and the console key, beside a
\* TCP operator of the simulation mode, whose commands do not reset the watchdog.
CONSTANTS
    Frames <- TwoFrames
    Crc <- MCCrc
    DatagramLens <- ShortOrFull
    Limit = 2
    Debug = 1
    PortOpens <- Fails
    MaxSends = 2
    MaxConns = 1
    MaxKeys = 1
    MaxTcp = 4
SPECIFICATION Spec
INVARIANT TypeOK
INVARIANT WatchdogBounded
INVARIANT StopWithinLimit
PROPERTY ImplementsDeadMan
CHECK_DEADLOCK FALSE
