\* A stream and a snapshot under fair scheduling; no shutdown.
CONSTANTS
    w1 = w1
    NoWorker = NoWorker
    Streams = {s1}
    Snapshots = {p1}
    Workers = {}
    Out <- Http
    DropSmall = FALSE
    LowFps = TRUE
    MaxSignals = 0
    MaxFrames = 2
SPECIFICATION FairSpec
INVARIANT TypeOK
INVARIANT WholeFrames
PROPERTY FramesInOrder
PROPERTY ServedEventually
CHECK_DEADLOCK FALSE
