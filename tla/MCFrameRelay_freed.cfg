\* A stream that copies while the camera thread cleans up.
CONSTANTS
    w1 = w1
    NoWorker = NoWorker
    Streams = {s1}
    Snapshots = {}
    Workers = {}
    Out <- Http
    DropSmall = FALSE
    LowFps = FALSE
    MaxSignals = 1
    MaxFrames = 1
SPECIFICATION Spec
INVARIANT FreedUnused
CHECK_DEADLOCK FALSE
