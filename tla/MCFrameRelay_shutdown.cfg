\* A stream and a file worker, with a shutdown at any time.  output_file is loaded first,
\* so that its worker is cancelled before the mutex is destroyed.
CONSTANTS
    w1 = w1
    NoWorker = NoWorker
    Streams = {s1}
    Snapshots = {}
    Workers = {w1}
    Out <- FileAndHttp
    DropSmall = TRUE
    LowFps = TRUE
    MaxSignals = 1
    MaxFrames = 2
SPECIFICATION Spec
INVARIANT WholeFrames
INVARIANT LockGivenBack
PROPERTY FramesInOrder
CHECK_DEADLOCK FALSE
