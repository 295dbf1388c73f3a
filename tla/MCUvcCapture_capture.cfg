\* Empty pictures, one fewer than buffers, and two changes of resolution.
CONSTANTS
    NB = 4
    MaxEmpties = 3
    MaxResizes = 2
    DeviceOk <- Either
SPECIFICATION FairSpec
INVARIANT TypeOK
INVARIANT BuffersAccounted
PROPERTY KeepsCapturing
CHECK_DEADLOCK FALSE
