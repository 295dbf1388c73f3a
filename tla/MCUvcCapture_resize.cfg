\* One change of resolution while the stream runs, on a device that works.
CONSTANTS
    NB = 4
    MaxEmpties = 0
    MaxResizes = 1
    DeviceOk <- Works
SPECIFICATION RunningSpec
INVARIANT ResizeSurvives
CHECK_DEADLOCK FALSE
