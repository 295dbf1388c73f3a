\* As many empty pictures as buffers.
CONSTANTS
    NB = 4
    MaxEmpties = 4
    MaxResizes = 0
    DeviceOk <- Works
SPECIFICATION Spec
INVARIANT EmptyIgnored
CHECK_DEADLOCK FALSE
