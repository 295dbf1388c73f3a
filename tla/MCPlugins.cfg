SPECIFICATION Spec
CONSTANTS
    c1 = c1
    c2 = c2
    Conns <- MCConns
    Sessions <- MCSessions
    Sockets = {0, 1}
    Asked = TRUE
    Disabled = {"command"}
    IO_BUFFER = 3
    LineMax = 3
    MaxFails = 1
    NoConn = NoConn
    Rings <- MCRings
    Widen = 4
    MaxTime = 2
    MaxSaves = 6
    MaxFaults = 2
    Names = {"a", "b"}
    AnyName = "any"
    Options <- MCOptions
    MaxQueue = 2
    MaxVer = 3
    MaxFailures = 1
INVARIANTS
    HttpTypeOK OneThreadEach AnswersAsAsked NobodyForgotten
    RingTypeOK RingHolds NewestKept LatestKept
    FileTypeOK NeverFreed KeepsGoing
PROPERTIES
    ShowsLast OutputServed
CHECK_DEADLOCK FALSE
