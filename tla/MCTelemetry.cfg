\* The frames of the controller, two faults, and up to two requests of a UDP client.
CONSTANTS
    PayloadLen <- Len21
    Patterns <- MCPatterns
    MaxFaults = 2
    MaxAsks = 2
    BusyPatterns <- MCBusy
SPECIFICATION TelemetryFairSpec
INVARIANT TelemetryTypeOK
INVARIANT RecoversInTime
INVARIANT NothingStale
PROPERTY KeepsStep
PROPERTY StaysInSync
PROPERTY TelemetryReturns
