SPECIFICATION LSpec
CONSTANTS
    MaxRuns = 3
CHECK_DEADLOCK FALSE
INVARIANTS
    LTypeOK
    CompletedShutdownCleans
PROPERTIES
    SignalEndsProcess
    SensorIDKept
