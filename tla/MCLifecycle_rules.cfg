SPECIFICATION LSpec
CONSTANTS
    MaxRuns = 1
CHECK_DEADLOCK FALSE
INVARIANTS
    SignalledProcessCleans
