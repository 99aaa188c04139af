SPECIFICATION RpSpec
CONSTANTS
    a = a
    b = b
    Mixed = Mixed
    Payloads = {a, b}
    Flows = {"tcp1", "udp1", "get1"}
    Info <- MCInfo
    Setups <- MCSetups
    MaxKills = 1
CHECK_DEADLOCK FALSE
INVARIANTS
    EventsReachSinks
