SPECIFICATION DSpec
CONSTANTS
    NoRule = NoRule
    Keys <- MCKeys
    Sources <- MCSources
    Ports <- MCPorts
    Rules <- MCRules
    RuleList <- MCRuleList
    TCPHandlers <- MCTCPHandlers
    UDPHandlers <- MCUDPHandlers
    TTL = 0
    Period = 1
    MaxLag = 0
    MaxTime = 2
    MaxFlows = 2
CHECK_DEADLOCK FALSE
INVARIANTS
    ProxyDialsOwnUpstream
