SPECIFICATION DSpec
CONSTANTS
    NoRule = NoRule
    Keys <- MCKeys
    Sources <- MCSources
    Ports <- TwoPorts
    Rules <- MCRules
    RuleList <- MCRuleList
    TCPHandlers <- MCTCPHandlers
    UDPHandlers <- MCUDPHandlers
    TTL = 1
    Period = 1
    MaxLag = 0
    MaxTime = 3
    MaxFlows = 2
CHECK_DEADLOCK FALSE
INVARIANTS
    DTypeOK
    MetadataFromRecentFlow
    OnlyProxyRulesForward
    EntryAgeBounded
PROPERTIES
    EntryStable
    PacketsReported
    CancelStopsUDP
