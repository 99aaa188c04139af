SPECIFICATION RSpec
CONSTANTS
    PeekShort = 1
    PeekLong = 2
    BufSize = 4
    ReadSize = 3
    MaxPayload = 3
    HeadLen = 3
    MaxHTTPBody = 2
    MaxAlloc = 3
    MaxSent = 8
    MaxBatch = 2
INVARIANTS
    RTypeOK
    StreamIntact
    HTTPRecorded
    EthereumAnswers
PROPERTIES
    RouteEnds
