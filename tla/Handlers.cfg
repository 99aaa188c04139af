SPECIFICATION HSpec
CONSTANTS
    BufUnits = 2
    MaxDataRead = 2
    MaxSent = 6
    MaxReplies = 2
INVARIANTS
    HTypeOK
    ReportedOnce
    RecordFaithful
PROPERTIES
    SessionEnds
    
