SPECIFICATION Spec
CONSTANTS
    Sessions <- CaptureSessions
    MaxBytes <- CaptureBytes
INVARIANTS
    TypeOK
    CountsAgree
    CaptureIsPrefix
    OpenUntilBothDone
    ReturnReleasesAll
PROPERTIES
    ImplementsRelay
