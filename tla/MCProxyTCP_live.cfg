SPECIFICATION Spec
CONSTANTS
    Sessions <- EndingSessions
    MaxBytes <- EndingBytes
PROPERTIES
    IdleSessionEnds
    CancelEndsSession
    WatcherExits
