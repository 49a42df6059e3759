SPECIFICATION Spec
CONSTANTS
    NoFile = NoFile
    NoReply = NoReply
    Habits = {}
    Size = 3
    Retries = 1
    MaxStarts = 3
    MaxFaults = 3
INVARIANTS TypeOK FilesSound RecoveryKept CapabilitiesRetired ActiveIsServed
PROPERTIES PausedKept DownloadsSettle
CHECK_DEADLOCK FALSE
