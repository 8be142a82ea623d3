SPECIFICATION FairSpec
CONSTANTS
    Threads = {t1, t2}
    Backends = {b1, b2}
    MaxIndex = 2
    MaxEvents = 2
INVARIANTS
    TypeOK
    FilesFollowStreams
PROPERTIES
    BackendContract
    StreamsAreByteStreams
    StopReturns
CHECK_DEADLOCK FALSE
