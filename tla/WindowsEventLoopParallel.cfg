SPECIFICATION Spec
CONSTANTS
    Data <- MCData
    Byte <- MCByte
    PipeCapacity = 2
    MaxChunks = 2
    MaxFsEvents = 1
    MaxBytes = 4
CHECK_DEADLOCK FALSE
INVARIANTS
    UserCodeIsExclusive
