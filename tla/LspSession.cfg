SPECIFICATION Spec
CONSTANTS
    LengthHeaders = {"L0", "L1", "L3"}
    ContentLength <- MCContentLength
    BadLengthHeaders = {"bad"}
    NoLength = NoLength
    Streams <- MCStreams
    Message <- MCMessage
    Content = {"init", "badinit", "shutdown", "exit", "hover", "ready", "doc", "setB", "setN", "answer", "noanswer", "failed", "notnum", "objid", "badid", "both", "batch", "junk"}
    InCapacity = 12
    OutCapacity = 3
    MaxFsEvents = 1
    NoBackend = 0
    NotCreated = {"N"}
INVARIANTS
    FramesAreHandledOnce
    OutputIsInOrder
    AnsweredOnce
PROPERTIES
    EverythingIsRead
    FsChangesAreNoticed
CHECK_DEADLOCK FALSE
