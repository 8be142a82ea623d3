SPECIFICATION DebugSpec
CONSTANTS
    MaxBrowsers = 2
    MaxMessages = 1
    PipeCapacity = 1
    PipeFills = FALSE
INVARIANTS
    BackendsAreAlive
PROPERTIES
    BrowsersAreUpToDate
    CallsReturn
CHECK_DEADLOCK FALSE
