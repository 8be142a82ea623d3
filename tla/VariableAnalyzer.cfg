SPECIFICATION Spec
CHECK_DEADLOCK FALSE
CONSTANTS
    Corpora <- MCCorpora
    Globals <- MCGlobals
INVARIANTS
    DiagnosticsMatchTwoPass
    DuplicatesAreReported
    UnusedShadowingIsReported
