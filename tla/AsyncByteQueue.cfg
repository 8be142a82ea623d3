SPECIFICATION FairSpec
CONSTANTS
    DefaultChunkSize = 2
    MaxAppend = 3
    Alignments <- MCAlignments
    MaxBytes = 4
    MaxChunks = 4
INVARIANTS
    TypeOK
    TakenInOrder
    NoUseAfterFree
PROPERTIES
    SpanIsStable
    ImplementsByteStream
    CommittedIsTaken
CHECK_DEADLOCK FALSE
