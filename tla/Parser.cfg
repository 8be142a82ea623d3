SPECIFICATION Spec
CONSTANTS
    Length <- MCLength
    EditedLength <- MCEditedLength
    Inserted <- MCInserted
INVARIANTS
    ValidProgramsAreClean
    VisitsTellTheProgram
    VisitsNest
CHECK_DEADLOCK FALSE
