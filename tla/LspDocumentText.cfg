SPECIFICATION DocumentSpec
CONSTANTS
    Texts <- MCTexts
    Replacements <- MCReplacements
    MaxBytes = 4
    MaxJoined = 3
    Beyond = 1
INVARIANTS
    TableMatchesText
    TextIsEdited
    PositionsAgree
    OnlyTerminatorsAreSplit
CHECK_DEADLOCK FALSE

