SPECIFICATION Spec
CONSTANTS
    root = root
    sub = sub
    c1 = c1
    c2 = c2
    Dirs = {root, sub}
    Ancestors <- TwoDirs
    InputPaths = {i1}
    ConfigPaths = {c1}
    Contents = {A, B}
    Texts = {x}
    Spelled <- MCSpelled
    DiskStates <- MCDiskStates
    PathsMove = TRUE
    MaxDocuments = 2
    MaxRaces = 1
INVARIANTS
    DiagnosticsMatchConfig DiagnosticsMatchFiles
SYMMETRY
    MCSymmetry
CHECK_DEADLOCK FALSE
