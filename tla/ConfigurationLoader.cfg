SPECIFICATION Spec
CONSTANTS
    root = root
    sub = sub
    Dirs = {root, sub}
    Ancestors <- MCAncestors
    InputPaths = {i1}
    ConfigPaths = {c1}
    Tokens = {t1}
    Contents = {A, B}
    MaxWatches = 2
    MaxRaces = 1
INVARIANTS
    TypeOK RefreshTellsEveryWatch InPlaceUpdatesAreTold
SYMMETRY
    MCSymmetry
CHECK_DEADLOCK FALSE
