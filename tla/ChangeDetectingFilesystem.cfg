SPECIFICATION Spec
CONSTANTS
    Top = top
    Nodes = {n1, n2}
    Depth = 1
    Contents = {c1, c2}
    OldContents = {c1}
    MaxChanges = 3
    Backends = {"inotify", "kqueue", "win32"}
    Objects = {o1, o2, o3}
    Missed = {}
    MaxFailures = 1
CHECK_DEADLOCK FALSE
INVARIANTS
    NoChangeIsMissed
    WatchesAreOwned
