SPECIFICATION PageSpec
CONSTANTS
    FileSettings = {50, 51, Broken}
    EnvSettings = {19, 40, Absent}
    Absent = Absent
    Broken = Broken
    Sockets = {a, b}
    NoSocket = NoSocket
    MaxStarts = 1
    Remotes <- Places
CHECK_DEADLOCK FALSE
INVARIANTS
    OnlyDocumentedServed
