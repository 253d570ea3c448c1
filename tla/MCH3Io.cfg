SPECIFICATION Spec
CONSTANTS
    Conns = {c1, c2, c3, c4}
    MaxConnections = 3
    MaxTasks = 1
SYMMETRY ConnSymmetry
INVARIANTS
    WithinLimit
    OwnedOrFreed
    NotesBalanced
    RoundVisitsAll
    TeardownIsLast
