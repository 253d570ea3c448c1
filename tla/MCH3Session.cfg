SPECIFICATION Spec
CONSTANTS
    Streams = {s1, s2}
    MaxFailures = 1
SYMMETRY StreamSymmetry
INVARIANTS
    ReclaimIsSafe
    TasksCounted
    BlockedCounted
    FreedOnce
    HandledOnce
PROPERTIES
    ImplementsLife
    StreamsImplementLife
