SPECIFICATION Spec
CONSTANTS
    BufferLimit = 3
    ChunkBytes = 2
    VecCount = 2
    BodyBytes = 4
    Modes = {TRUE, FALSE}
INVARIANTS
    NoDanglingChunk
    BufferAccounted
    FinMeansWhole
    SleepHasReason
    ReaderIsResumed
    NoLostWakeup
PROPERTIES
    ImplementsPipe
    ImplementsStream
