SPECIFICATION PeerSpec
CONSTANTS
    BufferLimit = 1
    ChunkBytes = 1
    VecCount = 1
    BodyBytes = 2
    Modes = {TRUE, FALSE}
PROPERTIES
    AbortEndsSession
    ResponseArrives
