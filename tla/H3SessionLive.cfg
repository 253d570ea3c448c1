SPECIFICATION FairSpec
CONSTANTS
    Streams = {s1}
    MaxFailures = 2
PROPERTIES
    RequestIsHandled
    ClosedIsReclaimed
    BlockedIsServed
    AbortEndsSession
