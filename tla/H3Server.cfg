SPECIFICATION FairSpec
CONSTANT Children = {c1, c2, c3}
INVARIANTS
    ListenerKeepsSocket
    PortIsUsed
    StoppedIsClean
PROPERTIES
    StopReturns
