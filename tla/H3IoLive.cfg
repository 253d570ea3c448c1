SPECIFICATION FairSpec
CONSTANTS
    Conns = {c1, c2}
    MaxConnections = 2
    MaxTasks = 1
PROPERTIES
    StopTerminates
    HandshakeSettles
