SPECIFICATION FairSpec
CONSTANTS
    Streams = {a, b, v}
    Workers = {w}
    READ_BUDGET = 2
    BYTE_BUDGET = 2
    BufSize = 1
    Window = 1
    SocketCap = 2
    DrainMax = 1
INVARIANT SleepsOnlyWhenIdle
PROPERTY EveryStreamIsRead
