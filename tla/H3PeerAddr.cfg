SPECIFICATION AddrFairSpec
CONSTANTS
    Conns = {c1, c2}
    Addrs = {a1, a2}
    Batch = 3
    MaxDatagrams = 4
INVARIANTS ClientIsSender
PROPERTIES PumpReturns
