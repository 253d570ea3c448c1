SPECIFICATION Spec
CONSTANTS
    NServers = 2
    Default <- DefaultValues
    Maximum <- MaximumValues
    Addrs <- ServerAddrs
    Arguments <- DirectiveArguments
    MaxDirectives = 2
    H3_BODY_BUF_INIT_CAP = 1
    Newlines = {2}
    MaxChunk = 3
    MaxSent = 1
    MaxWritten = 5
INVARIANT ReadErrorIsReturned
