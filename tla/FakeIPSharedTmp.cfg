CONSTANTS
    d1 = d1
    d2 = d2
    w1 = w1
    w2 = w2
    None = None
    Empty = Empty
    Torn = Torn
    Domains <- OneDomain
    Workers <- OneWorker
    Tasks <- WithAll
    Addrs <- TinyAddrs
    Configs <- TinyPool
    ShardCount = 1
    fnv32 <- AlignedDomains
    fnv32Addr <- Parity
    TTL = 0
    WritesFail = FALSE
    MaxTime = 0
    MaxRecs = 1
SPECIFICATION Spec
INVARIANT FileWellFormed
