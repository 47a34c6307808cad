CONSTANTS
    d1 = d1
    d2 = d2
    w1 = w1
    w2 = w2
    None = None
    Empty = Empty
    Torn = Torn
    Domains <- TwoDomains
    Workers <- OneWorker
    Tasks <- Background
    Addrs <- SmallAddrs
    Configs <- SmallPool
    ShardCount = 2
    fnv32 <- AlignedDomains
    fnv32Addr <- Parity
    TTL = 1
    WritesFail = TRUE
    MaxTime = 2
    MaxRecs = 3
SPECIFICATION Spec
INVARIANT AnswersResolve
