CONSTANTS
    d1 = d1
    d2 = d2
    w1 = w1
    w2 = w2
    None = None
    Empty = Empty
    Torn = Torn
    Domains <- TwoDomains
    Workers <- TwoWorkers
    Tasks <- Background
    Addrs <- MediumAddrs
    Configs <- MediumPool
    ShardCount = 1
    fnv32 <- AlignedDomains
    fnv32Addr <- Parity
    TTL = 1
    WritesFail = FALSE
    MaxTime = 0
    MaxRecs = 3
SPECIFICATION Spec
INVARIANTS
    NoSharedAddress
    AnswersResolve
    EntriesBacked
PROPERTIES
    LookupStable
    ImplementsNameService
SYMMETRY Symmetry
