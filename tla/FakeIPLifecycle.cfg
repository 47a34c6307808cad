CONSTANTS
    d1 = d1
    d2 = d2
    w1 = w1
    w2 = w2
    None = None
    Empty = Empty
    Torn = Torn
    Domains <- OneDomain
    Workers <- OneWorker
    Tasks <- Background
    Addrs <- DualAddrs
    Configs <- EditedPools
    ShardCount = 2
    fnv32 <- AlignedDomains
    fnv32Addr <- Parity
    TTL = 0
    WritesFail = TRUE
    MaxTime = 1
    MaxRecs = 2
SPECIFICATION FairSpec
INVARIANTS TypeOK AddressesInPrefixes
PROPERTY ExpiredReclaimed
