CONSTANTS
    d1 = d1
    c1 = c1
    c2 = c2
    k1 = k1
    k2 = k2
    NoCall = NoCall
    Domains <- OneDomain
    Clients <- TwoClients
    Calls <- TwoCalls
    MinTTL = 1
    CacheTTL = 2
    StaleTime = 1
    Outcomes <- SomeOutcomes
    MaxRefresh = 1
    MaxTime = 5
    c4 = c4
    c6 = c6
    d4 = d4
    Cidrs <- AllCidrs
    Fam <- Family
    Aligned <- AllCidrs
    DefaultCidrs <- BothCidrs
    Files <- DefaultFiles
    Edits <- AnyEdit
    MaxBoots = 2
SPECIFICATION PairSpec
CHECK_DEADLOCK FALSE
INVARIANTS TypeOK SingleFlight AnswersBounded RouteTypeOK OwnResidueGone Intercepted
PROPERTIES CacheMonotone LookupReturns StaleRevalidated ShutdownTerminates
