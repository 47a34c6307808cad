CONSTANTS
    p1 = p1
    p2 = p2
    fast = fast
    backup = backup
    None = None
    Nodes <- TwoNodes
    Groups <- BothGroups
    Proxies <- BothProxies
    Type <- BothTypes
    MaxRTT = 2
    NoAddr = NoAddr
    Torn = Torn
    NoBuf = NoBuf
    c1 = c1
    r1 = r1
    r2 = r2
    l1 = l1
    b1 = b1
    b2 = b2
    Lists <- BothLists
    Editions <- TwoEditions
    ErrorPage <- Page
    Names <- AskedNames
    Lookups = {c1}
    MaxFilters = 2
    Hours = {1, 2}
    MaxHourlyBuckets = 1
    Recorders = {r1}
    MaxCount = 2
    Buffers = {b1, b2}
    Requests = {r1, r2}
    Listeners = {l1}
    Cap = 2
    Labels <- LabelSet
    Lower <- ToLower
    ConnNames <- NameSet
    Addrs <- AddrSet
    PrivateAddrs <- Privates
    InPrefix <- Cidrs
    KeywordIn <- Keywords
    Configs <- AllRules
    MaxRules = 3
    DefaultUpstream = "REJECT"
SPECIFICATION AllSpec
CHECK_DEADLOCK FALSE
INVARIANTS PartsTyped MatchesAsConfigured UnsavedIsExplained PayloadIntact
PROPERTIES AbandonsOnlyDead GroupsConverge LookupsReturn BlocksOnlyOffered BootFilterHeals NewestKept
