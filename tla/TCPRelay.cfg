CONSTANTS
    h1 = h1
    h2 = h2
    Handlers <- TwoHandlers
    MaxBusy = 1
    MaxHops = 1
    MaxTries = 2
    MaxAddrs = 1
SPECIFICATION FairSpec
INVARIANTS TypeOK TableTrue NothingLeft
PROPERTIES EndsWithPeers EndPassedOn
CHECK_DEADLOCK FALSE
