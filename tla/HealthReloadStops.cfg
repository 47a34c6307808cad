CONSTANTS
    p1 = p1
    p2 = p2
    fast = fast
    backup = backup
    None = None
    Nodes <- TwoNodes
    Groups <- OnlyBackup
    Proxies <- BothProxies
    Type <- BothTypes
    MaxRTT = 1
SPECIFICATION FairSpec
PROPERTY AlwaysConverges
