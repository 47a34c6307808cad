CONSTANTS
    k1 = k1
    k2 = k2
    h1 = h1
    h2 = h2
    Keys <- TwoKeys
    Handlers <- TwoHandlers
    MaxSessions = 2
    IdleTimeout = 1
SPECIFICATION FairSpec
INVARIANTS TypeOK MappedIsOpen OpenIsOwned
PROPERTY SilentSessionEnds
