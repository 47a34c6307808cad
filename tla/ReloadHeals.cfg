CONSTANTS
    v1 = v1
    v2 = v2
    s1 = s1
    Versions <- TwoVersions
    Jobs <- AllJobs
    Subs <- OneSub
SPECIFICATION FairSpec
INVARIANT LoneReloadRepairs
PROPERTY EventuallyCurrent
