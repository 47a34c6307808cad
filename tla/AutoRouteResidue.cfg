CONSTANTS
    c4 = c4
    c6 = c6
    d4 = d4
    Cidrs <- AllCidrs
    Fam <- Family
    Aligned <- AllCidrs
    DefaultCidrs <- BothCidrs
    Files <- DefaultFiles
    Edits <- KeyEdit
    MaxBoots = 1
SPECIFICATION RouteSpec
CHECK_DEADLOCK FALSE
INVARIANT ZeroResidue
