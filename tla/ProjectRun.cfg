SPECIFICATION Spec
CONSTANTS
    pa = pa
    pb = pb
    ca = ca
    cb = cb
    cc = cc
    r1 = r1
    r2 = r2
    none = none
    Project <- Projects2
    Company <- Companies3
    None = none
    Existing <- TwoCompanies
    Home <- Homes
    Unscoped <- OldProjects
    Request <- Requests2
    Pieces = 2
    Limit = 2
    MaxRequests = 3
    MaxWrites = 1
    MaxFaults = 2
SYMMETRY Sym
INVARIANTS StoresInStep NothingLost PointsInOnePlace
