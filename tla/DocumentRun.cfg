SPECIFICATION FairSpec
CONSTANTS
    d1 = d1
    d2 = d2
    ta = ta
    tb = tb
    tw = tw
    r1 = r1
    r2 = r2
    Doc <- OneDoc
    Text <- Texts
    Blank <- White
    Rpc <- Rpcs
    Chunks = 2
    CacheSize = 1
    MaxCalls = 3
    MaxFaults = 1
INVARIANTS IndexFollowsRow OneTextAtATime
PROPERTIES UnchangedMeansStored ChangeReachesStores
