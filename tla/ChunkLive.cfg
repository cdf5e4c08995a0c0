SPECIFICATION FairSpec
CONSTANTS
    w1 = w1
    w2 = w2
    ca = ca
    cb = cb
    cc = cc
    Workers <- TwoWorkers
    Chunk <- Chunks
    Log <- ThreeChunks
    NoPrompt <- NoChunks
    WithEntities <- BothAB
    WithEdges <- OnlyA
    Total = 3
    TotalFirst = TRUE
    MaxRetries = 2
    AutoCommit = TRUE
    MaxFaults = 0
    MaxCrashes = 0
    MaxStops = 0
PROPERTIES CompletesWhenTotalKnown NoneForgotten
