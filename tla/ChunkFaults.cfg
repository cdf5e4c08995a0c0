SPECIFICATION Spec
CONSTANTS
    w1 = w1
    w2 = w2
    ca = ca
    cb = cb
    cc = cc
    Workers <- TwoWorkers
    Chunk <- Chunks
    Log <- ThreeChunks
    NoPrompt <- OnlyB
    WithEntities <- OnlyA
    WithEdges <- OnlyA
    Total = 3
    TotalFirst = TRUE
    MaxRetries = 2
    AutoCommit = TRUE
    MaxFaults = 2
    MaxCrashes = 1
    MaxStops = 1
SYMMETRY Symmetry
INVARIANTS PublishedOnce CountersCoverOutput CompletionAfterDelivery LossesAccounted
