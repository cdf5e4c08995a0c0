SPECIFICATION FairSpec
CONSTANTS
    w1 = w1
    w2 = w2
    ca = ca
    cb = cb
    Chunk <- Chunks
    Unchanged <- HalfUnchanged
    Made <- OneEach
    Embeddable <- OneEach
    Workers <- TwoWorkers
    BatchSize = 2
    NotSet = NotSet
    MaxFaults = 1
INVARIANTS NeverAhead EventsInOrder NothingLost
PROPERTIES LateItemCompletes
