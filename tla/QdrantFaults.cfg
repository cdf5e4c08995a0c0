SPECIFICATION Spec
CONSTANTS
    w1 = w1
    w2 = w2
    chunks = chunks
    embeddings = embeddings
    a = a
    b = b
    e = e
    f = f
    v1 = v1
    v2 = v2
    Workers <- OneWorker
    Topics <- BothTopics
    Points <- AllPoints
    Log <- Replaced
    NameOf <- OwnName
    Unfit <- ShortChunk
    BatchSize = 2
    MaxRetries = 2
    MaxFaults = 1
    MaxDrops = 1
    MaxStops = 1

INVARIANTS NothingForgotten NothingBehindSentinel
PROPERTY ChunkDeletedByOwner
