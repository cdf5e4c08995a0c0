SPECIFICATION FairSpec
CONSTANTS
    w1 = w1
    w2 = w2
    chunks = chunks
    embeddings = embeddings
    a = a
    b = b
    e = e
    f = f
    v1 = v1
    v2 = v2
    Workers <- TwoWorkers
    Topics <- BothTopics
    Points <- AllPoints
    Log <- WithoutLongChunk
    NameOf <- OwnName
    Unfit <- FirstChunk
    BatchSize = 2
    MaxRetries = 2
    MaxFaults = 0
    MaxDrops = 0
    MaxStops = 1
PROPERTIES StopTerminates AllWritten
