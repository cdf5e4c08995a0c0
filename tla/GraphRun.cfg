SPECIFICATION Spec
CONSTANTS
    w1 = w1
    w2 = w2
    pa = pa
    pb = pb
    va = va
    va2 = va2
    vb = vb
    ca = ca
    ca2 = ca2
    cb = cb
    e1 = e1
    e2 = e2
    e3 = e3
    Version <- Versions
    Path <- Paths
    Chunk <- Chunks
    Entity <- Entities
    PathOf <- PathOfVersion
    VersionOf <- VersionOfChunk
    Extracted <- ExtractedBy
    Verdict <- VerdictOf
    Log <- Modified
    NoVersion = NoVersion
    Workers <- TwoWorkers
    BatchSize = 2
    MaxFaults = 1
INVARIANTS SummariesLinked CountedMeansStored
PROPERTIES DeleteIsComplete DeletesOnlyItsFile
SYMMETRY Twins
