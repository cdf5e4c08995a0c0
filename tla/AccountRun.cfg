SPECIFICATION AccountSpec
CONSTANTS
    t1 = t1
    t2 = t2
    ca = ca
    cb = cb
    cn = cn
    ka = ka
    kb = kb
    chunks = chunks
    kgrag = kgrag
    neo4j = neo4j
    Task <- Tasks
    Owned <- Companies
    New <- Later
    Shared <- WithCoOwner
    Listed <- Names
    Collection <- Collections
    Database <- Databases
    Default = neo4j
    MaxFailures = 1
    MaxCrashes = 1
INVARIANTS CompletedMeansGone UserGoesLast DeletionsAudited
