SPECIFICATION FairSpec
CONSTANTS
    f1 = f1
    f2 = f2
    e1 = e1
    e2 = e2
    FileWorkers <- MCFileWorkers
    EmbedWorkers <- MCEmbedWorkers
    NFiles = 3
    MaxChunks = 1
    BatchSize = 2
    PipelineStore = TRUE
INVARIANTS StagesInOrder NothingStranded NeverOverstated
PROPERTIES Completes ResentOnlyByCancellation PromiseSpec
