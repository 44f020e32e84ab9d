SPECIFICATION Spec
CONSTANTS
    Facts = {f1, f2}
    Writers = {w1}
    Consumers = {c1}
    Replicas = {d1, d2}
    PageLimit = 2
    MaxAttempts = 2
    MaxSeq = 2
    MaxLosses = 1
    Items = {x, y}
    Capacity = 2
    MaxBatch = 2
    MaxItems = 5
    NodeDepth = 2
    NodeBatch = 2
    NodeQueue = 1
    Finders = {f1, f2}
    Samplers = {s1}
    MaxNodes = 2
    Hashes = {h1, h2}
    Samples = 2
    ChannelRoom <- crRoom
    TriageBatch = 2
    ClassifyBatch = 1
    Peers = 2
    BadHashes = {h2}
  
PROPERTIES
     ImplementsLiveFifo NodeCycleFlows PipelineDrains
CHECK_DEADLOCK FALSE
