\* Two workers, jobs with and without a deadline, one crash or rollback; three items of an import in
\* batches of two; two torrents, of which one cycle looks up one.
SPECIFICATION McSpec
CONSTANTS
    MaxRows = 2
    Payloads = {p1, p2}
    Workers = {w1, w2}
    MaxRetries = 1
    Deadlines = {"none", "ahead"}
    MaxCrashes = 1
    Lines = {1, 2, 3}
    Sources = {"p", "q"}
    SourceOf <- imSource
    BufferSize = 2
    MaxFlushes = 1
    Watched = {h1, h2}
    Ingesters = {g1}
    MinObservations = 2
    LookupBatch = 1
    MaxObservations = 2
    MaxTimeouts = 1
INVARIANTS
    ExecutesLiveRow  CountsAreLocal
PROPERTIES
    UndatedJobsSettle ImportEnds 
CHECK_DEADLOCK FALSE
