\* An audited reprocessing request, its core job, its job and its cancellation; two jobs, one lease.
SPECIFICATION Spec
CONSTANTS
    Torrents = {1}
    Raws = {1}
    Entries = {1}
    Workers = {w1}
    Hints = {h1}
    Outcomes = {}
    Cohorts = {}
    Modes = {"apply"}
    Learnings = {"off"}
    Concurrency = 1
    QueueCapacity = 2
    RetainedJobs = 2
    ScanBatch = 2
    MaxAttempts = 1
    None = None
    Gone = Gone
    MaxGeneration = 1
    MaxRequests = 1
    MaxDisturbances = 1
INVARIANTS ResourceBounds  AdmissionIsEarned QueuedRequestHasJob
PROPERTIES CanceledRequestIsOver
SYMMETRY Symmetry
CHECK_DEADLOCK FALSE
