\* Operators that register, control and remove two services and change the admission.
SPECIFICATION Spec
CONSTANTS
    Torrents = {1}
    Raws = {1}
    Entries = {1, 2}
    Workers = {w1}
    Hints = {h1}
    Outcomes = {"completed", "excluded"}
    Cohorts = {{}, {1}}
    Modes = {"shadow", "apply"}
    Learnings = {"on", "off"}
    Concurrency = 2
    QueueCapacity = 1
    RetainedJobs = 1
    ScanBatch = 2
    MaxAttempts = 1
    None = None
    Gone = Gone
    MaxGeneration = 2
    MaxRequests = 0
    MaxDisturbances = 0
INVARIANTS ActiveJobsRunTheRegistry
PROPERTIES DispatchIsAuthorized ExclusionHasAuthority
SYMMETRY Symmetry
CHECK_DEADLOCK FALSE
