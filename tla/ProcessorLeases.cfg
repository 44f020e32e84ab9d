\* Workers that overlap, crash and lose their leases; one service, one torrent, one job at a time.
SPECIFICATION Spec
CONSTANTS
    Torrents = {1}
    Raws = {1}
    Entries = {1}
    Workers = {w1, w2}
    Hints = {h1, h2}
    Outcomes = {"completed"}
    Cohorts = {}
    Modes = {"apply"}
    Learnings = {"off"}
    Concurrency = 2
    QueueCapacity = 1
    RetainedJobs = 1
    ScanBatch = 2
    MaxAttempts = 2
    None = None
    Gone = Gone
    MaxGeneration = 1
    MaxRequests = 0
    MaxDisturbances = 3
INVARIANTS OneHolder OpenAttemptIsLive FrozenInput AttemptBudget
PROPERTIES TerminalForever ApplicationIsFresh
SYMMETRY Symmetry
CHECK_DEADLOCK FALSE
