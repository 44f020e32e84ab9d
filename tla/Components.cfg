SPECIFICATION Spec
CONSTANTS
    Txs = {t1, t2, t3}
    Rows = {1, 2}
    Kinds = {"operator", "Scan", "Claim", "Prepare", "Finish", "FinishStale", "Reprocess", "Cancel", "CancelReprocessing", "RecordCore", "RecordFeedback"}
    Concurrency = 1
    N = 3
    K = 1
    Origin <- ktOrigin
    NodeIds <- ktIds
    HashIds <- ktHashes
    Addrs <- ktAddrs
    Pingers = {w}
    Callers = {c1, c2}
    MaxQueries = 2
    MaxCopies = 2
    Goroutines = {g1, g2, g3}
    Askers = {i1, i2}
    AskerIds = {n1}
    AskedHashes = {h1}
    PerIPBurst = 2
    OverallBurst = 3
    OfferRoom = 1
    Hashes = {h1, h2}
    Samples = 3
    ChannelRoom <- crRoom
    TriageBatch = 2
    ClassifyBatch = 1
    Peers = 2
    BadHashes = {h2}
    Reports <- evReports
    Features = {"codec", "tracker"}
    FeaturesOf <- evFeatures
    TitleOnly = {"codec"}
    Expirers = {x1, x2}
INVARIANTS
    ComponentsTypeOK 
    TableAgrees ClosestSharesLongestPrefix
    AnswersAreNotMissed  
    AnnouncedWasInvited 
    CanonicalIsStrongest OutcomesCountOnce

    
CHECK_DEADLOCK FALSE
SYMMETRY Symmetry
