\* One RunOne loop beside the core, which persists the same torrent.
SPECIFICATION LkSpec
CONSTANTS
    Txs = {t1, t2}
    Rows = {1, 2}
    Kinds = {"Finish", "persist"}
    Concurrency = 1
INVARIANT NoWaitCycle
SYMMETRY Symmetry
