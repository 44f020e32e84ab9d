\* One ping worker beside the others that change the table.
SPECIFICATION KtSpec
CONSTANTS
    N = 3
    K = 1
    Origin <- ktOrigin
    NodeIds <- ktIds
    HashIds <- ktHashes
    Addrs <- ktAddrs
    Pingers = {w}
PROPERTY PingFailureEvicts
CHECK_DEADLOCK FALSE
