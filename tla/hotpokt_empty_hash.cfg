SPECIFICATION SyncSpec
CONSTANTS
    N = 4
    Txs = {t1}
    MaxHeight = 1
    MaxRound = 1
    Loopback = TRUE
    Nil = Nil
    Live = {1, 2, 3, 4}
    Reaches <- LostPrepare
INVARIANT HashStored
CHECK_DEADLOCK FALSE
