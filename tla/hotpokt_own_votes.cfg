SPECIFICATION FairSyncSpec
CONSTANTS
    N = 4
    Txs = {t1}
    MaxHeight = 1
    MaxRound = 1
    Loopback = FALSE
    Nil = Nil
    Live = {2, 3, 4}
    Reaches <- AllReach
PROPERTY QuorumCommits
CHECK_DEADLOCK FALSE
