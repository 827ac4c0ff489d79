SPECIFICATION FairSyncSpec
CONSTANTS
    N = 4
    Txs = {t1}
    MaxHeight = 1
    MaxRound = 1
    Loopback = TRUE
    Nil = Nil
    Live = {1, 3, 4}
    Reaches <- AllReach
PROPERTIES AllLiveCommit QuorumCommits
CHECK_DEADLOCK FALSE
