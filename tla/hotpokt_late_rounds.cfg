SPECIFICATION SyncSpec
CONSTANTS
    N = 4
    Txs = {t1, t2}
    MaxHeight = 1
    MaxRound = 3
    Loopback = TRUE
    Nil = Nil
    Live = {1, 2, 3, 4}
    Reaches <- LostDecide
INVARIANTS
    CommitCertified
    AgreementInRound
CHECK_DEADLOCK FALSE
