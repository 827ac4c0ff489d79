SPECIFICATION Spec
CONSTANTS
    N = 3
    Txs = {t1}
    MaxHeight = 1
    MaxRound = 1
    Loopback = TRUE
    Nil = Nil
CHECK_DEADLOCK FALSE
INVARIANT OneLeader
