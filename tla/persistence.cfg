SPECIFICATION Spec
CONSTANTS
    t1 = t1
    t2 = t2
    Txs = {t1, t2}
    Size <- SizeOf
    MaxTxs = 1
    MaxTxsBytes = 4
    Word = 16
    Clients = {c1}
    MaxTxBytes = 2
    MaxHeight = 2
    MaxCrashes = 2
    Genesis = Genesis
    Nil = Nil
INVARIANTS
    TypeOK
    ServedMatchesSQL
    BlockHoldsApplied
    MempoolCounted
PROPERTY AtomicStore
CHECK_DEADLOCK FALSE
