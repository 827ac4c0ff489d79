SPECIFICATION InTurnSpec
CONSTANTS
    N = 4
    Txs = {t1}
    MaxHeight = 1
    MaxRound = 5
    Loopback = TRUE
    Nil = Nil
    Live = {1, 2, 3, 4}
    Reaches <- LostRounds
INVARIANT Agreement
CHECK_DEADLOCK FALSE
