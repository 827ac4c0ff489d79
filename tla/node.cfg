SPECIFICATION Spec
CONSTANTS
    BusSize = 2
    MaxConns = 5
    MaxPerPage = 2
    ChannelSize = 1
    ServerMode = TRUE
    Word = 8
    MaxHeight = 2
    Clients = {c1}
    Loads <- Mixed
INVARIANTS TypeOK WorksAboveCommitted
PROPERTIES ServesCommitted EventsTaken LockReleased UnsyncedSyncs
CHECK_DEADLOCK FALSE
