CONSTANTS
    Ids <- TwoIds
    Workers <- TwoWorkers
    Components = {k1, k2, k3}
    Msgs = {m1, m2, m3}
    QueueEntries = 3
    DataUntil = "exited"
    None = None
SYMMETRY Symmetry
SPECIFICATION Spec
INVARIANTS
    TypeOK
    MessagesConserved
    ClientIdsConserved
    ExecutedInOrder
    OneThreadPerComponent
    NoStaleComponent
    WorkersServe
CHECK_DEADLOCK FALSE
