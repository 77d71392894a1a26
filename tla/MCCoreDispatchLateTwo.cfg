CONSTANTS
    Ids <- OneId
    Workers <- TwoWorkers
    Components = {k1, k2}
    Msgs = {m1, m2, m3}
    QueueEntries = 4
    DataUntil = "ever"
    None = None
SYMMETRY Symmetry
SPECIFICATION Spec
INVARIANTS
    NoStaleComponent
CHECK_DEADLOCK FALSE
