CONSTANTS
    Ids <- OneId
    Workers <- TwoWorkers
    Components = {k1, k2}
    Msgs = {m1, m2}
    QueueEntries = 3
    DataUntil = "ever"
    None = None
SPECIFICATION FairSpec
PROPERTIES
    EveryCommandAnswered
CHECK_DEADLOCK FALSE
