CONSTANTS
    x1 = x1
    x2 = x2
    None = None
    Bufs = {x1, x2}
    Frame = 1
    MayBeBarren = FALSE
    Variants <- Calm
SPECIFICATION FairSpec
INVARIANTS
    TypeOK
    NoAssertion
    ScheduledOnce
    MessagesConserved
    ReturnedWhenGone
    FreedAtHome
    OutputIsOurs
PROPERTIES
    CallsReturn
CHECK_DEADLOCK FALSE
