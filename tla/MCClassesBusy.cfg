CONSTANTS
    x1 = x1
    x2 = x2
    None = None
    Bufs = {x1, x2}
    Frame = 1
    MayBeBarren = FALSE
    Variants <- Busy
SPECIFICATION Spec
INVARIANTS
    NoAssertion
CHECK_DEADLOCK FALSE
