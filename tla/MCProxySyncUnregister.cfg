CONSTANTS
    Threads = {t1, t2}
    Handles = {h1, h2}
    Clients <- ThreeClients
    Buffers = {b1, b2}
    Components = {k1, k2}
    Cmds = {c1, c2}
    MayTimeout = TRUE
    None = None
SYMMETRY Symmetry
SPECIFICATION Spec
INVARIANTS
    UnregisterAnswered
CHECK_DEADLOCK FALSE
