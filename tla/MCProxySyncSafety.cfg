CONSTANTS
    Threads = {t1, t2}
    Handles = {h1, h2}
    Clients <- ThreeClients
    Buffers = {b1, b2}
    Components = {k1, k2}
    Cmds = {c1, c2}
    MayTimeout = TRUE
    None = None
SPECIFICATION Spec
INVARIANTS
    TypeOK
    AnswersToSender
    ClientsConserved
    BuffersHeldWhileUsed
    NoOrphans
PROPERTIES
    SuccessIsReal
CHECK_DEADLOCK FALSE
