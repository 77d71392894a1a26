CONSTANTS
    ca = ca
    cb = cb
    cc = cc
    w1 = w1
    w2 = w2
    x1 = x1
    x2 = x2
    App = App
    None = None
    Codecs <- ThreeCodecs
    WorkerOf <- OwnWorkers
    Decoders = {cb}
    Edges <- ThreeEdges
    Sources = {ca}
    Sinks = {cc}
    Bufs = {x1}
    Frame = 1
    Pausable = {}
    MayBeBarren = FALSE
SPECIFICATION Spec
INVARIANTS
    TypeOK
    MessagesConserved
    FreedAtHome
    MessageExpected
    RunExpected
    OutputIsOurs
CHECK_DEADLOCK FALSE
