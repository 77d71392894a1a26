CONSTANTS
    ca = ca
    cb = cb
    cc = cc
    w1 = w1
    w2 = w2
    x1 = x1
    x2 = x2
    App = App
    None = None
    Codecs <- TwoCodecs
    WorkerOf <- OwnWorkers
    Decoders = {cb}
    Edges <- TwoEdges
    Sources = {ca}
    Sinks = {cb}
    Bufs = {x1}
    Frame = 1
    Pausable = {ca}
    MayBeBarren = FALSE
SPECIFICATION FairSpec
PROPERTIES
    CallsReturn
CHECK_DEADLOCK FALSE
