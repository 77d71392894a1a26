SPECIFICATION FairSpec
CONSTANTS
    c1 = c1
    c2 = c2
    c3 = c3
    b1 = b1
    d1 = d1
    d2 = d2
    w1 = w1
    Clients <- ThreeClients
    Bufs <- OneBuffer
    Descriptors <- TwoDescriptors
    Workers <- OneWorker
    CmdEntries = 2
    RespEntries = 1
    LocalEntries = 1
    NoCmd = NoCmd
INVARIANTS
    TypeOK
    DescriptorConserved
    CommandConserved
    ProxyNeverBlocks
    NoLostWakeup
    NoLostAnswer
PROPERTIES
    ImplementsFairChannel
    CloseTerminates
CHECK_DEADLOCK FALSE
