CONSTANTS
    d1 = d1  d2 = d2  d3 = d3  d4 = d4  d5 = d5
    e1 = e1  a1 = a1  o1 = o1  n1 = n1  n2 = n2  i1 = i1  i2 = i2
    w1 = w1  w2 = w2  w3 = w3  w4 = w4  w5 = w5
    NoCall = NoCall
    Initializers = {}
    Nodes = {}
    PoolSizes = {}
    Overriders = {o1}
    Policies <- OffOnly
    InitialPool = 1
    DefaultThreads = 1
    Workers = {w1}
    QueueLimit = 0
    WeakCas = FALSE
    Decoders = {d1, d2, d3, d4}
    Encoders = {e1}
    Acks = {}
    MayDrop = {d4}
SPECIFICATION FairLateSpec
INVARIANTS DisableReachesWaiters
PROPERTIES EveryCallReturns
