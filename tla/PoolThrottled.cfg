CONSTANTS
    d1 = d1  d2 = d2  d3 = d3  d4 = d4  d5 = d5
    e1 = e1  a1 = a1  o1 = o1  n1 = n1  n2 = n2  i1 = i1  i2 = i2
    w1 = w1  w2 = w2  w3 = w3  w4 = w4  w5 = w5
    NoCall = NoCall
    Initializers = {}
    Nodes = {}
    PoolSizes = {}
    Overriders = {}
    Policies = {}
    InitialPool = 5
    DefaultThreads = 5
    Workers = {w1, w2, w3, w4, w5}
    QueueLimit = 0
    WeakCas = TRUE
    Decoders = {d1, d2, d3, d4, d5}
    Encoders = {e1}
    Acks = {}
    MayDrop = {d4, d5}
SPECIFICATION ThrottledSpec
INVARIANTS WakeupOwed
PROPERTIES DecodeCapIsHard
SYMMETRY ThrottledSymmetry
CONSTRAINT Saturated
