CONSTANTS
    NoPeer = NoPeer
    Peers = {p1}
    RxParallelism = 1  TxParallelism = 2  Cpus = 4
    NumAddrs = 1
    QueueSize = 1
    Faults = {}
    MaxSends = 2  MaxWrites = 0
SPECIFICATION FairSpec
PROPERTY AlwaysReady
CHECK_DEADLOCK FALSE
