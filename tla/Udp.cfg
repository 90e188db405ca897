CONSTANTS
    p1 = p1  p2 = p2  NoPeer = NoPeer
    Peers = {p1, p2}
    RxParallelism = 2  TxParallelism = 2  Cpus = 4
    NumAddrs = 1
    QueueSize = 1
    Faults = {"bind", "empty", "socket"}
    MaxSends = 2  MaxWrites = 3
SPECIFICATION MCSpec
INVARIANTS OneCounterparty OnceInOrder ReportsAreTrue
PROPERTIES TakenIsTold QueuedIsSent ClosedEnds
CHECK_DEADLOCK FALSE
