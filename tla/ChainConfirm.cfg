CONSTANTS
    Nodes <- TwoNodes
    Owned <- SafePerNode
    NoSafe = "none"
    Genesis <- FundableTwice
    Intercepted = FALSE
    Calls = {k1, k2}
    Ops <- WriteOps
    Me = "a"
    Stakes = {1}
    ClosureTimes = {1, 2}
    MaxCalls = 2
    MaxPeerTxs = 2
    PeerTxs = {}
    OwnTxs = {}
SPECIFICATION Spec
INVARIANTS FundingIsVisible
CHECK_DEADLOCK FALSE
