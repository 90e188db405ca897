CONSTANTS
    Nodes <- TwoNodes
    Owned <- SafePerNode
    NoSafe = "none"
    Genesis <- TestStates
    Intercepted = TRUE
    Calls = {k1, k2}
    Ops <- WriteOps
    Me = "a"
    Stakes = {1}
    ClosureTimes = {1, 2}
    MaxCalls = 2
    MaxPeerTxs = 2
    PeerTxs <- CounterpartyTxs
    OwnTxs <- UntrackedTxs
SPECIFICATION MCSpec
SYMMETRY CallSymmetry
INVARIANTS DrainedFeedMirrorsChain LastEventIsCurrent PeaksCoverGuards
PROPERTIES TokensConserved EpochsOrderTickets
CHECK_DEADLOCK FALSE
