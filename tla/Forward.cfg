CONSTANTS
    f1 = f1  f2 = f2
    Forwarders = {f1, f2}
    Items <- LongAndShort
    Capacity = 1
SPECIFICATION FairSpec
INVARIANTS OwnTimer
PROPERTIES IsLossyRelay StreamIsDrained ForwardingEnds
CHECK_DEADLOCK FALSE
