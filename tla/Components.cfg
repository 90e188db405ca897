CONSTANTS
    BUCKETS = 2  Width = 2  Horizon = 9
    Counts = {1, 2}  MaxCount = 2
    WindowSize = 3  Modulus = 8  Samples = {0, 1, 5, 7}
    Factor = 3  EmaSamples <- EmaValues  MaxUpdates = 5
    Weights <- SomeWeights  MaxItems = 3  SortKeys = {1, 2}
    AbortTasks = {t1}  JoinTasks = {t2}
    Lists = {l1, l2, l3}  Keys = {k1, k2}  Vacant = Vacant
    Children = {c1, c2}  Poller = Poller
    EnvWarnAfter = 1  EnvWarnEvery = 0  DefaultWarnAfter = 3  DefaultWarnEvery = 2
    MaxTime = 5  MaxPolls = 3
    Senders = {s1, s2}  Room = 1
    CaptureRoom = 2  MaxPackets = 3
SPECIFICATION Spec
INVARIANTS LiveSlicesExact ReadsAreExact AveragesAgree EmaIsMeanThenBounded
           PicksAreProportional NoRunaway CountersBalance
PROPERTIES NoInnocentAbort WarningsSpaced AbortReleasesSenders CaptureCompletes
CHECK_DEADLOCK FALSE
