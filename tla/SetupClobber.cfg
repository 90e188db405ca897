CONSTANTS
    Nodes = {n1}
    Overriders = {o1}
    Initializers = {}
    PoolSizes = {2}
    Policies <- ThreePolicies
    InitialPool = 0
    DefaultThreads = 2
SPECIFICATION SetupSpec
INVARIANTS OverrideSurvives
