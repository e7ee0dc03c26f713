SPECIFICATION MCSpec
CONSTANTS
    Cores = {0, 1}
    Packages = {"p1", "p2"}
    Prereqs <- MCPrereqs
    V = 4
    U = 2
    R = 2
    L = 1
    H = 1
    Word = 256
    MaxSlot = 9
    MaxGap = 2
    GuaranteeLists = {}
    AssuranceLists = {}
    VerdictSets = {}
    E = 4
    Authorizers = {"a", "b"}
    Empty = "empty"
    PoolSize = 2
    QueueSize = 2
    InitialPools <- MCPools
    QueueChoices <- MCQueueChoices
    Offers <- MCOffers
    Signers <- MCSigners
    RandomNumbers <- MCRandomNumbers
    MaxRecentBlocks = 3
    PairLists <- MCPairLists
    ClaimedRoots <- MCClaimedRoots
    MaxHeight = 7
CHECK_DEADLOCK FALSE
INVARIANTS
    AuthorizersSpentOnce
    AnchorsCommitToHistory
PROPERTY GuarantorsKeepTheirCores
