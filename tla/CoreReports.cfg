SPECIFICATION Spec
CONSTANTS
    Cores = {1, 2}
    Packages = {"p1", "p2", "p3"}
    Prereqs <- MCPrereqs
    V = 3
    U = 3
    R = 2
    L = 1
    H = 2
    Word = 256
    MaxSlot = 7
    MaxGap = 3
    GuaranteeLists <- MCGuaranteeLists
    AssuranceLists <- MCAssuranceLists
    VerdictSets <- MCVerdictSets
CHECK_DEADLOCK FALSE
INVARIANTS
    PackagesOnCoresDistinct
    DependenciesReported
PROPERTY
    ReportsLeaveForCause
