SPECIFICATION Spec
CONSTANTS
    Cores = {1, 2}
    Packages = {"p1", "p2", "p3"}
    Prereqs <- MCPrereqs
    V = 3
    U = 3
    R = 2
    L = 1
    H = 3
    Word = 256
    MaxSlot = 6
    MaxGap = 2
    GuaranteeLists <- MCGuaranteeLists
    AssuranceLists <- StrictAssuranceLists
    VerdictSets <- MCVerdictSets
CHECK_DEADLOCK FALSE
INVARIANT
    AccumulatedWasAvailable
