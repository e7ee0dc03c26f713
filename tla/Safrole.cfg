SPECIFICATION Spec
CONSTANTS
    E = 4
    Y = 3
    MaxTickets = 3
    MaxAttempts = 2
    MaxSlot = 8
    MaxGap = 5
    ProofLists <- MCProofLists
    ValidatorSets <- MCValidatorSets
    OffenderLists <- MCOffenderLists
    NullKey = "null"
CHECK_DEADLOCK FALSE
INVARIANTS
    SealersAreCurrent
    SlotsHaveOneAuthor
    SealedWasAnnounced
PROPERTY
    BestTicketsKept
