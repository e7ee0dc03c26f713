SPECIFICATION MCSpec
CONSTANTS
    E = 5
    Word = 32
    Packages = {"a", "b", "c", "d"}
    Deps <- MCDeps
    ReportGas <- MCReportGas
    GasLimit = 3
    MaxSlot = 11
    MaxGap = 6
    ReportLists <- MCReportLists
    Ids <- MCIds
    Existing <- MCExisting
    WithCode <- MCWithCode
    RoundLists <- MCRoundLists
    RoundGasLimit = 4
    GasWord = 64
    GasMaps <- MCGasMaps
    Manager = 1
    Assign = 2
    Designate = 3
    Blessing <- MCBlessing
    NewServices <- MCNewServices
    Transfers <- MCTransfers
    Yielding <- MCYielding
CHECK_DEADLOCK FALSE
INVARIANTS
    StruckWasAccumulated
    WaitsAnEpochAtMost
    TransfersIndependentOfSchedule
PROPERTIES
    PairsIndependentOfSchedule
    AccumulationReturns
