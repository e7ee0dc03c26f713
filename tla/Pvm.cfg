SPECIFICATION MCSpec
CHECK_DEADLOCK FALSE
CONSTANTS
    W = 8
    Operand <- MCOperand
    PageSize = 2
    MemoryZoneSize = 4
    RegWord = 64
    InputDataSize = 4
    AddressSpaceSize = 32
    Program <- MCProgram
    ArgsSize = {0, 3}
    Address <- MCAddress
    Length = {1, 3}
    Request = {0, 1, 2, 62}
    MaxStores = 1
    GasLimit = {0, 2, 9, 12}
    HostCost = 2
    ExportOffset = 1
    MaxNumberOfEntries = 3
    MaxPageIndex = 16
    Key = {0, 1, 2}
    Counter = {0, 1}
    Page = {1, 2}
    PageCount = {0, 1, 14, 62}
    InnerAddress = {3, 6, 63}
    InnerLength = {1}
    ByteSize = 32
    RegPart = 8
    ImmMax = 2
    ExtWidth = 2
    BitmaskMax = 2
    GasWord = 16
    HostCharge <- MCHostCharge
    UnknownCharge = 2
    Blob <- MCBlob
    StartGas = {3}
INVARIANTS
    StaysOnInstructions
    ResultsPromised
    FaultsAtFirstBadPage
    GrantedIsAccessible
PROPERTIES
    OtherMachinesKept
    InvocationEnds
