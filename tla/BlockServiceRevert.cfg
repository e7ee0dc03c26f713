SPECIFICATION RevertSpec
CONSTANTS
    Headers <- ChainHeaders
    Parent <- ChainParent
    Slot <- ChainSlot
    Genesis = 0
    Generations = 6
    Handlers = {h1}
    Blocks <- ChainHeaders
    FirstBlock = 0
    ParentHash <- ChainParent
    KeyOrder <- ChainSlot
    MaxBlocks = {0}
    ByteBits = 3
    KeySize = 2
    Samples <- MCSamples
    Tails <- MCTails
PROPERTIES
    FinalityNeverReverts
