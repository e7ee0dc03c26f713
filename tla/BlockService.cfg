SPECIFICATION MCSpec
CONSTANTS
    Headers <- MCHeaders
    Parent <- MCParent
    Slot <- MCSlot
    Genesis = "g"
    Generations = 2
    Handlers = {h1, h2}
    Blocks <- MCHeaders
    FirstBlock = "g"
    ParentHash <- MCParent
    KeyOrder <- MCKeyOrder
    MaxBlocks = {0, 1, 2, 3}
    ByteBits = 3
    KeySize = 2
    Samples <- MCSamples
    Tails <- MCTails
INVARIANTS
    TipsAreLeaves
    AnswersAreLines
    DecodesWhatWasEncoded
PROPERTIES
    HandlersReturn
    ImplementsChainView
