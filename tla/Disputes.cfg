SPECIFICATION DisputesSpec
CONSTANTS
    V = 6
    MaxEpoch = 3
    MaxSkip = 2
    ValidatorKeys <- MCValidatorKeys
    Extrinsics <- MCExtrinsics
INVARIANTS
    JudgedOnce
    OffendedOnce
    SignedByItsEpoch
