CONSTANTS
    ByteBits = 1
    ByteSize = 2
    PageSize = 4
    UpperUnit = 4
    Decoded <- MCDecoded
    MaxSteps = 3
    Entry = 4
    Segments <- MCSegments
    InputQueues <- MCInputQueues
    UINT256_BYTES = 2
    KECCAK_BYTES = 3
    SHA256_BYTES = 2
    ModulusBytes <- Sizes4
    ComplexBytes <- Sizes1
    CurveBytes <- Sizes1
    PairingBytes <- Sizes4
SPECIFICATION Spec
INVARIANTS PcEven HintAligned
PROPERTIES StopsInPlace StreamsInOrder OutputOnlyRevealed XorinXors
CHECK_DEADLOCK FALSE
