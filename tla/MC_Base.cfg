CONSTANTS
    ByteBits = 1
    ByteSize = 2
    PageSize = 4
    UpperUnit = 4
    Decoded <- MCDecoded
    MaxSteps = 5
    Entry = 4
    Segments <- MCSegments
    InputQueues <- MCInputQueues
    UINT256_BYTES = 2
    KECCAK_BYTES = 2
    SHA256_BYTES = 2
    ModulusBytes <- NoBytes
    ComplexBytes <- NoBytes
    CurveBytes <- NoBytes
    PairingBytes <- NoBytes
SPECIFICATION Spec
INVARIANTS TypeOK PcEven StepBudget
PROPERTIES StopsInPlace Halts
CHECK_DEADLOCK FALSE
