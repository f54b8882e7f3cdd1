CONSTANTS
    ByteBits = 2
    ByteSize = 4
    PageSize = 16
    UpperUnit = 4
    StackTop = 240
    Decoded <- EchoDecoded
    MaxSteps = 100
    Entry = 0
    Segments <- EchoSegments
    InputQueues <- MCInputQueues
    UINT256_BYTES = 4
    KECCAK_BYTES = 4
    SHA256_BYTES = 4
    ModulusBytes <- NoSizes
    ComplexBytes <- NoSizes
    CurveBytes <- NoSizes
    PairingBytes <- NoSizes
SPECIFICATION Spec
PROPERTY EchoesInput
CHECK_DEADLOCK FALSE
