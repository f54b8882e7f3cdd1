CONSTANTS
    ByteBits = 2
    ByteSize = 4
    PageSize = 16
    UpperUnit = 4
    StackTop = 240
    Decoded <- MCDecoded
    MaxSteps = 100
    Entry = 0
    Segments <- EchoSegments
    InputQueues <- MCQueues
    UINT256_BYTES = 4
    KECCAK_BYTES = 4
    SHA256_BYTES = 4
    ModulusBytes <- NoSizes
    ComplexBytes <- NoSizes
    CurveBytes <- NoSizes
    PairingBytes <- NoSizes
    Chunk = 6
    Inputs <- MCInputs
    Stdin <- MCStdin
SPECIFICATION RunnerSpec
INVARIANT EchoPrinted
PROPERTY Exits
CHECK_DEADLOCK FALSE
