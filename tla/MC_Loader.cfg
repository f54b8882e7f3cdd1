CONSTANTS
    ByteBits = 1
    ByteSize = 2
    PageSize = 4
    Files <- MCFiles
SPECIFICATION Spec
INVARIANTS ImageOfFile HighWaterAbove
PROPERTY Decides
CHECK_DEADLOCK FALSE
