CONSTANTS
    ByteBits = 1
    ByteSize = 2
    Streams <- MCStreams
    Answers <- MCAnswers
SPECIFICATION FairSpec
INVARIANTS DrainedWhenIdle NoUnderflow
PROPERTIES ImplementsStdinQueue ReadsEnd
CHECK_DEADLOCK FALSE
