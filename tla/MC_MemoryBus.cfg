CONSTANTS
    ByteBits = 1
    ByteSize = 2
    PageSize = 4
    LoadAddrs <- MCLoadAddrs
    StoreAddrs <- MCStoreAddrs
    StoreWords <- MCStoreWords
    Slices <- MCSlices
SPECIFICATION Spec
INVARIANT TypeOK
PROPERTY ImplementsFlatMemory
