SPECIFICATION LibrarySpec
CONSTANTS
    Heap = {1, 2, 3, 4, 5, 6}
    Fault = Fault
    Text <- MCText
    Data = {201, 202}
    Keys = {101, 102, 103}
    Values = {301, 302}
    Octets = {0, 1}
    MaxSize = 3
    MaxLength = 3
    Indexes <- MCIndexes
    PointerSize = 2
    ArenaSize = 16
    BlockSizes = {1, 3}
    None = None
    Messages <- MCMessages
    Expected <- MCExpected
    Chunks <- MCChunks
    Spares <- MCSpares
INVARIANTS
    TypeOK
    HeapExact
    ArenaBlocks
    CodecTypeOK
    ChunkedInverts
    FreeExact
    Reusable
PROPERTY
    ImplementsSequences
CHECK_DEADLOCK TRUE
VIEW Both
