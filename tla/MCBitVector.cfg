\* Chunks of 2 bits.  A vector of 4 bits fills two chunks, one of 5 bits uses
\* half of its third; 32 is a multiple of 4 and not of 5.
CONSTANTS
    CHUNK_SIZE = 2
    SIZES = {4, 5}
    INDEXES <- MCIndexes
    SizeLimit = 32
    Vectors <- MCVectors
    Null = Null
    Width = 4
    WordBits = 2
    Height = 2
    Palettes <- MCPalettes
    Lines <- MCLines
    Start <- MCStart
    Calls = 2
    Shortages <- MCShortages
    NibbleBits = 4
    Starts <- MCStarts
    Depth = 2
SPECIFICATION MCSpec
INVARIANTS TypeOK OperationsAreBitwise AsExpected MachineTypeOK
PROPERTIES ImplementsPicture LossIsReported ExecutesAsNamed FailureChangesNothing
\* Calls, instructions and tests are finite.
CHECK_DEADLOCK FALSE
