\* Every pair of bytes and every byte of flags is reached.
CONSTANTS
    NibbleBits = 2
    Bytes <- MCBytes
    Words <- MCWords
    Places = {0, 3}
    PoppedFlags <- MCPoppedFlags
SPECIFICATION Spec
INVARIANT TypeOK
PROPERTY ImplementsArithmetic
