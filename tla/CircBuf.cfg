SPECIFICATION Spec
CONSTANTS
    Block <- MCBlock
    ReadSize <- MCReadSize
    RequestedSize = 14
INVARIANTS
    HeaderConsistent
PROPERTIES
    ImplementsFifo
