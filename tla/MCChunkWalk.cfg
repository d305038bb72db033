\* Every header whose fields fit a 4-bit "u64" and chunk sizes 0..6.
CONSTANTS
    MinChunkSize = 2
    MaxChunkSize = 5
    U64Max = 15
SPECIFICATION Spec
INVARIANTS
    HeadersAreChecked
    CutsAreAligned
    WalkCoversPlaintext
PROPERTIES
    WalkEnds
CHECK_DEADLOCK FALSE
