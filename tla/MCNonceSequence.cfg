CONSTANTS
    U64Max = 15
    Heads <- MCHeads
    Positions <- MCPositions
    BitsOf <- MCBitsOf
    MaxRefusals = 2
SPECIFICATION NonceSpec
INVARIANTS
    NoncesAreFresh
CHECK_DEADLOCK FALSE
