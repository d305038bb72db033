CONSTANTS
    MinChunkSize = 2
    MaxChunkSize = 3
    U64Max = 15
    TagLen = 1
    MaxRecipients = 2
    MaxRecipientIdLen = 1
    MaxWrappedKeyLen = 1
    pass = pass
    otherPass = otherPass
    rawKey = rawKey
    otherKey = otherKey
    salt1 = salt1
    salt2 = salt2
    salt3 = salt3
    noSalt = noSalt
    good = good
    alsoGood = alsoGood
    bad = bad
    noParams = noParams
    empty = empty
    short = short
    full = full
    ext1 = ext1
    ext2 = ext2
    Archives <- MCArchives
    Headers <- MCHeaders
    HeaderOf <- MCHeaderOf
    SecretOf <- MCSecretOf
    PolicyParams <- MCPolicyParams
    DeriveNonce <- MCDeriveNonce
    Callers <- MCCallers
    Files <- MCFiles
    Password = pass
    Key = rawKey
    MaxReplacements = 2
    Inputs <- MCInputs
SPECIFICATION DispatchSpec
INVARIANTS
    HintCanBeFollowed
    HintIsOfOneFile
CHECK_DEADLOCK FALSE
