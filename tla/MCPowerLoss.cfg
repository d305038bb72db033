CONSTANTS
    MinChunkSize = 2
    MaxChunkSize = 3
    U64Max = 15
    MaxRecipients = 2
    MaxRecipientIdLen = 1
    MaxWrappedKeyLen = 1
    DefaultChunkSize = 2
    SourceSizes = {0, 1, 2, 3, 4}
    MaxChanges = 1
    pass = pass
    rawKey = rawKey
    good = good
    bad = bad
    s1 = s1
    NoSalt = noSalt
    NoParams = noParams
    Salts <- MCSalts
    BaseNonces = {4, 7}
    PolicyParams <- MCPolicyParams
    DeriveNonce <- MCDeriveNonce
    Requests <- MCRequests
SPECIFICATION PowerSpec
INVARIANT
    NeverPartialAtDestination
CHECK_DEADLOCK FALSE
