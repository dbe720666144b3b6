\* Two refresh tokens and an access token, room for two; files may fail to be read or written at any time.
SPECIFICATION Spec
CONSTANTS
    r1 = r1
    r2 = r2
    a1 = a1
    Keys <- AllKeys
    RefreshKeys = {r1, r2}
    Tokens = {t1, t2}
    NoToken = NoToken
    EncryptionKeys = {e1, e2, e3}
    NoKey = NoKey
    NoFile = NoFile
    MaxEntries = 2
    Patterns <- AccessTokens
SYMMETRY Interchangeable
INVARIANTS TypeOK WithinLimit NothingStale CrashSafe
PROPERTIES BadKeySparesFile
