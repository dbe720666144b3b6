\* Room for every entry.
SPECIFICATION Spec
CONSTANTS
    r1 = r1
    r2 = r2
    a1 = a1
    Keys <- AllKeys
    RefreshKeys = {r1, r2}
    Tokens = {t1, t2}
    NoToken = NoToken
    EncryptionKeys = {e1, e2, e3}
    NoKey = NoKey
    NoFile = NoFile
    MaxEntries = 3
    Patterns <- AccessTokens
SYMMETRY Interchangeable
INVARIANTS KeptAcrossRestarts
