\* Every request carries a token; one request of a session at a time.
SPECIFICATION Spec
CONSTANTS
    r1 = r1
    r2 = r2
    s1 = s1
    s2 = s2
    t1 = t1
    t2 = t2
    i1 = i1
    i2 = i2
    na = na
    eu = eu
    Requests = {r1, r2}
    Sessions = {s1, s2}
    Tokens = {t1, t2}
    Identities = {i1, i2}
    Regions = {na, eu}
    NoToken = NoToken
    NoIdentity = NoIdentity
    NoRegion = NoRegion
    NoSession = NoSession
    Headers = {t1, t2}
    EnvToken = NoToken
    DefaultIdentity = NoIdentity
    BaseRegion = na
    Visible <- MCVisible
    RegionOf <- MCRegionOf
    MaxPerSession = 1
    StoreMayFail = FALSE
SYMMETRY Interchangeable
INVARIANTS ResetIsReported
PROPERTIES ReadersDoNotRevert
VIEW WithoutProfile
