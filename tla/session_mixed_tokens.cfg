\* A default token and per-request tokens meet in one server.
SPECIFICATION Spec
CONSTANTS
    r1 = r1
    r2 = r2
    s1 = s1
    s2 = s2
    t1 = t1
    t2 = t2
    i1 = i1
    i2 = i2
    na = na
    eu = eu
    Requests = {r1}
    Sessions = {s1}
    Tokens = {t1, t2}
    Identities = {i1, i2}
    Regions = {na, eu}
    NoToken = NoToken
    NoIdentity = NoIdentity
    NoRegion = NoRegion
    NoSession = NoSession
    Headers = {t1, t2, NoToken}
    EnvToken = t1
    DefaultIdentity = i1
    BaseRegion = na
    Visible <- MCVisible
    RegionOf <- MCRegionOf
    MaxPerSession = 1
    StoreMayFail = FALSE
INVARIANTS CallsUseOwnIdentity
