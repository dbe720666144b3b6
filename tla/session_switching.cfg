\* A session whose tenant may use identities of two regions and switches between them.
SPECIFICATION Spec
CONSTANTS
    r1 = r1
    r2 = r2
    s1 = s1
    s2 = s2
    t1 = t1
    t2 = t2
    i1 = i1
    i2 = i2
    na = na
    eu = eu
    Requests = {r1, r2}
    Sessions = {s1}
    Tokens = {t1, t2}
    Identities = {i1, i2}
    Regions = {na, eu}
    NoToken = NoToken
    NoIdentity = NoIdentity
    NoRegion = NoRegion
    NoSession = NoSession
    Headers = {t2}
    EnvToken = NoToken
    DefaultIdentity = NoIdentity
    BaseRegion = na
    Visible <- SharedVisible
    RegionOf <- MCRegionOf
    MaxPerSession = 2
    StoreMayFail = FALSE
SYMMETRY Interchangeable
INVARIANTS CredentialsMatchIdentity HostMatchesCredentials
VIEW WithoutHistory
