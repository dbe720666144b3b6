\* One of three components: two calls and two regions; a sign-in over a stored one, a session and two restarts; two requests and two refresh tokens.
SPECIFICATION Spec
CONSTANTS
    s1 = s1
    a = a
    b = b
    c1 = c1
    c2 = c2
    q1 = q1
    q2 = q2
    Regions = {na, eu}
    Calls = {c1, c2}
    na = na
    eu = eu
    x = x
    t1 = t1
    t2 = t2
    NoToken = NoToken
    DefaultRegion = na
    States = {s1}
    Accounts = {a, b}
    NoAccount = NoAccount
    Sessions = {x}
    EnvAccount = NoAccount
    PersistStates = TRUE
    StableSecret = FALSE
    PersistTokens = TRUE
    SavesMayFail = TRUE
    MaxRestarts = 2
    JwtRequests = {q1, q2}
    RefreshTokens = {t1, t2}
    Bearer = Bearer
    NoHeader = NoHeader
    CacheTtl = 2
    MaxAnswer = 1
    JwtLife = 3
SYMMETRY Interchangeable
INVARIANTS SignInTypesOK RegionsKeptApart SignInLasts ClaimsReachTools
PROPERTIES NoRedundantExchange HandedOutUnexpired
