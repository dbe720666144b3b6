\* One of nine components: two callers and two calls of any tool; two lists; one page walk; four nested calls; two downloads; two catalogs; three fields; four clients.
SPECIFICATION Spec
CONSTANTS
    caller1 = caller1
    caller2 = caller2
    switch1 = switch1
    switch2 = switch2
    list1 = list1
    list2 = list2
    user1 = user1
    user2 = user2
    dl1 = dl1
    dl2 = dl2
    adv1 = adv1
    adv2 = adv2
    gz = gz
    json = json
    cat1 = cat1
    cat2 = cat2
    srv = srv
    dim1 = dim1
    dim2 = dim2
    met = met
    pre1 = pre1
    pre2 = pre2
    lab1 = lab1
    lab2 = lab2
    key1 = key1
    key2 = key2
    Specs = {"sp", "sb"}
    Aliases = {"ads", "old"}
    AliasOf <- MCAliasOf
    PrefixOf <- MCPrefixOf
    ToolsIn <- MCToolsIn
    GroupCalls = {switch1, switch2}
    Defaults = {"sb"}
    UnknownName = "typo"
    Callers = {caller1, caller2}
    MaxPct = 1
    MaxGiven = 1
    MaxCalls = 2
    ListCalls = {list1, list2}
    Identities = {user1, user2}
    ListRegions = {pre1, pre2}
    ListTtl = 1
    MaxClock = 2
    MaxLimit = 3
    MaxProfiles = 8
    MaxScriptCalls = 4
    Downloads = {dl1, dl2}
    DlProfiles = {adv1, adv2}
    NoProfile = NoProfile
    Archives = {gz}
    Plain = {json}
    Unpacked <- MCUnpacked
    MaxSize = 1
    CatalogVersions = {cat1, cat2}
    NoVersion = NoVersion
    Servers = {srv}
    Dimensions = {dim1, dim2}
    Metrics = {met}
    Prefixes = {pre1, pre2}
    UnknownField = UnknownField
    Labels = {lab1, lab2}
    NoKey = NoKey
    ClientKeys = {key1, key2}
    MaxClients = 4
SYMMETRY Interchangeable
INVARIANTS ToolsTypesOK BuiltAsConfigured AtMostOneWrite ListingsCorrect BlockCorrect
    DownloadsCorrect OneVersionServed AnswersAgree
PROPERTIES PoolOutlivesCleanup UpdatesAreExact CommitsAtomically
CHECK_DEADLOCK FALSE
