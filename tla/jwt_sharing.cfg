\* Three callers, two refresh tokens, room for one JWT and one listing.
SPECIFICATION FairSpec
CONSTANTS
    Callers = {c1, c2, c3}
    Fingerprints = {f1, f2}
    NoKey = NoKey
    MaxCacheEntries = 1
INVARIANTS TypeOK OneExchange CachesBounded
PROPERTIES ImplementsSingleFlight EveryCallEnds
