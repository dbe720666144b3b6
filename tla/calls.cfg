\* Two requests with two attempts each, a bucket and a breaker of two.
SPECIFICATION FairSpec
CONSTANTS
    Requests = {r1, r2}
    MaxAttempts = 2
    TotalTimeout = 3
    MaxDelay = 1
    Reserve = 1
    RetryAfters = {0, 2}
    Capacity = 2
    FailureThreshold = 2
    RecoveryTimeout = 2
    HalfOpenRequests = 2
    Window = 1
INVARIANTS TypeOK BreakerConsistent RateHeld
PROPERTIES TripsOnRequests EveryRequestEnds CircuitRecovers
