------------------------- MODULE Resilience_proofs -------------------------
(* Proofs about Resilience, for every number of requests, every limit and    *)
(* every Retry-After.                                                        *)
EXTENDS Resilience, TLAPS

-----------------------------------------------------------------------------
(* The inductive invariant, one part for each group of variables.            *)

\* A request sleeps only before an attempt that it still has.
RequestInv ==
    /\ pc \in [Requests -> {"idle", "waiting", "calling", "sleeping"}]
    /\ attempt \in [Requests -> 0..MaxAttempts]
    /\ left \in [Requests -> 0..TotalTimeout]
    /\ pause \in [Requests -> 0..TotalTimeout]
    /\ \A r \in Requests :
        /\ pc[r] = "idle" <=> attempt[r] = 0
        /\ pause[r] > 0 => pc[r] = "sleeping"
        /\ pc[r] = "sleeping" => attempt[r] < MaxAttempts

\* While the circuit is closed, what it counts are the requests that failed in
\* a row.
BreakerInv ==
    /\ state \in {"closed", "open", "half_open"}
    /\ failures \in 0..FailureThreshold
    /\ successes \in 0..HalfOpenRequests
    /\ sinceFailure \in 0..RecoveryTimeout
    /\ streak \in 0..FailureThreshold
    /\ BreakerConsistent
    /\ state = "closed" => failures = streak

\* What the bucket could hand out now and what it handed out in the window.
BucketInv ==
    /\ tokens \in 0..Capacity
    /\ sinceRefill \in 0..Capacity
    /\ age \in 0..Window
    /\ taken \in Nat
    /\ Refilled + taken <= Capacity + age

IInv == RequestInv /\ BreakerInv /\ BucketInv

-----------------------------------------------------------------------------
(* The breaker.                                                              *)

\* Whatever the breaker is asked or told, its counters stay consistent, and it
\* leaves "closed" only with the threshold reached.
LEMMA BreakerStep ==
    ASSUME BreakerInv,
           IsOpen \/ LetsThrough \/ RecordSuccess \/ RecordFailure \/ UNCHANGED breakerVars
    PROVE  /\ BreakerInv'
           /\ state = "closed" /\ state' = "open" => streak' >= FailureThreshold
<1> USE ResilienceAssumption
<1>1. CASE IsOpen \/ UNCHANGED breakerVars
  BY <1>1 DEF BreakerInv, BreakerConsistent, IsOpen, breakerVars
<1>2. CASE LetsThrough
  BY <1>2 DEF BreakerInv, BreakerConsistent, LetsThrough, breakerVars
<1>3. CASE RecordSuccess
  BY <1>3 DEF BreakerInv, BreakerConsistent, RecordSuccess
<1>4. CASE RecordFailure
  BY <1>4 DEF BreakerInv, BreakerConsistent, RecordFailure, CountFailure, Smaller
<1> QED BY <1>1, <1>2, <1>3, <1>4

-----------------------------------------------------------------------------
(* The bucket.                                                               *)

\* A token handed out is a token less to hand out.
LEMMA AcquireKeepsBucket ==
    ASSUME NEW r, NEW remaining, BucketInv, Acquire(r, remaining), age' = age
    PROVE  BucketInv'
BY ResilienceAssumption DEF BucketInv, Acquire, Refilled, Smaller

\* A round of acquire leaves the request calling, waiting, or, when no time
\* remains, idle.
LEMMA AcquireMoves ==
    ASSUME NEW r, NEW remaining, Acquire(r, remaining)
    PROVE  \E p \in {"calling", "waiting", "idle"} :
               /\ pc' = [pc EXCEPT ![r] = p]
               /\ p = "idle" => remaining = 0
BY DEF Acquire

LEMMA BucketUnchanged ==
    ASSUME BucketInv, UNCHANGED bucketVars, age' = age
    PROVE  BucketInv'
BY DEF BucketInv, bucketVars, Refilled, Smaller

-----------------------------------------------------------------------------
(* The requests.                                                             *)

\* A request that ends leaves nothing behind.
LEMMA ForgetKeepsRequests ==
    ASSUME NEW r \in Requests, RequestInv, Forget(r), pc' = [pc EXCEPT ![r] = "idle"]
    PROVE  RequestInv'
BY ResilienceAssumption DEF RequestInv, Forget

LEMMA InitInv == Init => IInv
<1> SUFFICES ASSUME Init PROVE IInv OBVIOUS
<1> USE ResilienceAssumption DEF Init
<1>1. RequestInv BY DEF RequestInv
<1>2. BreakerInv BY DEF BreakerInv, BreakerConsistent
<1>3. BucketInv BY DEF BucketInv, Refilled, Smaller
<1> QED BY <1>1, <1>2, <1>3 DEF IInv

LEMMA BeginInv == ASSUME IInv, NEW r \in Requests, Begin(r) PROVE IInv'
<1> USE DEF IInv
<1>1. CASE IsOpen /\ UNCHANGED <<requestVars, bucketVars, age>>
  <2>1. RequestInv' BY <1>1 DEF RequestInv, requestVars
  <2> QED BY <1>1, <2>1, BreakerStep, BucketUnchanged
<1>2. CASE /\ LetsThrough /\ Acquire(r, TotalTimeout) /\ UNCHANGED <<pause, age>>
           /\ attempt' = [attempt EXCEPT ![r] = 1]
           /\ left' = [left EXCEPT ![r] = TotalTimeout]
           /\ pc[r] = "idle"
  <2>1. PICK p \in {"calling", "waiting"} : pc' = [pc EXCEPT ![r] = p]
    BY <1>2, AcquireMoves, ResilienceAssumption
  <2>2. RequestInv' BY <1>2, <2>1, ResilienceAssumption DEF RequestInv
  <2> QED BY <1>2, <2>2, BreakerStep, AcquireKeepsBucket
<1> QED BY <1>1, <1>2 DEF Begin

LEMMA PollInv == ASSUME IInv, NEW r \in Requests, Poll(r) PROVE IInv'
<1> USE DEF IInv
<1>1. PICK p \in {"calling", "waiting", "idle"} : pc' = [pc EXCEPT ![r] = p]
  BY AcquireMoves DEF Poll
<1>2. pc'[r] = p BY <1>1 DEF RequestInv
<1>3. RequestInv'
  <2>1. CASE p = "idle"
    BY <1>1, <1>2, <2>1, ForgetKeepsRequests DEF Poll
  <2>2. CASE p # "idle"
    BY <1>1, <1>2, <2>2 DEF Poll, RequestInv
  <2> QED BY <2>1, <2>2
<1>4. BreakerInv' BY BreakerStep DEF Poll
<1>5. BucketInv' BY AcquireKeepsBucket DEF Poll
<1> QED BY <1>3, <1>4, <1>5

LEMMA WakeInv == ASSUME IInv, NEW r \in Requests, Wake(r) PROVE IInv'
<1> USE DEF IInv
<1>1. BreakerInv' BY BreakerStep DEF Wake
<1>2. CASE Finish(r) /\ UNCHANGED bucketVars
  <2>1. RequestInv' BY <1>2, ForgetKeepsRequests DEF Finish
  <2>2. BucketInv' BY <1>2, BucketUnchanged DEF Wake
  <2> QED BY <1>1, <2>1, <2>2
<1>3. CASE /\ left[r] > 0 /\ Acquire(r, left[r])
           /\ attempt' = [attempt EXCEPT ![r] = @ + 1]
           /\ UNCHANGED <<left, pause>>
  <2>1. PICK p \in {"calling", "waiting"} : pc' = [pc EXCEPT ![r] = p]
    BY <1>3, AcquireMoves DEF RequestInv
  <2>2. RequestInv' BY <1>3, <2>1, ResilienceAssumption DEF Wake, RequestInv
  <2>3. BucketInv' BY <1>3, AcquireKeepsBucket DEF Wake
  <2> QED BY <1>1, <2>2, <2>3
<1> QED BY <1>2, <1>3 DEF Wake

LEMMA EndInv ==
    ASSUME IInv, NEW r \in Requests, Succeed(r) \/ FailFinally(r) \/ Abort(r)
    PROVE  IInv'
<1> USE DEF IInv
<1>1. RequestInv' BY ForgetKeepsRequests DEF Succeed, FailFinally, Abort, Finish
<1>2. BreakerInv' BY BreakerStep DEF Succeed, FailFinally, Abort
<1>3. BucketInv' BY BucketUnchanged DEF Succeed, FailFinally, Abort
<1> QED BY <1>1, <1>2, <1>3

LEMMA FailAndRetryInv ==
    ASSUME IInv, NEW r \in Requests, NEW a \in RetryAfters, FailAndRetry(r, a)
    PROVE  IInv'
<1> USE ResilienceAssumption DEF IInv
<1>1. a \in Nat OBVIOUS
<1>2. PICK d \in Delays(a) : pause' = [pause EXCEPT ![r] = Smaller(d, left[r] - Reserve)]
  BY DEF FailAndRetry
<1>3. d \in Nat BY <1>1, <1>2 DEF Delays
<1>4. Smaller(d, left[r] - Reserve) \in 0..TotalTimeout
  BY <1>3 DEF Smaller, FailAndRetry, RequestInv
<1>5. RequestInv'
  <2>1. /\ pc' = [pc EXCEPT ![r] = "sleeping"]
        /\ UNCHANGED <<attempt, left>>
        /\ pc[r] = "calling" /\ attempt[r] < MaxAttempts
    BY DEF FailAndRetry
  <2> QED BY <1>1, <1>2, <1>4, <2>1 DEF RequestInv
<1>6. BreakerInv' BY BreakerStep DEF FailAndRetry
<1>7. BucketInv' BY BucketUnchanged DEF FailAndRetry
<1> QED BY <1>5, <1>6, <1>7

\* A tick adds at most one token to what can be handed out, and one to the
\* window's age.
LEMMA TickInv == ASSUME IInv, Tick PROVE IInv'
<1> USE ResilienceAssumption DEF IInv, Tick
<1>1. RequestInv'
  <2>1. \A t \in Nat : Before(t) \in Nat /\ Before(t) <= t BY DEF Before
  <2> QED BY <2>1 DEF RequestInv
<1>2. BreakerInv' BY DEF BreakerInv, BreakerConsistent, Smaller
<1>3. BucketInv' BY DEF BucketInv, Refilled, Smaller
<1> QED BY <1>1, <1>2, <1>3

LEMMA WatchInv == ASSUME IInv, Watch PROVE IInv'
<1> USE ResilienceAssumption DEF IInv, Watch
<1>1. RequestInv' BY DEF RequestInv, requestVars
<1>2. BreakerInv' BY DEF BreakerInv, BreakerConsistent, breakerVars
<1>3. BucketInv' BY DEF BucketInv, Refilled, Smaller
<1> QED BY <1>1, <1>2, <1>3

LEMMA StepInv == IInv /\ [Next]_vars => IInv'
<1> SUFFICES ASSUME IInv, [Next]_vars PROVE IInv' OBVIOUS
<1>1. CASE UNCHANGED vars
  <2>1. RequestInv' BY <1>1 DEF IInv, RequestInv, vars, requestVars
  <2>2. UNCHANGED breakerVars /\ UNCHANGED bucketVars /\ age' = age BY <1>1 DEF vars
  <2> QED BY <2>1, <2>2, BreakerStep, BucketUnchanged DEF IInv
<1>2. CASE Next
  BY <1>2, BeginInv, PollInv, WakeInv, EndInv, FailAndRetryInv, TickInv, WatchInv
  DEF Next, Attempt
<1> QED BY <1>1, <1>2

LEMMA Inductive == Spec => []IInv
BY InitInv, StepInv, PTL DEF Spec

-----------------------------------------------------------------------------
(* What follows from it.                                                     *)

\* Every variable keeps its type, for any constants: no pause outlives the
\* budget, no request starts an attempt it does not have.
THEOREM TypeCorrect == Spec => []TypeOK
<1>1. IInv => TypeOK BY DEF IInv, RequestInv, BreakerInv, BucketInv, TypeOK
<1> QED BY <1>1, Inductive, PTL

\* Late results of requests begun in another state of the circuit never bring
\* its state and its counters apart.
THEOREM BreakerSound == Spec => []BreakerConsistent
<1>1. IInv => BreakerConsistent BY DEF IInv, BreakerInv
<1> QED BY <1>1, Inductive, PTL

\* The endpoint never sees more than a full bucket above the rate.
THEOREM RateSound == Spec => []RateHeld
<1>1. IInv => RateHeld
  BY ResilienceAssumption DEF IInv, BucketInv, RateHeld, Refilled, Smaller
<1> QED BY <1>1, Inductive, PTL

\* A closed circuit opens only on a full streak of failed requests.
THEOREM TripsSound == Spec => TripsOnRequests
<1> DEFINE A == state = "closed" /\ state' = "open" => streak' >= FailureThreshold
<1>1. IInv /\ [Next]_vars => [A]_vars
  <2> SUFFICES ASSUME IInv, Next PROVE A BY DEF vars
  <2>1. UNCHANGED state \/ IsOpen \/ LetsThrough \/ RecordSuccess \/ RecordFailure
    BY DEF Next, Attempt, Tick, Watch, Begin, Poll, Wake, Succeed, FailFinally,
           FailAndRetry, Abort, breakerVars
  <2> QED BY <2>1, BreakerStep DEF IInv
<1> QED BY <1>1, Inductive, PTL DEF Spec, TripsOnRequests
=============================================================================
