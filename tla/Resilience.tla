----------------------------- MODULE Resilience -----------------------------
(***************************************************************************)
(* Calls through ResilientRetry to one endpoint family of one region: the   *)
(* circuit breaker looked at once per request, the token bucket waited for  *)
(* before every attempt, and the retry loop under a total time budget.      *)
(*                                                                         *)
(* Time is counted in ticks, one tick being the time in which the bucket    *)
(* gains a token. Timers are kept as what is left of them, and what has     *)
(* passed saturates where the code no longer tells the difference.          *)
(***************************************************************************)
EXTENDS Naturals

CONSTANTS Requests,
          MaxAttempts, TotalTimeout, MaxDelay,
          Reserve,      \* the second of budget kept for the request itself
          RetryAfters,  \* values of Retry-After a response may carry; 0: none
          Capacity,
          FailureThreshold, RecoveryTimeout, HalfOpenRequests,
          Window        \* longest window the rate is watched in

ASSUME ResilienceAssumption ==
    /\ MaxAttempts \in Nat \ {0} /\ TotalTimeout \in Nat \ {0}
    /\ Reserve \in Nat \ {0} /\ MaxDelay \in Nat
    /\ RetryAfters \subseteq Nat
    /\ Capacity \in Nat \ {0}
    /\ FailureThreshold \in Nat \ {0} /\ RecoveryTimeout \in Nat \ {0}
    /\ HalfOpenRequests \in Nat \ {0} /\ Window \in Nat

VARIABLES
    pc,            \* request -> where it is suspended
    attempt,       \* request -> number of the attempt under way
    left,          \* request -> what is left of its budget
    pause,         \* request -> what is left of its sleep before a retry
    state,         \* of the circuit breaker
    failures,      \* failure_count, up to the threshold
    successes,     \* success_count
    sinceFailure,  \* since last_failure_time, up to the recovery timeout
    tokens,        \* in the bucket at its last refill
    sinceRefill,   \* since last_refill, up to what fills the bucket
    streak,        \* history: requests that failed since one succeeded
    age, taken     \* history: a window, and the tokens handed out in it

requestVars == <<pc, attempt, left, pause>>
breakerVars == <<state, failures, successes, sinceFailure, streak>>
bucketVars == <<tokens, sinceRefill, taken>>
vars == <<requestVars, breakerVars, bucketVars, age>>

TypeOK ==
    /\ pc \in [Requests -> {"idle", "waiting", "calling", "sleeping"}]
    /\ attempt \in [Requests -> 0..MaxAttempts]
    /\ left \in [Requests -> 0..TotalTimeout]
    /\ pause \in [Requests -> 0..TotalTimeout]
    /\ state \in {"closed", "open", "half_open"}
    /\ failures \in 0..FailureThreshold
    /\ successes \in 0..HalfOpenRequests
    /\ sinceFailure \in 0..RecoveryTimeout
    /\ streak \in 0..FailureThreshold
    /\ tokens \in 0..Capacity
    /\ sinceRefill \in 0..Capacity
    /\ age \in 0..Window
    /\ taken \in Nat
    /\ \A r \in Requests :
        /\ pc[r] = "idle" <=> attempt[r] = 0
        /\ pause[r] > 0 => pc[r] = "sleeping"

Smaller(a, b) == IF a <= b THEN a ELSE b
Before(n) == IF n = 0 THEN 0 ELSE n - 1

Init ==
    /\ pc = [r \in Requests |-> "idle"]
    /\ attempt = [r \in Requests |-> 0]
    /\ left = [r \in Requests |-> 0]
    /\ pause = [r \in Requests |-> 0]
    /\ state = "closed"
    /\ failures = 0 /\ successes = 0 /\ sinceFailure = 0 /\ streak = 0
    /\ tokens = Capacity /\ sinceRefill = 0
    /\ age = 0 /\ taken = 0

-----------------------------------------------------------------------------
(* The circuit breaker.                                                    *)

\* Fault: a rejected request counts as a failure that has just happened.
IsOpenRenewing ==
    /\ state = "open" /\ sinceFailure < RecoveryTimeout
    /\ sinceFailure' = 0
    /\ UNCHANGED <<state, failures, successes, streak>>

\* is_open returns True: the request is rejected.
IsOpen ==
    /\ state = "open" /\ sinceFailure < RecoveryTimeout
    /\ UNCHANGED breakerVars

\* is_open returns False: the circuit is not open, or half-opens now.
LetsThrough ==
    \/ /\ state # "open"
       /\ UNCHANGED breakerVars
    \/ /\ state = "open" /\ sinceFailure >= RecoveryTimeout
       /\ state' = "half_open"
       /\ successes' = 0
       /\ UNCHANGED <<failures, sinceFailure, streak>>

\* Fault: the circuit closes without forgetting what opened it.
RecordSuccessKeepingCount ==
    /\ streak' = 0
    /\ state' = IF state = "half_open" THEN "closed" ELSE state
    /\ failures' = IF state = "closed" THEN 0 ELSE failures
    /\ UNCHANGED <<successes, sinceFailure>>

\* A success that arrives while the circuit is open changes nothing.
RecordSuccess ==
    /\ streak' = 0
    /\ \/ /\ state = "half_open"
          /\ successes' = successes + 1
          /\ IF successes + 1 >= HalfOpenRequests
             THEN state' = "closed" /\ failures' = 0
             ELSE UNCHANGED <<state, failures>>
       \/ /\ state = "closed"
          /\ failures' = 0
          /\ UNCHANGED <<state, successes>>
       \/ /\ state = "open"
          /\ UNCHANGED <<state, failures, successes>>
    /\ UNCHANGED sinceFailure

CountFailure ==
    /\ failures' = Smaller(failures + 1, FailureThreshold)
    /\ sinceFailure' = 0
    /\ state' = IF state = "half_open" \/ failures + 1 >= FailureThreshold
                THEN "open" ELSE state
    /\ UNCHANGED successes

RecordFailure ==
    /\ CountFailure
    /\ streak' = Smaller(streak + 1, FailureThreshold)

-----------------------------------------------------------------------------
(* The token bucket.                                                       *)

\* Fault: no capacity.
RefilledUncapped == tokens + sinceRefill

\* refill: what the bucket has gained since the last refill, up to its capacity.
Refilled == Smaller(Capacity, tokens + sinceRefill)

\* Fault: no deadline.
AcquireForever(r, remaining) ==
    /\ sinceRefill' = 0
    /\ IF Refilled >= 1
       THEN /\ tokens' = Refilled - 1
            /\ taken' = taken + 1
            /\ pc' = [pc EXCEPT ![r] = "calling"]
       ELSE /\ tokens' = Refilled
            /\ pc' = [pc EXCEPT ![r] = "waiting"]
            /\ UNCHANGED taken

\* Fault: last_refill keeps its value when a token is there.
AcquireTwice(r, remaining) ==
    \/ /\ Refilled >= 1
       /\ tokens' = Refilled - 1
       /\ taken' = taken + 1
       /\ pc' = [pc EXCEPT ![r] = "calling"]
       /\ UNCHANGED sinceRefill
    \/ /\ Refilled = 0
       /\ tokens' = 0
       /\ sinceRefill' = 0
       /\ pc' = [pc EXCEPT ![r] = IF remaining = 0 THEN "idle" ELSE "waiting"]
       /\ UNCHANGED taken

\* One round of acquire: a token, or false past the deadline, or another sleep.
\* The list whose length it tests is never appended to: that test does nothing.
Acquire(r, remaining) ==
    /\ sinceRefill' = 0
    /\ \/ /\ Refilled >= 1
          /\ tokens' = Refilled - 1
          /\ taken' = taken + 1
          /\ pc' = [pc EXCEPT ![r] = "calling"]
       \/ /\ Refilled = 0
          /\ tokens' = 0
          /\ pc' = [pc EXCEPT ![r] = IF remaining = 0 THEN "idle" ELSE "waiting"]
          /\ UNCHANGED taken

-----------------------------------------------------------------------------
(* The retry loop.                                                         *)

Forget(r) ==
    /\ attempt' = [attempt EXCEPT ![r] = 0]
    /\ left' = [left EXCEPT ![r] = 0]
    /\ pause' = [pause EXCEPT ![r] = 0]

Finish(r) ==
    /\ pc' = [pc EXCEPT ![r] = "idle"]
    /\ Forget(r)

\* The wrapper is called: rejected by the breaker, or on to the bucket.
Begin(r) ==
    /\ pc[r] = "idle"
    /\ \/ /\ IsOpen
          /\ UNCHANGED <<requestVars, bucketVars>>
       \/ /\ LetsThrough
          /\ attempt' = [attempt EXCEPT ![r] = 1]
          /\ left' = [left EXCEPT ![r] = TotalTimeout]
          /\ Acquire(r, TotalTimeout)
          /\ UNCHANGED pause
    /\ UNCHANGED age

\* A sleep in acquire ends. After the deadline the exception leaves the wrapper
\* without a failure recorded.
Poll(r) ==
    /\ pc[r] = "waiting"
    /\ Acquire(r, left[r])
    /\ IF pc'[r] = "idle" THEN Forget(r) ELSE UNCHANGED <<attempt, left, pause>>
    /\ UNCHANGED <<breakerVars, age>>

\* The sleep before a retry ends, perhaps late; the budget may be used up.
Wake(r) ==
    /\ pc[r] = "sleeping" /\ pause[r] = 0
    /\ \/ /\ left[r] = 0
          /\ Finish(r)
          /\ UNCHANGED bucketVars
       \/ /\ left[r] > 0
          /\ Acquire(r, left[r])
          /\ attempt' = [attempt EXCEPT ![r] = @ + 1]
          /\ UNCHANGED <<left, pause>>
    /\ UNCHANGED <<breakerVars, age>>

Succeed(r) ==
    /\ pc[r] = "calling"
    /\ Finish(r)
    /\ RecordSuccess
    /\ UNCHANGED <<bucketVars, age>>

\* An httpx error that is not retried: one failure is recorded and it is raised.
FailFinally(r) ==
    /\ pc[r] = "calling"
    /\ Finish(r)
    /\ RecordFailure
    /\ UNCHANGED <<bucketVars, age>>

\* Delays: Retry-After with up to a tenth of it or five seconds of jitter, or
\* any backoff up to the limit.
Delays(advice) ==
    IF advice > 0 THEN advice..(advice + advice \div 10) ELSE 0..MaxDelay

\* Fault: a failure is counted for every attempt.
FailAndRetryCounting(r, advice) ==
    /\ pc[r] = "calling"
    /\ attempt[r] < MaxAttempts
    /\ left[r] > Reserve
    /\ pc' = [pc EXCEPT ![r] = "sleeping"]
    /\ \E d \in Delays(advice) :
        pause' = [pause EXCEPT ![r] = Smaller(d, left[r] - Reserve)]
    /\ CountFailure
    /\ UNCHANGED <<attempt, left, streak, bucketVars, age>>

\* An error that is retried: the delay is cut so that Reserve is left after it.
FailAndRetry(r, advice) ==
    /\ pc[r] = "calling"
    /\ attempt[r] < MaxAttempts
    /\ left[r] > Reserve
    /\ pc' = [pc EXCEPT ![r] = "sleeping"]
    /\ \E d \in Delays(advice) :
        pause' = [pause EXCEPT ![r] = Smaller(d, left[r] - Reserve)]
    /\ UNCHANGED <<attempt, left, breakerVars, bucketVars, age>>

\* Cancellation at an await, or an error that is not httpx's: nothing is recorded.
Abort(r) ==
    /\ pc[r] # "idle"
    /\ Finish(r)
    /\ UNCHANGED <<breakerVars, bucketVars, age>>

\* Time passes. Event loop lag is a tick while a timer is due.
Tick ==
    /\ left' = [r \in Requests |-> Before(left[r])]
    /\ pause' = [r \in Requests |-> Before(pause[r])]
    /\ sinceFailure' = Smaller(sinceFailure + 1, RecoveryTimeout)
    /\ sinceRefill' = Smaller(sinceRefill + 1, Capacity)
    /\ IF age < Window THEN age' = age + 1 /\ UNCHANGED taken
                       ELSE age' = 0 /\ taken' = 0
    /\ UNCHANGED <<pc, attempt, state, failures, successes, streak, tokens>>

\* A new window is watched from here on.
Watch ==
    /\ age' = 0 /\ taken' = 0
    /\ UNCHANGED <<requestVars, breakerVars, tokens, sinceRefill>>

Attempt(r) ==
    \/ Begin(r) \/ Poll(r) \/ Wake(r)
    \/ Succeed(r) \/ FailFinally(r) \/ \E a \in RetryAfters : FailAndRetry(r, a)

Next == Tick \/ Watch \/ \E r \in Requests : Attempt(r) \/ Abort(r)

Spec == Init /\ [][Next]_vars

\* Time passes, the event loop runs what is due, and httpx ends every call.
Fairness ==
    /\ WF_vars(Tick)
    /\ \A r \in Requests :
        /\ WF_vars(Poll(r))
        /\ WF_vars(Wake(r))
        /\ WF_vars(Succeed(r) \/ FailFinally(r) \/ \E a \in RetryAfters : FailAndRetry(r, a))

FairSpec == Spec /\ Fairness

\* Somebody keeps calling.
Demand == WF_vars(\E r \in Requests : Begin(r))

-----------------------------------------------------------------------------
(* Properties.                                                             *)

\* The breaker lets requests through unchecked exactly while the failures it
\* counts are below the threshold, whichever results arrive late.
BreakerConsistent ==
    /\ state = "closed" <=> failures < FailureThreshold
    /\ state = "half_open" => successes < HalfOpenRequests

\* In any window the endpoint sees at most a full bucket more than the rate
\* allows, however the requests wait, retry and give up.
RateHeld == taken <= Capacity + age

\* A closed circuit opens only after that many requests in a row have failed,
\* retries not counted.
TripsOnRequests ==
    [][state = "closed" /\ state' = "open" => streak' >= FailureThreshold]_vars

\* Every request ends, although others may take every token it waits for.
EveryRequestEnds == \A r \in Requests : pc[r] # "idle" ~> pc[r] = "idle"

\* While requests keep coming, an open circuit does not stay open for ever:
\* rejected ones do not prolong it.
CircuitRecovers == Demand => (state = "open" ~> state # "open")
=============================================================================
