----------------------------- MODULE JwtRefresh -----------------------------
(***************************************************************************)
(* The two caches of the OpenBridge provider: a JWT per refresh token, with *)
(* refreshes coalesced by a lock per fingerprint, and the identities listed *)
(* with it. Both are dicts bounded by _max_cache_entries.                   *)
(*                                                                         *)
(* A dict is the sequence of its keys in insertion order; the values matter *)
(* only through whether a JWT is outside the five minutes before its expiry.*)
(* An asyncio.Lock is the queue of the tasks that asked for it: the first   *)
(* holds it or is about to be woken, and nobody overtakes.                  *)
(***************************************************************************)
EXTENDS Naturals, Sequences, FiniteSets

CONSTANTS Callers, Fingerprints, NoKey,
          MaxCacheEntries  \* 32 in the code

ASSUME CacheAssumption == MaxCacheEntries \in Nat \ {0} /\ NoKey \notin Fingerprints

VARIABLES
    pc,      \* caller -> where its task is suspended
    key,     \* caller -> fingerprint of its effective refresh token
    want,    \* caller -> what it called: get_token or list_identities
    queue,   \* fingerprint -> tasks at its refresh lock
    jwts,    \* keys of _jwt_tokens
    valid,   \* keys whose JWT validate_token accepts now
    listed   \* keys of _identities_cache

vars == <<pc, key, want, queue, jwts, valid, listed>>

Elements(s) == {s[i] : i \in 1..Len(s)}

TypeOK ==
    /\ pc \in [Callers -> {"idle", "waiting", "exchanging", "listing"}]
    /\ key \in [Callers -> Fingerprints \cup {NoKey}]
    /\ want \in [Callers -> {"token", "identities"}]
    /\ queue \in [Fingerprints -> Seq(Callers)]
    /\ jwts \in Seq(Fingerprints)
    /\ valid \in SUBSET Fingerprints
    /\ listed \in Seq(Fingerprints)
    /\ \A c \in Callers : key[c] = NoKey <=> pc[c] = "idle"

Init ==
    /\ pc = [c \in Callers |-> "idle"]
    /\ key = [c \in Callers |-> NoKey]
    /\ want = [c \in Callers |-> "token"]
    /\ queue = [f \in Fingerprints |-> <<>>]
    /\ jwts = <<>>
    /\ valid = {}
    /\ listed = <<>>

-----------------------------------------------------------------------------
\* Fault: no eviction.
InsertUnbounded(s, k) == IF k \in Elements(s) THEN s ELSE Append(s, k)

\* d[k] = v behind the size test: at the limit the oldest entry goes first,
\* even when k is there already; a key that is there keeps its place.
Insert(s, k) ==
    LET kept == IF Len(s) >= MaxCacheEntries THEN Tail(s) ELSE s
    IN  IF k \in Elements(kept) THEN kept ELSE Append(kept, k)

\* A task leaves the lock's queue wherever it stands in it.
Leave(q, c) ==
    LET i == CHOOSE i \in 1..Len(q) : q[i] = c
    IN  IF c \notin Elements(q) THEN q
        ELSE [j \in 1..(Len(q) - 1) |-> IF j < i THEN q[j] ELSE q[j + 1]]

\* get_token has a JWT: its caller returns, or goes on to fetch the identities.
Proceed(c) ==
    /\ pc' = [pc EXCEPT ![c] = IF want[c] = "token" THEN "idle" ELSE "listing"]
    /\ key' = [key EXCEPT ![c] = IF want[c] = "token" THEN NoKey ELSE @]

QuitKeepingKey(c) ==  \* fault
    /\ pc' = [pc EXCEPT ![c] = "idle"]
    /\ UNCHANGED key

Quit(c) ==
    /\ pc' = [pc EXCEPT ![c] = "idle"]
    /\ key' = [key EXCEPT ![c] = NoKey]

\* get_token without a valid cached JWT queues for the lock. (With one it
\* returns at once and nothing changes.)
GetToken(c, f) ==
    /\ pc[c] = "idle"
    /\ f \notin valid
    /\ pc' = [pc EXCEPT ![c] = "waiting"]
    /\ key' = [key EXCEPT ![c] = f]
    /\ want' = [want EXCEPT ![c] = "token"]
    /\ queue' = [queue EXCEPT ![f] = Append(@, c)]
    /\ UNCHANGED <<jwts, valid, listed>>

\* list_identities without cached identities: get_token first.
ListIdentities(c, f) ==
    /\ pc[c] = "idle"
    /\ f \notin Elements(listed)
    /\ key' = [key EXCEPT ![c] = f]
    /\ want' = [want EXCEPT ![c] = "identities"]
    /\ \/ /\ f \in valid
          /\ pc' = [pc EXCEPT ![c] = "listing"]
          /\ UNCHANGED queue
       \/ /\ f \notin valid
          /\ pc' = [pc EXCEPT ![c] = "waiting"]
          /\ queue' = [queue EXCEPT ![f] = Append(@, c)]
    /\ UNCHANGED <<jwts, valid, listed>>

\* Faults: the lock is not waited for; the cache is not looked at again.
EnterWithoutLock(c) ==
    /\ pc[c] = "waiting"
    /\ key[c] \notin valid
    /\ pc' = [pc EXCEPT ![c] = "exchanging"]
    /\ UNCHANGED <<key, want, queue, jwts, valid, listed>>

EnterWithoutRecheck(c) ==
    /\ pc[c] = "waiting"
    /\ Head(queue[key[c]]) = c
    /\ pc' = [pc EXCEPT ![c] = "exchanging"]
    /\ UNCHANGED <<key, want, queue, jwts, valid, listed>>

\* The lock is granted: the cache is looked at again, and the JWT another task
\* obtained meanwhile is returned; otherwise the exchange is posted.
Enter(c) ==
    /\ pc[c] = "waiting"
    /\ Head(queue[key[c]]) = c
    /\ \/ /\ key[c] \in valid
          /\ queue' = [queue EXCEPT ![key[c]] = Tail(@)]
          /\ Proceed(c)
       \/ /\ key[c] \notin valid
          /\ pc' = [pc EXCEPT ![c] = "exchanging"]
          /\ UNCHANGED <<key, queue>>
    /\ UNCHANGED <<want, jwts, valid, listed>>

\* The JWT arrives and is cached and returned, whatever is left of its life.
ExchangeSucceeds(c) ==
    /\ pc[c] = "exchanging"
    /\ jwts' = Insert(jwts, key[c])
    /\ \E accepted \in SUBSET {key[c]} :
        valid' = ((valid \ {key[c]}) \cup accepted) \cap Elements(jwts')
    /\ queue' = [queue EXCEPT ![key[c]] = Tail(@)]
    /\ Proceed(c)
    /\ UNCHANGED <<want, listed>>

FailHoldingLock(c) ==  \* fault
    /\ pc[c] = "exchanging"
    /\ Quit(c)
    /\ UNCHANGED <<want, queue, jwts, valid, listed>>

ExchangeFails(c) ==
    /\ pc[c] = "exchanging"
    /\ queue' = [queue EXCEPT ![key[c]] = Tail(@)]
    /\ Quit(c)
    /\ UNCHANGED <<want, jwts, valid, listed>>

\* _fetch_identities answers; listings of one key are not coalesced.
ListingSucceeds(c) ==
    /\ pc[c] = "listing"
    /\ listed' = Insert(listed, key[c])
    /\ Quit(c)
    /\ UNCHANGED <<want, queue, jwts, valid>>

ListingFails(c) ==
    /\ pc[c] = "listing"
    /\ Quit(c)
    /\ UNCHANGED <<want, queue, jwts, valid, listed>>

\* The task is cancelled at its await.
Cancel(c) ==
    /\ pc[c] # "idle"
    /\ queue' = [queue EXCEPT ![key[c]] = Leave(@, c)]
    /\ Quit(c)
    /\ UNCHANGED <<want, jwts, valid, listed>>

\* A cached JWT comes within five minutes of its expiry.
JwtAges(f) ==
    /\ f \in valid
    /\ valid' = valid \ {f}
    /\ UNCHANGED <<pc, key, want, queue, jwts, listed>>

\* close() clears both caches; exchanges under way go on.
Close ==
    /\ jwts' = <<>>
    /\ valid' = {}
    /\ listed' = <<>>
    /\ UNCHANGED <<pc, key, want, queue>>

CallerStep(c) ==
    \/ \E f \in Fingerprints : GetToken(c, f) \/ ListIdentities(c, f)
    \/ Enter(c) \/ ExchangeSucceeds(c) \/ ExchangeFails(c)
    \/ ListingSucceeds(c) \/ ListingFails(c) \/ Cancel(c)

Next ==
    \/ \E c \in Callers : CallerStep(c)
    \/ \E f \in Fingerprints : JwtAges(f)
    \/ Close

Spec == Init /\ [][Next]_vars

\* The event loop wakes the holder of a lock, and httpx timeouts end every
\* request: nothing else is assumed of the environment.
Fairness ==
    \A c \in Callers :
        /\ WF_vars(Enter(c))
        /\ WF_vars(ExchangeSucceeds(c) \/ ExchangeFails(c))
        /\ WF_vars(ListingSucceeds(c) \/ ListingFails(c))

FairSpec == Spec /\ Fairness

-----------------------------------------------------------------------------
(* Properties.                                                             *)

\* Both caches respect _max_cache_entries and hold a key once, and a JWT that
\* is accepted is a cached one, whatever exchanges and listings overlap.
Bounded(s) ==
    /\ Len(s) <= MaxCacheEntries
    /\ \A i, j \in 1..Len(s) : s[i] = s[j] => i = j

CachesBounded ==
    /\ Bounded(jwts) /\ Bounded(listed)
    /\ valid \subseteq Elements(jwts)

\* Two tasks never exchange the same refresh token at once.
OneExchange ==
    \A c, d \in Callers :
        pc[c] = "exchanging" /\ pc[d] = "exchanging" /\ key[c] = key[d] => c = d

\* The provider implements SingleFlight: waiters share the JWT that the first
\* of them obtained, and nobody exchanges while an accepted JWT is cached.
Asking == [c \in Callers |->
             IF pc[c] \in {"waiting", "exchanging"} THEN key[c] ELSE NoKey]
Exchanging == {f \in Fingerprints :
                 \E c \in Callers : pc[c] = "exchanging" /\ key[c] = f}
Flight == INSTANCE SingleFlight WITH
    Keys <- Fingerprints, asking <- Asking, exchanging <- Exchanging, usable <- valid
ImplementsSingleFlight == Flight!Spec

\* Every call ends, although it may wait behind others whose exchanges fail or
\* are cancelled and whose JWTs may be too old on arrival.
EveryCallEnds == \A c \in Callers : pc[c] # "idle" ~> pc[c] = "idle"
=============================================================================
