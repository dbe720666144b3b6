------------------------- MODULE JwtRefresh_proofs -------------------------
(* Proofs about JwtRefresh, for any callers, refresh tokens and cache size. *)
EXTENDS JwtRefresh, TLAPS

-----------------------------------------------------------------------------
(* Lemmas about the operators.                                             *)

LEMMA TailFacts ==
    ASSUME NEW S, NEW q \in Seq(S), q # <<>>
    PROVE  /\ Tail(q) \in Seq(S) /\ Len(Tail(q)) = Len(q) - 1
           /\ \A i \in 1..Len(Tail(q)) : Tail(q)[i] = q[i + 1]
  OBVIOUS

LEMMA LeaveType ==
    ASSUME NEW q \in Seq(Callers), NEW c
    PROVE  Leave(q, c) \in Seq(Callers)
  <1>1. CASE c \notin Elements(q)
    BY <1>1 DEF Leave
  <1>2. CASE c \in Elements(q)
    <2> DEFINE i == CHOOSE i \in 1..Len(q) : q[i] = c
    <2>1. i \in 1..Len(q)
      BY <1>2 DEF Elements
    <2>2. Leave(q, c) = [j \in 1..(Len(q) - 1) |-> IF j < i THEN q[j] ELSE q[j + 1]]
      BY <1>2 DEF Leave
    <2>3. \A j \in 1..(Len(q) - 1) : (IF j < i THEN q[j] ELSE q[j + 1]) \in Callers
      BY <2>1
    <2> HIDE DEF i
    <2> QED
      BY <2>1, <2>2, <2>3
  <1> QED
    BY <1>1, <1>2

\* Another task at the head of the queue stays there.
LEMMA LeaveKeepsHead ==
    ASSUME NEW q \in Seq(Callers), NEW c, q # <<>>, Head(q) # c
    PROVE  Leave(q, c) # <<>> /\ Head(Leave(q, c)) = Head(q)
  <1>1. CASE c \notin Elements(q)
    BY <1>1 DEF Leave
  <1>2. CASE c \in Elements(q)
    <2> DEFINE i == CHOOSE i \in 1..Len(q) : q[i] = c
    <2>1. i \in 1..Len(q) /\ q[i] = c
      BY <1>2 DEF Elements
    <2>2. Leave(q, c) = [j \in 1..(Len(q) - 1) |-> IF j < i THEN q[j] ELSE q[j + 1]]
      BY <1>2 DEF Leave
    <2> HIDE DEF i
    <2>3. i # 1 /\ Len(q) >= 2
      BY <2>1
    <2>4. Leave(q, c) \in Seq(Callers)
      BY LeaveType
    <2>5. Len(Leave(q, c)) = Len(q) - 1 /\ Leave(q, c)[1] = q[1]
      BY <2>1, <2>2, <2>3, <2>4
    <2> QED
      BY <2>3, <2>4, <2>5
  <1> QED
    BY <1>1, <1>2

LEMMA LeaveKeepsOthers ==
    ASSUME NEW q \in Seq(Callers), NEW c, NEW d \in Elements(q), d # c
    PROVE  d \in Elements(Leave(q, c))
  <1>1. CASE c \notin Elements(q)
    BY <1>1 DEF Leave
  <1>2. CASE c \in Elements(q)
    <2> DEFINE i == CHOOSE i \in 1..Len(q) : q[i] = c
    <2>1. i \in 1..Len(q) /\ q[i] = c
      BY <1>2 DEF Elements
    <2>2. Leave(q, c) = [j \in 1..(Len(q) - 1) |-> IF j < i THEN q[j] ELSE q[j + 1]]
      BY <1>2 DEF Leave
    <2> HIDE DEF i
    <2>3. Leave(q, c) \in Seq(Callers)
      BY LeaveType
    <2>4. Len(Leave(q, c)) = Len(q) - 1
      BY <2>1, <2>2, <2>3
    <2>5. PICK k \in 1..Len(q) : q[k] = d
      BY DEF Elements
    <2>6. CASE k < i
      <3>1. k \in 1..(Len(q) - 1) /\ Leave(q, c)[k] = d
        BY <2>1, <2>2, <2>5, <2>6
      <3> QED
        BY <3>1, <2>4 DEF Elements
    <2>7. CASE k > i
      <3>1. k - 1 \in 1..(Len(q) - 1) /\ ~(k - 1 < i) /\ (k - 1) + 1 = k
        BY <2>1, <2>5, <2>7
      <3>2. Leave(q, c)[k - 1] = d
        BY <2>2, <2>5, <3>1
      <3> QED
        BY <3>1, <3>2, <2>4 DEF Elements
    <2> QED
      BY <2>1, <2>5, <2>6, <2>7
  <1> QED
    BY <1>1, <1>2

LEMMA TailKeepsOthers ==
    ASSUME NEW q \in Seq(Callers), q # <<>>
    PROVE  /\ Tail(q) \in Seq(Callers)
           /\ \A d \in Elements(q) : d # Head(q) => d \in Elements(Tail(q))
  <1>1. /\ Tail(q) \in Seq(Callers) /\ Len(Tail(q)) = Len(q) - 1
        /\ \A i \in 1..Len(Tail(q)) : Tail(q)[i] = q[i + 1]
    BY TailFacts
  <1>2. ASSUME NEW d \in Elements(q), d # Head(q) PROVE d \in Elements(Tail(q))
    <2>1. PICK k \in 1..Len(q) : q[k] = d
      BY DEF Elements
    <2>2. k # 1
      BY <1>2, <2>1
    <2>3. k - 1 \in 1..Len(Tail(q)) /\ Tail(q)[k - 1] = d
      BY <1>1, <2>1, <2>2
    <2> QED
      BY <2>3 DEF Elements
  <1> QED
    BY <1>1, <1>2

LEMMA AppendFacts ==
    ASSUME NEW q \in Seq(Callers), NEW c \in Callers
    PROVE  /\ Append(q, c) \in Seq(Callers)
           /\ c \in Elements(Append(q, c))
           /\ \A d \in Elements(q) : d \in Elements(Append(q, c))
           /\ Append(q, c) # <<>>
           /\ q # <<>> => Head(Append(q, c)) = Head(q)
  <1>1. /\ Append(q, c) \in Seq(Callers) /\ Len(Append(q, c)) = Len(q) + 1
        /\ Append(q, c)[Len(q) + 1] = c
        /\ \A i \in 1..Len(q) : Append(q, c)[i] = q[i]
    OBVIOUS
  <1>2. c \in Elements(Append(q, c))
    BY <1>1 DEF Elements
  <1>3. \A d \in Elements(q) : d \in Elements(Append(q, c))
    BY <1>1 DEF Elements
  <1>4. q # <<>> => Head(Append(q, c)) = Head(q)
    BY <1>1
  <1>5. Append(q, c) # <<>>
    <2>1. Len(Append(q, c)) # 0
      BY <1>1
    <2>2. Len(<<>>) = 0
      OBVIOUS
    <2> QED
      BY ONLY <2>1, <2>2
  <1> QED
    BY <1>1, <1>2, <1>3, <1>4, <1>5

LEMMA InsertFacts ==
    ASSUME NEW s \in Seq(Fingerprints), NEW k \in Fingerprints, Bounded(s)
    PROVE  /\ Insert(s, k) \in Seq(Fingerprints)
           /\ Bounded(Insert(s, k))
  <1> DEFINE kept == IF Len(s) >= MaxCacheEntries THEN Tail(s) ELSE s
  <1>1. /\ kept \in Seq(Fingerprints) /\ Len(kept) < MaxCacheEntries
        /\ \A i, j \in 1..Len(kept) : kept[i] = kept[j] => i = j
    <2>1. CASE Len(s) >= MaxCacheEntries
      <3>1. s # <<>>
        BY <2>1, CacheAssumption
      <3>2. /\ Tail(s) \in Seq(Fingerprints) /\ Len(Tail(s)) = Len(s) - 1
            /\ \A i \in 1..Len(Tail(s)) : Tail(s)[i] = s[i + 1]
        BY <3>1, TailFacts
      <3> QED
        BY <2>1, <3>2, CacheAssumption DEF Bounded
    <2>2. CASE Len(s) < MaxCacheEntries
      BY <2>2, CacheAssumption DEF Bounded
    <2>3. Len(s) \in Nat /\ MaxCacheEntries \in Nat
      BY CacheAssumption
    <2> HIDE DEF kept
    <2> QED
      BY <2>1, <2>2, <2>3
  <1>2. Insert(s, k) = IF k \in Elements(kept) THEN kept ELSE Append(kept, k)
    BY DEF Insert
  <1> HIDE DEF kept
  <1>3. CASE k \in Elements(kept)
    BY <1>1, <1>2, <1>3, CacheAssumption DEF Bounded
  <1>4. CASE k \notin Elements(kept)
    <2>1. \A i \in 1..Len(kept) : kept[i] # k
      BY <1>4 DEF Elements
    <2> QED
      BY <1>1, <1>2, <1>4, <2>1, CacheAssumption DEF Bounded
  <1> QED
    BY <1>3, <1>4

-----------------------------------------------------------------------------
(* Types.                                                                  *)

LEMMA QuitType ==
    ASSUME TypeOK, NEW c \in Callers, Quit(c)
    PROVE  /\ pc' \in [Callers -> {"idle", "waiting", "exchanging", "listing"}]
           /\ key' \in [Callers -> Fingerprints \cup {NoKey}]
           /\ \A d \in Callers : key'[d] = NoKey <=> pc'[d] = "idle"
  BY DEF TypeOK, Quit

LEMMA ProceedType ==
    ASSUME TypeOK, NEW c \in Callers, Proceed(c), pc[c] # "idle"
    PROVE  /\ pc' \in [Callers -> {"idle", "waiting", "exchanging", "listing"}]
           /\ key' \in [Callers -> Fingerprints \cup {NoKey}]
           /\ \A d \in Callers : key'[d] = NoKey <=> pc'[d] = "idle"
  BY DEF TypeOK, Proceed

LEMMA InitType == Init => TypeOK
  BY DEF Init, TypeOK

\* A task that waits for a lock, or exchanges under it, is in its queue; the
\* one that exchanges is first.
AtLock(c) ==
    pc[c] \in {"waiting", "exchanging"} => c \in Elements(queue[key[c]])
Holds(c) ==
    pc[c] = "exchanging" => queue[key[c]] # <<>> /\ Head(queue[key[c]]) = c

LockInv == TypeOK /\ \A c \in Callers : AtLock(c) /\ Holds(c)

LEMMA InitLock == Init => LockInv
  BY InitType DEF Init, LockInv, AtLock, Holds

\* What is left of the lock's queue when task c joins it, or is let go.
LEMMA JoinLock ==
    ASSUME LockInv, NEW c \in Callers, NEW f \in Fingerprints, pc[c] = "idle",
           pc' = [pc EXCEPT ![c] = "waiting"], key' = [key EXCEPT ![c] = f],
           queue' = [queue EXCEPT ![f] = Append(@, c)]
    PROVE  /\ queue' \in [Fingerprints -> Seq(Callers)]
           /\ \A d \in Callers : AtLock(d)' /\ Holds(d)'
  <1>1. queue[f] \in Seq(Callers)
    BY DEF LockInv, TypeOK
  <1>2. /\ Append(queue[f], c) \in Seq(Callers)
        /\ c \in Elements(Append(queue[f], c))
        /\ \A d \in Elements(queue[f]) : d \in Elements(Append(queue[f], c))
        /\ Append(queue[f], c) # <<>>
        /\ queue[f] # <<>> => Head(Append(queue[f], c)) = Head(queue[f])
    BY <1>1, AppendFacts
  <1>3. queue' \in [Fingerprints -> Seq(Callers)]
    BY <1>2 DEF LockInv, TypeOK
  <1>4. ASSUME NEW d \in Callers PROVE AtLock(d)' /\ Holds(d)'
    <2>1. CASE d = c
      BY <1>2, <2>1 DEF AtLock, Holds, LockInv, TypeOK
    <2>2. CASE d # c
      <3>1. pc'[d] = pc[d] /\ key'[d] = key[d]
        BY <2>2 DEF LockInv, TypeOK
      <3>2. CASE pc[d] \in {"waiting", "exchanging"}
        <4>1. key[d] \in Fingerprints
          BY <3>2 DEF LockInv, TypeOK
        <4>2. CASE key[d] = f
          <5>1. queue'[key'[d]] = Append(queue[f], c)
            BY <3>1, <4>2 DEF LockInv, TypeOK
          <5>2. d \in Elements(queue[f])
            BY <3>2, <4>2 DEF AtLock, LockInv
          <5>3. pc[d] = "exchanging" => queue[f] # <<>> /\ Head(queue[f]) = d
            BY <4>2 DEF Holds, LockInv
          <5> QED
            BY <1>2, <3>1, <5>1, <5>2, <5>3 DEF AtLock, Holds
        <4>3. CASE key[d] # f
          BY <3>1, <4>1, <4>3 DEF AtLock, Holds, LockInv, TypeOK
        <4> QED
          BY <4>2, <4>3
      <3>3. CASE pc[d] \notin {"waiting", "exchanging"}
        BY <3>1, <3>3 DEF AtLock, Holds
      <3> QED
        BY <3>2, <3>3
    <2> QED
      BY <2>1, <2>2
  <1> QED
    BY <1>3, <1>4

LEMMA ReleaseLock ==
    ASSUME LockInv, NEW c \in Callers, pc[c] \in {"waiting", "exchanging"},
           Head(queue[key[c]]) = c,
           queue' = [queue EXCEPT ![key[c]] = Tail(@)],
           pc'[c] \notin {"waiting", "exchanging"},
           \A d \in Callers \ {c} : pc'[d] = pc[d] /\ key'[d] = key[d]
    PROVE  /\ queue' \in [Fingerprints -> Seq(Callers)]
           /\ \A d \in Callers : AtLock(d)' /\ Holds(d)'
  <1> DEFINE q == queue[key[c]]
  <1>1. key[c] \in Fingerprints /\ q \in Seq(Callers)
    BY DEF LockInv, TypeOK
  <1>2. q # <<>>
    BY <1>1 DEF LockInv, AtLock, Elements
  <1>3. /\ Tail(q) \in Seq(Callers)
        /\ \A d \in Elements(q) : d # Head(q) => d \in Elements(Tail(q))
    BY <1>1, <1>2, TailKeepsOthers
  <1>4. queue' \in [Fingerprints -> Seq(Callers)]
    BY <1>3 DEF LockInv, TypeOK
  <1>5. ASSUME NEW d \in Callers PROVE AtLock(d)' /\ Holds(d)'
    <2>1. CASE d = c \/ pc[d] \notin {"waiting", "exchanging"}
      BY <2>1 DEF AtLock, Holds
    <2>2. CASE d # c /\ pc[d] \in {"waiting", "exchanging"}
      <3>1. pc'[d] = pc[d] /\ key'[d] = key[d] /\ key[d] \in Fingerprints
        BY <2>2 DEF LockInv, TypeOK
      <3>2. CASE key[d] = key[c]
        <4>1. queue'[key[d]] = Tail(q)
          BY <1>1, <3>2 DEF LockInv, TypeOK
        <4>2. pc[d] # "exchanging"
          BY <2>2, <3>2 DEF LockInv, Holds
        <4> QED
          BY <1>3, <2>2, <3>1, <3>2, <4>1, <4>2 DEF AtLock, Holds, LockInv
      <3>3. CASE key[d] # key[c]
        BY <3>1, <3>3 DEF AtLock, Holds, LockInv, TypeOK
      <3> QED
        BY <3>2, <3>3
    <2> QED
      BY <2>1, <2>2
  <1> QED
    BY <1>4, <1>5

LEMMA LeaveLock ==
    ASSUME LockInv, NEW c \in Callers, pc[c] # "idle", Quit(c),
           queue' = [queue EXCEPT ![key[c]] = Leave(@, c)]
    PROVE  /\ queue' \in [Fingerprints -> Seq(Callers)]
           /\ \A d \in Callers : AtLock(d)' /\ Holds(d)'
  <1> DEFINE q == queue[key[c]]
  <1>1. key[c] \in Fingerprints /\ q \in Seq(Callers)
    BY DEF LockInv, TypeOK
  <1>2. Leave(q, c) \in Seq(Callers)
    BY <1>1, LeaveType
  <1>3. queue' \in [Fingerprints -> Seq(Callers)]
    BY <1>2 DEF LockInv, TypeOK
  <1>4. ASSUME NEW d \in Callers PROVE AtLock(d)' /\ Holds(d)'
    <2>1. CASE d = c
      BY <2>1 DEF AtLock, Holds, Quit, LockInv, TypeOK
    <2>2. CASE d # c
      <3>1. pc'[d] = pc[d] /\ key'[d] = key[d]
        BY <2>2 DEF Quit, LockInv, TypeOK
      <3>2. CASE pc[d] \notin {"waiting", "exchanging"}
        BY <3>1, <3>2 DEF AtLock, Holds
      <3>3. CASE pc[d] \in {"waiting", "exchanging"} /\ key[d] = key[c]
        <4>1. queue'[key[d]] = Leave(q, c)
          BY <1>1, <3>3 DEF LockInv, TypeOK
        <4>2. d \in Elements(q)
          BY <3>3 DEF LockInv, AtLock
        <4>3. d \in Elements(Leave(q, c))
          BY <1>1, <2>2, <4>2, LeaveKeepsOthers
        <4>4. pc[d] = "exchanging" => q # <<>> /\ Head(q) = d
          BY <3>3 DEF LockInv, Holds
        <4>5. pc[d] = "exchanging" => Leave(q, c) # <<>> /\ Head(Leave(q, c)) = d
          BY <1>1, <2>2, <4>4, LeaveKeepsHead
        <4> QED
          BY <3>1, <4>1, <4>3, <4>5 DEF AtLock, Holds
      <3>4. CASE pc[d] \in {"waiting", "exchanging"} /\ key[d] # key[c]
        <4>1. key[d] \in Fingerprints
          BY <3>4 DEF LockInv, TypeOK
        <4> QED
          BY <3>1, <3>4, <4>1 DEF AtLock, Holds, LockInv, TypeOK
      <3> QED
        BY <3>2, <3>3, <3>4
    <2> QED
      BY <2>1, <2>2
  <1> QED
    BY <1>3, <1>4

-----------------------------------------------------------------------------
(* The inductive invariant: types, the lock and the caches.                *)

IInv == LockInv /\ CachesBounded

LEMMA InitIInv == Init => IInv
  BY InitLock, CacheAssumption DEF Init, IInv, CachesBounded, Bounded, Elements

LEMMA StepIInv == IInv /\ [Next]_vars => IInv'
  <1> SUFFICES ASSUME IInv, [Next]_vars PROVE IInv'
    OBVIOUS
  <1>l. LockInv /\ TypeOK /\ CachesBounded
    BY DEF IInv, LockInv
  <1>k. \A c \in Callers : pc[c] # "idle" => key[c] \in Fingerprints
    BY <1>l DEF TypeOK
  <1>1. ASSUME NEW c \in Callers, NEW f \in Fingerprints, GetToken(c, f) PROVE IInv'
    <2>1. /\ queue' \in [Fingerprints -> Seq(Callers)]
          /\ \A d \in Callers : AtLock(d)' /\ Holds(d)'
      BY <1>1, <1>l, JoinLock DEF GetToken
    <2> QED
      BY <1>1, <1>l, <2>1, CacheAssumption
      DEF GetToken, IInv, LockInv, TypeOK, CachesBounded
  <1>2. ASSUME NEW c \in Callers, NEW f \in Fingerprints, ListIdentities(c, f)
        PROVE  IInv'
    <2>1. CASE f \in valid
      <3>1. \A d \in Callers : AtLock(d)' /\ Holds(d)'
        BY <1>2, <1>l, <2>1 DEF ListIdentities, LockInv, TypeOK, AtLock, Holds
      <3> QED
        BY <1>2, <1>l, <2>1, <3>1, CacheAssumption
        DEF ListIdentities, IInv, LockInv, TypeOK, CachesBounded
    <2>2. CASE f \notin valid
      <3>1. /\ queue' \in [Fingerprints -> Seq(Callers)]
            /\ \A d \in Callers : AtLock(d)' /\ Holds(d)'
        BY <1>2, <1>l, <2>2, JoinLock DEF ListIdentities
      <3> QED
        BY <1>2, <1>l, <2>2, <3>1, CacheAssumption
        DEF ListIdentities, IInv, LockInv, TypeOK, CachesBounded
    <2> QED
      BY <2>1, <2>2
  <1>3. ASSUME NEW c \in Callers, Enter(c) PROVE IInv'
    <2>1. CASE key[c] \in valid
      <3>1. /\ Proceed(c) /\ pc[c] = "waiting" /\ Head(queue[key[c]]) = c
            /\ queue' = [queue EXCEPT ![key[c]] = Tail(@)]
        BY <1>3, <2>1 DEF Enter
      <3>2. /\ pc'[c] \notin {"waiting", "exchanging"}
            /\ \A d \in Callers \ {c} : pc'[d] = pc[d] /\ key'[d] = key[d]
        BY <3>1, <1>l DEF Proceed, TypeOK
      <3>3. /\ queue' \in [Fingerprints -> Seq(Callers)]
            /\ \A d \in Callers : AtLock(d)' /\ Holds(d)'
        BY <3>1, <3>2, <1>l, ReleaseLock
      <3> QED
        BY <1>3, <1>l, <3>1, <3>3, ProceedType
        DEF Enter, IInv, LockInv, TypeOK, CachesBounded
    <2>2. CASE key[c] \notin valid
      <3>1. queue[key[c]] # <<>>
        BY <1>3, <1>l, <1>k DEF Enter, LockInv, AtLock, Elements, TypeOK
      <3>2. \A d \in Callers : AtLock(d)' /\ Holds(d)'
        BY <1>3, <1>l, <2>2, <3>1 DEF Enter, LockInv, TypeOK, AtLock, Holds
      <3> QED
        BY <1>3, <1>l, <2>2, <3>2 DEF Enter, IInv, LockInv, TypeOK, CachesBounded
    <2> QED
      BY <2>1, <2>2
  <1>4. ASSUME NEW c \in Callers, ExchangeSucceeds(c) PROVE IInv'
    <2>1. /\ Insert(jwts, key[c]) \in Seq(Fingerprints)
          /\ Bounded(Insert(jwts, key[c]))
      BY <1>4, <1>l, <1>k, InsertFacts DEF ExchangeSucceeds, TypeOK, CachesBounded
    <2>2. jwts' \in Seq(Fingerprints) /\ Bounded(jwts')
      BY <1>4, <2>1 DEF ExchangeSucceeds
    <2>3. valid' \subseteq Elements(jwts') /\ valid' \subseteq Fingerprints
      BY <1>4, <1>l, <1>k DEF ExchangeSucceeds, TypeOK
    <2>4. /\ Proceed(c) /\ pc[c] = "exchanging" /\ Head(queue[key[c]]) = c
          /\ queue' = [queue EXCEPT ![key[c]] = Tail(@)]
      BY <1>4, <1>l DEF ExchangeSucceeds, LockInv, Holds
    <2>5. /\ pc'[c] \notin {"waiting", "exchanging"}
          /\ \A d \in Callers \ {c} : pc'[d] = pc[d] /\ key'[d] = key[d]
      BY <2>4, <1>l DEF Proceed, TypeOK
    <2>6. /\ queue' \in [Fingerprints -> Seq(Callers)]
          /\ \A d \in Callers : AtLock(d)' /\ Holds(d)'
      BY <2>4, <2>5, <1>l, ReleaseLock
    <2>7. TypeOK'
      BY <1>4, <1>l, <2>2, <2>3, <2>4, <2>6, ProceedType DEF ExchangeSucceeds, TypeOK
    <2> QED
      BY <1>4, <1>l, <2>2, <2>3, <2>6, <2>7
      DEF ExchangeSucceeds, IInv, LockInv, CachesBounded
  <1>5. ASSUME NEW c \in Callers, ExchangeFails(c) PROVE IInv'
    <2>1. /\ Quit(c) /\ pc[c] = "exchanging" /\ Head(queue[key[c]]) = c
          /\ queue' = [queue EXCEPT ![key[c]] = Tail(@)]
      BY <1>5, <1>l DEF ExchangeFails, LockInv, Holds
    <2>2. /\ pc'[c] \notin {"waiting", "exchanging"}
          /\ \A d \in Callers \ {c} : pc'[d] = pc[d] /\ key'[d] = key[d]
      BY <2>1, <1>l DEF Quit, TypeOK
    <2>3. /\ queue' \in [Fingerprints -> Seq(Callers)]
          /\ \A d \in Callers : AtLock(d)' /\ Holds(d)'
      BY <2>1, <2>2, <1>l, ReleaseLock
    <2> QED
      BY <1>5, <1>l, <2>1, <2>3, QuitType
      DEF ExchangeFails, IInv, LockInv, TypeOK, CachesBounded
  <1>6. ASSUME NEW c \in Callers, ListingSucceeds(c) PROVE IInv'
    <2>1. listed' \in Seq(Fingerprints) /\ Bounded(listed')
      BY <1>6, <1>l, <1>k, InsertFacts DEF ListingSucceeds, TypeOK, CachesBounded
    <2>2. \A d \in Callers : AtLock(d)' /\ Holds(d)'
      BY <1>6, <1>l DEF ListingSucceeds, Quit, LockInv, TypeOK, AtLock, Holds
    <2> QED
      BY <1>6, <1>l, <2>1, <2>2, QuitType
      DEF ListingSucceeds, IInv, LockInv, TypeOK, CachesBounded
  <1>7. ASSUME NEW c \in Callers, ListingFails(c) PROVE IInv'
    <2>1. \A d \in Callers : AtLock(d)' /\ Holds(d)'
      BY <1>7, <1>l DEF ListingFails, Quit, LockInv, TypeOK, AtLock, Holds
    <2> QED
      BY <1>7, <1>l, <2>1, QuitType
      DEF ListingFails, IInv, LockInv, TypeOK, CachesBounded
  <1>8. ASSUME NEW c \in Callers, Cancel(c) PROVE IInv'
    <2>1. /\ queue' \in [Fingerprints -> Seq(Callers)]
          /\ \A d \in Callers : AtLock(d)' /\ Holds(d)'
      BY <1>8, <1>l, LeaveLock DEF Cancel
    <2> QED
      BY <1>8, <1>l, <2>1, QuitType DEF Cancel, IInv, LockInv, TypeOK, CachesBounded
  <1>9. ASSUME NEW f \in Fingerprints, JwtAges(f) PROVE IInv'
    BY <1>9, <1>l DEF JwtAges, IInv, LockInv, TypeOK, CachesBounded, AtLock, Holds
  <1>10. CASE Close
    BY <1>10, <1>l, CacheAssumption
    DEF Close, IInv, LockInv, TypeOK, CachesBounded, Bounded, Elements, AtLock, Holds
  <1>11. CASE UNCHANGED vars
    BY <1>11, <1>l DEF vars, IInv, LockInv, TypeOK, CachesBounded, AtLock, Holds
  <1> QED
    BY <1>1, <1>2, <1>3, <1>4, <1>5, <1>6, <1>7, <1>8, <1>9, <1>10, <1>11
    DEF Next, CallerStep

\* Every variable keeps its type.
THEOREM TypeCorrect == Spec => []TypeOK
  <1>1. IInv => TypeOK
    BY DEF IInv, LockInv
  <1> QED
    BY <1>1, InitIInv, StepIInv, PTL DEF Spec

\* Both caches of the provider respect _max_cache_entries, however exchanges
\* and listings overlap.
THEOREM CachesStayBounded == Spec => []CachesBounded
  <1>1. IInv => CachesBounded
    BY DEF IInv
  <1> QED
    BY <1>1, InitIInv, StepIInv, PTL DEF Spec

\* Two tasks never exchange the same refresh token at once.
THEOREM ExchangesExclusive == Spec => []OneExchange
  <1>1. IInv => OneExchange
    BY DEF IInv, LockInv, Holds, OneExchange
  <1> QED
    BY <1>1, InitIInv, StepIInv, PTL DEF Spec

-----------------------------------------------------------------------------
(* The provider implements SingleFlight. A hit and a listing are stutters; *)
(* every other step is the abstract step of the same caller.               *)

\* What the abstract state becomes when only task c changes.
LEMMA OneCaller ==
    ASSUME TypeOK, NEW c \in Callers,
           pc' \in [Callers -> {"idle", "waiting", "exchanging", "listing"}],
           key' \in [Callers -> Fingerprints \cup {NoKey}],
           \A d \in Callers \ {c} : pc'[d] = pc[d] /\ key'[d] = key[d]
    PROVE  Asking' = [Asking EXCEPT ![c] =
               IF pc'[c] \in {"waiting", "exchanging"} THEN key'[c] ELSE NoKey]
  BY DEF Asking, TypeOK

LEMMA SameExchanges ==
    ASSUME NEW c \in Callers, pc[c] # "exchanging", pc'[c] # "exchanging",
           \A d \in Callers \ {c} : pc'[d] = pc[d] /\ key'[d] = key[d]
    PROVE  Exchanging' = Exchanging
  BY DEF Exchanging

LEMMA ExchangeEnds ==
    ASSUME IInv, NEW c \in Callers, pc[c] = "exchanging", pc'[c] # "exchanging",
           \A d \in Callers \ {c} : pc'[d] = pc[d] /\ key'[d] = key[d]
    PROVE  /\ Asking[c] = key[c] /\ Asking[c] \in Exchanging
           /\ Asking[c] \in Fingerprints
           /\ Exchanging' = Exchanging \ {Asking[c]}
  <1>1. Asking[c] = key[c] /\ key[c] \in Fingerprints
    BY DEF Asking, IInv, LockInv, TypeOK
  <1>2. \A d \in Callers : pc[d] = "exchanging" /\ key[d] = key[c] => d = c
    BY DEF IInv, LockInv, Holds
  <1> QED
    BY <1>1, <1>2 DEF Exchanging

LEMMA RefinesInit == Init => Flight!Init
  BY DEF Init, Flight!Init, Asking, Exchanging

LEMMA RefinesStep == IInv /\ IInv' /\ [Next]_vars => [Flight!Next]_(Flight!vars)
  <1> SUFFICES ASSUME IInv, IInv', [Next]_vars PROVE [Flight!Next]_(Flight!vars)
    OBVIOUS
  <1>t. TypeOK /\ TypeOK'
    BY DEF IInv, LockInv
  <1>a. ASSUME NEW c \in Callers, NEW f \in Fingerprints, pc[c] = "idle", f \notin valid,
               pc' = [pc EXCEPT ![c] = "waiting"], key' = [key EXCEPT ![c] = f],
               UNCHANGED valid
        PROVE  Flight!Next
    <2>1. /\ pc'[c] = "waiting" /\ key'[c] = f
          /\ \A d \in Callers \ {c} : pc'[d] = pc[d] /\ key'[d] = key[d]
      BY <1>a, <1>t DEF TypeOK
    <2>2. Asking' = [Asking EXCEPT ![c] = f] /\ Exchanging' = Exchanging
      BY <1>a, <1>t, <2>1, OneCaller, SameExchanges DEF TypeOK
    <2>3. Asking[c] = NoKey
      BY <1>a DEF Asking
    <2>4. Flight!Ask(c, f)
      BY <1>a, <2>2, <2>3 DEF Flight!Ask
    <2> QED
      BY <2>4 DEF Flight!Next
  <1>1. ASSUME NEW c \in Callers, NEW f \in Fingerprints, GetToken(c, f)
        PROVE  [Flight!Next]_(Flight!vars)
    BY <1>1, <1>a DEF GetToken
  <1>2. ASSUME NEW c \in Callers, NEW f \in Fingerprints, ListIdentities(c, f)
        PROVE  [Flight!Next]_(Flight!vars)
    <2>1. CASE f \notin valid
      BY <1>2, <1>a, <2>1 DEF ListIdentities
    <2>2. CASE f \in valid
      <3>1. /\ pc[c] = "idle" /\ pc'[c] = "listing" /\ UNCHANGED valid
            /\ \A d \in Callers \ {c} : pc'[d] = pc[d] /\ key'[d] = key[d]
        BY <1>2, <1>t, <2>2 DEF ListIdentities, TypeOK
      <3>2. Asking' = Asking /\ Exchanging' = Exchanging
        BY <3>1, SameExchanges DEF Asking
      <3> QED
        BY <3>1, <3>2 DEF Flight!vars
    <2> QED
      BY <2>1, <2>2
  <1>3. ASSUME NEW c \in Callers, Enter(c) PROVE [Flight!Next]_(Flight!vars)
    <2>0. Asking[c] = key[c] /\ key[c] \in Fingerprints /\ key[c] # NoKey
      BY <1>3, <1>t, CacheAssumption DEF Enter, Asking, TypeOK
    <2>1. CASE key[c] \in valid
      <3>1. /\ pc[c] = "waiting" /\ pc'[c] \in {"idle", "listing"} /\ UNCHANGED valid
            /\ \A d \in Callers \ {c} : pc'[d] = pc[d] /\ key'[d] = key[d]
        BY <1>3, <1>t, <2>1 DEF Enter, Proceed, TypeOK
      <3>2. Asking' = [Asking EXCEPT ![c] = NoKey] /\ Exchanging' = Exchanging
        BY <1>t, <3>1, OneCaller, SameExchanges DEF TypeOK
      <3>3. Flight!Share(c)
        BY <2>0, <2>1, <3>1, <3>2 DEF Flight!Share
      <3> QED
        BY <3>3 DEF Flight!Next
    <2>2. CASE key[c] \notin valid
      <3>1. /\ pc[c] = "waiting" /\ pc'[c] = "exchanging" /\ UNCHANGED <<key, valid>>
            /\ Head(queue[key[c]]) = c
            /\ \A d \in Callers \ {c} : pc'[d] = pc[d]
        BY <1>3, <1>t, <2>2 DEF Enter, TypeOK
      <3>2. Asking' = Asking /\ Exchanging' = Exchanging \cup {key[c]}
        BY <3>1, <2>0 DEF Asking, Exchanging
      <3>3. key[c] \notin Exchanging
        BY <3>1 DEF Exchanging, IInv, LockInv, Holds
      <3>4. Flight!StartExchange(c)
        BY <2>0, <2>2, <3>1, <3>2, <3>3 DEF Flight!StartExchange
      <3> QED
        BY <3>4 DEF Flight!Next
    <2> QED
      BY <2>1, <2>2
  <1>4. ASSUME NEW c \in Callers, ExchangeSucceeds(c) PROVE [Flight!Next]_(Flight!vars)
    <2>1. /\ pc[c] = "exchanging" /\ pc'[c] \in {"idle", "listing"}
          /\ \A d \in Callers \ {c} : pc'[d] = pc[d] /\ key'[d] = key[d]
      BY <1>4, <1>t DEF ExchangeSucceeds, Proceed, TypeOK
    <2>2. /\ Asking[c] = key[c] /\ Asking[c] \in Exchanging
          /\ Asking[c] \in Fingerprints
          /\ Exchanging' = Exchanging \ {Asking[c]}
      BY <2>1, ExchangeEnds
    <2>3. Asking' = [Asking EXCEPT ![c] = NoKey]
      BY <1>t, <2>1, OneCaller DEF TypeOK
    <2>4. valid' \in SUBSET (valid \cup {Asking[c]})
      BY <1>4, <2>2 DEF ExchangeSucceeds
    <2>5. Flight!EndExchange(c)
      BY <2>2, <2>3, <2>4 DEF Flight!EndExchange
    <2> QED
      BY <2>5 DEF Flight!Next
  <1>b. ASSUME NEW c \in Callers, Quit(c), pc[c] # "idle", UNCHANGED valid
        PROVE  [Flight!Next]_(Flight!vars)
    <2>1. /\ pc'[c] = "idle"
          /\ \A d \in Callers \ {c} : pc'[d] = pc[d] /\ key'[d] = key[d]
      BY <1>b, <1>t DEF Quit, TypeOK
    <2>2. Asking' = [Asking EXCEPT ![c] = NoKey]
      BY <1>t, <2>1, OneCaller DEF TypeOK
    <2>3. CASE pc[c] = "exchanging"
      <3>1. /\ Asking[c] \in Exchanging
            /\ Exchanging' = Exchanging \ {Asking[c]}
        BY <2>1, <2>3, ExchangeEnds
      <3>2. Flight!FailExchange(c)
        BY <1>b, <2>2, <3>1 DEF Flight!FailExchange
      <3> QED
        BY <3>2 DEF Flight!Next
    <2>4. CASE pc[c] = "waiting"
      <3>1. Asking[c] # NoKey
        BY <1>t, <2>4, CacheAssumption DEF Asking, TypeOK
      <3>2. Exchanging' = Exchanging
        BY <2>1, <2>4, SameExchanges
      <3>3. Flight!GiveUp(c)
        BY <1>b, <2>2, <3>1, <3>2 DEF Flight!GiveUp
      <3> QED
        BY <3>3 DEF Flight!Next
    <2>5. CASE pc[c] = "listing"
      <3>1. Asking' = Asking /\ Exchanging' = Exchanging
        BY <2>1, <2>5, SameExchanges DEF Asking
      <3> QED
        BY <1>b, <3>1 DEF Flight!vars
    <2> QED
      BY <1>b, <1>t, <2>3, <2>4, <2>5 DEF TypeOK
  <1>5. ASSUME NEW c \in Callers, ExchangeFails(c) PROVE [Flight!Next]_(Flight!vars)
    BY <1>5, <1>b DEF ExchangeFails
  <1>6. ASSUME NEW c \in Callers, ListingSucceeds(c) PROVE [Flight!Next]_(Flight!vars)
    BY <1>6, <1>b DEF ListingSucceeds
  <1>7. ASSUME NEW c \in Callers, ListingFails(c) PROVE [Flight!Next]_(Flight!vars)
    BY <1>7, <1>b DEF ListingFails
  <1>8. ASSUME NEW c \in Callers, Cancel(c) PROVE [Flight!Next]_(Flight!vars)
    BY <1>8, <1>b DEF Cancel
  <1>c. ASSUME UNCHANGED <<pc, key>>, valid' \in SUBSET valid
        PROVE  [Flight!Next]_(Flight!vars)
    <2>1. Asking' = Asking /\ Exchanging' = Exchanging
      BY <1>c DEF Asking, Exchanging
    <2>2. Flight!Lapse
      BY <1>c, <2>1 DEF Flight!Lapse
    <2> QED
      BY <2>2 DEF Flight!Next
  <1>9. ASSUME NEW f \in Fingerprints, JwtAges(f) PROVE [Flight!Next]_(Flight!vars)
    BY <1>9, <1>c DEF JwtAges
  <1>10. CASE Close
    BY <1>10, <1>c DEF Close
  <1>11. CASE UNCHANGED vars
    BY <1>11, <1>c DEF vars
  <1> QED
    BY <1>1, <1>2, <1>3, <1>4, <1>5, <1>6, <1>7, <1>8, <1>9, <1>10, <1>11
    DEF Next, CallerStep

\* The provider's refreshes implement SingleFlight: waiters share the JWT that
\* the first of them obtained, and no exchange is begun while an accepted JWT
\* of the same token is cached.
THEOREM Refines == Spec => ImplementsSingleFlight
  BY InitIInv, StepIInv, RefinesInit, RefinesStep, PTL
  DEF Spec, ImplementsSingleFlight, Flight!Spec
=============================================================================
