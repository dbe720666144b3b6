------------------------- MODULE TokenStore_proofs -------------------------
(* Proofs about TokenStore, for any keys, tokens, limit and patterns. *)
EXTENDS TokenStore, FiniteSetTheorems, TLAPS

Entries == [Keys -> Tokens \cup {NoToken}]

-----------------------------------------------------------------------------
(* Lemmas about the operators.                                             *)

LEMMA OnlyFacts ==
    ASSUME NEW h \in Entries, NEW S
    PROVE  /\ Only(h, S) \in Entries
           /\ \A k \in Keys : Only(h, S)[k] \in {NoToken, h[k]}
           /\ \A k \in Keys : k \notin S => Only(h, S)[k] = NoToken
           /\ \A k \in Keys : k \in S => Only(h, S)[k] = h[k]
  BY DEF Only, Entries

LEMMA AmongFacts ==
    ASSUME NEW order \in SUBSET (Keys \X Keys), NEW S
    PROVE  Among(order, S) \in SUBSET (Keys \X Keys)
  BY DEF Among

\* The entries of h.
HeldIn(h) == {k \in Keys : h[k] # NoToken}

LEMMA FewerEntries ==
    ASSUME NEW h \in Entries, NEW g \in Entries,
           \A k \in Keys : g[k] \in {NoToken, h[k]},
           IsFiniteSet(HeldIn(h)), Cardinality(HeldIn(h)) <= MaxEntries
    PROVE  IsFiniteSet(HeldIn(g)) /\ Cardinality(HeldIn(g)) <= MaxEntries
  <1>1. HeldIn(g) \subseteq HeldIn(h)
    BY DEF HeldIn
  <1>2. /\ IsFiniteSet(HeldIn(g)) /\ Cardinality(HeldIn(g)) \in Nat
        /\ Cardinality(HeldIn(h)) \in Nat
        /\ Cardinality(HeldIn(g)) <= Cardinality(HeldIn(h))
    BY <1>1, FS_Subset, FS_CardinalityType
  <1> QED
    BY <1>2, StoreAssumption

-----------------------------------------------------------------------------
(* Types, and the limit. While no process runs, memory is empty.           *)

FileWithinLimit ==
    file # NoFile => /\ IsFiniteSet(HeldIn(file.held))
                     /\ Cardinality(HeldIn(file.held)) <= MaxEntries

LimitInv ==
    /\ TypeOK
    /\ up => cipher \in EncryptionKeys
    /\ ~up => held = Nothing
    /\ IsFiniteSet(HeldIn(held)) /\ Cardinality(HeldIn(held)) <= MaxEntries
    /\ FileWithinLimit

LEMMA InitLimit == Init => LimitInv
  <1> SUFFICES ASSUME Init PROVE LimitInv
    OBVIOUS
  <1>1. TypeOK /\ held = Nothing /\ ~up /\ file = NoFile
    BY DEF Init, TypeOK, Nothing
  <1>2. HeldIn(held) = {}
    BY <1>1 DEF HeldIn, Nothing
  <1> QED
    BY <1>1, <1>2, FS_EmptySet, StoreAssumption DEF LimitInv, FileWithinLimit

LEMMA KeepLimit ==
    ASSUME LimitInv, NEW S, Keep(S)
    PROVE  /\ held' \in Entries /\ older' \in SUBSET (Keys \X Keys)
           /\ \A k \in Keys : held'[k] \in {NoToken, held[k]}
           /\ \A k \in Keys : k \notin S => held'[k] = NoToken
           /\ IsFiniteSet(HeldIn(held')) /\ Cardinality(HeldIn(held')) <= MaxEntries
  <1>1. held \in Entries /\ older \in SUBSET (Keys \X Keys)
    BY DEF LimitInv, TypeOK, Entries
  <1>2. held' = Only(held, S) /\ older' = Among(older, S)
    BY DEF Keep
  <1>3. /\ held' \in Entries /\ older' \in SUBSET (Keys \X Keys)
        /\ \A k \in Keys : held'[k] \in {NoToken, held[k]}
        /\ \A k \in Keys : k \notin S => held'[k] = NoToken
    BY <1>1, <1>2, OnlyFacts, AmongFacts
  <1>4. IsFiniteSet(HeldIn(held)) /\ Cardinality(HeldIn(held)) <= MaxEntries
    BY DEF LimitInv
  <1> QED
    BY <1>1, <1>3, <1>4, FewerEntries

LEMMA PersistLimit ==
    ASSUME LimitInv, up, held' \in Entries, older' \in SUBSET (Keys \X Keys),
           IsFiniteSet(HeldIn(held')), Cardinality(HeldIn(held')) <= MaxEntries,
           Persist \/ UNCHANGED file
    PROVE  file' \in Files \cup {NoFile} /\ FileWithinLimit'
  <1>1. CASE UNCHANGED file
    BY <1>1 DEF LimitInv, TypeOK, FileWithinLimit
  <1>2. CASE file' = [held |-> Only(held', RefreshKeys),
                      older |-> Among(older', RefreshKeys), key |-> cipher]
    <2>1. /\ Only(held', RefreshKeys) \in Entries
          /\ \A k \in Keys : Only(held', RefreshKeys)[k] \in {NoToken, held'[k]}
      BY OnlyFacts
    <2>2. Among(older', RefreshKeys) \in SUBSET (Keys \X Keys)
      BY AmongFacts
    <2>3. file' \in Files
      BY <1>2, <2>1, <2>2 DEF Files, Entries, LimitInv
    <2>4. /\ IsFiniteSet(HeldIn(Only(held', RefreshKeys)))
          /\ Cardinality(HeldIn(Only(held', RefreshKeys))) <= MaxEntries
      BY <2>1, FewerEntries
    <2>5. file'.held = Only(held', RefreshKeys)
      BY <1>2
    <2> QED
      BY <2>3, <2>4, <2>5 DEF FileWithinLimit
  <1> QED
    BY <1>1, <1>2 DEF Persist

\* Evicting one entry of a full store makes room for one more.
LEMMA RoomFacts ==
    ASSUME LimitInv, NEW k \in Keys, NEW t \in Tokens, NEW S \in SUBSET Held, Room(S),
           held' = [Only(held, S) EXCEPT ![k] = t]
    PROVE  /\ held' \in Entries
           /\ \A x \in Keys \ {k} : held'[x] \in {NoToken, held[x]}
           /\ held'[k] = t
           /\ IsFiniteSet(HeldIn(held')) /\ Cardinality(HeldIn(held')) <= MaxEntries
  <1>1. held \in Entries
    BY DEF LimitInv, TypeOK, Entries
  <1>2. /\ Only(held, S) \in Entries
        /\ \A x \in Keys : Only(held, S)[x] \in {NoToken, held[x]}
        /\ \A x \in Keys : x \notin S => Only(held, S)[x] = NoToken
    BY <1>1, OnlyFacts
  <1>3. /\ held' \in Entries /\ held'[k] = t
        /\ \A x \in Keys \ {k} : held'[x] = Only(held, S)[x]
    BY <1>2 DEF Entries
  <1>4. HeldIn(held') \subseteq S \cup {k}
    BY <1>2, <1>3 DEF HeldIn
  <1>5. Held = HeldIn(held) /\ IsFiniteSet(Held) /\ Cardinality(Held) <= MaxEntries
    BY DEF Held, HeldIn, LimitInv
  <1>6. Cardinality(Held) \in Nat
    BY <1>5, FS_CardinalityType
  <1>7. IsFiniteSet(S) /\ Cardinality(S) \in Nat /\ Cardinality(S) + 1 <= MaxEntries
    <2>1. CASE Cardinality(Held) >= MaxEntries
      <3>1. PICK v \in Keys : Oldest(v) /\ S = Held \ {v}
        BY <2>1 DEF Room
      <3>2. v \in Held
        BY <3>1 DEF Oldest
      <3>3. IsFiniteSet(S) /\ Cardinality(S) = Cardinality(Held) - 1
        BY <1>5, <3>1, <3>2, FS_RemoveElement
      <3> QED
        BY <1>5, <1>6, <3>3, FS_CardinalityType, StoreAssumption
    <2>2. CASE ~(Cardinality(Held) >= MaxEntries)
      <3>1. S = Held
        BY <2>2 DEF Room
      <3> QED
        BY <1>5, <1>6, <2>2, <3>1, StoreAssumption
    <2> QED
      BY <2>1, <2>2
  <1>8. /\ IsFiniteSet(S \cup {k}) /\ Cardinality(S \cup {k}) \in Nat
        /\ Cardinality(S \cup {k}) <= Cardinality(S) + 1
    <2>1. /\ IsFiniteSet(S \cup {k})
          /\ Cardinality(S \cup {k}) =
                IF k \in S THEN Cardinality(S) ELSE Cardinality(S) + 1
      BY <1>7, FS_AddElement
    <2> QED
      BY <1>7, <2>1
  <1>9. /\ IsFiniteSet(HeldIn(held')) /\ Cardinality(HeldIn(held')) \in Nat
        /\ Cardinality(HeldIn(held')) <= Cardinality(S \cup {k})
    BY <1>4, <1>8, FS_Subset, FS_CardinalityType
  <1> QED
    BY <1>2, <1>3, <1>7, <1>8, <1>9, StoreAssumption

LEMMA CipherType ==
    ASSUME TypeOK, NEW k \in EncryptionKeys, ChooseCipher(k)
    PROVE  keyFile' \in EncryptionKeys \cup {NoKey}
  BY DEF ChooseCipher, TypeOK

LEMMA SetLimit ==
    ASSUME LimitInv, NEW k \in Keys, NEW t \in Tokens, Set(k, t)
    PROVE  LimitInv'
  <1>1. PICK S \in SUBSET Held :
            /\ Room(S)
            /\ held' = [Only(held, S) EXCEPT ![k] = t]
            /\ older' = Among(older, S \ {k}) \cup ((S \ {k}) \X {k})
    BY DEF Set
  <1>2. /\ held' \in Entries
        /\ IsFiniteSet(HeldIn(held')) /\ Cardinality(HeldIn(held')) <= MaxEntries
    BY <1>1, RoomFacts
  <1>3. older' \in SUBSET (Keys \X Keys)
    <2>1. Among(older, S \ {k}) \in SUBSET (Keys \X Keys)
      BY AmongFacts DEF LimitInv, TypeOK
    <2>2. S \subseteq Keys
      BY DEF Held
    <2> QED
      BY <1>1, <2>1, <2>2
  <1>4. up /\ (Persist \/ UNCHANGED file)
    BY DEF Set
  <1>5. file' \in Files \cup {NoFile} /\ FileWithinLimit'
    BY <1>2, <1>3, <1>4, PersistLimit
  <1>6. TypeOK'
    BY <1>2, <1>3, <1>5 DEF Set, Persist, TypeOK, LimitInv, Entries
  <1> QED
    BY <1>2, <1>4, <1>5, <1>6 DEF Set, LimitInv

LEMMA StartLimit ==
    ASSUME LimitInv, NEW k \in EncryptionKeys, Start(k)
    PROVE  LimitInv'
  <1>1. keyFile' \in EncryptionKeys \cup {NoKey}
    BY CipherType DEF Start, LimitInv
  <1>2. /\ ~up /\ held = Nothing /\ UNCHANGED <<file, expired, last>>
    BY DEF Start, LimitInv
  <1>3. FileWithinLimit'
    BY <1>2 DEF LimitInv, FileWithinLimit
  <1>h. blind' \in BOOLEAN /\ saved' \in BOOLEAN /\ lost' \in BOOLEAN
    BY DEF Start, LimitInv, TypeOK
  <1>4. CASE UNCHANGED <<held, older>> /\ (Begin(k) \/ UNCHANGED <<up, cipher>>)
    <2>1. /\ held' = held /\ older' = older /\ file' = file
          /\ expired' = expired /\ last' = last
      BY <1>2, <1>4
    <2>2. up' \in BOOLEAN /\ cipher' \in EncryptionKeys \cup {NoKey}
      BY <1>4 DEF Begin, LimitInv, TypeOK
    <2>3. up' => cipher' \in EncryptionKeys
      BY <1>2, <1>4 DEF Begin
    <2>4. TypeOK'
      BY <1>1, <1>h, <2>1, <2>2 DEF LimitInv, TypeOK
    <2> QED
      BY <1>2, <1>3, <2>1, <2>3, <2>4 DEF LimitInv
  <1>5. CASE /\ file = NoFile /\ Begin(k)
             /\ held' = Nothing /\ older' = {}
    BY <1>1, <1>2, <1>3, <1>5, <1>h DEF Begin, LimitInv, TypeOK
  <1>6. CASE /\ file # NoFile /\ Begin(k)
             /\ held' = Only(file.held, Loaded) /\ older' = Among(file.older, Loaded)
    <2>1. file.held \in Entries /\ file.older \in SUBSET (Keys \X Keys)
      BY <1>6 DEF LimitInv, TypeOK, Files, Entries
    <2>2. /\ held' \in Entries /\ older' \in SUBSET (Keys \X Keys)
          /\ \A x \in Keys : held'[x] \in {NoToken, file.held[x]}
      BY <1>6, <2>1, OnlyFacts, AmongFacts
    <2>3. IsFiniteSet(HeldIn(file.held)) /\ Cardinality(HeldIn(file.held)) <= MaxEntries
      BY <1>6 DEF LimitInv, FileWithinLimit
    <2>4. IsFiniteSet(HeldIn(held')) /\ Cardinality(HeldIn(held')) <= MaxEntries
      BY <2>1, <2>2, <2>3, FewerEntries
    <2>5. TypeOK'
      BY <1>1, <1>2, <1>6, <1>h, <2>2 DEF Begin, TypeOK, LimitInv, Entries
    <2> QED
      BY <1>3, <1>6, <2>4, <2>5 DEF Begin, LimitInv
  <1> QED
    BY <1>4, <1>5, <1>6 DEF Start

LEMMA StepLimit == LimitInv /\ [Next]_vars => LimitInv'
  <1> SUFFICES ASSUME LimitInv, [Next]_vars PROVE LimitInv'
    OBVIOUS
  <1>t. TypeOK
    BY DEF LimitInv
  <1>1. ASSUME NEW k \in EncryptionKeys, Start(k) PROVE LimitInv'
    BY <1>1, StartLimit
  <1>a. ASSUME Keep({}), up' = FALSE, file' \in {file, NoFile},
               UNCHANGED <<cipher, keyFile, expired, last>>,
               blind' \in BOOLEAN, saved' \in BOOLEAN, lost' \in BOOLEAN
        PROVE  LimitInv'
    <2>1. /\ held' \in Entries /\ older' \in SUBSET (Keys \X Keys)
          /\ \A k \in Keys : held'[k] = NoToken
          /\ IsFiniteSet(HeldIn(held')) /\ Cardinality(HeldIn(held')) <= MaxEntries
      BY <1>a, KeepLimit
    <2>2. held' = Nothing
      BY <2>1 DEF Nothing, Entries
    <2>3. file' \in Files \cup {NoFile} /\ FileWithinLimit'
      BY <1>a, <1>t DEF LimitInv, FileWithinLimit, TypeOK
    <2>4. TypeOK'
      BY <1>a, <1>t, <2>1, <2>3 DEF TypeOK, Entries
    <2> QED
      BY <1>a, <2>1, <2>2, <2>3, <2>4 DEF LimitInv
  <1>2. CASE Kill
    BY <1>2, <1>a, <1>t DEF Kill, Stop, TypeOK
  <1>3. CASE Shutdown
    BY <1>3, <1>a, <1>t DEF Shutdown, Stop, TypeOK
  <1>4. CASE RemoveFile
    BY <1>4, <1>t DEF RemoveFile, history, Nothing, LimitInv, TypeOK, FileWithinLimit
  <1>b. ASSUME up, NEW S, Keep(S), last' \in Entries, Persist \/ UNCHANGED file,
               UNCHANGED <<up, cipher, keyFile, expired, blind, lost>>,
               saved' \in BOOLEAN
        PROVE  LimitInv'
    <2>1. /\ held' \in Entries /\ older' \in SUBSET (Keys \X Keys)
          /\ IsFiniteSet(HeldIn(held')) /\ Cardinality(HeldIn(held')) <= MaxEntries
      BY <1>b, KeepLimit
    <2>2. file' \in Files \cup {NoFile} /\ FileWithinLimit'
      BY <1>b, <2>1, PersistLimit
    <2>3. TypeOK'
      BY <1>b, <1>t, <2>1, <2>2 DEF TypeOK, Entries
    <2> QED
      BY <1>b, <2>1, <2>2, <2>3 DEF LimitInv
  <1>5. ASSUME NEW k \in Keys, Get(k) PROVE LimitInv'
    <2>1. last' \in Entries
      BY <1>5, <1>t DEF Get, TypeOK, Entries
    <2> QED
      BY <1>5, <1>b, <1>t, <2>1 DEF Get, history, TypeOK
  <1>6. ASSUME NEW k \in Keys, Invalidate(k) PROVE LimitInv'
    <2>1. last' \in Entries
      BY <1>6, <1>t DEF Invalidate, TypeOK, Entries
    <2> QED
      BY <1>6, <1>b, <1>t, <2>1 DEF Invalidate, Persist, TypeOK
  <1>7. ASSUME NEW P \in Patterns, InvalidatePattern(P) PROVE LimitInv'
    <2>1. last \in Entries
      BY <1>t DEF TypeOK, Entries
    <2>2. last' \in Entries
      BY <1>7, <2>1, OnlyFacts DEF InvalidatePattern
    <2> QED
      BY <1>7, <1>b, <1>t, <2>2 DEF InvalidatePattern, history, TypeOK
  <1>8. ASSUME NEW k \in Keys, NEW t \in Tokens, Set(k, t) PROVE LimitInv'
    BY <1>8, SetLimit
  <1>9. ASSUME NEW t \in Tokens, TokenExpires(t) PROVE LimitInv'
    BY <1>9, <1>t DEF TokenExpires, history, LimitInv, TypeOK, FileWithinLimit
  <1>10. CASE UNCHANGED vars
    BY <1>10, <1>t DEF vars, history, LimitInv, TypeOK, FileWithinLimit
  <1> QED
    BY <1>1, <1>2, <1>3, <1>4, <1>5, <1>6, <1>7, <1>8, <1>9, <1>10 DEF Next

\* Every variable keeps its type.
THEOREM TypeCorrect == Spec => []TypeOK
  <1>1. LimitInv => TypeOK
    BY DEF LimitInv
  <1> QED
    BY <1>1, InitLimit, StepLimit, PTL DEF Spec

\* The store never exceeds max_entries: not by overwriting, and not by loading
\* what an earlier process saved.
THEOREM LimitKept == Spec => []WithinLimit
  <1>1. LimitInv => WithinLimit
    BY DEF LimitInv, WithinLimit, Held, HeldIn
  <1> QED
    BY <1>1, InitLimit, StepLimit, PTL DEF Spec

-----------------------------------------------------------------------------
(* What memory and file say of a key: its latest token, or nothing. The     *)
(* file has refresh tokens only, which patterns must leave alone, and it is  *)
(* as fresh as memory unless the last write failed.                         *)

PatternsSpareRefresh == \A P \in Patterns : P \cap RefreshKeys = {}

FileFresh ==
    file # NoFile => \A k \in Keys :
        /\ saved /\ ~lost => file.held[k] \in {NoToken, last[k]}
        /\ k \notin RefreshKeys => file.held[k] = NoToken

\* A failed write is only remembered by the process that made it.
StaleInv == LimitInv /\ NothingStale /\ FileFresh /\ (~up => saved)

\* After a successful write the file is as fresh as memory, after a failed one
\* it is not relied on.
LEMMA PersistFresh ==
    ASSUME held' \in Entries, Persist, FileFresh, UNCHANGED lost,
           ~lost => \A k \in Keys : held'[k] \in {NoToken, last'[k]}
    PROVE  FileFresh'
  <1>1. CASE UNCHANGED file /\ saved' = FALSE
    BY <1>1 DEF FileFresh
  <1>2. CASE file' = [held |-> Only(held', RefreshKeys),
                      older |-> Among(older', RefreshKeys), key |-> cipher]
    <2>1. file'.held = Only(held', RefreshKeys)
      BY <1>2
    <2>2. /\ \A k \in Keys : Only(held', RefreshKeys)[k] \in {NoToken, held'[k]}
          /\ \A k \in Keys : k \notin RefreshKeys => Only(held', RefreshKeys)[k] = NoToken
      BY OnlyFacts
    <2> QED
      BY <2>1, <2>2 DEF FileFresh
  <1> QED
    BY <1>1, <1>2 DEF Persist

LEMMA StepStale ==
    ASSUME PatternsSpareRefresh
    PROVE  StaleInv /\ [Next]_vars => StaleInv'
  <1> SUFFICES ASSUME StaleInv, [Next]_vars PROVE StaleInv'
    OBVIOUS
  <1>l. LimitInv /\ LimitInv' /\ TypeOK /\ held \in Entries /\ held' \in Entries
    BY StepLimit DEF StaleInv, LimitInv, TypeOK, Entries
  <1>o. last \in Entries
    BY <1>l DEF TypeOK, Entries
  <1>f. ~lost => \A k \in Keys : held[k] \in {NoToken, last[k]}
    BY DEF StaleInv, NothingStale
  <1>g. FileFresh /\ (~up => saved)
    BY DEF StaleInv
  <1>s. (~up => saved)'
    <2>1. CASE UNCHANGED saved /\ (up' \/ UNCHANGED up)
      BY <1>g, <2>1
    <2>2. ASSUME NEW k \in EncryptionKeys, Start(k) PROVE (~up => saved)'
      BY <2>1, <2>2 DEF Start, Begin
    <2>3. CASE Kill \/ Shutdown
      BY <2>3 DEF Kill, Shutdown, Stop
    <2>4. CASE RemoveFile \/ UNCHANGED vars
      BY <2>1, <2>4 DEF RemoveFile, vars, history
    <2>5. ASSUME NEW k \in Keys, Get(k) \/ Invalidate(k) \/ \E t \in Tokens : Set(k, t)
          PROVE  (~up => saved)'
      BY <2>5 DEF Get, Invalidate, Set
    <2>6. ASSUME NEW P \in Patterns, InvalidatePattern(P) PROVE (~up => saved)'
      BY <2>1, <2>6 DEF InvalidatePattern, history
    <2>7. ASSUME NEW t \in Tokens, TokenExpires(t) PROVE (~up => saved)'
      BY <2>1, <2>7 DEF TokenExpires, history
    <2> QED
      BY <2>2, <2>3, <2>4, <2>5, <2>6, <2>7 DEF Next
  <1> SUFFICES NothingStale' /\ FileFresh'
    BY <1>l, <1>s DEF StaleInv
  <1>1. ASSUME NEW k \in EncryptionKeys, Start(k) PROVE NothingStale' /\ FileFresh'
    <2>1. ~up /\ UNCHANGED <<file, last, saved, lost>>
      BY <1>1 DEF Start
    <2>2. FileFresh'
      BY <1>g, <2>1 DEF FileFresh
    <2>3. CASE UNCHANGED held \/ held' = Nothing
      BY <1>f, <2>1, <2>2, <2>3 DEF NothingStale, Nothing
    <2>4. CASE file # NoFile /\ held' = Only(file.held, Loaded)
      <3>1. file.held \in Entries
        BY <1>l, <2>4 DEF TypeOK, Files, Entries
      <3>2. \A x \in Keys : held'[x] \in {NoToken, file.held[x]}
        BY <2>4, <3>1, OnlyFacts
      <3> QED
        BY <1>g, <2>1, <2>2, <2>4, <3>2 DEF FileFresh, NothingStale
    <2> QED
      BY <1>1, <2>3, <2>4 DEF Start
  <1>a. ASSUME NEW S, Keep(S), UNCHANGED <<last, file, saved, lost>>
        PROVE  NothingStale' /\ FileFresh'
    <2>1. \A k \in Keys : held'[k] \in {NoToken, held[k]}
      BY <1>a, <1>l, KeepLimit
    <2> QED
      BY <1>a, <1>f, <1>g, <2>1 DEF NothingStale, FileFresh
  <1>c. ASSUME Stop, file' \in {file, NoFile} PROVE NothingStale' /\ FileFresh'
    <2>1. \A k \in Keys : held'[k] = NoToken
      BY <1>c, <1>l, KeepLimit DEF Stop
    <2>2. UNCHANGED last /\ lost' = (lost \/ ~saved)
      BY <1>c DEF Stop
    <2> QED
      BY <1>c, <1>g, <2>1, <2>2 DEF NothingStale, FileFresh
  <1>2. CASE Kill
    BY <1>2, <1>c DEF Kill
  <1>3. CASE Shutdown
    BY <1>3, <1>c DEF Shutdown
  <1>4. CASE RemoveFile
    <2>1. held' = Nothing /\ file' = NoFile
      BY <1>4, <1>l DEF RemoveFile, LimitInv
    <2> QED
      BY <2>1 DEF NothingStale, FileFresh, Nothing
  <1>5. ASSUME NEW k \in Keys, Get(k) PROVE NothingStale' /\ FileFresh'
    BY <1>5, <1>a DEF Get, history
  <1>b. ASSUME NEW k \in Keys, last'[k] = held'[k], UNCHANGED lost,
               \A x \in Keys \ {k} : last'[x] = last[x] /\ held'[x] \in {NoToken, held[x]},
               IF k \in RefreshKeys THEN Persist ELSE UNCHANGED <<file, saved>>
        PROVE  NothingStale' /\ FileFresh'
    <2>1. ~lost => \A x \in Keys : held'[x] \in {NoToken, last'[x]}
      BY <1>b, <1>f
    <2>2. NothingStale'
      BY <1>b, <2>1 DEF NothingStale
    <2>3. CASE k \in RefreshKeys
      BY <1>b, <1>g, <1>l, <2>1, <2>2, <2>3, PersistFresh
    <2>4. CASE k \notin RefreshKeys
      <3>1. UNCHANGED <<file, saved>>
        BY <1>b, <2>4
      <3>2. FileFresh'
        BY <1>b, <1>g, <2>4, <3>1 DEF FileFresh
      <3> QED
        BY <2>2, <3>2
    <2> QED
      BY <2>3, <2>4
  <1>6. ASSUME NEW k \in Keys, Invalidate(k) PROVE NothingStale' /\ FileFresh'
    <2>1. /\ \A x \in Keys : held'[x] \in {NoToken, held[x]}
          /\ \A x \in Keys : x \notin Held \ {k} => held'[x] = NoToken
      BY <1>6, <1>l, KeepLimit DEF Invalidate
    <2>2. last'[k] = NoToken /\ \A x \in Keys \ {k} : last'[x] = last[x]
      BY <1>6, <1>o DEF Invalidate, Entries
    <2> QED
      BY <1>6, <1>b, <2>1, <2>2 DEF Invalidate
  <1>7. ASSUME NEW P \in Patterns, InvalidatePattern(P) PROVE NothingStale' /\ FileFresh'
    <2>1. /\ \A x \in Keys : held'[x] \in {NoToken, held[x]}
          /\ \A x \in Keys : x \notin Held \ P => held'[x] = NoToken
      BY <1>7, <1>l, KeepLimit DEF InvalidatePattern
    <2>2. /\ \A x \in Keys : x \notin P => last'[x] = last[x]
          /\ \A x \in RefreshKeys : x \notin P
      BY <1>7, <1>o, OnlyFacts DEF InvalidatePattern, PatternsSpareRefresh
    <2>3. UNCHANGED <<file, saved, lost>>
      BY <1>7 DEF InvalidatePattern, history
    <2>4. NothingStale'
      BY <1>f, <2>1, <2>2, <2>3 DEF NothingStale
    <2>5. FileFresh'
      BY <1>g, <2>2, <2>3 DEF FileFresh
    <2> QED
      BY <2>4, <2>5
  <1>8. ASSUME NEW k \in Keys, NEW t \in Tokens, Set(k, t) PROVE NothingStale' /\ FileFresh'
    <2>1. /\ held'[k] = t
          /\ \A x \in Keys \ {k} : held'[x] \in {NoToken, held[x]}
      BY <1>8, <1>l, RoomFacts DEF Set
    <2>2. last'[k] = t /\ \A x \in Keys \ {k} : last'[x] = last[x]
      BY <1>8, <1>o DEF Set, Entries
    <2>3. UNCHANGED lost /\ IF k \in RefreshKeys THEN Persist ELSE UNCHANGED <<file, saved>>
      BY <1>8 DEF Set
    <2> QED
      BY <1>b, <2>1, <2>2, <2>3
  <1>9. ASSUME NEW t \in Tokens, TokenExpires(t) PROVE NothingStale' /\ FileFresh'
    BY <1>9, <1>f, <1>g DEF TokenExpires, history, NothingStale, FileFresh
  <1>10. CASE UNCHANGED vars
    BY <1>10, <1>f, <1>g DEF vars, history, NothingStale, FileFresh
  <1> QED
    BY <1>1, <1>2, <1>3, <1>4, <1>5, <1>6, <1>7, <1>8, <1>9, <1>10 DEF Next

\* If no pattern matches a refresh token, then a token that was replaced or
\* invalidated never comes back, unless a process ended after a failed write.
THEOREM NothingComesBack ==
    ASSUME PatternsSpareRefresh
    PROVE  Spec => []NothingStale
  <1>1. Init => StaleInv
    BY InitLimit DEF Init, StaleInv, NothingStale, FileFresh, Nothing
  <1>2. StaleInv => NothingStale
    BY DEF StaleInv
  <1> QED
    BY <1>1, <1>2, StepStale, PTL DEF Spec

-----------------------------------------------------------------------------
(* Memory has no refresh token that the file lacks.                         *)

LEMMA PersistCovers ==
    ASSUME held' \in Entries, Persist, Only(held', RefreshKeys) \in Entries,
           cipher \in EncryptionKeys, older' \in SUBSET (Keys \X Keys)
    PROVE  CrashSafe'
  <1>1. CASE saved' = FALSE
    BY <1>1 DEF CrashSafe
  <1>2. CASE file' = [held |-> Only(held', RefreshKeys),
                      older |-> Among(older', RefreshKeys), key |-> cipher]
    <2>1. Among(older', RefreshKeys) \in SUBSET (Keys \X Keys)
      BY AmongFacts
    <2>2. file' # NoFile
      BY <1>2, <2>1, StoreAssumption DEF Files, Entries
    <2>3. file'.held = Only(held', RefreshKeys)
      BY <1>2
    <2>4. \A k \in RefreshKeys : Only(held', RefreshKeys)[k] = held'[k]
      BY OnlyFacts, StoreAssumption
    <2> QED
      BY <2>2, <2>3, <2>4 DEF CrashSafe
  <1> QED
    BY <1>1, <1>2 DEF Persist

LEMMA StepCrash == (LimitInv /\ CrashSafe) /\ [Next]_vars => (LimitInv /\ CrashSafe)'
  <1> SUFFICES ASSUME LimitInv, CrashSafe, [Next]_vars PROVE CrashSafe'
    BY StepLimit
  <1>l. LimitInv' /\ TypeOK /\ held \in Entries /\ held' \in Entries
        /\ older' \in SUBSET (Keys \X Keys)
    BY StepLimit DEF LimitInv, TypeOK, Entries
  <1>r. RefreshKeys \subseteq Keys
    BY StoreAssumption
  <1>1. ASSUME NEW k \in EncryptionKeys, Start(k) PROVE CrashSafe'
    <2>1. UNCHANGED <<file, saved>> /\ held = Nothing
      BY <1>1 DEF Start, LimitInv
    <2>2. CASE held' = Nothing
      BY <1>r, <2>2 DEF CrashSafe, Nothing
    <2>3. CASE file # NoFile /\ held' = Only(file.held, Loaded)
      <3>1. file.held \in Entries
        BY <1>l, <2>3 DEF TypeOK, Files, Entries
      <3>2. \A x \in Keys : held'[x] \in {NoToken, file.held[x]}
        BY <2>3, <3>1, OnlyFacts
      <3> QED
        BY <1>r, <2>1, <2>3, <3>2 DEF CrashSafe
    <2> QED
      BY <1>1, <2>1, <2>2, <2>3 DEF Start
  <1>a. ASSUME NEW S, Keep(S), UNCHANGED <<file, saved>> PROVE CrashSafe'
    <2>1. \A k \in Keys : held'[k] \in {NoToken, held[k]}
      BY <1>a, KeepLimit
    <2> QED
      BY <1>a, <1>r, <2>1 DEF CrashSafe
  <1>b. ASSUME Persist, up PROVE CrashSafe'
    <2>1. Only(held', RefreshKeys) \in Entries /\ cipher \in EncryptionKeys
      BY <1>b, <1>l, OnlyFacts DEF LimitInv
    <2> QED
      BY <1>b, <1>l, <2>1, PersistCovers
  <1>2. CASE Kill \/ Shutdown
    <2>1. \A k \in Keys : held'[k] = NoToken
      BY <1>2, KeepLimit DEF Kill, Shutdown, Stop
    <2> QED
      BY <1>r, <2>1 DEF CrashSafe
  <1>4. CASE RemoveFile
    BY <1>4, <1>r DEF RemoveFile, LimitInv, CrashSafe, Nothing
  <1>5. ASSUME NEW k \in Keys, Get(k) PROVE CrashSafe'
    BY <1>5, <1>a DEF Get, history
  <1>6. ASSUME NEW k \in Keys, Invalidate(k) PROVE CrashSafe'
    BY <1>6, <1>a, <1>b DEF Invalidate
  <1>7. ASSUME NEW P \in Patterns, InvalidatePattern(P) PROVE CrashSafe'
    BY <1>7, <1>a DEF InvalidatePattern, history
  <1>8. ASSUME NEW k \in Keys, NEW t \in Tokens, Set(k, t) PROVE CrashSafe'
    <2>1. CASE k \in RefreshKeys
      BY <1>8, <1>b, <2>1 DEF Set
    <2>2. CASE k \notin RefreshKeys
      <3>1. \A x \in Keys \ {k} : held'[x] \in {NoToken, held[x]}
        BY <1>8, RoomFacts DEF Set
      <3>2. UNCHANGED <<file, saved>>
        BY <1>8, <2>2 DEF Set
      <3> QED
        BY <1>r, <2>2, <3>1, <3>2 DEF CrashSafe
    <2> QED
      BY <2>1, <2>2
  <1>9. ASSUME NEW t \in Tokens, TokenExpires(t) PROVE CrashSafe'
    BY <1>9 DEF TokenExpires, history, CrashSafe
  <1>10. CASE UNCHANGED vars
    BY <1>10 DEF vars, history, CrashSafe
  <1> QED
    BY <1>1, <1>2, <1>4, <1>5, <1>6, <1>7, <1>8, <1>9, <1>10 DEF Next

\* A process may die at any moment, unless its last write failed: every refresh
\* token in memory is in the file with the same value, evictions included.
THEOREM CrashLosesNothing == Spec => []CrashSafe
  <1>1. Init => LimitInv /\ CrashSafe
    BY InitLimit, StoreAssumption DEF Init, CrashSafe, Nothing
  <1> QED
    BY <1>1, StepCrash, PTL DEF Spec

-----------------------------------------------------------------------------
(* A running process that could read the file can decrypt it.               *)

KeyMatches == up /\ ~blind /\ file # NoFile => file.key = cipher

LEMMA StepKey == KeyMatches /\ [Next]_vars => KeyMatches'
  <1> SUFFICES ASSUME KeyMatches, [Next]_vars PROVE KeyMatches'
    OBVIOUS
  <1>1. ASSUME NEW k \in EncryptionKeys, Start(k) PROVE KeyMatches'
    BY <1>1 DEF Start, Begin, Readable, KeyMatches
  <1>a. ASSUME Persist \/ UNCHANGED file, UNCHANGED <<up, cipher, blind>> PROVE KeyMatches'
    BY <1>a DEF Persist, KeyMatches
  <1>2. CASE Kill \/ Shutdown \/ RemoveFile
    BY <1>2 DEF Kill, Shutdown, Stop, RemoveFile, KeyMatches
  <1>3. ASSUME NEW k \in Keys, Get(k) \/ Invalidate(k) \/ \E t \in Tokens : Set(k, t)
        PROVE  KeyMatches'
    BY <1>3, <1>a DEF Get, Invalidate, Set, history
  <1>4. ASSUME NEW P \in Patterns, InvalidatePattern(P) PROVE KeyMatches'
    BY <1>4, <1>a DEF InvalidatePattern, history
  <1>5. ASSUME NEW t \in Tokens, TokenExpires(t) PROVE KeyMatches'
    BY <1>5, <1>a DEF TokenExpires, history
  <1>6. CASE UNCHANGED vars
    BY <1>6, <1>a DEF vars, history
  <1> QED
    BY <1>1, <1>2, <1>3, <1>4, <1>5, <1>6 DEF Next

\* A process that could read the file at its start never replaces or unlinks a
\* file that it cannot decrypt, whatever happens to the key file.
THEOREM FileSparedByBadKey == Spec => BadKeySparesFile
  <1>1. Init => KeyMatches
    BY DEF Init, KeyMatches
  <1>2. KeyMatches /\ [Next]_vars =>
            [up /\ ~blind /\ file # NoFile /\ file' # file => file.key = cipher]_vars
    BY DEF KeyMatches
  <1> QED
    BY <1>1, <1>2, StepKey, PTL DEF Spec, BadKeySparesFile
=============================================================================
