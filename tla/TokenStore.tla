----------------------------- MODULE TokenStore -----------------------------
(***************************************************************************)
(* PersistentTokenStore: every token in memory, the refresh tokens also in  *)
(* an encrypted file that outlives the process.                             *)
(*                                                                         *)
(* No method suspends, so each is one step; a kill in the middle of one is  *)
(* Kill, because the file is replaced in one go. created_at matters only    *)
(* through the order of the entries, kept as the relation older.            *)
(***************************************************************************)
EXTENDS Naturals, FiniteSets

CONSTANTS Keys, RefreshKeys, Tokens, NoToken,
          EncryptionKeys, NoKey, NoFile,
          MaxEntries,  \* 1000 in the code
          Patterns     \* sets of keys that some invalidate_pattern matches

\* What tokens.json may contain.
Files == [held : [Keys -> Tokens \cup {NoToken}], older : SUBSET (Keys \X Keys),
          key : EncryptionKeys]

ASSUME StoreAssumption ==
    /\ RefreshKeys \subseteq Keys
    /\ Patterns \subseteq SUBSET Keys
    /\ MaxEntries \in Nat \ {0}
    /\ NoToken \notin Tokens /\ NoKey \notin EncryptionKeys /\ NoFile \notin Files

VARIABLES
    up,       \* is the server running?
    held,     \* key -> token of its entry in _store
    older,    \* pairs of keys in _store: created_at of the first is smaller
    file,     \* tokens.json: its entries and the key it is encrypted with
    cipher,   \* encryption key of this process
    keyFile,  \* what .encryption.key contains
    expired,  \* tokens within five minutes of their expiry, or past it
    last,     \* history: key -> token it was last given, if not invalidated
    blind,    \* history: this process could not read the file at its start
    saved,    \* history: the last write of the file succeeded
    lost      \* history: some process ended after a write that failed

history == <<blind, saved, lost>>
vars == <<up, held, older, file, cipher, keyFile, expired, last, history>>

Held == {k \in Keys : held[k] # NoToken}
Nothing == [k \in Keys |-> NoToken]
TypeOK ==
    /\ up \in BOOLEAN
    /\ held \in [Keys -> Tokens \cup {NoToken}]
    /\ older \in SUBSET (Keys \X Keys)
    /\ file \in Files \cup {NoFile}
    /\ cipher \in EncryptionKeys \cup {NoKey}
    /\ keyFile \in EncryptionKeys \cup {NoKey}
    /\ expired \in SUBSET Tokens
    /\ last \in [Keys -> Tokens \cup {NoToken}]
    /\ blind \in BOOLEAN /\ saved \in BOOLEAN /\ lost \in BOOLEAN

\* A new installation, before its first start.
Init ==
    /\ up = FALSE
    /\ held = Nothing
    /\ older = {}
    /\ file = NoFile
    /\ cipher = NoKey
    /\ keyFile = NoKey
    /\ expired = {}
    /\ last = Nothing
    /\ blind = FALSE /\ saved = TRUE /\ lost = FALSE

-----------------------------------------------------------------------------
(* Helpers.                                                                *)

\* The entries of h under the keys S, and their order.
Only(h, S) == [k \in Keys |-> IF k \in S THEN h[k] ELSE NoToken]
Among(order, S) == order \cap (S \X S)

\* _store becomes h without the keys outside S.
Keep(S) ==
    /\ held' = Only(held, S)
    /\ older' = Among(older, S)

\* _persist_to_disk: the refresh tokens in memory replace the file. An error is
\* logged and swallowed.
Persist ==
    \/ /\ file' = [held |-> Only(held', RefreshKeys),
                   older |-> Among(older', RefreshKeys), key |-> cipher]
       /\ saved' = TRUE
    \/ UNCHANGED file /\ saved' = FALSE

\* The entry with the smallest created_at.
Oldest(k) == k \in Held /\ \A x \in Held : <<x, k>> \notin older

\* Fault: the limit is exceeded by one.
RoomTooLate(S) ==
    IF Cardinality(Held) > MaxEntries THEN \E k \in Keys : Oldest(k) /\ S = Held \ {k}
    ELSE S = Held

\* S is what a full store keeps to make room for one more entry.
Room(S) ==
    IF Cardinality(Held) >= MaxEntries THEN \E k \in Keys : Oldest(k) /\ S = Held \ {k}
    ELSE S = Held

-----------------------------------------------------------------------------
(* Start, stop and kill.                                                   *)

\* Freshly generated: nothing is encrypted with it.
Fresh(k) == k # keyFile /\ (file # NoFile => file.key # k)

\* The key of the last run, or a new one when the key file is missing or
\* cannot be read; the new one is saved if possible.
ChooseCipher(k) ==
    \/ /\ k = keyFile
       /\ UNCHANGED keyFile
    \/ /\ Fresh(k)
       /\ keyFile' \in {k, keyFile, NoKey}

BeginWithoutCipher(k) == up' = TRUE /\ UNCHANGED cipher  \* fault

Begin(k) == up' = TRUE /\ cipher' = k

ReadableAlways(k) == TRUE  \* fault

Readable(k) == file # NoFile => file.key = k

Loaded == IF file = NoFile THEN {}
          ELSE {r \in RefreshKeys : file.held[r] \notin expired \cup {NoToken}}

\* The store is built and loads the unexpired refresh tokens of the file. A
\* file that the key does not decrypt is refused and the server does not start;
\* one that cannot be read is logged and the store starts empty.
Start(k) ==
    /\ ~up
    /\ ChooseCipher(k)
    /\ \/ /\ Readable(k)
          /\ Begin(k)
          /\ held' = IF file = NoFile THEN Nothing ELSE Only(file.held, Loaded)
          /\ older' = IF file = NoFile THEN {} ELSE Among(file.older, Loaded)
          /\ blind' = FALSE
       \/ /\ file # NoFile
          /\ Begin(k)
          /\ blind' = TRUE
          /\ UNCHANGED <<held, older>>
       \/ /\ ~Readable(k)
          /\ UNCHANGED <<up, cipher, held, older, blind>>
    /\ UNCHANGED <<file, expired, last, saved, lost>>

Stop ==
    /\ up
    /\ up' = FALSE
    /\ Keep({})
    /\ lost' = (lost \/ ~saved)
    /\ saved' = TRUE
    /\ UNCHANGED <<cipher, keyFile, expired, last, blind>>

\* The process dies: memory is lost.
Kill == Stop /\ UNCHANGED file

\* AuthManager.close() clears the store, which unlinks the file if it can.
Shutdown == Stop /\ file' \in {file, NoFile}

\* The operator gives up a file, because no key decrypts it.
RemoveFile ==
    /\ ~up /\ file # NoFile
    /\ file' = NoFile
    /\ last' = Nothing
    /\ UNCHANGED <<up, held, older, cipher, keyFile, expired, history>>

-----------------------------------------------------------------------------
(* Operations.                                                             *)

\* Fault: the file is written before the entry is stored.
SetPersistedFirst(k, t) ==
    /\ up
    /\ \E S \in SUBSET Held :
        /\ Room(S)
        /\ held' = [Only(held, S) EXCEPT ![k] = t]
        /\ older' = Among(older, S \ {k}) \cup ((S \ {k}) \X {k})
    /\ last' = [last EXCEPT ![k] = t]
    /\ IF k \in RefreshKeys
       THEN file' = [held |-> Only(held, RefreshKeys),
                     older |-> Among(older, RefreshKeys), key |-> cipher]
       ELSE UNCHANGED file
    /\ UNCHANGED <<up, cipher, keyFile, expired, history>>

\* A full store evicts its oldest entry, even when k only gets a new token.
Set(k, t) ==
    /\ up
    /\ \E S \in SUBSET Held :
        /\ Room(S)
        /\ held' = [Only(held, S) EXCEPT ![k] = t]
        /\ older' = Among(older, S \ {k}) \cup ((S \ {k}) \X {k})
    /\ last' = [last EXCEPT ![k] = t]
    /\ IF k \in RefreshKeys THEN Persist ELSE UNCHANGED <<file, saved>>
    /\ UNCHANGED <<up, cipher, keyFile, expired, blind, lost>>

\* get drops the entry when it is expired, and now and then every expired one.
\* The file keeps them.
Get(k) ==
    /\ up
    /\ \E asked \in {{k}, Keys} :
        Keep(Held \ {x \in asked : held[x] \in expired})
    /\ UNCHANGED <<up, file, cipher, keyFile, expired, last, history>>

\* Fault: the file is left alone.
InvalidateInMemory(k) ==
    /\ up
    /\ Keep(Held \ {k})
    /\ last' = [last EXCEPT ![k] = NoToken]
    /\ UNCHANGED <<up, file, cipher, keyFile, expired, history>>

Invalidate(k) ==
    /\ up
    /\ Keep(Held \ {k})
    /\ last' = [last EXCEPT ![k] = NoToken]
    /\ IF k \in RefreshKeys THEN Persist ELSE UNCHANGED <<file, saved>>
    /\ UNCHANGED <<up, cipher, keyFile, expired, blind, lost>>

\* The persistent store inherits this one, which knows nothing of the file.
InvalidatePattern(P) ==
    /\ up
    /\ Keep(Held \ P)
    /\ last' = Only(last, Keys \ P)
    /\ UNCHANGED <<up, file, cipher, keyFile, expired, history>>

TokenExpires(t) ==
    /\ t \notin expired
    /\ expired' = expired \cup {t}
    /\ UNCHANGED <<up, held, older, file, cipher, keyFile, last, history>>

Next ==
    \/ \E k \in EncryptionKeys : Start(k)
    \/ Kill \/ Shutdown \/ RemoveFile
    \/ \E k \in Keys : Get(k) \/ Invalidate(k) \/ \E t \in Tokens : Set(k, t)
    \/ \E P \in Patterns : InvalidatePattern(P)
    \/ \E t \in Tokens : TokenExpires(t)

Spec == Init /\ [][Next]_vars

-----------------------------------------------------------------------------
(* Properties.                                                             *)

\* The store never has more than max_entries entries, not after a load either.
WithinLimit == Cardinality(Held) <= MaxEntries

\* A token that was replaced or invalidated is gone, and no restart brings it
\* back: a key has the token it was last given or none, unless a process ended
\* before it could repeat a write that had failed.
NothingStale ==
    ~lost => \A k \in Keys : held[k] \in {NoToken, last[k]}

\* While writes succeed, losing the process loses no refresh token: the file
\* has every one that memory has.
CrashSafe ==
    saved => \A k \in RefreshKeys : held[k] # NoToken =>
        file # NoFile /\ file.held[k] = held[k]

\* Only a process that can decrypt the file replaces or unlinks it, if it could
\* read the file at all.
BadKeySparesFile ==
    [][up /\ ~blind /\ file # NoFile /\ file' # file => file.key = cipher]_vars

\* A refresh token that was stored and neither invalidated nor expired is there
\* whenever a server runs that could read its file, before and after restarts.
KeptAcrossRestarts ==
    up /\ ~blind /\ ~lost => \A k \in RefreshKeys :
        last[k] \in expired \cup {NoToken} \/ held[k] = last[k]
=============================================================================
