--------------------------- MODULE DirectProvider ---------------------------
(***************************************************************************)
(* The direct provider: one object for all sessions, with one active        *)
(* region, a local access token, the tokens it keeps by region in the token *)
(* store, and a lock around the exchange of its refresh token. Calls ask it *)
(* for credentials while the region is switched by the region tool or       *)
(* restored with a session. Only the wait for the lock and the exchange     *)
(* suspend a call.                                                         *)
(***************************************************************************)

CONSTANTS Regions, Calls, NoToken, DefaultRegion

ASSUME DirectAssumption ==
    /\ DefaultRegion \in Regions
    /\ NoToken \notin [from : Regions, tag : Regions, fresh : BOOLEAN]

VARIABLES
    signedIn,   \* the provider holds a refresh token
    inSecure,   \* the secure store holds one
    region,     \* _region
    local,      \* _access_token
    stored,     \* region -> access token in the token store
    calls,      \* call -> where it is suspended
    endpoint,   \* call -> region of the endpoint it posts to
    sent,       \* call -> regions of the token and of the URL it was last given
    tainted,    \* history: a switch overlapped an exchange or kept a token
    current     \* history: nothing has made the last exchange obsolete

directVars == <<signedIn, inSecure, region, local, stored, calls, endpoint,
                sent, tainted, current>>

\* from: the region it was exchanged in; tag: the region it is labelled with.
AccessTokens == [from : Regions, tag : Regions, fresh : BOOLEAN]

\* Types of the provider's state; at most one call holds the lock.
DirectTypeOK ==
    /\ signedIn \in BOOLEAN /\ inSecure \in BOOLEAN
    /\ region \in Regions
    /\ local \in AccessTokens \cup {NoToken}
    /\ stored \in [Regions -> AccessTokens \cup {NoToken}]
    /\ calls \in [Calls -> {"idle", "waiting", "posting"}]
    /\ endpoint \in [Calls -> Regions]
    /\ sent \in [Calls -> [token : Regions, url : Regions]]
    /\ tainted \in BOOLEAN /\ current \in BOOLEAN
    /\ \A c, d \in Calls : calls[c] = "posting" /\ calls[d] = "posting" => c = d

Issued(from, tag) == [from |-> from, tag |-> tag, fresh |-> TRUE]

\* A token store that persists may hold tokens of an earlier run.
DirectInit ==
    /\ signedIn \in BOOLEAN /\ inSecure \in BOOLEAN
    /\ region = DefaultRegion
    /\ local = NoToken
    /\ \E kept \in SUBSET Regions :
         stored = [r \in Regions |-> IF r \in kept THEN Issued(r, r) ELSE NoToken]
    /\ calls = [c \in Calls |-> "idle"]
    /\ endpoint = [c \in Calls |-> DefaultRegion]
    /\ sent = [c \in Calls |-> [token |-> DefaultRegion, url |-> DefaultRegion]]
    /\ tainted = FALSE /\ current = FALSE

Fresh(t) == t # NoToken /\ t.fresh

Free == \A c \in Calls : calls[c] # "posting"

-----------------------------------------------------------------------------
\* The headers look in the store once more; without a refresh token they
\* carry no token at all.
Credentials(c, store, token, has) ==
    /\ calls' = [calls EXCEPT ![c] = "idle"]
    /\ local' = IF has /\ Fresh(store[region]) THEN store[region] ELSE token
    /\ sent' = IF has
               THEN [sent EXCEPT ![c] = [token |-> local'.from, url |-> region]]
               ELSE sent

\* get_token: from the store, or failing that from the provider.
GetToken(c) ==
    /\ calls[c] = "idle"
    /\ \/ /\ Fresh(stored[region]) \/ Fresh(local)
          /\ Credentials(c, stored,
                         IF Fresh(stored[region]) THEN stored[region] ELSE local,
                         signedIn)
       \/ /\ ~Fresh(stored[region]) /\ ~Fresh(local)
          /\ calls' = [calls EXCEPT ![c] = "waiting"]
          /\ UNCHANGED <<local, sent>>
    /\ UNCHANGED <<signedIn, inSecure, region, stored, endpoint, tainted, current>>

\* Under the lock: another call has refreshed in the meantime.
Reuse(c) ==
    /\ calls[c] = "waiting" /\ Free
    /\ Fresh(local)
    /\ Credentials(c, stored, local, signedIn)
    /\ UNCHANGED <<signedIn, inSecure, region, stored, endpoint, tainted, current>>

\* Fault: the call that gets the lock does not look whether another refreshed.
PostUnchecked(c) ==
    /\ calls[c] = "waiting" /\ Free
    /\ signedIn \/ inSecure
    /\ signedIn' = TRUE
    /\ calls' = [calls EXCEPT ![c] = "posting"]
    /\ endpoint' = [endpoint EXCEPT ![c] = region]
    /\ UNCHANGED <<inSecure, region, local, stored, sent, tainted, current>>

\* Fault: the exchange is not under the lock.
PostUnlocked(c) ==
    /\ calls[c] = "waiting"
    /\ ~Fresh(local)
    /\ signedIn \/ inSecure
    /\ signedIn' = TRUE
    /\ calls' = [calls EXCEPT ![c] = "posting"]
    /\ endpoint' = [endpoint EXCEPT ![c] = region]
    /\ UNCHANGED <<inSecure, region, local, stored, sent, tainted, current>>

\* Under the lock: the refresh token goes to the endpoint of this moment.
Post(c) ==
    /\ calls[c] = "waiting" /\ Free
    /\ ~Fresh(local)
    /\ signedIn \/ inSecure
    /\ signedIn' = TRUE
    /\ calls' = [calls EXCEPT ![c] = "posting"]
    /\ endpoint' = [endpoint EXCEPT ![c] = region]
    /\ UNCHANGED <<inSecure, region, local, stored, sent, tainted, current>>

\* Amazon answers: the token is labelled and filed under the region of now.
Answer(c) ==
    /\ calls[c] = "posting"
    /\ LET token == Issued(endpoint[c], region) IN
       /\ stored' = [stored EXCEPT ![region] = token]
       /\ Credentials(c, stored', token, TRUE)
    /\ current' = TRUE
    /\ UNCHANGED <<signedIn, inSecure, region, endpoint, tainted>>

\* No refresh token, or the exchange fails: the call raises.
Fail(c) ==
    /\ \/ calls[c] = "waiting" /\ Free /\ ~Fresh(local) /\ ~signedIn /\ ~inSecure
       \/ calls[c] = "posting"
    /\ calls' = [calls EXCEPT ![c] = "idle"]
    /\ UNCHANGED <<signedIn, inSecure, region, local, stored, endpoint, sent,
                   tainted, current>>

-----------------------------------------------------------------------------
\* Fault: the tool leaves the token of the old region in place.
SetRegionKeeping(r) ==
    /\ region' = r
    /\ tainted' = (tainted \/ (r # region /\ ~Free))
    /\ current' = FALSE
    /\ UNCHANGED <<signedIn, inSecure, local, stored, calls, endpoint, sent>>

\* The region tool: the local token is dropped.
SetRegion(r) ==
    /\ region' = r
    /\ local' = NoToken
    /\ tainted' = (tainted \/ (r # region /\ ~Free))
    /\ current' = FALSE
    /\ UNCHANGED <<signedIn, inSecure, stored, calls, endpoint, sent>>

\* A session is restored: its region is set, the local token stays.
RestoreRegion(r) ==
    /\ region' = r
    /\ tainted' = (tainted \/ (r # region /\ (~Free \/ local # NoToken)))
    /\ current' = (current /\ r = region)
    /\ UNCHANGED <<signedIn, inSecure, local, stored, calls, endpoint, sent>>

\* The user has signed in: the secure store holds a refresh token.
SignIn ==
    /\ ~inSecure /\ inSecure' = TRUE
    /\ UNCHANGED <<signedIn, region, local, stored, calls, endpoint, sent,
                   tainted, current>>

\* A token comes within five minutes of its end, wherever it is kept.
Expire(t) ==
    /\ Fresh(t)
    /\ LET Aged(u) == IF u = t THEN [t EXCEPT !.fresh = FALSE] ELSE u IN
       /\ local' = Aged(local)
       /\ stored' = [r \in Regions |-> Aged(stored[r])]
    /\ current' = FALSE
    /\ UNCHANGED <<signedIn, inSecure, region, calls, endpoint, sent, tainted>>

\* close: the local token is dropped.
Close ==
    /\ local' = NoToken
    /\ current' = FALSE
    /\ UNCHANGED <<signedIn, inSecure, region, stored, calls, endpoint, sent, tainted>>

DirectNext ==
    \/ \E c \in Calls : GetToken(c) \/ Reuse(c) \/ Post(c) \/ Answer(c) \/ Fail(c)
    \/ \E r \in Regions : SetRegion(r) \/ RestoreRegion(r) \/ Expire(stored[r])
    \/ SignIn \/ Expire(local) \/ Close

DirectSpec == DirectInit /\ [][DirectNext]_directVars

-----------------------------------------------------------------------------
\* As long as no switch of region overlapped an exchange and no session
\* brought a region of its own over a local token, a request goes to the
\* region its token was exchanged in, whatever the tool switches between two
\* suspensions of a call. (direct.py get_token, region.py set_active_region.)
RequestsMatchRegion ==
    ~tainted => \A c \in Calls : sent[c].token = sent[c].url

\* What a request finds in the store under a region was exchanged and
\* labelled there, and the local token belongs to the active region, unless
\* a switch overlapped an exchange or kept a token.
TokensFiledByRegion ==
    /\ \A r \in Regions : stored[r] # NoToken => stored[r].tag = r
    /\ ~tainted =>
        /\ local # NoToken => local.from = region /\ local.tag = region
        /\ \A r \in Regions : stored[r] # NoToken => stored[r].from = r
        /\ \A c \in Calls : calls[c] = "posting" => endpoint[c] = region

\* Concurrent calls share one exchange: none begins while the token of the
\* last is still good for the active region. (_refresh_access_token.)
NoRedundantExchange == [][(\E c \in Calls : Post(c)) => ~current]_directVars

\* No request mixes two regions, and no token is filed under another's.
RegionsKeptApart == RequestsMatchRegion /\ TokensFiledByRegion
=============================================================================
