--------------------------- MODULE SignIn_proofs ---------------------------
(***************************************************************************)
(* Proofs about the three components that get a user's tokens: the direct   *)
(* provider, the OAuth flow and the token middlewares, for any regions,     *)
(* calls, states, accounts, sessions, requests and times, each for its own  *)
(* specification, and at the end for the specification that runs check.     *)
(***************************************************************************)
EXTENDS MCSignIn, TLAPS

-----------------------------------------------------------------------------
(* The direct provider.                                                    *)

Maybe == AccessTokens \cup {NoToken}

LEMMA Tokens ==
    /\ NoToken \notin AccessTokens
    /\ \A t \in Maybe : Fresh(t) => t \in AccessTokens
    /\ \A t \in AccessTokens : t.from \in Regions /\ t.tag \in Regions /\ t.fresh \in BOOLEAN
    /\ \A e, r \in Regions : /\ Issued(e, r) \in AccessTokens /\ Fresh(Issued(e, r))
                             /\ Issued(e, r).from = e /\ Issued(e, r).tag = r
  <1>1. NoToken \notin AccessTokens
    BY DirectAssumption DEF AccessTokens
  <1>2. \A t \in AccessTokens : t.from \in Regions /\ t.tag \in Regions /\ t.fresh \in BOOLEAN
    BY DEF AccessTokens
  <1>3. ASSUME NEW e \in Regions, NEW r \in Regions
        PROVE  /\ Issued(e, r) \in AccessTokens /\ Fresh(Issued(e, r))
               /\ Issued(e, r).from = e /\ Issued(e, r).tag = r
    <2>1. /\ Issued(e, r) \in AccessTokens /\ Issued(e, r).fresh
          /\ Issued(e, r).from = e /\ Issued(e, r).tag = r
      BY DEF Issued, AccessTokens
    <2> QED
      BY <1>1, <2>1 DEF Fresh
  <1> QED
    BY <1>1, <1>2, <1>3 DEF Fresh, Maybe

-----------------------------------------------------------------------------
(* The inductive invariant: the regions are kept apart, and what has not been *)
(* made obsolete is a token to use.                                          *)

CurrentIsFresh == current => Fresh(local)

DirectInv == DirectTypeOK /\ RegionsKeptApart /\ CurrentIsFresh

LEMMA DirectInitially == DirectInit => DirectInv
  <1> SUFFICES ASSUME DirectInit PROVE DirectInv
    OBVIOUS
  <1>1. stored \in [Regions -> Maybe] /\ \A r \in Regions :
            stored[r] # NoToken => stored[r].tag = r /\ stored[r].from = r
    <2> PICK issued \in SUBSET Regions :
            stored = [r \in Regions |-> IF r \in issued THEN Issued(r, r) ELSE NoToken]
      BY DEF DirectInit
    <2> QED
      BY Tokens DEF Maybe
  <1>2. DirectTypeOK
    BY <1>1, DirectAssumption DEF DirectInit, DirectTypeOK, Maybe
  <1>3. RegionsKeptApart /\ CurrentIsFresh
    BY <1>1 DEF DirectInit, RegionsKeptApart, RequestsMatchRegion, TokensFiledByRegion,
                CurrentIsFresh
  <1> QED
    BY <1>2, <1>3 DEF DirectInv

\* What a call is given: a fresh token, of the store or the one at hand.
LEMMA CredentialsFacts ==
    ASSUME DirectTypeOK, NEW c \in Calls, NEW store \in [Regions -> Maybe],
           NEW token \in Maybe, Fresh(token), NEW has \in BOOLEAN,
           Credentials(c, store, token, has)
    PROVE  /\ calls' = [calls EXCEPT ![c] = "idle"]
           /\ local' \in {store[region], token} /\ local' \in AccessTokens /\ Fresh(local')
           /\ sent' \in [Calls -> [token : Regions, url : Regions]]
           /\ \A d \in Calls : sent'[d] = sent[d]
                \/ (sent'[d].token = local'.from /\ sent'[d].url = region)
  <1>1. /\ calls' = [calls EXCEPT ![c] = "idle"]
        /\ local' = IF has /\ Fresh(store[region]) THEN store[region] ELSE token
        /\ sent' = IF has
                   THEN [sent EXCEPT ![c] = [token |-> local'.from, url |-> region]]
                   ELSE sent
    BY DEF Credentials
  <1>2. local' \in {store[region], token} /\ local' \in AccessTokens /\ Fresh(local')
    BY <1>1, Tokens DEF DirectTypeOK
  <1>3. region \in Regions /\ local'.from \in Regions
        /\ sent \in [Calls -> [token : Regions, url : Regions]]
    BY <1>2, Tokens DEF DirectTypeOK
  <1>4. sent' \in [Calls -> [token : Regions, url : Regions]]
    <2>1. [token |-> local'.from, url |-> region] \in [token : Regions, url : Regions]
      BY <1>3
    <2>2. CASE has
      BY <1>1, <1>3, <2>1, <2>2
    <2>3. CASE ~has
      BY <1>1, <1>3, <2>3
    <2> QED
      BY <2>2, <2>3
  <1>5. ASSUME NEW d \in Calls
        PROVE  sent'[d] = sent[d] \/ (sent'[d].token = local'.from /\ sent'[d].url = region)
    <2>1. CASE has /\ d = c
      <3>1. sent'[d] = [token |-> local'.from, url |-> region]
        BY <1>1, <1>3, <2>1
      <3> QED
        BY <3>1
    <2>2. CASE has /\ d # c
      BY <1>1, <1>3, <2>2
    <2>3. CASE ~has
      BY <1>1, <2>3
    <2> QED
      BY <2>1, <2>2, <2>3
  <1> QED
    BY <1>1, <1>2, <1>4, <1>5

\* What a call is given comes from the active region if what it is chosen from does.
LEMMA CredentialsKeepInv ==
    ASSUME DirectInv, NEW c \in Calls, NEW store \in [Regions -> Maybe],
           NEW token \in Maybe, Fresh(token), NEW has \in BOOLEAN,
           Credentials(c, store, token, has), stored' = store,
           UNCHANGED <<signedIn, inSecure, region, endpoint, tainted>>,
           current' \in BOOLEAN,
           \A r \in Regions : store[r] # NoToken =>
               store[r].tag = r /\ (~tainted => store[r].from = r),
           ~tainted => token.from = region /\ token.tag = region
    PROVE  DirectInv'
  <1>0. DirectTypeOK
    BY DEF DirectInv
  <1>1. /\ calls' = [calls EXCEPT ![c] = "idle"]
        /\ local' \in {store[region], token} /\ local' \in AccessTokens /\ Fresh(local')
        /\ sent' \in [Calls -> [token : Regions, url : Regions]]
        /\ \A d \in Calls : sent'[d] = sent[d]
             \/ (sent'[d].token = local'.from /\ sent'[d].url = region)
    BY <1>0, CredentialsFacts
  <1>2. DirectTypeOK'
    BY <1>0, <1>1 DEF DirectTypeOK, Maybe
  <1>3. ~tainted => local'.from = region /\ local'.tag = region
    BY <1>0, <1>1, Tokens DEF DirectTypeOK
  <1>4. TokensFiledByRegion'
    BY <1>0, <1>1, <1>3 DEF DirectInv, RegionsKeptApart, TokensFiledByRegion, DirectTypeOK
  <1>5. RequestsMatchRegion'
    BY <1>1, <1>3 DEF DirectInv, RegionsKeptApart, RequestsMatchRegion
  <1> QED
    BY <1>1, <1>2, <1>4, <1>5 DEF DirectInv, RegionsKeptApart, CurrentIsFresh

\* Steps that change no token and no region.
LEMMA QuietKeepsInv ==
    ASSUME DirectInv, UNCHANGED <<region, local, stored, sent, tainted, current>>,
           signedIn' \in BOOLEAN, inSecure' \in BOOLEAN,
           calls' \in [Calls -> {"idle", "waiting", "posting"}],
           endpoint' \in [Calls -> Regions],
           \A c, d \in Calls : calls'[c] = "posting" /\ calls'[d] = "posting" => c = d,
           \A c \in Calls : calls'[c] = "posting" =>
               endpoint'[c] = region \/ (calls[c] = "posting" /\ endpoint'[c] = endpoint[c])
    PROVE  DirectInv'
  <1>1. DirectTypeOK'
    BY DEF DirectInv, DirectTypeOK
  <1>2. RegionsKeptApart'
    BY DEF DirectInv, RegionsKeptApart, RequestsMatchRegion, TokensFiledByRegion
  <1> QED
    BY <1>1, <1>2 DEF DirectInv, CurrentIsFresh

LEMMA CallKeepsInv ==
    ASSUME DirectInv, NEW c \in Calls,
           GetToken(c) \/ Reuse(c) \/ Post(c) \/ Answer(c) \/ Fail(c)
    PROVE  DirectInv'
  <1>0. /\ DirectTypeOK /\ TokensFiledByRegion
        /\ region \in Regions /\ signedIn \in BOOLEAN /\ inSecure \in BOOLEAN
        /\ stored \in [Regions -> Maybe] /\ local \in Maybe
        /\ calls \in [Calls -> {"idle", "waiting", "posting"}]
        /\ endpoint \in [Calls -> Regions] /\ current \in BOOLEAN
    BY DEF DirectInv, RegionsKeptApart, DirectTypeOK, Maybe
  <1>1. CASE GetToken(c)
    <2>1. CASE Fresh(stored[region]) \/ Fresh(local)
      <3> DEFINE token == IF Fresh(stored[region]) THEN stored[region] ELSE local
      <3>1. Credentials(c, stored, token, signedIn)
            /\ UNCHANGED <<signedIn, inSecure, region, stored, endpoint, tainted, current>>
        BY <1>1, <2>1 DEF GetToken
      <3>2. token \in Maybe /\ Fresh(token)
        BY <1>0, <2>1
      <3>3. ~tainted => token.from = region /\ token.tag = region
        BY <1>0, <2>1 DEF TokensFiledByRegion, Fresh
      <3> HIDE DEF token
      <3> QED
        BY <1>0, <3>1, <3>2, <3>3, CredentialsKeepInv DEF TokensFiledByRegion
    <2>2. CASE ~(Fresh(stored[region]) \/ Fresh(local))
      <3>1. /\ calls' = [calls EXCEPT ![c] = "waiting"] /\ UNCHANGED endpoint
            /\ UNCHANGED <<signedIn, inSecure, region, local, stored, sent, tainted, current>>
        BY <1>1, <2>2 DEF GetToken
      <3> QED
        BY <1>0, <3>1, QuietKeepsInv DEF DirectTypeOK
    <2> QED
      BY <2>1, <2>2
  <1>2. CASE Reuse(c)
    <2>1. /\ Credentials(c, stored, local, signedIn) /\ Fresh(local)
          /\ UNCHANGED <<signedIn, inSecure, region, stored, endpoint, tainted, current>>
      BY <1>2 DEF Reuse
    <2>2. ~tainted => local.from = region /\ local.tag = region
      BY <1>0, <2>1 DEF TokensFiledByRegion, Fresh
    <2> QED
      BY <1>0, <2>1, <2>2, CredentialsKeepInv DEF TokensFiledByRegion
  <1>3. CASE Post(c)
    <2>1. /\ \A d \in Calls : calls[d] # "posting"
          /\ calls' = [calls EXCEPT ![c] = "posting"]
          /\ endpoint' = [endpoint EXCEPT ![c] = region]
          /\ signedIn' = TRUE
          /\ UNCHANGED <<inSecure, region, local, stored, sent, tainted, current>>
      BY <1>3 DEF Post, Free
    <2>2. /\ calls' \in [Calls -> {"idle", "waiting", "posting"}]
          /\ endpoint' \in [Calls -> Regions]
      BY <1>0, <2>1
    <2>3. \A d \in Calls : calls'[d] = "posting" => d = c
      BY <1>0, <2>1
    <2>4. endpoint'[c] = region
      BY <1>0, <2>1
    <2> QED
      BY <1>0, <2>1, <2>2, <2>3, <2>4, QuietKeepsInv
  <1>4. CASE Answer(c)
    <2> DEFINE token == Issued(endpoint[c], region)
    <2>1. /\ calls[c] = "posting" /\ stored' = [stored EXCEPT ![region] = token]
          /\ Credentials(c, stored', token, TRUE) /\ current' = TRUE
          /\ UNCHANGED <<signedIn, inSecure, region, endpoint, tainted>>
      BY <1>4 DEF Answer
    <2>2. /\ token \in AccessTokens /\ Fresh(token)
          /\ token.from = endpoint[c] /\ token.tag = region
      BY <1>0, Tokens
    <2>3. ~tainted => token.from = region /\ token.tag = region
      BY <1>0, <2>1, <2>2 DEF TokensFiledByRegion
    <2> HIDE DEF token
    <2>4. stored' \in [Regions -> Maybe] /\ token \in Maybe
      BY <1>0, <2>1, <2>2 DEF Maybe
    <2>5. \A r \in Regions : stored'[r] # NoToken =>
              stored'[r].tag = r /\ (~tainted => stored'[r].from = r)
      <3> TAKE r \in Regions
      <3>1. CASE r = region
        BY <1>0, <2>1, <2>2, <2>3, <3>1
      <3>2. CASE r # region
        BY <1>0, <2>1, <3>2 DEF TokensFiledByRegion
      <3> QED
        BY <3>1, <3>2
    <2> QED
      BY <2>1, <2>2, <2>3, <2>4, <2>5, CredentialsKeepInv
  <1>5. CASE Fail(c)
    <2>1. /\ calls' = [calls EXCEPT ![c] = "idle"] /\ UNCHANGED endpoint
          /\ UNCHANGED <<signedIn, inSecure, region, local, stored, sent, tainted, current>>
      BY <1>5 DEF Fail
    <2> QED
      BY <1>0, <2>1, QuietKeepsInv DEF DirectTypeOK
  <1> QED
    BY <1>1, <1>2, <1>3, <1>4, <1>5

LEMMA RegionKeepsInv ==
    ASSUME DirectInv, NEW r \in Regions, SetRegion(r) \/ RestoreRegion(r)
    PROVE  DirectInv'
  <1>1. CASE SetRegion(r)
    <2>1. DirectTypeOK'
      BY <1>1 DEF SetRegion, DirectInv, DirectTypeOK
    <2>2. RegionsKeptApart' /\ CurrentIsFresh'
      BY <1>1 DEF SetRegion, DirectInv, DirectTypeOK, RegionsKeptApart, RequestsMatchRegion,
                  TokensFiledByRegion, CurrentIsFresh, Free
    <2> QED
      BY <2>1, <2>2 DEF DirectInv
  <1>2. CASE RestoreRegion(r)
    <2>1. DirectTypeOK'
      BY <1>2 DEF RestoreRegion, DirectInv, DirectTypeOK
    <2>2. RegionsKeptApart' /\ CurrentIsFresh'
      BY <1>2 DEF RestoreRegion, DirectInv, DirectTypeOK, RegionsKeptApart,
                  RequestsMatchRegion, TokensFiledByRegion, CurrentIsFresh, Free
    <2> QED
      BY <2>1, <2>2 DEF DirectInv
  <1> QED
    BY <1>1, <1>2

LEMMA ExpireKeepsInv ==
    ASSUME DirectInv, NEW t \in Maybe, Expire(t)
    PROVE  DirectInv'
  <1> DEFINE Aged(u) == IF u = t THEN [t EXCEPT !.fresh = FALSE] ELSE u
  <1>0. /\ Fresh(t) /\ local' = Aged(local) /\ stored' = [r \in Regions |-> Aged(stored[r])]
        /\ current' = FALSE
        /\ UNCHANGED <<signedIn, inSecure, region, calls, endpoint, sent, tainted>>
    BY DEF Expire
  <1>1. /\ t \in AccessTokens /\ t # NoToken
        /\ [t EXCEPT !.fresh = FALSE] \in AccessTokens
        /\ [t EXCEPT !.fresh = FALSE].from = t.from
        /\ [t EXCEPT !.fresh = FALSE].tag = t.tag
    <2>1. t \in AccessTokens
      BY <1>0, Tokens
    <2>2. t # NoToken
      BY <2>1, Tokens
    <2>3. /\ [t EXCEPT !.fresh = FALSE] \in AccessTokens
          /\ [t EXCEPT !.fresh = FALSE].from = t.from
          /\ [t EXCEPT !.fresh = FALSE].tag = t.tag
      BY <2>1 DEF AccessTokens
    <2> QED
      BY <2>1, <2>2, <2>3
  <1>2. \A u \in Maybe : /\ Aged(u) \in Maybe
                         /\ Aged(u) # NoToken => u # NoToken
                         /\ Aged(u).from = u.from /\ Aged(u).tag = u.tag
    BY <1>1 DEF Maybe
  <1> HIDE DEF Aged
  <1>3. local \in Maybe /\ \A r \in Regions : stored[r] \in Maybe /\ stored'[r] = Aged(stored[r])
    BY <1>0 DEF DirectInv, DirectTypeOK, Maybe
  <1>4. DirectTypeOK'
    BY <1>0, <1>2, <1>3 DEF DirectInv, DirectTypeOK, Maybe
  <1>5. TokensFiledByRegion'
    BY <1>0, <1>2, <1>3 DEF DirectInv, RegionsKeptApart, TokensFiledByRegion
  <1>6. RequestsMatchRegion'
    BY <1>0 DEF DirectInv, RegionsKeptApart, RequestsMatchRegion
  <1> QED
    BY <1>0, <1>4, <1>5, <1>6 DEF DirectInv, RegionsKeptApart, CurrentIsFresh

LEMMA DirectStep == DirectInv /\ [DirectNext]_directVars => DirectInv'
  <1> SUFFICES ASSUME DirectInv, [DirectNext]_directVars PROVE DirectInv'
    OBVIOUS
  <1>0. local \in Maybe /\ \A r \in Regions : stored[r] \in Maybe
    BY DEF DirectInv, DirectTypeOK, Maybe
  <1>1. ASSUME NEW c \in Calls, GetToken(c) \/ Reuse(c) \/ Post(c) \/ Answer(c) \/ Fail(c)
        PROVE  DirectInv'
    BY <1>1, CallKeepsInv
  <1>2. ASSUME NEW r \in Regions, SetRegion(r) \/ RestoreRegion(r) PROVE DirectInv'
    BY <1>2, RegionKeepsInv
  <1>3. ASSUME NEW r \in Regions, Expire(stored[r]) PROVE DirectInv'
    BY <1>0, <1>3, ExpireKeepsInv
  <1>4. CASE Expire(local)
    BY <1>0, <1>4, ExpireKeepsInv
  <1>5. CASE SignIn
    BY <1>5, QuietKeepsInv DEF SignIn, DirectInv, DirectTypeOK
  <1>6. CASE Close
    BY <1>6 DEF Close, DirectInv, DirectTypeOK, RegionsKeptApart, RequestsMatchRegion,
                TokensFiledByRegion, CurrentIsFresh
  <1>7. CASE UNCHANGED directVars
    BY <1>7 DEF directVars, DirectInv, DirectTypeOK, RegionsKeptApart, RequestsMatchRegion,
                TokensFiledByRegion, CurrentIsFresh, Fresh
  <1> QED
    BY <1>1, <1>2, <1>3, <1>4, <1>5, <1>6, <1>7 DEF DirectNext

LEMMA DirectInvariant == DirectSpec => []DirectInv
  BY DirectInitially, DirectStep, PTL DEF DirectSpec

\* Types of the direct provider; one exchange at a time. (_refresh_access_token.)
THEOREM DirectTypes == DirectSpec => []DirectTypeOK
  BY DirectInvariant, PTL DEF DirectInv

\* However calls, switches, restored sessions and expiries interleave, a request goes
\* to the region its token was exchanged in and every token is filed where it belongs,
\* unless a switch overlapped an exchange or kept a token. (direct.py, region.py.)
THEOREM RegionsStayApart == DirectSpec => []RegionsKeptApart
  BY DirectInvariant, PTL DEF DirectInv

\* No call exchanges the refresh token while the last token is good for the active
\* region, however many wait for the lock. (_refresh_access_token.)
THEOREM ExchangesAreNeeded == DirectSpec => NoRedundantExchange
  <1>1. DirectInv /\ [DirectNext]_directVars
            => [(\E c \in Calls : Post(c)) => ~current]_directVars
    BY DEF DirectInv, CurrentIsFresh, Post
  <1> QED
    BY <1>1, DirectInvariant, DirectInitially, DirectStep, PTL
    DEF DirectSpec, NoRedundantExchange

-----------------------------------------------------------------------------
(* The token middlewares. An entry of the cache is younger than the JWT in it *)
(* by no more than an answer takes, and whoever carries a converted JWT came  *)
(* with a refresh token.                                                     *)

JwtAgesInv ==
    /\ \A t \in RefreshTokens : Hit(t) => cache[t].jwt <= cache[t].entry + MaxAnswer
    /\ \A r \in JwtRequests : step[r] = "converting" /\ jwt[r] # NoJwt => jwt[r] <= MaxAnswer

ConvertedInv == \A r \in JwtRequests :
    /\ step[r] = "converting" => Own(r) \in RefreshTokens
    /\ step[r] = "idle" => jwt[r] = NoJwt
    /\ jwt[r] # NoJwt => Own(r) \in RefreshTokens

JwtInv == JwtTypeOK /\ ClaimsReachTools /\ JwtAgesInv /\ ConvertedInv

LEMMA JwtInitially == JwtInit => JwtInv
  <1> SUFFICES ASSUME JwtInit PROVE JwtInv
    OBVIOUS
  <1>1. PICK e \in Environments : config = OpenBridgeConfig(e)
    BY DEF JwtInit
  <1>2. config \in Configs /\ config.enabled /\ config.refresh
    BY <1>1 DEF OpenBridgeConfig, Loaded, Configs, Environments, Setting
  <1>3. JwtTypeOK
    BY <1>2, JwtAssumption DEF JwtInit, JwtTypeOK, NoEntry, NoJwt, Ages, Carried
  <1>4. ClaimsReachTools
    BY <1>2 DEF JwtInit, ClaimsReachTools, AlwaysConverts, ToolsSeeClaims
  <1>5. JwtAgesInv /\ ConvertedInv
    BY JwtAssumption DEF JwtInit, JwtAgesInv, ConvertedInv, Hit, NoEntry
  <1> QED
    BY <1>3, <1>4, <1>5 DEF JwtInv

\* A request that a step does not concern.
Alike(q) == /\ step'[q] = step[q] /\ jwt'[q] = jwt[q] /\ claims'[q] = claims[q]
            /\ platform'[q] = platform[q] /\ authorization'[q] = authorization[q]

\* What a step of one request must keep, where it leaves the cache alone.
LEMMA RequestKeepsJwtInv ==
    ASSUME JwtInv, NEW r \in JwtRequests, UNCHANGED <<config, cache>>,
           \A q \in JwtRequests \ {r} : Alike(q),
           JwtTypeOK',
           step'[r] = "converting" =>
               Own(r)' \in RefreshTokens /\ (jwt'[r] # NoJwt => jwt'[r] <= MaxAnswer),
           step'[r] = "idle" => jwt'[r] = NoJwt,
           jwt'[r] # NoJwt => Own(r)' \in RefreshTokens,
           step'[r] = "running" /\ config.validation =>
               \/ Own(r)' # NoHeader /\ claims'[r] = Own(r)'
               \/ jwt'[r] = NoJwt /\ authorization'[r] = Bearer /\ claims'[r] = Bearer
    PROVE  JwtInv'
  <1>1. \A q \in JwtRequests \ {r} : Alike(q) /\ Own(q)' = Own(q)
    BY DEF Alike, Own
  <1>2. JwtAgesInv'
    BY <1>1 DEF JwtInv, JwtAgesInv, Hit, Alike
  <1>3. ConvertedInv'
    BY <1>1 DEF JwtInv, ConvertedInv, Alike
  <1>4. ClaimsReachTools'
    BY <1>1 DEF JwtInv, ClaimsReachTools, AlwaysConverts, ToolsSeeClaims, Alike
  <1> QED
    BY <1>2, <1>3, <1>4 DEF JwtInv

LEMMA ArriveKeepsJwtInv ==
    ASSUME JwtInv, NEW r \in JwtRequests, NEW p \in Carried, NEW h \in Carried,
           Arrive(r, p, h)
    PROVE  JwtInv'
  <1> DEFINE t == Preferred(p, h)
  <1>0. /\ JwtTypeOK /\ config.validation \in BOOLEAN /\ step[r] = "idle" /\ jwt[r] = NoJwt
    BY DEF JwtInv, ConvertedInv, Arrive, JwtTypeOK, Configs
  <1>1. Own(r)' = t
    BY <1>0 DEF Arrive, Own, JwtTypeOK
  <1>2. Onward(r) \in {"validating", "running"} /\ (Onward(r) = "running" => ~config.validation)
    BY DEF Onward
  <1>3. \/ t \in RefreshTokens /\ jwt'[r] = cache[t].jwt /\ step'[r] = Onward(r)
        \/ t \in RefreshTokens /\ jwt'[r] = NoJwt /\ step'[r] = "converting"
        \/ jwt'[r] = NoJwt /\ step'[r] = Onward(r)
    BY <1>0 DEF Arrive, JwtTypeOK
  <1>4. UNCHANGED <<config, cache>> /\ \A q \in JwtRequests \ {r} : Alike(q)
    BY <1>0 DEF Arrive, JwtTypeOK, Alike
  <1>5. JwtTypeOK'
    <2>1. t \in RefreshTokens => cache[t].jwt \in Ages
      BY <1>0, JwtAssumption DEF JwtTypeOK, Ages, NoJwt
    <2> QED
      BY <1>0, <1>2, <2>1 DEF Arrive, JwtTypeOK
  <1> HIDE DEF t
  <1> QED
    BY <1>1, <1>2, <1>3, <1>4, <1>5, RequestKeepsJwtInv

LEMMA AnswerKeepsJwtInv ==
    ASSUME JwtInv, NEW r \in JwtRequests,
           Issue(r) \/ ConversionFails(r) \/ Validate(r) \/ Refuse(r) \/ Return(r)
    PROVE  JwtInv'
  <1>0. /\ JwtTypeOK /\ NoJwt \in Ages /\ 0 \in Ages /\ MaxAnswer \in Nat
        /\ ConvertedInv
    BY JwtAssumption DEF JwtInv, NoJwt, Ages
  <1>1. UNCHANGED <<config, cache>> /\ \A q \in JwtRequests \ {r} : Alike(q)
    BY <1>0 DEF Issue, ConversionFails, Validate, Refuse, Return, Over, headers, Alike, JwtTypeOK
  <1>2. Onward(r) \in {"validating", "running"} /\ (Onward(r) = "running" => ~config.validation)
    BY DEF Onward
  <1>3. Carried = RefreshTokens \cup {Bearer, NoHeader} /\ Own(r) \in Carried
    BY <1>0 DEF Carried, Own, Preferred, JwtTypeOK
  <1>4. JwtTypeOK'
    BY <1>0, <1>2, <1>3
    DEF Issue, ConversionFails, Validate, Refuse, Return, Over, headers, JwtTypeOK
  <1>5. CASE Issue(r)
    <2>1. step'[r] = "converting" /\ jwt'[r] = 0 /\ Own(r)' = Own(r) /\ step[r] = "converting"
      BY <1>0, <1>5 DEF Issue, JwtTypeOK, headers, Own
    <2> QED
      BY <1>0, <1>1, <1>4, <2>1, RequestKeepsJwtInv DEF ConvertedInv
  <1>6. CASE ConversionFails(r)
    <2>1. step'[r] = Onward(r) /\ jwt'[r] = NoJwt
      BY <1>0, <1>6 DEF ConversionFails, JwtTypeOK
    <2> QED
      BY <1>1, <1>2, <1>4, <2>1, RequestKeepsJwtInv
  <1>7. CASE Validate(r)
    <2>1. /\ step'[r] = "running" /\ claims'[r] = IF jwt[r] # NoJwt THEN Own(r) ELSE Bearer
          /\ Own(r)' = Own(r) /\ jwt'[r] = jwt[r] /\ authorization'[r] = authorization[r]
          /\ jwt[r] # NoJwt \/ authorization[r] = Bearer
      BY <1>0, <1>7 DEF Validate, Unexpired, JwtTypeOK, headers, Own
    <2>2. jwt[r] # NoJwt => Own(r) \in RefreshTokens /\ Own(r) # NoHeader
      BY <1>0, JwtAssumption DEF ConvertedInv
    <2> QED
      BY <1>0, <1>1, <1>4, <2>1, <2>2, RequestKeepsJwtInv
  <1>8. CASE Refuse(r) \/ Return(r)
    <2>1. step'[r] = "idle" /\ jwt'[r] = NoJwt
      BY <1>0, <1>8 DEF Refuse, Return, Over, JwtTypeOK
    <2> QED
      BY <1>1, <1>4, <2>1, RequestKeepsJwtInv
  <1> QED
    BY <1>5, <1>6, <1>7, <1>8

LEMMA ConvertedKeepsJwtInv ==
    ASSUME JwtInv, NEW r \in JwtRequests, Converted(r)
    PROVE  JwtInv'
  <1>0. /\ JwtTypeOK /\ MaxAnswer \in Nat /\ JwtLife \in Nat /\ CacheTtl \in Nat
        /\ MaxAnswer <= JwtLife
        /\ Own(r) \in RefreshTokens /\ jwt[r] \in 0..MaxAnswer
    BY JwtAssumption DEF JwtInv, JwtAgesInv, ConvertedInv, Converted, JwtTypeOK, Ages, NoJwt
  <1>1. /\ cache' = [cache EXCEPT ![Own(r)] = [entry |-> 0, jwt |-> jwt[r]]]
        /\ step' = [step EXCEPT ![r] = Onward(r)]
        /\ UNCHANGED <<config, headers, jwt, claims>> /\ \A q \in JwtRequests : Own(q)' = Own(q)
    BY DEF Converted, headers, Own
  <1>2. Onward(r) \in {"validating", "running"} /\ (Onward(r) = "running" => ~config.validation)
    BY DEF Onward
  <1>3. JwtTypeOK'
    BY <1>0, <1>1, <1>2 DEF JwtTypeOK, headers
  <1>4. JwtAgesInv'
    <2>1. ASSUME NEW t \in RefreshTokens, Hit(t)'
          PROVE  cache'[t].jwt <= cache'[t].entry + MaxAnswer
      <3>1. CASE t = Own(r)
        BY <1>0, <1>1, <3>1 DEF JwtTypeOK
      <3>2. CASE t # Own(r)
        BY <1>0, <1>1, <2>1, <3>2 DEF JwtInv, JwtAgesInv, JwtTypeOK, Hit
      <3> QED
        BY <3>1, <3>2
    <2>2. \A q \in JwtRequests : step'[q] = "converting" => step[q] = "converting"
      BY <1>0, <1>1, <1>2 DEF JwtTypeOK
    <2> QED
      BY <1>1, <2>1, <2>2 DEF JwtInv, JwtAgesInv
  <1>5. ConvertedInv' /\ ClaimsReachTools'
    BY <1>0, <1>1, <1>2
    DEF JwtInv, ConvertedInv, ClaimsReachTools, AlwaysConverts, ToolsSeeClaims, JwtTypeOK, headers
  <1> QED
    BY <1>3, <1>4, <1>5 DEF JwtInv

LEMMA TimeKeepsJwtInv ==
    ASSUME JwtInv, TimePasses
    PROVE  JwtInv'
  <1>0. /\ JwtTypeOK /\ MaxAnswer \in Nat /\ JwtLife \in Nat /\ CacheTtl \in Nat
    BY JwtAssumption DEF JwtInv
  <1>1. /\ UNCHANGED <<config, step, headers, claims>> /\ \A r \in JwtRequests : Own(r)' = Own(r)
        /\ \A t \in RefreshTokens : /\ cache'[t].entry = Older(cache[t].entry, CacheTtl)
                                    /\ cache'[t].jwt = Older(cache[t].jwt, JwtLife)
        /\ \A r \in JwtRequests :
             jwt'[r] = IF jwt[r] = NoJwt THEN NoJwt ELSE Older(jwt[r], JwtLife)
    BY DEF TimePasses, headers, Own
  <1>2. JwtTypeOK'
    BY <1>0 DEF TimePasses, JwtTypeOK, headers, Older, Ages, NoJwt
  <1>3. ASSUME NEW t \in RefreshTokens, Hit(t)'
        PROVE  cache'[t].jwt <= cache'[t].entry + MaxAnswer
    <2>1. cache[t].entry \in 0..CacheTtl /\ cache[t].jwt \in 0..JwtLife
      BY <1>0 DEF JwtTypeOK
    <2>2. cache[t].entry < CacheTtl /\ cache'[t].entry = cache[t].entry + 1
      BY <1>0, <1>1, <1>3, <2>1 DEF Hit, Older
    <2>3. cache[t].jwt <= cache[t].entry + MaxAnswer
      BY <2>2 DEF JwtInv, JwtAgesInv, Hit
    <2> QED
      BY <1>0, <1>1, <2>1, <2>2, <2>3 DEF Older
  <1>4. ASSUME NEW r \in JwtRequests, step[r] = "converting", jwt'[r] # NoJwt
        PROVE  jwt'[r] <= MaxAnswer
    <2>1. jwt[r] # NoJwt /\ jwt[r] < MaxAnswer /\ jwt[r] \in Nat
      BY <1>0, <1>1, <1>4 DEF TimePasses, JwtTypeOK, Ages, NoJwt
    <2> QED
      BY <1>0, <1>1, <2>1 DEF Older
  <1>5. \A r \in JwtRequests : jwt[r] = NoJwt <=> jwt'[r] = NoJwt
    BY <1>0, <1>1 DEF JwtTypeOK, Older, Ages, NoJwt
  <1>6. JwtAgesInv'
    BY <1>1, <1>3, <1>4 DEF JwtAgesInv
  <1>7. ConvertedInv' /\ ClaimsReachTools'
    BY <1>1, <1>5
    DEF JwtInv, ConvertedInv, ClaimsReachTools, AlwaysConverts, ToolsSeeClaims, headers
  <1> QED
    BY <1>2, <1>6, <1>7 DEF JwtInv

LEMMA JwtStep == JwtInv /\ [JwtNext]_jwtVars => JwtInv'
  <1> SUFFICES ASSUME JwtInv, [JwtNext]_jwtVars PROVE JwtInv'
    OBVIOUS
  <1>1. CASE UNCHANGED jwtVars
    BY <1>1 DEF jwtVars, headers, JwtInv, JwtTypeOK, ClaimsReachTools, AlwaysConverts,
                ToolsSeeClaims, JwtAgesInv, ConvertedInv, Hit, Own
  <1> QED
    BY <1>1, ArriveKeepsJwtInv, AnswerKeepsJwtInv, ConvertedKeepsJwtInv, TimeKeepsJwtInv
    DEF JwtNext

LEMMA JwtInvariant == JwtSpec => []JwtInv
  BY JwtInitially, JwtStep, PTL DEF JwtSpec

\* Types of the requests and of the cache that they share. (authentication.py.)
THEOREM JwtTypes == JwtSpec => []JwtTypeOK
  BY JwtInvariant, PTL DEF JwtInv

\* Whatever the environment sets, a server converts refresh tokens; where it validates
\* as well, a tool runs with the claims of the token its request is served with, or, if
\* that one could not be converted, of the JWT beside it, or not at all: never with the
\* claims of another request.
\* (create_openbridge_config, RefreshTokenMiddleware, JWTAuthenticationMiddleware.)
THEOREM ToolsGetClaims == JwtSpec => []ClaimsReachTools
  BY JwtInvariant, PTL DEF JwtInv

\* A JWT out of the cache has not expired, if what the cache keeps it for and what an
\* answer takes add up to no more than what a JWT lasts. (JWTCache.)
THEOREM CacheHandsOutUnexpired == JwtSpec => HandedOutUnexpired
  <1> DEFINE Unspent == \A r \in JwtRequests :
        step[r] = "idle" /\ step'[r] # "idle" /\ jwt'[r] # NoJwt => jwt'[r] < JwtLife
  <1>1. ASSUME JwtInv, JwtNext PROVE Unspent
    <2> SUFFICES ASSUME NEW r \in JwtRequests, step[r] = "idle", step'[r] # "idle",
                        jwt'[r] # NoJwt
                 PROVE  jwt'[r] < JwtLife
      OBVIOUS
    <2>0. JwtTypeOK
      BY <1>1 DEF JwtInv
    <2>1. \E p, h \in Carried : Arrive(r, p, h)
      BY <1>1, <2>0 DEF JwtNext, JwtTypeOK, Arrive, Issue, Converted, ConversionFails, Validate,
                  Refuse, Return, Over, TimePasses
    <2>2. \E h \in RefreshTokens : Hit(h) /\ jwt'[r] = cache[h].jwt
      BY <1>1, <2>0, <2>1 DEF Arrive, JwtTypeOK, JwtInv, ConvertedInv
    <2>3. \A h \in RefreshTokens : cache[h].jwt \in Nat /\ cache[h].entry \in Nat
      BY <2>0 DEF JwtTypeOK
    <2> QED
      BY <1>1, <2>2, <2>3, JwtAssumption DEF JwtInv, JwtAgesInv, Hit
  <1> QED
    BY <1>1, JwtInvariant, PTL DEF JwtSpec, HandedOutUnexpired

-----------------------------------------------------------------------------
(* Signing in. The types first; with them, that only an accepted state has a *)
(* code under way.                                                           *)

BegunInv ==
    /\ \A s \in States : callback[s] # NoAccount => accepted[s] # 0
    /\ \A s \in States : signer[s] <= restarts

OAuthTyped == OAuthTypeOK /\ BegunInv

LEMMA OAuthInitially == OAuthInit => OAuthTyped
  BY OAuthAssumption DEF OAuthInit, OAuthTyped, OAuthTypeOK, BegunInv, Optional, Entries

\* What is saved of the states is what is in memory, or nothing is.
LEMMA SavedStatesTyped ==
    ASSUME OAuthTypeOK, NEW new \in [States -> Entries], SaveStates(new)
    PROVE  /\ statesDisk' \in [States -> Entries]
           /\ PersistStates \/ \A s \in States : statesDisk'[s] = "absent"
           /\ statesDisk' \in {new, statesDisk}
           /\ ~PersistStates => statesDisk' = statesDisk
           /\ ~SavesMayFail /\ PersistStates => statesDisk' = new
  BY DEF SaveStates, OAuthTypeOK

LEMMA CleanedFacts ==
    ASSUME OAuthTypeOK
    PROVE  /\ Cleaned \in [States -> Entries]
           /\ \A s \in States : Cleaned[s] \in {states[s], "absent"}
  BY DEF Cleaned, OAuthTypeOK, Entries

\* Storing a token keeps the stores typed, and a file that was saved is readable.
LEMMA StoredTyped ==
    ASSUME OAuthTypeOK, NEW token \in Accounts, NEW saved \in BOOLEAN,
           StoreToken(token, saved)
    PROVE  /\ secure' = token /\ secureDisk' \in {secureDisk, token}
           /\ secure' \in Optional /\ secureDisk' \in Optional /\ readable' \in BOOLEAN
           /\ secureDisk' = NoAccount => readable'
           /\ readable' => readable \/ secureDisk' = token
  BY OAuthAssumption DEF StoreToken, OAuthTypeOK, Optional

\* The token store's file holds what was stored last or before, if there is a file.
LEMMA KeptTyped ==
    ASSUME OAuthTypeOK, NEW token \in Accounts, KeepToken(token)
    PROVE  /\ kept' = token /\ keptDisk' \in {keptDisk, token}
           /\ kept' \in Optional /\ keptDisk' \in Optional
           /\ PersistTokens \/ keptDisk' = NoAccount
  BY OAuthAssumption DEF KeepToken, OAuthTypeOK, Optional

LEMMA StatesStepTyped ==
    ASSUME OAuthTyped, NEW s \in States,
           Start(s) \/ GrowOld(s) \/ Reject(s) \/ \E acc \in Accounts : Accept(s, acc)
    PROVE  OAuthTyped'
  <1>0. OAuthTypeOK /\ BegunInv /\ "absent" \in Entries /\ "pending" \in Entries /\ "used" \in Entries
    BY DEF OAuthTyped, Entries
  <1>1. CASE Start(s)
    <2>1. states' \in [States -> Entries] /\ callback[s] = NoAccount
      BY <1>0, <1>1 DEF Start, OAuthTypeOK, BegunInv
    <2>2. /\ statesDisk' \in [States -> Entries]
          /\ PersistStates \/ \A q \in States : statesDisk'[q] = "absent"
      BY <1>0, <1>1, <2>1, SavedStatesTyped DEF Start
    <2>3. OAuthTypeOK'
      BY <1>0, <1>1, <2>1, <2>2, OAuthAssumption DEF Start, OAuthTypeOK, tokenVars
    <2>4. BegunInv'
      BY <1>0, <1>1, OAuthAssumption DEF Start, BegunInv, OAuthTypeOK
    <2> QED
      BY <2>3, <2>4 DEF OAuthTyped
  <1>2. CASE GrowOld(s)
    BY <1>0, <1>2 DEF GrowOld, OAuthTyped, OAuthTypeOK, BegunInv, tokenVars
  <1>3. CASE Reject(s)
    <2>1. /\ states' = Cleaned /\ states' \in [States -> Entries]
          /\ statesDisk' = statesDisk \/ SaveStates(states')
      BY <1>0, <1>3, CleanedFacts DEF Reject
    <2>2. /\ statesDisk' \in [States -> Entries]
          /\ PersistStates \/ \A q \in States : statesDisk'[q] = "absent"
      BY <1>0, <2>1, SavedStatesTyped DEF OAuthTypeOK
    <2>3. \A q \in States : callback[q] # NoAccount => states'[q] # "pending"
      BY <1>0, <2>1, CleanedFacts DEF OAuthTypeOK
    <2> QED
      BY <1>0, <1>3, <2>1, <2>2, <2>3 DEF Reject, OAuthTyped, OAuthTypeOK, BegunInv, tokenVars
  <1>4. ASSUME NEW acc \in Accounts, Accept(s, acc) PROVE OAuthTyped'
    <2>1. /\ states' = [Cleaned EXCEPT ![s] = "used"] /\ states' \in [States -> Entries]
          /\ Cleaned \in [States -> Entries]
          /\ SaveStates(states') \/ SaveStates(Cleaned)
      BY <1>0, <1>4, CleanedFacts DEF Accept
    <2>2. /\ statesDisk' \in [States -> Entries]
          /\ PersistStates \/ \A q \in States : statesDisk'[q] = "absent"
      BY <1>0, <2>1, SavedStatesTyped DEF OAuthTypeOK
    <2>3. /\ accepted' = [accepted EXCEPT ![s] = @ + 1]
          /\ callback' = [callback EXCEPT ![s] = acc]
          /\ UNCHANGED <<age, signer, tokenVars, restarts, refreshing>>
      BY <1>4 DEF Accept
    <2>4. \A q \in States : callback'[q] # NoAccount => states'[q] # "pending" /\ accepted'[q] # 0
      BY <1>0, <2>1, <2>3, CleanedFacts DEF OAuthTypeOK, BegunInv
    <2>5. accepted' \in [States -> Nat] /\ callback' \in [States -> Optional]
      BY <1>0, <2>3 DEF OAuthTypeOK, Optional
    <2> QED
      BY <1>0, <2>1, <2>2, <2>3, <2>4, <2>5 DEF OAuthTyped, OAuthTypeOK, BegunInv, tokenVars
  <1> QED
    BY <1>1, <1>2, <1>3, <1>4

LEMMA CallbackStepTyped ==
    ASSUME OAuthTyped, NEW s \in States,
           Exchanged(s) \/ StorageFails(s) \/ ExchangeFails(s)
    PROVE  OAuthTyped'
  <1>0. OAuthTypeOK /\ BegunInv /\ callback[s] \in Accounts /\ NoAccount \in Optional
    BY DEF OAuthTyped, OAuthTypeOK, Optional, Exchanged, StorageFails, ExchangeFails
  <1>1. /\ callback' = [callback EXCEPT ![s] = NoAccount]
        /\ UNCHANGED <<stateVars, context, provider, restarts, refreshing>>
    BY DEF Exchanged, StorageFails, ExchangeFails, tokenVars
  <1>2. /\ secure' \in Optional /\ secureDisk' \in Optional /\ readable' \in BOOLEAN
        /\ secureDisk' = NoAccount => readable'
        /\ kept' \in Optional /\ keptDisk' \in Optional /\ shown' \in SUBSET Accounts
        /\ PersistTokens \/ keptDisk' = NoAccount
    <2>1. CASE Exchanged(s)
      BY <1>0, <2>1, StoredTyped, KeptTyped DEF Exchanged
    <2>2. CASE StorageFails(s)
      BY <1>0, <2>2, StoredTyped DEF StorageFails, OAuthTypeOK
    <2>3. CASE ExchangeFails(s)
      BY <1>0, <2>3 DEF ExchangeFails, OAuthTypeOK, tokenVars
    <2> QED
      BY <2>1, <2>2, <2>3
  <1> QED
    BY <1>0, <1>1, <1>2 DEF OAuthTyped, OAuthTypeOK, BegunInv, stateVars

\* A token that is found is some account's.
LEMMA FoundTyped ==
    ASSUME OAuthTypeOK, NEW ses \in Sessions
    PROVE  Found(ses) \in Optional
  BY DEF Found, OAuthTypeOK

LEMMA ReloadedTyped == OAuthTypeOK => Reloaded \in Optional
  BY DEF Reloaded, OAuthTypeOK, Optional

LEMMA SessionStepTyped ==
    ASSUME OAuthTyped, NEW ses \in Sessions,
           \/ CheckStatus(ses) \/ BeginRefresh(ses) \/ EndRefresh(ses)
           \/ EndMiddleware(ses) \/ RefreshFails(ses) \/ Clear(ses)
    PROVE  OAuthTyped'
  <1>0. OAuthTypeOK /\ BegunInv /\ NoAccount \in Optional /\ EnvAccount \in Optional
    BY OAuthAssumption DEF OAuthTyped, Optional
  <1>1. UNCHANGED <<stateVars, provider, restarts, callback>>
    BY DEF CheckStatus, BeginRefresh, EndRefresh, EndMiddleware, RefreshFails, Clear, tokenVars
  <1>2. /\ context' \in [Sessions -> Optional] /\ refreshing' \in [Sessions -> Optional]
        /\ secure' \in Optional /\ secureDisk' \in Optional /\ readable' \in BOOLEAN
        /\ secureDisk' = NoAccount => readable'
        /\ kept' \in Optional /\ keptDisk' \in Optional /\ shown' \in SUBSET Accounts
        /\ PersistTokens \/ keptDisk' = NoAccount
    <2>1. CASE CheckStatus(ses)
      <3>1. /\ context' \in [Sessions -> Optional]
            /\ UNCHANGED <<kept, keptDisk, shown, refreshing>>
        BY <1>0, <2>1, FoundTyped DEF CheckStatus, OAuthTypeOK
      <3>2. \/ UNCHANGED <<secure, secureDisk, readable>>
            \/ secure' = Reloaded /\ UNCHANGED <<secureDisk, readable>>
            \/ secure' = secure /\ secureDisk' = secure /\ readable' = TRUE
        BY <2>1 DEF CheckStatus, AskForAccess
      <3> QED
        BY <1>0, <3>1, <3>2, ReloadedTyped DEF OAuthTypeOK
    <2>2. CASE BeginRefresh(ses)
      BY <1>0, <2>2, FoundTyped DEF BeginRefresh, OAuthTypeOK, tokenVars
    <2>3. CASE EndRefresh(ses)
      <3>1. refreshing[ses] \in Accounts
        BY <1>0, <2>3 DEF EndRefresh, OAuthTypeOK, Optional
      <3> QED
        BY <1>0, <2>3, <3>1, StoredTyped, KeptTyped DEF EndRefresh, OAuthTypeOK, Optional
    <2>4. CASE EndMiddleware(ses) \/ RefreshFails(ses) \/ Clear(ses)
      BY <1>0, <2>4 DEF EndMiddleware, RefreshFails, Clear, OAuthTypeOK, tokenVars
    <2> QED
      BY <2>1, <2>2, <2>3, <2>4
  <1> QED
    BY <1>0, <1>1, <1>2 DEF OAuthTyped, OAuthTypeOK, BegunInv, stateVars

LEMMA RestartTyped ==
    ASSUME OAuthTyped, Restart
    PROVE  OAuthTyped'
  <1>0. /\ OAuthTypeOK /\ BegunInv /\ NoAccount \in Optional /\ EnvAccount \in Optional
        /\ restarts \in Nat /\ MaxRestarts \in Nat
        /\ \A s \in States : signer[s] \in Nat
    BY OAuthAssumption DEF OAuthTyped, Optional, OAuthTypeOK
  <1>1. /\ restarts < MaxRestarts /\ restarts' = restarts + 1 /\ states' = statesDisk
        /\ callback' = [s \in States |-> NoAccount]
        /\ refreshing' = [ses \in Sessions |-> NoAccount]
        /\ context' = [ses \in Sessions |-> NoAccount]
        /\ kept' \in {NoAccount, keptDisk} /\ provider' = EnvAccount
        /\ UNCHANGED <<statesDisk, age, signer, accepted, secureDisk, keptDisk, shown>>
    BY DEF Restart
  <1>2. /\ readable' \in BOOLEAN /\ secure' \in Optional
        /\ secureDisk = NoAccount => readable'
    BY <1>0 DEF Restart, OAuthTypeOK
  <1>3. restarts' \in 0..MaxRestarts
    BY <1>0, <1>1
  <1>4. OAuthTypeOK'
    BY <1>0, <1>1, <1>2, <1>3 DEF OAuthTypeOK
  <1>5. BegunInv'
    BY <1>0, <1>1 DEF BegunInv
  <1> QED
    BY <1>4, <1>5 DEF OAuthTyped

LEMMA OAuthStepTyped == OAuthTyped /\ [OAuthNext]_oauthVars => OAuthTyped'
  <1> SUFFICES ASSUME OAuthTyped, [OAuthNext]_oauthVars PROVE OAuthTyped'
    OBVIOUS
  <1>1. CASE ProviderExchange
    BY <1>1 DEF ProviderExchange, OAuthTyped, OAuthTypeOK, BegunInv, stateVars
  <1>2. CASE UNCHANGED oauthVars
    BY <1>2 DEF OAuthTyped, OAuthTypeOK, BegunInv, oauthVars, stateVars, tokenVars
  <1> QED
    BY <1>1, <1>2, StatesStepTyped, CallbackStepTyped, SessionStepTyped, RestartTyped
    DEF OAuthNext

\* Types; no state stands for two sign-ins. (oauth_state_store.py, oauth.py.)
THEOREM OAuthTypes == OAuthSpec => []OAuthTypeOK
  <1>1. OAuthTyped => OAuthTypeOK
    BY DEF OAuthTyped
  <1> QED
    BY <1>1, OAuthInitially, OAuthStepTyped, PTL DEF OAuthSpec

-----------------------------------------------------------------------------
(* States are accepted once: one that was is pending in memory only if the   *)
(* secret that signed it is gone, and in the file only if it will be. A      *)
(* secret that outlives restarts takes a file that never misses a save.      *)

UsedStatesStayUsed == ~PersistStates \/ ~SavesMayFail \/ ~StableSecret

Spent(s) ==
    /\ accepted[s] <= 1
    /\ accepted[s] # 0 =>
         /\ states[s] = "pending" => ~StableSecret /\ signer[s] # restarts
         /\ statesDisk[s] = "pending" => ~StableSecret

SpentInv == OAuthTyped /\ \A s \in States : Spent(s)

\* A state that may be accepted has not been.
LEMMA AcceptableIsNew ==
    ASSUME SpentInv, NEW s \in States, Acceptable(s)
    PROVE  accepted[s] = 0
  <1>1. states[s] = "pending" /\ SignedBySecret(s)
    BY CleanedFacts DEF SpentInv, OAuthTyped, Acceptable
  <1> QED
    BY <1>1 DEF SpentInv, Spent, SignedBySecret

LEMMA SpentStep ==
    ASSUME UsedStatesStayUsed
    PROVE  SpentInv /\ [OAuthNext]_oauthVars => SpentInv'
  <1> SUFFICES ASSUME SpentInv, [OAuthNext]_oauthVars, NEW s \in States PROVE Spent(s)'
    BY OAuthStepTyped DEF SpentInv
  <1>0. /\ OAuthTypeOK /\ OAuthTypeOK' /\ BegunInv /\ Spent(s)
        /\ accepted[s] \in Nat /\ signer[s] \in Nat /\ restarts \in Nat
        /\ states[s] \in Entries /\ statesDisk[s] \in Entries
    BY OAuthStepTyped DEF SpentInv, OAuthTyped, OAuthTypeOK
  <1>1. ASSUME accepted'[s] = accepted[s], signer'[s] = signer[s], restarts' = restarts,
               states'[s] # "pending" \/ states'[s] = states[s],
               statesDisk'[s] \in {statesDisk[s], states[s], states'[s], "absent"}
        PROVE  Spent(s)'
    BY <1>0, <1>1 DEF Spent
  <1>2. ASSUME NEW q \in States, Start(q) PROVE Spent(s)'
    <2>1. /\ states' = [states EXCEPT ![q] = "pending"] /\ states' \in [States -> Entries]
          /\ accepted' = accepted /\ accepted[q] = 0 /\ restarts' = restarts
          /\ signer' = [signer EXCEPT ![q] = restarts]
          /\ SaveStates(states')
      BY <1>0, <1>2 DEF Start, OAuthTypeOK, Entries
    <2>2. statesDisk' \in {states', statesDisk}
      BY <1>0, <2>1, SavedStatesTyped
    <2> QED
      BY <1>0, <1>1, <2>1, <2>2 DEF Spent, OAuthTypeOK
  <1>3. ASSUME NEW q \in States, Reject(q) PROVE Spent(s)'
    <2>1. /\ states' = Cleaned /\ statesDisk' \in {states', statesDisk}
          /\ UNCHANGED <<accepted, signer, restarts>>
      BY <1>0, <1>3, CleanedFacts, SavedStatesTyped DEF Reject
    <2> QED
      BY <1>0, <1>1, <2>1, CleanedFacts
  <1>4. ASSUME NEW q \in States, NEW acc \in Accounts, Accept(q, acc) PROVE Spent(s)'
    <2>0. Cleaned \in [States -> Entries] /\ accepted[q] = 0
      BY <1>0, <1>4, CleanedFacts, AcceptableIsNew DEF Accept
    <2>1. /\ states' = [Cleaned EXCEPT ![q] = "used"] /\ states' \in [States -> Entries]
          /\ accepted' = [accepted EXCEPT ![q] = @ + 1]
          /\ UNCHANGED <<signer, restarts>>
      BY <1>4, <2>0 DEF Accept, Entries
    <2>2. /\ statesDisk' \in {states', Cleaned, statesDisk}
          /\ ~PersistStates => statesDisk'[s] = "absent"
          /\ PersistStates /\ ~SavesMayFail => statesDisk' = states'
      BY <1>0, <1>4, <2>0, <2>1, SavedStatesTyped DEF Accept, OAuthTypeOK
    <2>3. CASE s # q
      BY <1>0, <1>1, <2>0, <2>1, <2>2, <2>3, CleanedFacts DEF OAuthTypeOK
    <2>4. CASE s = q
      <3>1. accepted'[s] = 1 /\ states'[s] = "used"
        BY <1>0, <2>0, <2>1, <2>4 DEF OAuthTypeOK
      <3>2. statesDisk'[s] = "pending" => ~StableSecret
        BY <2>2, <3>1 DEF UsedStatesStayUsed
      <3> QED
        BY <3>1, <3>2 DEF Spent
    <2> QED
      BY <2>3, <2>4
  <1>5. CASE Restart
    <2>1. /\ states' = statesDisk /\ restarts' = restarts + 1
          /\ UNCHANGED <<statesDisk, signer, accepted>>
      BY <1>5 DEF Restart
    <2>2. signer[s] # restarts'
      BY <1>0, <2>1 DEF BegunInv
    <2> QED
      BY <1>0, <2>1, <2>2 DEF Spent
  <1>6. ASSUME UNCHANGED <<states, statesDisk, signer, accepted, restarts>> PROVE Spent(s)'
    BY <1>0, <1>6 DEF Spent
  <1> QED
    BY <1>2, <1>3, <1>4, <1>5, <1>6
    DEF OAuthNext, GrowOld, Exchanged, StorageFails, ExchangeFails, CheckStatus, BeginRefresh,
        EndRefresh, EndMiddleware, RefreshFails, Clear, ProviderExchange, oauthVars, stateVars

-----------------------------------------------------------------------------
(* Sign-ins last, and what a session is told is true.                        *)

\* The token of whoever is told to be signed in, or is about to be, has its source in
\* the secure store or in the provider, whose configured token it keeps.
SomeoneSignedIn ==
    \/ kept # NoAccount
    \/ \E ses \in Sessions : context[ses] # NoAccount \/ refreshing[ses] # NoAccount

FilesAgree == keptDisk # NoAccount => secureDisk # NoAccount

\* What the file holds is in memory, and both hold tokens stored since a success page;
\* with them, that somebody signed in has a token to use is preserved.
SignInInv ==
    /\ OAuthTyped
    /\ SuccessSurvives
    /\ shown # {} /\ secure # NoAccount => secure \in shown
    /\ readable /\ secureDisk # NoAccount => secure # NoAccount
    /\ EnvAccount # NoAccount => provider # NoAccount
    /\ SomeoneSignedIn /\ readable /\ FilesAgree => secure # NoAccount \/ provider # NoAccount

\* A file that holds a token keeps one, so that the files agree only if they did or the
\* secure store has a token.
LEMMA SignInStep == SignInInv /\ [OAuthNext]_oauthVars => SignInInv'
  <1> SUFFICES ASSUME SignInInv, [OAuthNext]_oauthVars PROVE SignInInv'
    OBVIOUS
  <1>0. OAuthTyped /\ OAuthTypeOK /\ OAuthTyped'
    BY OAuthStepTyped DEF SignInInv, OAuthTyped
  <1>1. ASSUME NEW s \in States, Exchanged(s) PROVE SignInInv'
    <2>1. callback[s] \in Accounts
      BY <1>0, <1>1 DEF Exchanged, OAuthTypeOK, Optional
    <2>2. /\ secure' = callback[s] /\ secureDisk' = callback[s] /\ shown' = {callback[s]}
          /\ provider' = provider
      BY <1>1 DEF Exchanged, StoreToken
    <2> QED
      BY <1>0, <2>1, <2>2, OAuthAssumption DEF SignInInv, SuccessSurvives
  <1>2. ASSUME NEW token \in Accounts, NEW saved \in BOOLEAN, StoreToken(token, saved),
               shown' = (IF shown = {} THEN {} ELSE shown \cup {token}),
               provider' = provider
        PROVE  SignInInv'
    <2>1. secure' = token /\ secureDisk' \in {secureDisk, token}
      BY <1>2 DEF StoreToken
    <2> QED
      BY <1>0, <1>2, <2>1, OAuthAssumption DEF SignInInv, SuccessSurvives
  <1>3. ASSUME NEW s \in States, StorageFails(s) PROVE SignInInv'
    <2>1. callback[s] \in Accounts
      BY <1>0, <1>3 DEF StorageFails, OAuthTypeOK, Optional
    <2> QED
      BY <1>2, <1>3, <2>1 DEF StorageFails
  <1>4. ASSUME NEW ses \in Sessions, EndRefresh(ses) PROVE SignInInv'
    <2>1. refreshing[ses] \in Accounts
      BY <1>0, <1>4 DEF EndRefresh, OAuthTypeOK, Optional
    <2> QED
      BY <1>2, <1>4, <2>1 DEF EndRefresh
  <1>5. ASSUME NEW ses \in Sessions, CheckStatus(ses) PROVE SignInInv'
    <2>1. /\ UNCHANGED <<kept, keptDisk, provider, shown, refreshing>>
          /\ \A q \in Sessions \ {ses} : context'[q] = context[q]
          /\ context'[ses] \in {context[ses], Found(ses), kept, EnvAccount}
      BY <1>0, <1>5 DEF CheckStatus, OAuthTypeOK
    <2>2. \/ UNCHANGED <<secure, secureDisk, readable>>
          \/ secure' = Reloaded /\ UNCHANGED <<secureDisk, readable>>
          \/ secure # NoAccount /\ secure' = secure /\ secureDisk' = secure /\ readable' = TRUE
      BY <1>5 DEF CheckStatus, AskForAccess
    <2>3. /\ secure' \in {secure, secureDisk, NoAccount}
          /\ secureDisk' \in {secureDisk, secure}
          /\ secureDisk # NoAccount => secureDisk' # NoAccount
          /\ readable' /\ secureDisk' # NoAccount => secure' # NoAccount
          /\ readable' /\ secure # NoAccount => secure' # NoAccount
          /\ readable' => readable \/ secure # NoAccount
      BY <2>2 DEF Reloaded, SignInInv
    <2>4. secureDisk' = secureDisk \/ (secureDisk' = secure /\ secure # NoAccount)
      BY <2>2
    <2>5. SuccessSurvives' /\ (shown' # {} /\ secure' # NoAccount => secure' \in shown')
      BY <2>1, <2>3, <2>4 DEF SignInInv, SuccessSurvives
    <2>6. SomeoneSignedIn' =>
              SomeoneSignedIn \/ secure # NoAccount \/ EnvAccount # NoAccount
      BY <2>1 DEF SomeoneSignedIn, Found
    <2>7. secure # NoAccount \/ (FilesAgree' => FilesAgree)
      BY <2>1, <2>4 DEF FilesAgree
    <2> QED
      BY <1>0, <2>1, <2>3, <2>5, <2>6, <2>7 DEF SignInInv
  <1>6. ASSUME NEW ses \in Sessions, BeginRefresh(ses) PROVE SignInInv'
    <2>1. /\ refreshing' = [refreshing EXCEPT ![ses] = Found(ses)] /\ Found(ses) # NoAccount
          /\ UNCHANGED <<context, secure, secureDisk, readable, kept, keptDisk, provider,
                         shown>>
      BY <1>6 DEF BeginRefresh, tokenVars
    <2>2. SomeoneSignedIn \/ secure # NoAccount
      BY <2>1 DEF Found, SomeoneSignedIn
    <2> QED
      BY <1>0, <2>1, <2>2 DEF SignInInv, SuccessSurvives, FilesAgree
  <1>7. ASSUME NEW ses \in Sessions, EndMiddleware(ses) \/ RefreshFails(ses) \/ Clear(ses)
        PROVE  SignInInv'
    <2>1. UNCHANGED <<secure, secureDisk, readable, kept, keptDisk, provider, shown>>
      BY <1>7 DEF EndMiddleware, RefreshFails, Clear, tokenVars
    <2>2. SomeoneSignedIn' => SomeoneSignedIn
      BY <1>0, <1>7, <2>1
      DEF EndMiddleware, RefreshFails, Clear, SomeoneSignedIn, OAuthTypeOK, tokenVars
    <2> QED
      BY <1>0, <2>1, <2>2 DEF SignInInv, SuccessSurvives, FilesAgree
  <1>8. CASE ProviderExchange
    BY <1>0, <1>8 DEF ProviderExchange, SignInInv, SuccessSurvives
  <1>9. CASE Restart
    <2>1. /\ UNCHANGED <<secureDisk, keptDisk, shown>>
          /\ secure' = (IF readable' THEN secureDisk ELSE NoAccount)
          /\ kept' \in {NoAccount, keptDisk} /\ provider' = EnvAccount
          /\ \A ses \in Sessions : context'[ses] = NoAccount /\ refreshing'[ses] = NoAccount
      BY <1>9 DEF Restart
    <2>2. SomeoneSignedIn' /\ FilesAgree' => secureDisk # NoAccount
      BY <2>1 DEF SomeoneSignedIn, FilesAgree
    <2> QED
      BY <1>0, <2>1, <2>2 DEF SignInInv, SuccessSurvives
  <1>10. ASSUME UNCHANGED <<tokenVars, refreshing>> PROVE SignInInv'
    BY <1>0, <1>10 DEF SignInInv, SuccessSurvives, SomeoneSignedIn, FilesAgree, tokenVars
  <1> QED
    BY <1>1, <1>3, <1>4, <1>5, <1>6, <1>7, <1>8, <1>9, <1>10
    DEF OAuthNext, Start, GrowOld, Reject, Accept, ExchangeFails, oauthVars

\* Whichever saves fail and whenever the server stops, with or without a file of the
\* token store, the file keeps a sign-in that was reported, and a session that is told it
\* is signed in is right, unless a refresh was saved in the token store's file only.
\* (oauth_callback, store_token, check_oauth_status.)
THEOREM SignInsSurvive == OAuthSpec => [](SuccessSurvives /\ AuthenticatedIsUsable)
  <1>1. OAuthInit => SignInInv
    BY OAuthInitially DEF OAuthInit, SignInInv, SuccessSurvives, SomeoneSignedIn
  <1>2. SignInInv => SuccessSurvives /\ AuthenticatedIsUsable
    BY DEF SignInInv, SomeoneSignedIn, FilesAgree, AuthenticatedIsUsable
  <1> QED
    BY <1>1, <1>2, SignInStep, PTL DEF OAuthSpec

\* A reported sign-in lasts, and can be used but for the case named there, whichever
\* saves fail and whenever the server stops; where a failed save cannot meet a secret that outlives the restart, no
\* state signs in twice. (validate_state, oauth_callback, check_oauth_status.)
THEOREM SignInsLast ==
    ASSUME UsedStatesStayUsed
    PROVE  OAuthSpec => []SignInLasts
  <1>1. OAuthInit => SpentInv
    BY OAuthInitially DEF OAuthInit, SpentInv, Spent
  <1>2. SpentInv => StateAcceptedOnce
    BY DEF SpentInv, Spent, StateAcceptedOnce
  <1>3. OAuthSpec => []StateAcceptedOnce
    BY <1>1, <1>2, SpentStep, PTL DEF OAuthSpec
  <1> QED
    BY <1>3, SignInsSurvive, PTL DEF SignInLasts

-----------------------------------------------------------------------------
(* The specification of the runs exercises one component and leaves the other *)
(* two as they are: it implements all three.                                 *)

\* A behaviour of the three side by side is one of each. (MCSignIn.)
THEOREM SignInComposes == Spec => DirectSpec /\ OAuthSpec /\ JwtSpec
  <1>1. Init => DirectInit /\ OAuthInit /\ JwtInit
    BY DEF Init
  <1>2. [Next]_partVars =>
            [DirectNext]_directVars /\ [OAuthNext]_oauthVars /\ [JwtNext]_jwtVars
    BY DEF Next, partVars
  <1> QED
    BY <1>1, <1>2, PTL DEF Spec, DirectSpec, OAuthSpec, JwtSpec

\* The types of the three components, with what they say of what cannot be: two calls
\* that exchange one refresh token, a code under way for a state still pending.
THEOREM SignInTypes == Spec => []SignInTypesOK
  BY SignInComposes, DirectTypes, OAuthTypes, JwtTypes, PTL DEF SignInTypesOK
=============================================================================
