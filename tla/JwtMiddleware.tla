--------------------------- MODULE JwtMiddleware ---------------------------
(***************************************************************************)
(* The token middlewares of the OpenBridge server: how the environment      *)
(* configures them, the conversion of a request's refresh token into a JWT  *)
(* through a cache that requests share, and the validation of the JWT,      *)
(* before the tool runs.                                                    *)
(*                                                                         *)
(* A JWT is known by the token it was made from and by its age in ticks.    *)
(***************************************************************************)
EXTENDS Naturals

CONSTANTS JwtRequests, RefreshTokens,
          Bearer,      \* a JWT of the client or its gateway: no refresh token
          NoHeader,
          CacheTtl,    \* jwt_cache_ttl
          MaxAnswer,   \* how long an answer takes at most: the timeout
          JwtLife      \* what a JWT lasts

ASSUME JwtAssumption ==
    /\ Bearer \notin RefreshTokens /\ NoHeader \notin RefreshTokens
    /\ Bearer # NoHeader
    /\ CacheTtl \in Nat /\ MaxAnswer \in Nat /\ JwtLife \in Nat
    /\ CacheTtl + MaxAnswer <= JwtLife

Setting == {"unset", "true", "false"}
Environments == [enabled : Setting, refresh : Setting, validation : Setting]
Configs == [enabled : BOOLEAN, refresh : BOOLEAN, validation : BOOLEAN]

VARIABLES
    config,  \* the part of AuthConfig that is looked at
    cache,   \* refresh token -> age of its entry and of the JWT in it, or NoEntry
    step,    \* request -> where it is
    platform,       \* request -> the token in its X-Openbridge-Token header
    authorization,  \* request -> the token in its Authorization header
    jwt,     \* request -> age of the JWT in jwt_token_var, or NoJwt
    claims   \* request -> whose claims the tool sees

headers == <<platform, authorization>>
jwtVars == <<config, cache, step, headers, jwt, claims>>

NoEntry == [entry |-> CacheTtl, jwt |-> JwtLife]  \* as good as an old one
NoJwt == JwtLife + 1
Ages == 0..NoJwt
Carried == RefreshTokens \cup {Bearer, NoHeader}

\* Types of the requests and of the cache.
JwtTypeOK ==
    /\ config \in Configs
    /\ cache \in [RefreshTokens -> [entry : 0..CacheTtl, jwt : 0..JwtLife]]
    /\ step \in [JwtRequests -> {"idle", "converting", "validating", "running"}]
    /\ platform \in [JwtRequests -> Carried] /\ authorization \in [JwtRequests -> Carried]
    /\ jwt \in [JwtRequests -> Ages]
    /\ claims \in [JwtRequests -> Carried]

-----------------------------------------------------------------------------
(* The configuration.                                                      *)

\* load_from_env: what is unset becomes the default, whatever it was.
Loaded(e) == [enabled |-> e.enabled = "true",
              refresh |-> e.refresh = "true",
              validation |-> e.validation # "false"]

\* create_openbridge_config: loaded, then forced where OpenBridge needs it.
OpenBridgeConfig(e) ==
    [Loaded(e) EXCEPT !.enabled = TRUE, !.refresh = TRUE,
                      !.validation = e.validation # "unset" /\ @]

JwtInit ==
    /\ \E e \in Environments : config = OpenBridgeConfig(e)
    /\ cache = [t \in RefreshTokens |-> NoEntry]
    /\ step = [r \in JwtRequests |-> "idle"]
    /\ platform = [r \in JwtRequests |-> NoHeader] /\ authorization = platform
    /\ jwt = [r \in JwtRequests |-> NoJwt]
    /\ claims = [r \in JwtRequests |-> NoHeader]

-----------------------------------------------------------------------------
(* The requests.                                                           *)

\* Fault: the time an entry was made to live is not looked at.
HitAnyAge(t) == cache[t].entry <= CacheTtl

\* JWTCache.get
Hit(t) == cache[t].entry < CacheTtl

\* The tool runs at once if nothing is validated.
Onward(r) == IF config.validation THEN "validating" ELSE "running"

\* The token a request is served with: X-Openbridge-Token goes before Authorization.
Preferred(p, h) == IF p # NoHeader THEN p ELSE h
Own(r) == Preferred(platform[r], authorization[r])

\* A request arrives with the headers p and h; the token it is served with is
\* converted if it looks like a refresh token, by the cache if it can be.
Arrive(r, p, h) ==
    /\ step[r] = "idle"
    /\ platform' = [platform EXCEPT ![r] = p]
    /\ authorization' = [authorization EXCEPT ![r] = h]
    /\ IF Preferred(p, h) \in RefreshTokens /\ config.enabled /\ config.refresh
       THEN IF Hit(Preferred(p, h))
            THEN /\ jwt' = [jwt EXCEPT ![r] = cache[Preferred(p, h)].jwt]
                 /\ step' = [step EXCEPT ![r] = Onward(r)]
            ELSE /\ step' = [step EXCEPT ![r] = "converting"]
                 /\ UNCHANGED jwt
       ELSE /\ step' = [step EXCEPT ![r] = Onward(r)]
            /\ UNCHANGED jwt
    /\ UNCHANGED <<config, cache, claims>>

\* OpenBridge makes the JWT; the answer is under way.
Issue(r) ==
    /\ step[r] = "converting" /\ jwt[r] = NoJwt
    /\ jwt' = [jwt EXCEPT ![r] = 0]
    /\ UNCHANGED <<config, cache, step, headers, claims>>

\* The answer is cached with a time to live of its own.
Converted(r) ==
    /\ step[r] = "converting" /\ jwt[r] # NoJwt
    /\ cache' = [cache EXCEPT ![Own(r)] = [entry |-> 0, jwt |-> jwt[r]]]
    /\ step' = [step EXCEPT ![r] = Onward(r)]
    /\ UNCHANGED <<config, headers, jwt, claims>>

\* No answer, or none with a JWT in it: the request goes on without.
ConversionFails(r) ==
    /\ step[r] = "converting"
    /\ jwt' = [jwt EXCEPT ![r] = NoJwt]
    /\ step' = [step EXCEPT ![r] = Onward(r)]
    /\ UNCHANGED <<config, cache, headers, claims>>

\* Fault: a JWT that was converted here is not validated any more.
ValidateBearerOnly(r) ==
    /\ step[r] = "validating"
    /\ step' = [step EXCEPT ![r] = "running"]
    /\ claims' = [claims EXCEPT ![r] = IF jwt[r] = NoJwt THEN NoHeader ELSE Own(r)]
    /\ UNCHANGED <<config, cache, headers, jwt>>

\* The converted JWT, which is taken from its variable, or else the JWT in the
\* Authorization headers, whatever the other header brought.
Unexpired(r) == IF jwt[r] # NoJwt THEN jwt[r] < JwtLife ELSE authorization[r] = Bearer

\* It is not expired, and bears the signature or the fields asked for.
Validate(r) ==
    /\ step[r] = "validating" /\ Unexpired(r)
    /\ step' = [step EXCEPT ![r] = "running"]
    /\ claims' = [claims EXCEPT ![r] = IF jwt[r] # NoJwt THEN Own(r) ELSE Bearer]
    /\ UNCHANGED <<config, cache, headers, jwt>>

\* What was kept for a request goes with it.
Over(r) ==
    /\ step' = [step EXCEPT ![r] = "idle"]
    /\ platform' = [platform EXCEPT ![r] = NoHeader]
    /\ authorization' = [authorization EXCEPT ![r] = NoHeader]
    /\ jwt' = [jwt EXCEPT ![r] = NoJwt]
    /\ claims' = [claims EXCEPT ![r] = NoHeader]
    /\ UNCHANGED <<config, cache>>

\* Expired, malformed, unsigned, or signed with a key that cannot be had.
Refuse(r) == step[r] = "validating" /\ Over(r)

\* The tool has run.
Return(r) == step[r] = "running" /\ Over(r)

Older(age, limit) == IF age < limit THEN age + 1 ELSE age

\* Time passes; an answer takes no longer than its timeout, and nothing else
\* that a request does takes any.
TimePasses ==
    /\ \A r \in JwtRequests :
         /\ step[r] = "converting" => jwt[r] = NoJwt \/ jwt[r] < MaxAnswer
         /\ step[r] # "validating"
    /\ cache' = [t \in RefreshTokens |-> [entry |-> Older(cache[t].entry, CacheTtl),
                                          jwt |-> Older(cache[t].jwt, JwtLife)]]
    /\ jwt' = [r \in JwtRequests |->
                 IF jwt[r] = NoJwt THEN NoJwt ELSE Older(jwt[r], JwtLife)]
    /\ UNCHANGED <<config, step, headers, claims>>

JwtNext ==
    \/ \E r \in JwtRequests :
        \/ \E p, h \in Carried : Arrive(r, p, h)
        \/ Issue(r) \/ Converted(r) \/ ConversionFails(r)
        \/ Validate(r) \/ Refuse(r) \/ Return(r)
    \/ TimePasses

JwtSpec == JwtInit /\ [][JwtNext]_jwtVars

-----------------------------------------------------------------------------
\* OpenBridge always needs the conversion of refresh tokens, on servers that
\* set no variable as well. (create_openbridge_config.)
AlwaysConverts == config.enabled /\ config.refresh

\* Where validation is asked for, a tool runs with the claims of the token its request
\* is served with, unless no JWT could be had for that one: then with those of the JWT
\* that came beside it, in the Authorization header, or not at all. Never with the claims
\* of another request. (RefreshTokenMiddleware, JWTAuthenticationMiddleware.)
ToolsSeeClaims ==
    \A r \in JwtRequests : step[r] = "running" /\ config.validation =>
        \/ Own(r) # NoHeader /\ claims[r] = Own(r)
        \/ jwt[r] = NoJwt /\ authorization[r] = Bearer /\ claims[r] = Bearer

\* The cache keeps a JWT no longer than it lasts less the time its answer
\* took: no request gets one from it that has expired, whatever order the
\* answers to concurrent conversions come in. (JWTCache.get, JWTCache.set.)
HandedOutUnexpired ==
    [][\A r \in JwtRequests :
         step[r] = "idle" /\ step'[r] # "idle" /\ jwt'[r] # NoJwt
           => jwt'[r] < JwtLife]_jwtVars

\* What a client sends is converted, and what a tool sees is the client's own.
ClaimsReachTools == AlwaysConverts /\ ToolsSeeClaims
=============================================================================
