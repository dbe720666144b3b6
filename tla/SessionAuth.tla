----------------------------- MODULE SessionAuth -----------------------------
(***************************************************************************)
(* Per-request authentication state of the server with the OpenBridge      *)
(* provider: the ContextVars of auth/session_state.py, the middlewares     *)
(* that load, check and save them, the tools that change them, and         *)
(* AuthManager.get_active_credentials, which turns them into credentials   *)
(* through a cache shared by every request.                                *)
(*                                                                         *)
(* All requests run on one asyncio event loop, so code between two awaits  *)
(* is one step; steps of different requests interleave at the awaits.      *)
(*                                                                         *)
(* Abstractions: a token and its SHA-256 fingerprint are one value; an     *)
(* Identity and an AuthCredentials are identity ids; a profile id is the   *)
(* session that chose it.                                                  *)
(***************************************************************************)
EXTENDS Naturals, FiniteSets

CONSTANTS
    Requests,         \* request slots; a slot is reused when its request ends
    Sessions,         \* MCP sessions
    Tokens,           \* refresh tokens, one per tenant
    Identities,       \* remote identities
    Regions,          \* API regions
    NoToken, NoIdentity, NoRegion, NoSession,
    EnvToken,         \* OPENBRIDGE_REFRESH_TOKEN, or NoToken
    DefaultIdentity,  \* the configured default identity, or NoIdentity
    BaseRegion,       \* region of the base URL the HTTP client was built with
    Headers,          \* what a request may carry: tokens, perhaps NoToken
    Visible,          \* token -> identities the remote service lists for it
    RegionOf,         \* identity -> region in its attributes
    MaxPerSession,    \* bound: requests of one session in flight together
    StoreMayFail      \* whether get_state / set_state may raise

ASSUME NullsAreFresh ==
    /\ NoToken \notin Tokens /\ NoIdentity \notin Identities
    /\ NoRegion \notin Regions /\ NoSession \notin Sessions

ASSUME DeploymentAssumption ==
    /\ EnvToken \in Tokens \cup {NoToken}
    /\ DefaultIdentity \in Identities \cup {NoIdentity}
    /\ BaseRegion \in Regions
    /\ Headers \subseteq Tokens \cup {NoToken}
    /\ Visible \in [Tokens -> SUBSET Identities]
    /\ RegionOf \in [Identities -> Regions]
    /\ StoreMayFail \in BOOLEAN

VARIABLES
    stored,         \* session -> what set_state saved for it
    fresh,          \* identities whose entry in _credentials_cache is not
                    \* within the refresh skew of its expiry
    defaultProfile, \* _default_profile_id: the session that set it last
    pc,             \* request -> where its task is suspended
    sess,           \* request -> its session
    hdr,            \* request -> the token in its headers, until it is read
    ctx,            \* request -> its ContextVars
    host,           \* request -> region the request being sent is routed to
    sent,           \* request -> identity and host of the API call just sent
    origin          \* request -> where its active identity comes from (history)

vars == <<stored, fresh, defaultProfile, pc, sess, hdr, ctx, host, sent, origin>>

TokenOrNone    == Tokens \cup {NoToken}
IdentityOrNone == Identities \cup {NoIdentity}

\* What a session keeps, and what a request's ContextVars hold.
SavedStates == [identity: IdentityOrNone, creds: IdentityOrNone,
                profiles: SUBSET Identities, lastFp: TokenOrNone]
Contexts == [identity: IdentityOrNone, creds: IdentityOrNone,
             profiles: SUBSET Identities, lastFp: TokenOrNone,
             override: TokenOrNone, swapped: BOOLEAN]

NothingSaved == [identity |-> NoIdentity, creds |-> NoIdentity,
                 profiles |-> {}, lastFp |-> NoToken]
Unset == [identity |-> NoIdentity, creds |-> NoIdentity, profiles |-> {},
          lastFp |-> NoToken, override |-> NoToken, swapped |-> FALSE]
NothingSent == [identity |-> NoIdentity, host |-> NoRegion]

Phases == {"idle", "hydrated", "running", "resolving", "waiting", "fetching",
           "closing"}
Origins == {"saved", "chosen", "default", "reset"}

TypeOK ==
    /\ stored \in [Sessions -> SavedStates]
    /\ fresh \subseteq Identities
    /\ defaultProfile \in Sessions \cup {NoSession}
    /\ pc \in [Requests -> Phases]
    /\ sess \in [Requests -> Sessions \cup {NoSession}]
    /\ hdr \in [Requests -> TokenOrNone]
    /\ ctx \in [Requests -> Contexts]
    /\ host \in [Requests -> Regions \cup {NoRegion}]
    /\ sent \in [Requests -> [identity: IdentityOrNone,
                              host: Regions \cup {NoRegion}]]
    /\ origin \in [Requests -> Origins]

Init ==
    /\ stored = [s \in Sessions |-> NothingSaved]
    /\ fresh = {}
    /\ defaultProfile = NoSession
    /\ pc = [r \in Requests |-> "idle"]
    /\ sess = [r \in Requests |-> NoSession]
    /\ hdr = [r \in Requests |-> NoToken]
    /\ ctx = [r \in Requests |-> Unset]
    /\ host = [r \in Requests |-> NoRegion]
    /\ sent = [r \in Requests |-> NothingSent]
    /\ origin = [r \in Requests |-> "saved"]

-----------------------------------------------------------------------------
(* Operators on one request's ContextVars.                                 *)

\* _get_effective_refresh_token: the per-request override, else the default.
EffectiveToken(c) == IF c.override # NoToken THEN c.override ELSE EnvToken

\* External: the identities the remote service lists for a token.
VisibleTo(t) == IF t = NoToken THEN {} ELSE Visible[t]

\* Fault: the previous identity's credentials stay.
ActivateKeepsCredentials(c, i) == [c EXCEPT !.identity = i]

\* AuthManager.set_active_identity, once the identity has been found.
ActivateIdentity(c, i) ==
    [c EXCEPT !.identity = i, !.creds = IF @ = i THEN i ELSE NoIdentity]

\* Fault: the profiles are forgotten.
WipeKeepsProfiles(c) ==
    [c EXCEPT !.identity = NoIdentity, !.creds = NoIdentity]

WipeTenantState(c) ==
    [c EXCEPT !.identity = NoIdentity, !.creds = NoIdentity, !.profiles = {}]

\* Fault: the swap is not recorded for the tool.
SeeTokenSilently(c, t) ==
    LET kept == IF c.lastFp # NoToken /\ c.lastFp # t THEN WipeTenantState(c) ELSE c
    IN  [kept EXCEPT !.lastFp = t, !.override = t]

\* RefreshTokenMiddleware, when the request carries the token t: detect a
\* swap against the fingerprint last seen in the session, then install t.
SeeToken(c, t) ==
    LET swap == c.lastFp # NoToken /\ c.lastFp # t
        kept == IF swap THEN WipeTenantState(c) ELSE c
    IN  [kept EXCEPT !.lastFp = t, !.override = t, !.swapped = swap]

\* The stale-tenant guard at the head of get_active_credentials.
IsStale(c) ==
    /\ c.identity # NoIdentity
    /\ c.lastFp # NoToken
    /\ EffectiveToken(c) # c.lastFp
GuardMissing(c) == c  \* fault
GuardTenant(c) == IF IsStale(c) THEN WipeTenantState(c) ELSE c

\* ensure_default_identity: a lookup that fails is only logged.
EnsureDefault(c) ==
    IF c.identity = NoIdentity /\ DefaultIdentity \in VisibleTo(EffectiveToken(c))
    THEN ActivateIdentity(c, DefaultIdentity)
    ELSE c

\* AuthManager.get_active_profile_id, as the session that chose the profile.
ActiveProfile(r) ==
    IF ctx[r].identity \in ctx[r].profiles THEN sess[r] ELSE defaultProfile

InFlight(s) == {r \in Requests : pc[r] # "idle" /\ sess[r] = s}

-----------------------------------------------------------------------------
(* The middleware chain: AuthSessionStateMiddleware around                 *)
(* RefreshTokenMiddleware around the tool.                                 *)

\* Fault: only the fingerprint is loaded.
HydratedFingerprint(state) == [Unset EXCEPT !.lastFp = state.lastFp]

HydratedContext(state) ==
    [Unset EXCEPT !.identity = state.identity, !.creds = state.creds,
                  !.profiles = state.profiles, !.lastFp = state.lastFp]

\* hydrate_auth_from_mcp_session. A task starts with every ContextVar unset;
\* a session store that raises is logged and the request goes on without.
Hydrate(r) ==
    /\ pc[r] = "idle"
    /\ \E s \in Sessions, t \in Headers :
        /\ Cardinality(InFlight(s)) < MaxPerSession
        /\ sess' = [sess EXCEPT ![r] = s]
        /\ hdr' = [hdr EXCEPT ![r] = t]
        /\ \E state \in {stored[s]} \cup (IF StoreMayFail THEN {NothingSaved} ELSE {}) :
            ctx' = [ctx EXCEPT ![r] = HydratedContext(state)]
    /\ origin' = [origin EXCEPT ![r] = "saved"]
    /\ pc' = [pc EXCEPT ![r] = "hydrated"]
    /\ UNCHANGED <<stored, fresh, defaultProfile, host, sent>>

\* RefreshTokenMiddleware.on_request up to call_next. A request without a
\* token passes through untouched. An unexpected error fails closed, before
\* or after the token was seen.
AuthenticateOk(r) ==
    /\ pc[r] = "hydrated"
    /\ LET c == IF hdr[r] = NoToken THEN ctx[r] ELSE SeeToken(ctx[r], hdr[r]) IN
        /\ ctx' = [ctx EXCEPT ![r] = c]
        /\ origin' = [origin EXCEPT ![r] =
                        IF c.identity # ctx[r].identity THEN "reset" ELSE @]
    /\ pc' = [pc EXCEPT ![r] = "running"]
    /\ hdr' = [hdr EXCEPT ![r] = NoToken]
    /\ UNCHANGED <<stored, fresh, defaultProfile, sess, host, sent>>

AuthenticateFails(r) ==
    /\ pc[r] = "hydrated"
    /\ hdr[r] # NoToken
    /\ \E c \in {ctx[r], SeeToken(ctx[r], hdr[r])} :
        /\ ctx' = [ctx EXCEPT ![r] = c]
        /\ origin' = [origin EXCEPT ![r] =
                        IF c.identity # ctx[r].identity THEN "reset" ELSE @]
    /\ pc' = [pc EXCEPT ![r] = "closing"]
    /\ hdr' = [hdr EXCEPT ![r] = NoToken]
    /\ UNCHANGED <<stored, fresh, defaultProfile, sess, host, sent>>

ClearRequestVars(c) == [c EXCEPT !.override = NoToken, !.swapped = FALSE]

\* The finally block of RefreshTokenMiddleware, after a response, an error
\* or a cancellation of whatever the tool was waiting for (which releases
\* the refresh lock it may hold).
Finish(r) ==
    /\ pc[r] \in {"running", "resolving", "waiting", "fetching"}
    /\ ctx' = [ctx EXCEPT ![r] = ClearRequestVars(ctx[r])]
    /\ sent' = [sent EXCEPT ![r] = NothingSent]
    /\ host' = [host EXCEPT ![r] = NoRegion]
    /\ pc' = [pc EXCEPT ![r] = "closing"]
    /\ UNCHANGED <<stored, fresh, defaultProfile, sess, hdr, origin>>

\* persist_auth_to_mcp_session: the whole snapshot is saved, whatever the
\* request changed. A session store that raises is logged.
Saved(c) == [identity |-> c.identity, creds |-> c.creds,
             profiles |-> c.profiles, lastFp |-> c.lastFp]

EndRequest(r) ==
    /\ pc' = [pc EXCEPT ![r] = "idle"]
    /\ ctx' = [ctx EXCEPT ![r] = Unset]
    /\ sess' = [sess EXCEPT ![r] = NoSession]
    /\ origin' = [origin EXCEPT ![r] = "saved"]
    /\ UNCHANGED <<fresh, defaultProfile, hdr, host, sent>>

Persist(r) ==
    /\ pc[r] = "closing"
    /\ stored' = [stored EXCEPT ![sess[r]] = Saved(ctx[r])]
    /\ EndRequest(r)

PersistFails(r) ==
    /\ pc[r] = "closing"
    /\ StoreMayFail
    /\ UNCHANGED stored
    /\ EndRequest(r)

-----------------------------------------------------------------------------
(* Tools. A request may run several of them: set_context sets the identity *)
(* and then the profile, and code mode runs a script of calls. The API     *)
(* call sent before a step has been answered when the step is taken.       *)

\* set_active_identity: activate, then pre-load the credentials; a failure
\* of the pre-load is only reported.
SetActiveIdentity(r) ==
    /\ pc[r] = "running"
    /\ \E i \in VisibleTo(EffectiveToken(ctx[r])) :
        ctx' = [ctx EXCEPT ![r] = ActivateIdentity(ctx[r], i)]
    /\ origin' = [origin EXCEPT ![r] = "chosen"]
    /\ pc' = [pc EXCEPT ![r] = "resolving"]
    /\ sent' = [sent EXCEPT ![r] = NothingSent]
    /\ UNCHANGED <<stored, fresh, defaultProfile, sess, hdr, host>>

\* The explicit profile of the active identity is set, or cleared.
AddProfile(c)  == [c EXCEPT !.profiles = @ \cup {c.identity}]
DropProfile(c) == [c EXCEPT !.profiles = @ \ {c.identity}]

\* Fault: no test for an active identity.
SetActiveProfileUnguarded(r) ==
    /\ pc[r] = "running"
    /\ ctx' = [ctx EXCEPT ![r] = AddProfile(ctx[r])]
    /\ sent' = [sent EXCEPT ![r] = NothingSent]
    /\ UNCHANGED <<stored, fresh, defaultProfile, pc, sess, hdr, host, origin>>

\* set_active_profile: without an identity the process-wide default is set.
SetActiveProfile(r) ==
    /\ pc[r] = "running"
    /\ IF ctx[r].identity = NoIdentity
       THEN /\ defaultProfile' = sess[r]
            /\ UNCHANGED ctx
       ELSE /\ ctx' = [ctx EXCEPT ![r] = AddProfile(ctx[r])]
            /\ UNCHANGED defaultProfile
    /\ sent' = [sent EXCEPT ![r] = NothingSent]
    /\ UNCHANGED <<stored, fresh, pc, sess, hdr, host, origin>>

ClearActiveProfile(r) ==
    /\ pc[r] = "running"
    /\ ctx[r].identity \in ctx[r].profiles
    /\ ctx' = [ctx EXCEPT ![r] = DropProfile(ctx[r])]
    /\ sent' = [sent EXCEPT ![r] = NothingSent]
    /\ UNCHANGED <<stored, fresh, defaultProfile, pc, sess, hdr, host, origin>>

\* Fault: the host is always the client's own.
CallApiUnrouted(r) ==
    /\ pc[r] = "running"
    /\ host' = [host EXCEPT ![r] = BaseRegion]
    /\ pc' = [pc EXCEPT ![r] = "resolving"]
    /\ sent' = [sent EXCEPT ![r] = NothingSent]
    /\ UNCHANGED <<stored, fresh, defaultProfile, sess, hdr, ctx, origin>>

\* An API call enters _inject_headers: the host is decided from the identity
\* active now, and only then are the auth headers awaited.
CallApi(r) ==
    /\ pc[r] = "running"
    /\ host' = [host EXCEPT ![r] = IF ctx[r].identity = NoIdentity
                                   THEN BaseRegion ELSE RegionOf[ctx[r].identity]]
    /\ pc' = [pc EXCEPT ![r] = "resolving"]
    /\ sent' = [sent EXCEPT ![r] = NothingSent]
    /\ UNCHANGED <<stored, fresh, defaultProfile, sess, hdr, ctx, origin>>

-----------------------------------------------------------------------------
(* AuthManager.get_active_credentials.                                     *)

\* get_active_credentials returns to its caller; an API call is then sent
\* with the credentials of identity i to the host already decided.
ReturnCredentials(r, i) ==
    /\ pc' = [pc EXCEPT ![r] = "running"]
    /\ sent' = IF host[r] = NoRegion THEN sent
               ELSE [sent EXCEPT ![r] = [identity |-> i, host |-> host[r]]]
    /\ host' = [host EXCEPT ![r] = NoRegion]

\* ... or raises, and no request is sent.
RaiseNoCredentials(r) ==
    /\ pc' = [pc EXCEPT ![r] = "running"]
    /\ host' = [host EXCEPT ![r] = NoRegion]
    /\ UNCHANGED sent

\* The guard, the default identity and the fast path.
ResolveIdentity(r) ==
    /\ pc[r] = "resolving"
    /\ LET guarded  == GuardTenant(ctx[r])
           resolved == EnsureDefault(guarded) IN
        /\ ctx' = [ctx EXCEPT ![r] = resolved]
        /\ origin' = [origin EXCEPT ![r] =
                        CASE resolved.identity # guarded.identity -> "default"
                          [] guarded.identity # ctx[r].identity -> "reset"
                          [] OTHER -> @]
        /\ \/ /\ resolved.identity = NoIdentity
              /\ RaiseNoCredentials(r)
           \/ /\ resolved.identity # NoIdentity
              /\ resolved.identity \in fresh
              /\ ReturnCredentials(r, resolved.identity)
           \/ /\ resolved.identity # NoIdentity
              /\ resolved.identity \notin fresh
              /\ pc' = [pc EXCEPT ![r] = "waiting"]
              /\ UNCHANGED <<host, sent>>
    /\ UNCHANGED <<stored, fresh, defaultProfile, sess, hdr>>

\* The per-identity refresh lock is held by the request that is fetching.
LockFree(i) == \A q \in Requests : ~(pc[q] = "fetching" /\ ctx[q].identity = i)

\* The lock is granted and the cache checked again.
EnterRefresh(r) ==
    /\ pc[r] = "waiting"
    /\ LockFree(ctx[r].identity)
    /\ IF ctx[r].identity \in fresh
       THEN ReturnCredentials(r, ctx[r].identity)
       ELSE /\ pc' = [pc EXCEPT ![r] = "fetching"]
            /\ UNCHANGED <<host, sent>>
    /\ UNCHANGED <<stored, fresh, defaultProfile, sess, hdr, ctx, origin>>

CacheCredentials(c) == [c EXCEPT !.creds = c.identity]

\* The provider's fetch answers: it looks the identity up under the effective
\* token first. What it returns may already be within the refresh skew.
FetchSucceeds(r) ==
    /\ pc[r] = "fetching"
    /\ ctx[r].identity \in VisibleTo(EffectiveToken(ctx[r]))
    /\ fresh' \in {fresh \cup {ctx[r].identity}, fresh \ {ctx[r].identity}}
    /\ ctx' = [ctx EXCEPT ![r] = CacheCredentials(ctx[r])]
    /\ ReturnCredentials(r, ctx[r].identity)
    /\ UNCHANGED <<stored, defaultProfile, sess, hdr, origin>>

FetchFails(r) ==
    /\ pc[r] = "fetching"
    /\ RaiseNoCredentials(r)
    /\ UNCHANGED <<stored, fresh, defaultProfile, sess, hdr, ctx, origin>>

\* Cached credentials come within the refresh skew of their expiry.
CredentialsAge(i) ==
    /\ i \in fresh
    /\ fresh' = fresh \ {i}
    /\ UNCHANGED <<stored, defaultProfile, pc, sess, hdr, ctx, host, sent, origin>>

RequestStep(r) ==
    \/ Hydrate(r) \/ AuthenticateOk(r) \/ AuthenticateFails(r)
    \/ Finish(r) \/ Persist(r) \/ PersistFails(r)
    \/ SetActiveIdentity(r) \/ SetActiveProfile(r) \/ ClearActiveProfile(r)
    \/ CallApi(r) \/ ResolveIdentity(r) \/ EnterRefresh(r)
    \/ FetchSucceeds(r) \/ FetchFails(r)

Next == \/ \E r \in Requests : RequestStep(r)
        \/ \E i \in Identities : CredentialsAge(i)

Spec == Init /\ [][Next]_vars

-----------------------------------------------------------------------------
(* Properties.                                                             *)

\* The token that serves requests without one, where there are such requests.
AnonymousToken == IF NoToken \in Headers THEN EnvToken ELSE NoToken

\* Deployments with one source of tokens: requests with a token and requests
\* served by the configured default token do not meet in one server.
SingleTokenSource == AnonymousToken = NoToken \/ Headers \subseteq {NoToken}

\* The token under which a session's tenant state was established, as far as
\* the fingerprint it keeps tells.
OwnerToken(c) == IF c.lastFp # NoToken THEN c.lastFp ELSE AnonymousToken

OwnedState(c) ==
    /\ c.identity # NoIdentity => c.identity \in VisibleTo(OwnerToken(c))
    /\ c.profiles \subseteq VisibleTo(OwnerToken(c))

\* The identity and the profiles a session keeps, and those a request works
\* with, belong to the tenant whose fingerprint is kept beside them: the swap
\* detection of RefreshTokenMiddleware never compares against a fingerprint
\* that is older or newer than the state it guards.
TenantStateOwned ==
    /\ \A s \in Sessions : OwnedState(stored[s])
    /\ \A r \in Requests : OwnedState(ctx[r])

\* An API call is made only with credentials of an identity that the token
\* of this very request may use, although credentials are cached for all
\* requests together and identities survive from request to request.
CallsUseOwnIdentity ==
    \A r \in Requests : sent[r].identity # NoIdentity =>
        sent[r].identity \in VisibleTo(EffectiveToken(ctx[r]))

\* Credentials kept beside an identity, by a request or a session, are that
\* identity's: switching, resetting or defaulting the identity never leaves
\* the previous one's behind.
CredentialsMatchIdentity ==
    /\ \A s \in Sessions : stored[s].creds \in {NoIdentity, stored[s].identity}
    /\ \A r \in Requests : ctx[r].creds \in {NoIdentity, ctx[r].identity}

\* The region a request is routed to is the region of the identity whose
\* credentials it carries, although the host is chosen before the await that
\* obtains the credentials.
HostMatchesCredentials ==
    \A r \in Requests : sent[r].identity # NoIdentity =>
        sent[r].host = RegionOf[sent[r].identity]

\* When the authentication layer has reset the identity a session had, the
\* reason is there for the tool to report (compute_session_state).
ResetIsReported ==
    \A r \in Requests : pc[r] = "running" /\ origin[r] = "reset" => ctx[r].swapped

\* A request that only worked with the identity its session had leaves the
\* session's identity as it is when it saves its state.
ReadersDoNotRevert ==
    [][\A r \in Requests :
         pc[r] = "closing" /\ pc'[r] = "idle" /\ origin[r] = "saved" =>
            stored'[sess[r]].identity = stored[sess[r]].identity]_vars

\* The profile a request's calls are scoped to was chosen in its own session,
\* or by no session (the configured profile).
ScopeIsOwn ==
    \A r \in Requests : pc[r] = "running" => ActiveProfile(r) \in {sess[r], NoSession}
=============================================================================
