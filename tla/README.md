# Verification of the Amazon Ads MCP server

TLA+ models, TLC runs and TLAPS proofs for `src/src/amazon_ads_mcp`: a FastMCP
server that lets AI clients call the Amazon Ads API. Paths below are relative to
that directory.

## 1. The system

The server is one Python process with one asyncio event loop. Code between two
`await`s that really suspend is atomic; everything else interleaves. Uncontended
`asyncio.Lock`s and `async` functions that never reach I/O do not suspend.

| Component | State it keeps | Operations | Interacts with |
|---|---|---|---|
| Session authentication: `auth/session_state.py`, `middleware/auth_session_bridge.py`, `RefreshTokenMiddleware` and `AuthSessionStateMiddleware` in `middleware/authentication.py` | ContextVars of a request (identity, credentials, profiles, token fingerprint, token override, reset reason); the copy of them in the MCP session | hydrate, detect a token swap, run the tool, persist | `AuthManager`, tools |
| `auth/manager.py` | `_credentials_cache`, per-identity refresh locks, `_default_profile_id`, the token store | `get_active_credentials`, `set_active_identity`, profiles, `get_token`/`set_token` | providers, token store |
| OpenBridge provider `auth/providers/openbridge.py` | JWTs and identity lists per token fingerprint, refresh locks | `get_token`, `list_identities`, `get_identity_credentials` | remote identity service |
| Direct provider `auth/providers/direct.py` | one access token, one refresh lock, `_region` (shared by all sessions) | `get_token`, `get_headers` | token store, LWA endpoint, `tools/region.py` |
| Token store `auth/token_store.py` | in-memory entries with a size limit; an encrypted file with the refresh tokens | get, set, invalidate, clear, cleanup, load at start | manager |
| Secure token store and OAuth: `auth/secure_token_store.py`, `auth/oauth_state_store.py`, `tools/oauth.py`, callback in `server/server_builder.py` | pending states, encrypted tokens | start, callback, status, refresh, clear | direct provider |
| HTTP resilience: `utils/http/resilience.py`, `resilient_client.py`, `circuit_breaker.py`, `retry.py` | circuit breaker and token bucket per endpoint | admit, record success/failure, retry with backoff | API |
| HTTP client pool `utils/http/client_manager.py` | shared clients | get, close all | all HTTP users |
| API request preparation `utils/http_client.py` | region override | route, scrub and inject headers | manager |
| Response cache `middleware/caching.py` | responses per method and arguments | hit, fill, expire | every tool |
| Code mode `server/code_mode.py` | session map of a script run | bridge auth state around the tools a script calls | session authentication |
| Profile listing `tools/profile_listing.py` | profile cache with TTL | list, refresh, search | API |
| Exports and files: `utils/export_download_handler.py`, `tools/download_tools.py`, `server/file_routes.py` | files on disk | download, list, serve, clean | API, HTTP routes |
| Tool transforms: `server/sidecar_*.py`, `transform_executor.py`, `async_hints_transform.py` | loaded transforms | rewrite arguments and responses | tools |
| Report fields: `tools/report_fields*.py`, `build/*` | packaged catalog | query; refresh the catalog | files |
| Sampling: `middleware/sampling.py`, `server/sampling_handler.py`, `utils/sampling_*` | fallback handler | sample | client or LLM |
| OpenAPI mounting, tool audit, models, settings, errors | none after start | parse, shape, validate | - |

What is hard:

- *Interleaving.* Tool calls of one session overlap, sessions share the manager,
  its caches and the direct provider's `_region`.
- *State read before an await.* Routing decided before credentials arrive; OAuth
  endpoint chosen before the region changes; snapshots saved whole.
- *Single flight and expiry.* Refreshes are coalesced with locks and rechecks, and
  results may already be inside the refresh skew when they arrive.
- *Failure.* Stores and middlewares swallow errors by design ("best effort"), so a
  failed write shows only later; a restart keeps part of the state only.
- *Limits.* Evictions of the JWT and token caches, breaker thresholds, bucket sizes.

What makes each component correct is stated by the properties in its module; the
list of hazards with their lines is `hazards` in `PROJECT.json`.

## 2. Plan

Modules, most important first; all are described in section 3. A module that models
an instance shared by several components is composed with them only where they
interact through state: the manager's part of the token store is `TokenStore`'s
`Shutdown`, the provider's part of credentials is `JwtRefresh`, the region a session
restores is `DirectProvider`'s `RestoreRegion`.

| # | Module | About | Proved |
|---|---|---|---|
| 1 | `SessionAuth` | a request's authentication state, the session's copy, routing | all that hold: isolation, ownership, credentials, host, resets, readers |
| 2 | `JwtRefresh`, implementing the abstract `SingleFlight` | coalesced refreshes, bounded caches, cancellation, liveness | refinement, exclusion, bounds |
| 3 | `TokenStore` | limit, expiry, persistence, keys, restart | all five properties |
| 4 | `Resilience` | breaker, bucket, retry loop, liveness | breaker, rate |
| 5 | `DirectProvider` | one region and one access token for all sessions | regions kept apart, no redundant exchange |
| 6 | `OAuthFlow` | states used once, tokens in memory and in two files, restarts | whole property |
| 7 | `JwtMiddleware` | conversion through a cache, validation, configuration | both properties |
| 8 | `CatalogRefresh`, implementing the abstract `AtomicCatalog` | files renamed in order, crashes, a lazy reader | refinement, one version served |
| 9 | `CodeMode` | a script's nested calls and futures | whole property |
| 10 | `HttpPool` | clients and the two clean-ups that close them | whole property |
| 11 | `CampaignTools`, `ServerBuild`, `ProfileListing`, `ProfilePaging`, `Downloads`, `ReportFields` | the tools and how the server offers them | all properties |

Left for later, most useful first: the copy `JWTCache.set` writes to the token store in a
task of its own; routing and header precedence in `utils/http_client.py` as operators;
concurrent refreshes of the catalog.

## 3. Modules

### SessionAuth

One action per step between awaits of a request: `Hydrate`, `AuthenticateOk` or
`AuthenticateFails`, any number of tools, `Finish`, `Persist`. Tools are
`SetActiveIdentity`, `SetActiveProfile`, `ClearActiveProfile` and `CallApi`; the
first and the last go through `get_active_credentials`, which is
`ResolveIdentity` (guard, default identity, fast path), `EnterRefresh` (lock and
recheck) and `FetchSucceeds`/`FetchFails`. `Finish` may also cut a tool short at
any await (error or cancellation). `ctx[r]` holds the request's ContextVars,
`stored[s]` the session's copy, `fresh` the identities whose `_credentials_cache`
entry is outside the refresh skew, `host[r]` the routing decision that waits for
the headers, `sent[r]` the call just sent.

A token stands for its fingerprint, an `Identity` and its `AuthCredentials` for
the identity id, a profile for the session that chose it. `origin` is a history
variable: where the request's identity comes from.

`Visible` is the remote service's answer to "which identities may this token
use". A credential cached in `_credentials_cache` is keyed by identity only, so
`CallsUseOwnIdentity` is a claim about the guards, not about the key.

Properties: `TenantStateOwned` (kept state belongs to the tenant whose fingerprint
is kept with it), `CallsUseOwnIdentity`, `CredentialsMatchIdentity`,
`HostMatchesCredentials`, `ResetIsReported`, `ReadersDoNotRevert`, `ScopeIsOwn`.

Runs. Two requests and two tenants are enough for one request to overtake another
at every await and for a swap in both directions.

| Run | Shows |
|---|---|
| `session_gateway` | two overlapping requests of one session, with and without tokens, failing session store: isolation holds |
| `session_switching` | one tenant, identities in two regions, two overlapping requests: credentials and host follow the identity |
| `session_sequential` | two sessions, one request at a time in each: resets are reported, readers do not revert |
| `session_mixed_tokens` | violated: a default token and per-request tokens in one server |
| `session_lost_update` | violated: two overlapping requests of one session |
| `session_shared_profile` | violated: a profile chosen before any identity |

Two weaknesses have no run of their own. With a configured default identity in
another region than the base URL, the first call of a session is routed before
that identity is loaded (`utils/http_client.py` reads the identity, then awaits
the headers): `HostMatchesCredentials` fails, and the passing run and the theorem
exclude it. A request without a token in a session that has an identity makes the
guard in `get_active_credentials` wipe it with no reason recorded:
`ResetIsReported` fails outside the deployment of `session_sequential`.

The two `VIEW`s drop variables that no action reads and no property of the run
depends on; `Interchangeable` permutes requests and sessions, which the module
never tells apart.

Proofs (`SessionAuth_proofs`). `TypeCorrect` is inductive as it stands.
`TenantIsolation` assumes `SingleTokenSource` (requests with tokens and requests
served by the default token do not meet in one server; `session_mixed_tokens`
shows it is needed). Its invariant `TenantInv` says of every kept state and every
context that its owner may use the identity in it; of a request, that its
override is absent or the fingerprint last seen, that it has neither before it is
authenticated, that it waits for credentials only with an identity that the guard
let pass, and that what it sent was visible to it. Without the first part an old
identity could pass the guard under a new token, without the second the guard
would compare with the wrong fingerprint.
`MatchingCredentials` adds only types. `RoutedToIdentity` assumes no default
identity (for the reason given above) and carries the host through the
waiting phases. None bounds the number of requests, sessions or tokens.

`StateHasItsOwner` is another conjunct of `TenantInv`. `ResetsReported` assumes
`UniformHeaders` (all requests carry tokens, or none does): its invariant adds that a
request whose identity was reset has the reason recorded, which holds because the silent
reset of `get_active_credentials` then finds nothing stale: the middleware has seen
the token first. `ReadersKeepIdentity` assumes finitely many requests, one at a time in a session, and
a store that does not fail, as `session_sequential` does: `AloneInv` says that the
requests in a session are one, and that an identity it found there is still the one
stored. `session_lost_update` shows that two at a time break it.

### JwtRefresh and SingleFlight

`JwtRefresh` is the pair of caches in `auth/providers/openbridge.py`. A caller is a
task in `get_token` (`GetToken`) or `list_identities` (`ListIdentities`). It returns
at once on a fresh JWT, or queues at the lock of its fingerprint; `Enter` is the
holder of the lock looking at the cache once more, `ExchangeSucceeds` and
`ExchangeFails` end its exchange and release the lock, `ListingSucceeds` and
`ListingFails` end the request that follows for `list_identities`. `Cancel` removes
a task wherever it waits, as `async with` does. `JwtAges` moves a JWT inside the
five minutes before its expiry; an exchange may also bring one that is there
already. `Close` clears both caches while exchanges are under way. An
`asyncio.Lock` is the queue of its tasks, first in first out.

`SingleFlight` is the promise: at most one exchange per key, none while a usable
result exists, waiters answered from it. `JwtRefresh` implements it with
`asking` = the keys of waiting and exchanging callers, `exchanging` = the keys being
exchanged, `usable` = the keys whose cached JWT is accepted.

| Run | Shows |
|---|---|
| `jwt_sharing` | `OneExchange`, `CachesBounded`, `ImplementsSingleFlight`, `EveryCallEnds`: three callers, two tokens, room for one |

Three callers are a holder, a waiter and one that arrives meanwhile; two tokens with
room for one make every insertion an eviction of the other key.

Fairness. `Enter` is fair because the event loop runs every task it has woken; the
ends of exchanges and listings are, because httpx puts a timeout on each. Nothing
is assumed of new calls, cancellations or ageing: a waiter whose predecessors all
fail exchanges itself.

Proofs (`JwtRefresh_proofs`). `LockInv` is types, plus: a caller is in the queue of
its key exactly while it waits or exchanges (`AtLock`), and only the head exchanges
(`Holds`). `OneExchange` follows, since a queue has one head and, by `AtLock`,
holds a caller once. `CachesBounded` is inductive beside it. `Refines` maps
every step to a step or a stutter of `SingleFlight`; it needs `LockInv` to know
that the exchange which ends is the only one for its key.

### TokenStore

`TokenStore` is `PersistentTokenStore` in `auth/token_store.py`. No method awaits, so
each is one action: `Set` (evicts the oldest entry of a full store, even to
overwrite), `Get` (drops expired entries, now and then all of them),
`Invalidate`, `InvalidatePattern` (inherited, knows nothing of the file). `Persist`
writes the refresh tokens in memory, or fails silently. `Start` chooses the
encryption key - the key file's, or a new one that may not be saved - and loads the
file's unexpired tokens; it refuses a file the key does not decrypt, and takes one
that cannot be read for a new installation. `Kill` loses the memory. `Shutdown` is
`AuthManager.close()`. Every read and write of the two files may fail at any time.

Four history variables let the properties say what the code promises under these
failures: `last` is the token a key was last given, `blind` marks a process that
could not read the file at its start, `saved` says that the last write succeeded,
`lost` that some process ended after one that failed. The last write matters, and
not all of them, because each writes everything: a success repairs what earlier
failures left. `NothingStale` exempts `lost`, `CrashSafe` the time until the next
successful write, `BadKeySparesFile` the processes that are `blind`; the code logs
these cases and goes on.

| Run | Shows |
|---|---|
| `store_restarts` | `WithinLimit`, `NothingStale`, `CrashSafe`, `BadKeySparesFile`: two refresh tokens and an access token, room for two |
| `store_shutdown` | violated: an orderly shutdown unlinks the file, so only a crash keeps the tokens |

Two refresh tokens and an access token with room for two give evictions of either
kind; three keys are the one in use, the file's and a fresh one. The patterns of the
run match access tokens only. One that matches a refresh token breaks
`NothingStale`: the file keeps the token and the next start loads it. Nothing in the
server calls `invalidate_pattern` yet.

Proofs (`TokenStore_proofs`), for every number of keys and every limit, under the
same failures. `LimitInv` (types; memory empty while down; memory and file within
the limit) gives `WithinLimit`: loading looks at no limit, so the file must respect
it too. `NothingComesBack` needs `FileFresh` (unless a failed write intervened, the
file holds only last tokens, and refresh tokens only) and that no pattern matches
a refresh token; it carries `saved` across restarts, because a failed write is
forgotten with its process. `CrashLosesNothing` is inductive beside `LimitInv`.
`FileSparedByBadKey` carries "a running process that could read the file has its
key".

### Resilience

`Resilience` is `utils/http/resilience.py`: requests through `ResilientRetry` to one
endpoint family of one region. `Begin` asks the breaker (`IsOpen`, `LetsThrough`)
and, if let through, makes the first round of `Acquire`; `Poll` is a later round,
`Wake` the start of another attempt; `Succeed`, `FailFinally` and `FailAndRetry` end
a call; `Abort` is a cancellation or an error that httpx does not raise, after which
nothing is recorded. `Tick` is the time in which the bucket gains a token.
Fractions of a token, metrics and the parsing of headers are left out. Timers
saturate where the code no longer tells values apart. `streak`, `age` and `taken` are history variables; `Watch` begins a new window at any time, so
`RateHeld` speaks of all windows up to `Window`.

| Run | Shows |
|---|---|
| `calls` | `BreakerConsistent`, `RateHeld`, `TripsOnRequests`, `EveryRequestEnds`, `CircuitRecovers`: two overlapping requests with two attempts each, a bucket of two, a breaker that trips and recovers on two |

Two things the code's comments announce are not there, and the model follows the
code: the bucket's limit on waiting requests tests a list nothing is appended to, so
`Acquire` has no such exit; and a Retry-After longer than the budget is cut to it, so
the request is sent again before the time the server asked for.

Two requests let a late result meet every state of the circuit; thresholds of two
tell "counted" from "reset"; a budget of three ticks has room for a wait, a retry
and a timeout.

Fairness. Time passes; the event loop runs sleeps that are over (`Poll`, `Wake`);
httpx timeouts end every call. `CircuitRecovers` also assumes `Demand`, that somebody
keeps calling, since the circuit half-opens only when asked.

Proofs (`Resilience_proofs`), for any number of requests and any limits. `BreakerInv` adds to
`BreakerConsistent` that a closed circuit counts exactly the requests that failed in
a row, which gives `TripsOnRequests`. `BucketInv` says that what the bucket could
hand out now and what it handed out in the window stay below its capacity plus the
window's age; `RateHeld` alone is not inductive, because it forgets the tokens
still in the bucket. `RequestInv` adds to the types that a request sleeps only before an
attempt it has.

### DirectProvider

`DirectProvider` is the provider of `auth/providers/direct.py`: one `_region`, one
`_access_token`, the tokens kept by region in the token store, and the lock around
the exchange of the refresh token. A call (`GetToken`) is served from the store or
the local token, or waits for the lock; its holder looks again (`Reuse`), or posts
(`Post`) to the endpoint of that moment and labels the answer with the region of
*its* moment (`Answer`). `Credentials` is what follows in `get_headers`: a second
look in the store, and the URL of the active region. `SetRegion` is the region tool,
which drops the local token; `RestoreRegion` is `hydrate_auth_from_mcp_session`,
which keeps it.

`tainted` records the two situations in which regions do mix: a switch inside an
exchange, and a region restored over a local token of another. `RegionsKeptApart`
says that nothing else mixes them, and `NoRedundantExchange` that nobody exchanges
while the last token is good for the active region (`current` is a history variable).

Proofs (`SignIn_proofs`), for any regions and calls: `DirectInv` is
`DirectTypeOK`, which says that one call at a time exchanges, `RegionsKeptApart` with its clause
that an untainted exchange posts to the active region, and `CurrentIsFresh`, which links the
history to the token. Without the clause about the endpoint an answer could be
filed under another region.

### OAuthFlow

`OAuthFlow` is the sign-in of the direct server. `Start`, `Accept` and `Reject` are
`OAuthStateStore` with its file; `Exchanged`, `StorageFails` and `ExchangeFails` the
rest of the callback; `CheckStatus`, `BeginRefresh` / `EndRefresh` and `Clear` the
tools; `EndMiddleware` the refreshing middleware; `ProviderExchange` the direct
provider picking a token up. A refresh token is its account; it is kept in the
session's context, the secure store and its file (`StoreToken`), the token store, which
has a file with `AMAZON_ADS_TOKEN_PERSIST` (`KeepToken`, `keptDisk`), and the provider.
Every save may fail. `AskForAccess` is what looking for an access token does to the
secure store: it reads the file again, or deletes an expired entry and saves the file.
`Restart` brings a new state secret unless one is configured, may lose the key of the
secure store's file, and loads the token store's file, which may fail as well.

`SignInLasts` has three parts: `StateAcceptedOnce`, `SuccessSurvives` (after the
success page the file holds that token or a later one) and `AuthenticatedIsUsable`
(a session that counts as signed in is one whose provider can sign in). The
first would fail with a configured secret and saves that fail, since the used state
then comes back pending with a restart: the run takes the default, a secret made at the start.

What the code does not keep, and the last part therefore leaves out: a refresh
writes the secure store and the token store in turn and goes on when the first write
fails. If it had no token in its file before and the server then restarts,
`check_oauth_status` finds the token store's and reports a sign-in, while the provider,
which only looks in the secure store, has nothing. The premise on `keptDisk` and
`secureDisk` is that case and no other.

The tool `clear_oauth_tokens` is described as clearing all stored tokens
(`server/builtin_tools.py:2110`, `tools/oauth.py:437`) and empties the session's context
only: `Clear` follows the code, and the next `CheckStatus` finds the tokens again.
No property states the description, since none of the reachable states after `Clear` with
a stored token satisfies it.

Proofs (`SignIn_proofs`): `SignInInv` strengthens `AuthenticatedIsUsable` by what holds
between clean-up and refresh: an account from the environment is the provider's, and who
is told to be signed in, or about to be, has a token in the secure store or the provider,
if the files agree (`FilesAgree`; a file that has a token keeps one, so that they
come apart only by a save that fails). It assumes
nothing. `StateAcceptedOnce` rests on `SpentInv`: a state that was accepted is pending
in memory only if the secret that signed it is gone, and in the file only if it will be.
Hence the hypothesis `UsedStatesStayUsed` of `SignInsLast`: states are not kept in a
file, or saves do not fail, or the secret does not outlive a restart. With a
configured secret and a failed save TLC finds the second acceptance: this is what the
code does, so that it is a hypothesis and not an assumption of the module.

### JwtMiddleware

`JwtMiddleware` is the token middlewares of the OpenBridge server. `Loaded` and
`OpenBridgeConfig` are the configuration from the environment. A request arrives with
two headers, either of which may be missing: `platform` is X-Openbridge-Token,
`authorization` is Authorization, and each may hold a refresh token or a JWT. The
one it is served with (`Own`) is the former if it is there. A refresh token is converted, from
the cache (`Hit`) or at OpenBridge (`Issue`, `Converted`, `ConversionFails`); a request whose
conversion failed goes on. `Validate` and `Refuse` decide whether the tool runs, on the
converted JWT or else on the JWT in Authorization, whatever the other header brought.
JWTs have ages in ticks. `JwtAssumption` says
what the code relies on and does not check: the cache's time to live and an answer's
timeout together are no more than a JWT's life. `HandedOutUnexpired` follows from
that only because `JWTCache.get` compares ages strictly.

`ClaimsReachTools` allows what the code does behind a gateway: when the conversion of
X-Openbridge-Token fails, the tool runs with the claims of the gateway's JWT in
Authorization, while API calls use the other token. What it excludes is a tool
with no claims where validation is on, and with those of any other request.

Proofs (`SignIn_proofs`), for any requests, headers, tokens and lifetimes within `JwtAssumption`: the
invariant adds to `ClaimsReachTools` that a JWT in the cache is older than its entry by no more
than an answer takes (`JwtAgesInv`), so that an entry within its time to live holds a JWT
within its life; and that whoever carries a JWT is served with a refresh token
(`ConvertedInv`).

### ServerBuild

`ServerBuild` is `ServerBuilder.build` as a sequence of phases, one spec mounted at a
time, and the two tool group tools once the server runs. All 1024 combinations of ten settings, package lists
with aliases and unknown names, and specs that cannot be parsed are initial states of the
module. `MountResource` mounts and then counts: where the tools cannot be listed, the
server stays mounted and is not counted (`uncounted`). An OpenBridge server without an
endpoint to convert tokens at installs none of the three authentication middlewares, the one that restores
sessions included.

A group is switched by a call of `EnableToolGroup`, one server at a time (`SwitchServer`), since
the tool awaits a list of tools for each: other calls come between, and `SwitchFails` may
end it half-way. `asked` is a history variable: what the last calls wanted of a group,
`"either"` if calls for opposites overlapped or one failed.

`BuiltAsConfigured`: `MountedAsAskedFor` (what was asked for and can be is mounted, and
nothing else), `EveryToolReachable`, `GroupsAsAsked` (a group is hidden or shown as a
whole, as was last asked), `TotalsAreOfMounted` (too low only for `uncounted`), and
`MiddlewareOrder`. One case is in `MountedAsAskedFor` as the code has it: an allowlist
that names only unknown packages restricts nothing, although the log
says that nothing is loaded (`server_builder.py:565`).

Proof (`Serving_proofs`), for any specs, prefixes, sizes and calls: specs are mounted one at a time and
each once (`MountedInv`), so that a group's count is the
cardinality of the tools of those counted (`CountsAddUp`); until the server is ready what is
enabled is what the settings say (`AsBuilt`), and from then on every server of a group that is not as
asked is ahead of some call for it (`GroupInv`); the middlewares pieced together so far are in order, and
the sidecar, if there is one, is the last of them (`MiddlewaresBuilt`).

### CampaignTools

`CampaignTools` describes the thirty-one tools by what each requires and may be
given, and runs them by the steps they share: the refusals of the wrapper and of the
tool, the read before a bid update, the request, the answer. The account is external: `Apply`
is the service doing what it is asked, whatever becomes of its answer, `Decline` the service
refusing. `UpdatesAreExact` joins `ReportIsTrue`, `OnlyWhatWasNamed` and
`UnnamedBidsRetained`. Two overlapping bid updates lose one of them: the API has no
condition to attach to a PUT, and `UnnamedBidsRetained` speaks of the case in
which the bidding is still what the call read.

Proofs (`Tools_proofs`), for any callers and any range of adjustments: `CampaignInv` says of each
call, by its stage, what it has written and what the service said (`ProgressOK`), that
the adjustments it was given are in range (`GivenOK`), and that so are those it read before
a bid update (`ReadBidding`). `UpdatesAreExact` follows per step; the account's
own types (`AccountOK`) are part of the proof only, as TLC would evaluate
them in every state.

### ProfileListing, ProfilePaging

`ProfileListing` is the cache of profile lists with the await in the middle:
`Lookup`, `Ask` (credentials), `Serve` (external), `Keep` or `FailFetch`; `Elicit` and
`Select` are the interactive selection. The stamp is taken before the await, and
`UnflaggedIsRecent` is why it must be. `FiledWhereRead` exempts a region switched
during the fetch (`switched`), since the key is computed before the credentials are.
`ProfilePaging` is a caller walking through `page_profiles`.

Proofs (`Tools_proofs`), for any calls, identities, regions and times: `ListInv` says of each entry
that it is filed under its identity and stamped no later than it was read, and of each
call that, unless a region was switched, the key it looked up is the place it
asks, that an answer it got was read after its start, and that what it
returns unflagged was read at most `ListTtl` before its start. For pages: those seen so far follow one another
up to where the walk has come, for any limit and length.

### CodeMode

`CodeMode` is one block: the dispatch loop of `MontyDispatchSandboxProvider` and the
bridge of `AuthBridgingSandboxProvider` around each nested call. The script is
arbitrary. `auth` and `sessionAuth` stand for the context of the request and of the
session by naming the call that set them; a request whose token was swapped begins with a
context of its own (`Swapped`). The request may have no session, and then nothing is read or
saved; with one, the read in `Hydrate` and the save in `SaveContext` may fail, which the
bridge swallows. Other requests of the session are left to `SessionAuth`.

`ContextSurvives` says that the context last set is the request's in every call and the
session's between calls, also after a call that failed, except while it is `missed`: a
save failed, or a swapped token has not been saved yet. Then the next nested call does read
the session's old context back, which after a swap is the other tenant's, until a
tool sets one that is saved. `FuturesResolve` is about futures awaited in any order and
any number; `RunOnce` says that a call that yields a value has run once.

Proof (`Serving_proofs`): the invariant adds to `CodeTypeOK` and the property which calls have
run, by `script` and `callId`.

### Downloads

`Downloads` is `download_export` from its first chunk to its return, for overlapping
downloads: the stream to a file, its limit and the clean-up when it breaks
(`Receive`, `Break`); the unpacking into a second file (`Unpack`), which a cancellation
leaves to a thread that goes on alone (`AbandonUnpack`, `UnpackAlone`); the metadata
(`SaveMetadata`); and failures and cancellations after the stream (`Abort`), for which nothing is
removed. `Listed`, `Reach`, `Served` and `ReadFrom` are what the tools and the
HTTP routes see of a file. `DownloadsCorrect` speaks of downloads that share no name
(`Alone`): for two that do, one may remove or overwrite the other's file, and the code
promises nothing. Unpacked files are exempt from `DownloadedIsServed`, as their size is not limited
while the routes' is.

A download that fails while it streams leaves nothing. One that fails later leaves its
file, which is listed and served although the caller was told of a failure:
`FailureLeavesNoPart` says that this file then has all that was received. What a
cancelled unpacking writes beside it may be a part, and is exempt.

Proofs (`Tools_proofs`), for any downloads, names and limit: `DlInv` says for each stage what is
at the names of a download that is alone with them (`OwnsItsFiles`), which names and sizes
it can have (`StageInv`), and that there is nothing at a name nobody has
used (`NothingElsewhere`). Names are only added to those in use, so that who
shares none now never has.

### CatalogRefresh, AtomicCatalog, ReportFields

`CatalogRefresh` is the packaged catalog: `BeginRefresh`, then `WriteTmp` and
`ReplaceFile` for each of five files in `CommitOrder`, `FailRefresh` and `KillRefresh` at any of
them; a server process that checks the hashes (`LoadMeta`) and reads the
rest when it is first needed (`LoadFile`); `InSync` is `--check`. `CatalogRefresh`
implements `AtomicCatalog`, in which the version changes as a whole or is not
readable: `committed` is the version of `catalog_meta`, `readable` what a reader gets who
checks the hashes. `OneVersionServed` exempts processes across whose reading a
refresh runs (`settled`), since the hashes are checked once.
Proofs (`Serving_proofs`): the invariant says that the files before `fileNo` are
of the target version while a refresh runs, that the manifest is of the version of
`catalog_meta`, and that what a settled process has loaded is still on disk.

Two things the module leaves out or leaves to others. `BeginRefresh` waits for the refresh
before it: the code has no lock, and two refreshes at once would write one `.tmp`. And
`index.json` is not among the hashed files, so that after two kills, of refreshes from different
sources, a loader accepts a stale one, contrary to what the docstring of
`refresh_v1_catalog.py` (lines 8-10) has it; `OneVersionServed` says that `--check` finds it.

`ReportFields` is the catalog as data: `CheckReferences`, then the depth-first search of
`check_no_cycles`, a call of `dfs` at a time (`Visit`, `Look`, `Leave`), then `Accept`; and, as
operators, the derived graph and the two modes of `report_fields`. The sources are
arbitrary: required and complementary fields, labels with and without a key, dimensions
that share a prefix, metrics that mark a field both ways. The checks of charset,
uniqueness and compatibility floor look at records alone, and here only pass or
fail (`fails`). The path is a variable, since a recursive operator could be checked but not
proved about, and neighbours are looked at in any order. `AnswersAgree` says which sources are
refused, comparing the search with a definition of circles by sets, and that of what a query
offers validation refuses exactly what the metric itself marks both ways
(`MarkedBothWays`), by one label or by two of one prefix. Nothing in a refresh looks for
such metrics, so that the two modes do disagree about them.

Proof (`Tools_proofs`), for any fields, labels and sources: along the path each node
is required by the one before it; what a node on it requires and has been looked at is black or
the next of the path (`LookedAt`); what a black node requires is black; and every set of black
nodes has one that requires none of the set (`BlackEnds`). So a node found on the path closes a
circle from it to the end, and when all are black there is none. `BlackEnds` is kept
because the node that turns black requires black nodes only; this is why no
induction over the graph is needed. About queries and validation nothing need be
assumed (`QueryAgrees`).

### HttpPool

`HttpPool` is the table of shared clients, `close_all`, and the two callers of
`close_all`: the server's lifespan and the clean-up a signal handler starts, which
does not end the server. Clients made while a clean-up runs (`late`) are dropped from
the table and never closed; `CleanupClosesAll` exempts them and those whose `aclose`
failed. Proof (`Serving_proofs`): `PoolInv` says that one `close_all` runs at a time and it alone
has clients to close, that before the first clean-up the table has every open
client and from then on those left are ahead of some `close_all`, and that outside of one
the table has open clients only.

### The runs of these components

The components share no state, so each of two MC modules holds several, and a
behaviour exercises one of them (`part`) while the others stay in one initial state.
The properties of all are checked in one run; each is vacuous only in the parts it
is not about.

| Run | Shows |
|---|---|
| `signin` (`MCSignIn`) | `RegionsKeptApart`, `NoRedundantExchange`, `SignInLasts`, `ClaimsReachTools`, `HandedOutUnexpired`, and types |
| `tools` (`MCTools`) | `BuiltAsConfigured`, `AtMostOneWrite`, `UpdatesAreExact`, `ListingsCorrect`, `BlockCorrect`, `DownloadsCorrect`, `OneVersionServed`, `CommitsAtomically`, `AnswersAgree`, `PoolOutlivesCleanup`, and types |

Bounds, and why they are enough. `signin`: two calls are the holder of the lock and
one that overtakes or waits, two regions the old and the new; one state and two
accounts are a sign-in over a token an earlier run left in the secure store, with
two restarts, so that a save may fail, be repaired and fail again between them; two requests with two refresh tokens are
conversions of one token at once, or of two, each with any pair of headers; a life of three ticks is a
time to live of two and an answer of one.
`tools`: two specs under one prefix, with an alias, an alias of nothing and an unknown name, and two
calls that switch groups; what only the middlewares depend on is varied apart from what the
groups depend on (`Apart`); two callers
with two calls in all, each with at most `MaxGiven` = 1 optional argument that matters, and
`MaxPct` = 1 for the 900 of the code (values 0, in range, and one beyond);
`MeetingCalls` lets overlapping calls be about one kind of entity, as others touch
disjoint parts of the account; two listings of two identities in two regions, a time to
live of one in a time of two; pages of up to 3 in lists of up to 8; four nested calls;
two downloads of two names with a limit of one chunk; two versions of the catalog and one server process;
two dimensions, one metric, two labels and two prefixes, with requirements, complements, labels or
failed checks varied one at a time (`OneThing`), since no check looks at two of them together;
two configurations and four clients.
Deadlock is not checked in `tools`, as most of these components come to an end; the
symmetry permutes listing calls and identities in `tools`, accounts in
`signin`, none of which the modules tell apart.

## 4. What is proved, and what is only checked

The theorems in `PROJECT.json` hold for all values of the constants under the named
`ASSUME`s of the modules, which TLC evaluates in every run, and the conditions
named in the theorems. Proof modules:

| Module | About |
|---|---|
| `SessionAuth_proofs`, `JwtRefresh_proofs`, `TokenStore_proofs`, `Resilience_proofs` | the component of that name |
| `SignIn_proofs` | `DirectProvider`, `OAuthFlow`, `JwtMiddleware` and their composition `MCSignIn` |
| `Serving_proofs` | `ServerBuild`, `CodeMode`, `CatalogRefresh`, `HttpPool` |
| `Tools_proofs` | `CampaignTools`, `ProfileListing`, `ProfilePaging`, `Downloads`, `ReportFields` |
| `MCTools_proofs` | the composition `MCTools` |

`SignInComposes` and `ToolsCompose` say that the compositions the runs check implement each of
their components: `Init` and `Next` only restrict which of them moves, and the choice
of initial states for those that do not. So the theorems about components are
about what the runs check, and the invariants the runs state of the compositions
(`SignInTypesOK`, `ToolsTypesOK`, `ListingsCorrect`) follow.

Hypotheses beyond the modules' assumptions: `SingleTokenSource`, `UniformHeaders`, and one
request per session, no default identity for `SessionAuth`; `UsedStatesStayUsed` for `OAuthFlow`;
patterns that match no refresh token for `NothingComesBack`. Each is the condition under
which the code keeps the promise, each is met by a run, and the section of the
module says what happens without it.

Only model-checked: the liveness properties
(`EveryCallEnds`, `EveryRequestEnds`, `CircuitRecovers`), since fairness and `ENABLED`
are out of the prover's reach; and the violations. Every invariant and every other action
property of the passing runs is a theorem.

The exemptions the properties make are history variables with a name: `tainted`,
`switched`, `settled`, `late`, `unclosable`, `blind`, `lost`, `missed`, `uncounted`, and
`asked` where it is `"either"`. Two exemptions are conditions on the state itself: the premise of
`AuthenticatedIsUsable` and `MarkedBothWays`. Each stands for a situation in
which the code does break the promise, named in the module's section, and the
property says that it is the only one.

## 5. Not modelled

- The response cache (`middleware/caching.py`): its store, keys and expiry are
  FastMCP's. `list_downloads` depends on the profile and the disk and is in the list of
  tools whose answers are kept; the hazard stays without a property. So does that of
  `clear_oauth_tokens`, whose action is modelled (section 3, OAuthFlow).
- `utils/http/circuit_breaker.py`, `retry.py`, `request.py` and
  `resilient_client.py`: nothing in `src` calls them. `resilience.py`, which `Resilience`
  models, is imported by `resilient_client.py` alone, so that in this version no request
  goes through it.
- Sidecar rules and transforms, sampling, prompts, OpenAPI rewriting, media types,
  the auth registry, model classes, settings, error texts, HTML pages and the tool
  audit: no state, or state set once at the start.
- Contents of API requests and answers beyond the fields a tool names; the content of metadata
  files of exports; clipping, required fields in query and validate, and suggestions of
  `report_fields`; the copies `JWTCache.set`
  writes to the token store.
