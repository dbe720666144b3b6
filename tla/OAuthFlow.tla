------------------------------ MODULE OAuthFlow ------------------------------
(***************************************************************************)
(* Signing in at Amazon: the store of OAuth state tokens, the callback that *)
(* exchanges a code for tokens, the places that keep a refresh token (the   *)
(* session's context, the secure store in memory and on disk, the token     *)
(* store, the direct provider), the OAuth tools, the middleware that        *)
(* refreshes a session's tokens, and restarts of the server.                *)
(*                                                                         *)
(* A refresh token is named by the account it was granted for.             *)
(***************************************************************************)
EXTENDS Naturals, FiniteSets

CONSTANTS States,        \* OAuth state tokens
          Accounts, NoAccount,
          Sessions,
          EnvAccount,    \* account of the configured refresh token, or NoAccount
          PersistStates, \* OAUTH_STATE_PERSIST
          StableSecret,  \* OAUTH_STATE_SECRET is set
          PersistTokens, \* AMAZON_ADS_TOKEN_PERSIST: the token store has a file
          SavesMayFail,
          MaxRestarts

ASSUME OAuthAssumption ==
    /\ NoAccount \notin Accounts
    /\ EnvAccount \in Accounts \cup {NoAccount}
    /\ PersistStates \in BOOLEAN /\ StableSecret \in BOOLEAN
    /\ PersistTokens \in BOOLEAN /\ SavesMayFail \in BOOLEAN
    /\ MaxRestarts \in Nat

VARIABLES
    states,      \* _memory_store: state -> where it stands
    statesDisk,  \* oauth_states.json
    age,         \* state -> its age: "valid", "expired", "forgotten"
    signer,      \* state -> number of the secret it is signed with
    restarts,    \* restarts so far; also the number of the secret in use
    callback,    \* state -> account whose code the callback exchanges for it
    refreshing,  \* session -> account whose token is being refreshed for it
    context,     \* session -> account in its oauth_tokens
    secure,      \* _memory_cache: account of oauth_refresh_token
    secureDisk,  \* tokens.enc
    kept,        \* token store: account of the REFRESH token
    keptDisk,    \* its file, if it has one
    readable,    \* tokens.enc can be decrypted with the key in use
    provider,    \* refresh_token of the direct provider
    accepted,    \* history: state -> times it was accepted
    shown        \* history: accounts stored since a success page, its own included

stateVars == <<states, statesDisk, age, signer, accepted>>
tokenVars == <<context, secure, secureDisk, readable, kept, keptDisk, provider,
               shown>>
oauthVars == <<stateVars, tokenVars, restarts, callback, refreshing>>

Entries == {"absent", "pending", "used"}
Optional == Accounts \cup {NoAccount}

\* Types; states are on disk only when that is asked for, and a code is being
\* exchanged only for a state that no longer is pending.
OAuthTypeOK ==
    /\ states \in [States -> Entries] /\ statesDisk \in [States -> Entries]
    /\ age \in [States -> {"valid", "expired", "forgotten"}]
    /\ signer \in [States -> 0..MaxRestarts]
    /\ restarts \in 0..MaxRestarts
    /\ callback \in [States -> Optional]
    /\ refreshing \in [Sessions -> Optional]
    /\ context \in [Sessions -> Optional]
    /\ secure \in Optional /\ secureDisk \in Optional
    /\ kept \in Optional /\ keptDisk \in Optional /\ provider \in Optional
    /\ accepted \in [States -> Nat]
    /\ shown \in SUBSET Accounts
    /\ readable \in BOOLEAN
    /\ secureDisk = NoAccount => readable
    /\ \A s \in States : callback[s] # NoAccount => states[s] # "pending"
    /\ PersistStates \/ \A s \in States : statesDisk[s] = "absent"
    /\ PersistTokens \/ keptDisk = NoAccount

\* The secure store may hold what an earlier run left there.
OAuthInit ==
    /\ states = [s \in States |-> "absent"] /\ statesDisk = states
    /\ age = [s \in States |-> "valid"]
    /\ signer = [s \in States |-> 0]
    /\ restarts = 0
    /\ callback = [s \in States |-> NoAccount]
    /\ refreshing = [x \in Sessions |-> NoAccount]
    /\ context = [x \in Sessions |-> NoAccount]
    /\ secure \in Optional /\ secureDisk = secure
    /\ kept = NoAccount /\ keptDisk = NoAccount
    /\ provider = EnvAccount
    /\ accepted = [s \in States |-> 0]
    /\ shown = {}
    /\ readable = TRUE

-----------------------------------------------------------------------------
(* The store of OAuth states.                                              *)

\* _save_store: an error is logged and forgotten.
SaveStates(new) ==
    \/ statesDisk' = IF PersistStates THEN new ELSE statesDisk
    \/ SavesMayFail /\ UNCHANGED statesDisk

\* start_oauth_flow: a new state, signed with the secret in use.
Start(s) ==
    /\ states[s] = "absent" /\ accepted[s] = 0 /\ age[s] = "valid"
    /\ states' = [states EXCEPT ![s] = "pending"]
    /\ signer' = [signer EXCEPT ![s] = restarts]
    /\ SaveStates(states')
    /\ UNCHANGED <<age, accepted, tokenVars, restarts, callback, refreshing>>

\* Ten minutes, then another hour, have passed for a state.
GrowOld(s) ==
    /\ states[s] # "absent" /\ age[s] # "forgotten"
    /\ age' = [age EXCEPT ![s] = IF @ = "valid" THEN "expired" ELSE "forgotten"]
    /\ UNCHANGED <<states, statesDisk, signer, accepted, tokenVars, restarts,
                   callback, refreshing>>

\* _clean_expired, which begins every validation.
Cleaned == [s \in States |-> IF age[s] = "forgotten" THEN "absent" ELSE states[s]]

SignedBySecret(s) == StableSecret \/ signer[s] = restarts

\* validate_state, of a callback that carries s and a code of account a.
Acceptable(s) == Cleaned[s] = "pending" /\ age[s] = "valid" /\ SignedBySecret(s)

\* The state is marked used and saved, then the exchange begins.
Accept(s, a) ==
    /\ Acceptable(s)
    /\ states' = [Cleaned EXCEPT ![s] = "used"]
    /\ SaveStates(states') \/ (SavesMayFail /\ SaveStates(Cleaned))
    /\ accepted' = [accepted EXCEPT ![s] = @ + 1]
    /\ callback' = [callback EXCEPT ![s] = a]
    /\ UNCHANGED <<age, signer, tokenVars, restarts, refreshing>>

\* Unknown, used, expired or badly signed: answered with 403.
Reject(s) ==
    /\ ~Acceptable(s)
    /\ states' = Cleaned
    /\ IF states' = states THEN UNCHANGED statesDisk ELSE SaveStates(states')
    /\ UNCHANGED <<age, signer, accepted, tokenVars, restarts, callback, refreshing>>

-----------------------------------------------------------------------------
(* The stores of tokens.                                                   *)

\* Fault: the token is kept in memory and saved some other time.
StoreTokenLater(a, saved) ==
    /\ secure' = a
    /\ UNCHANGED <<secureDisk, readable>>

\* store_token: the memory is changed first; a failed save raises.
StoreToken(a, saved) ==
    /\ secure' = a
    /\ secureDisk' = IF saved THEN a ELSE secureDisk
    /\ readable' = (saved \/ readable)
    /\ saved \/ SavesMayFail

\* set_token: the token store's file is written as well, and an error forgotten.
KeepToken(a) ==
    /\ kept' = a
    /\ \/ keptDisk' = IF PersistTokens THEN a ELSE keptDisk
       \/ SavesMayFail /\ UNCHANGED keptDisk

\* The exchange succeeds and both tokens are stored: the success page.
Exchanged(s) ==
    /\ callback[s] # NoAccount
    /\ callback' = [callback EXCEPT ![s] = NoAccount]
    /\ StoreToken(callback[s], TRUE)
    /\ KeepToken(callback[s])
    /\ shown' = {callback[s]}
    /\ UNCHANGED <<stateVars, context, provider, restarts, refreshing>>

\* One of the two saves fails: the page of a storage error.
StorageFails(s) ==
    /\ callback[s] # NoAccount /\ SavesMayFail
    /\ callback' = [callback EXCEPT ![s] = NoAccount]
    /\ \E saved \in BOOLEAN : StoreToken(callback[s], saved)
    /\ shown' = IF shown = {} THEN {} ELSE shown \cup {callback[s]}
    /\ UNCHANGED <<stateVars, context, kept, keptDisk, provider, restarts, refreshing>>

\* Amazon refuses the code, or does not answer.
ExchangeFails(s) ==
    /\ callback[s] # NoAccount
    /\ callback' = [callback EXCEPT ![s] = NoAccount]
    /\ UNCHANGED <<stateVars, tokenVars, restarts, refreshing>>

-----------------------------------------------------------------------------
(* The OAuth tools and the middleware, in session x.                       *)

\* _load_tokens: the memory becomes what the file holds, if there is a file.
Reloaded == IF secureDisk = NoAccount THEN secure
            ELSE IF readable THEN secureDisk ELSE NoAccount

\* Where a session's refresh token comes from.
Found(x) == CASE context[x] # NoAccount -> context[x]
              [] context[x] = NoAccount /\ secure # NoAccount -> secure
              [] OTHER -> kept

\* The status tool asks the secure store for the access token as well: it is there,
\* or is not and the file is read again, or has expired: it is deleted, and the
\* file saved without it.
AskForAccess ==
    \/ UNCHANGED <<secure, secureDisk, readable>>
    \/ secure' = Reloaded /\ UNCHANGED <<secureDisk, readable>>
    \/ secure # NoAccount /\ secureDisk' = secure /\ readable' = TRUE /\ UNCHANGED secure

\* check_oauth_status: authenticated if a token is found anywhere, the environment
\* included; what is found is cached in the context. An expired access token whose
\* deletion cannot be saved hides the refresh token found before it.
CheckStatus(x) ==
    /\ \/ context[x] # NoAccount
          /\ UNCHANGED <<context, secure, secureDisk, readable>>
       \/ context[x] = NoAccount /\ AskForAccess
          /\ context' = [context EXCEPT ![x] =
                           IF Found(x) # NoAccount THEN Found(x) ELSE EnvAccount]
       \/ context[x] = NoAccount /\ secure # NoAccount /\ SavesMayFail
          /\ context' = [context EXCEPT ![x] = IF kept # NoAccount THEN kept ELSE EnvAccount]
          /\ UNCHANGED <<secure, secureDisk, readable>>
    /\ UNCHANGED <<stateVars, kept, keptDisk, provider, shown,
                   restarts, callback, refreshing>>

\* refresh_oauth_token and the middleware take a token to Amazon.
BeginRefresh(x) ==
    /\ refreshing[x] = NoAccount /\ Found(x) # NoAccount
    /\ refreshing' = [refreshing EXCEPT ![x] = Found(x)]
    /\ UNCHANGED <<stateVars, tokenVars, restarts, callback>>

\* The tool writes to the context, to the secure store as far as it can, and
\* to the token store if Amazon sent another refresh token.
EndRefresh(x) ==
    /\ refreshing[x] # NoAccount
    /\ context' = [context EXCEPT ![x] = refreshing[x]]
    /\ \E saved \in BOOLEAN : StoreToken(refreshing[x], saved)
    /\ UNCHANGED <<kept, keptDisk>> \/ KeepToken(refreshing[x])
    /\ shown' = IF shown = {} THEN {} ELSE shown \cup {refreshing[x]}
    /\ refreshing' = [refreshing EXCEPT ![x] = NoAccount]
    /\ UNCHANGED <<stateVars, provider, restarts, callback>>

\* The middleware writes to the context only, and never takes another source.
EndMiddleware(x) ==
    /\ refreshing[x] # NoAccount
    /\ context' = [context EXCEPT ![x] = refreshing[x]]
    /\ refreshing' = [refreshing EXCEPT ![x] = NoAccount]
    /\ UNCHANGED <<stateVars, secure, secureDisk, readable, kept, keptDisk, provider,
                   shown, restarts, callback>>

RefreshFails(x) ==
    /\ refreshing[x] # NoAccount
    /\ refreshing' = [refreshing EXCEPT ![x] = NoAccount]
    /\ UNCHANGED <<stateVars, tokenVars, restarts, callback>>

\* clear_oauth_tokens: the context of the session, and nothing else.
Clear(x) ==
    /\ context' = [context EXCEPT ![x] = NoAccount]
    /\ UNCHANGED <<stateVars, secure, secureDisk, readable, kept, keptDisk, provider,
                   shown, restarts, callback, refreshing>>

\* The direct provider exchanges its own refresh token, or the secure store's.
ProviderExchange ==
    /\ provider' = IF provider # NoAccount THEN provider ELSE secure
    /\ provider' # NoAccount
    /\ UNCHANGED <<stateVars, context, secure, secureDisk, readable, kept, keptDisk,
                   shown, restarts, callback, refreshing>>

\* The server restarts: a secret of its own unless one is configured, tokens
\* that can be decrypted unless the key is lost, sessions that are new, and a token
\* store that is empty unless it has a file and loads it.
Restart ==
    /\ restarts < MaxRestarts
    /\ restarts' = restarts + 1
    /\ states' = statesDisk
    /\ callback' = [s \in States |-> NoAccount]
    /\ refreshing' = [x \in Sessions |-> NoAccount]
    /\ context' = [x \in Sessions |-> NoAccount]
    /\ readable' \in IF secureDisk = NoAccount THEN {TRUE} ELSE BOOLEAN
    /\ secure' = IF readable' THEN secureDisk ELSE NoAccount
    /\ kept' \in {NoAccount, keptDisk}
    /\ provider' = EnvAccount
    /\ UNCHANGED <<statesDisk, age, signer, accepted, secureDisk, keptDisk, shown>>

OAuthNext ==
    \/ \E s \in States :
        \/ Start(s) \/ GrowOld(s) \/ Reject(s) \/ \E a \in Accounts : Accept(s, a)
        \/ Exchanged(s) \/ StorageFails(s) \/ ExchangeFails(s)
    \/ \E x \in Sessions :
        \/ CheckStatus(x) \/ BeginRefresh(x) \/ EndRefresh(x) \/ EndMiddleware(x)
        \/ RefreshFails(x) \/ Clear(x)
    \/ ProviderExchange \/ Restart

OAuthSpec == OAuthInit /\ [][OAuthNext]_oauthVars
-----------------------------------------------------------------------------
\* A state token buys one exchange of a code and no more, whatever becomes of
\* that exchange, of the file of states and of the server; where a failed save
\* can bring a used state back, the new secret refuses it. (validate_state.)
StateAcceptedOnce == \A s \in States : accepted[s] <= 1

\* When the user has seen the success page, the file holds the token of that
\* sign-in or of one stored later, whichever saves fail and whenever the
\* server stops. (oauth_callback, store_token.)
SuccessSurvives == shown # {} => secureDisk \in shown

\* A session that is told it is authenticated, or is about to be, is told the truth:
\* the provider finds a refresh token of its own or in the secure store, as long as the
\* file can be decrypted, over restarts with and without a file of the token store. Not
\* so where a refresh has written its token to that file and could not write the secure
\* store's, which has none yet: that premise the code does not keep.
\* (check_oauth_status, refresh_access_token, _refresh_access_token_locked.)
AuthenticatedIsUsable ==
    /\ kept # NoAccount \/ \E x \in Sessions : context[x] # NoAccount
    /\ readable
    /\ keptDisk # NoAccount => secureDisk # NoAccount
    => secure # NoAccount \/ provider # NoAccount

\* A sign-in that was reported lasts, one that is reported can be used, and no state
\* signs in twice.
SignInLasts == StateAcceptedOnce /\ SuccessSurvives /\ AuthenticatedIsUsable
=============================================================================
