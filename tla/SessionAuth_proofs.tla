-------------------------- MODULE SessionAuth_proofs --------------------------
(***************************************************************************)
(* Proofs about SessionAuth for any number of requests, sessions, tokens   *)
(* and identities: type correctness, credentials that match the identity   *)
(* they are kept with; tenant isolation in deployments with one source of  *)
(* tokens, resets in those where all requests carry one or none does, and  *)
(* readers in sessions with one request at a time.                         *)
(***************************************************************************)
EXTENDS SessionAuth, FiniteSetTheorems, TLAPS

-----------------------------------------------------------------------------
(* What the operators on ContextVars return.                               *)

LEMMA ActivateType ==
    ASSUME NEW c \in Contexts, NEW i \in Identities
    PROVE  /\ ActivateIdentity(c, i) \in Contexts
           /\ ActivateIdentity(c, i).identity = i
           /\ ActivateIdentity(c, i).creds \in {NoIdentity, i}
           /\ ActivateIdentity(c, i).profiles = c.profiles
           /\ ActivateIdentity(c, i).lastFp = c.lastFp
           /\ ActivateIdentity(c, i).override = c.override
  BY DEF ActivateIdentity, Contexts, IdentityOrNone

LEMMA WipeType ==
    ASSUME NEW c \in Contexts
    PROVE  /\ WipeTenantState(c) \in Contexts
           /\ WipeTenantState(c).identity = NoIdentity
           /\ WipeTenantState(c).creds = NoIdentity
           /\ WipeTenantState(c).profiles = {}
           /\ WipeTenantState(c).lastFp = c.lastFp
           /\ WipeTenantState(c).override = c.override
  BY DEF WipeTenantState, Contexts, IdentityOrNone

\* After the middleware has seen a token, either nothing of an earlier tenant
\* is left or the session was last used with this very token or with none.
LEMMA SeeTokenType ==
    ASSUME NEW c \in Contexts, NEW t \in Tokens
    PROVE  /\ SeeToken(c, t) \in Contexts
           /\ SeeToken(c, t).lastFp = t
           /\ SeeToken(c, t).override = t
           /\ \/ /\ SeeToken(c, t).identity = NoIdentity
                 /\ SeeToken(c, t).creds = NoIdentity
                 /\ SeeToken(c, t).profiles = {}
              \/ /\ c.lastFp \in {NoToken, t}
                 /\ SeeToken(c, t).identity = c.identity
                 /\ SeeToken(c, t).creds = c.creds
                 /\ SeeToken(c, t).profiles = c.profiles
  <1> DEFINE swap == c.lastFp # NoToken /\ c.lastFp # t
  <1> DEFINE kept == IF swap THEN WipeTenantState(c) ELSE c
  <1>1. kept \in Contexts
    BY WipeType
  <1>2. SeeToken(c, t) = [kept EXCEPT !.lastFp = t, !.override = t, !.swapped = swap]
    BY DEF SeeToken
  <1>3. swap \in BOOLEAN
    OBVIOUS
  <1> HIDE DEF kept, swap
  <1>4. /\ SeeToken(c, t) \in Contexts
        /\ SeeToken(c, t).lastFp = t /\ SeeToken(c, t).override = t
        /\ SeeToken(c, t).identity = kept.identity
        /\ SeeToken(c, t).creds = kept.creds
        /\ SeeToken(c, t).profiles = kept.profiles
    BY <1>1, <1>2, <1>3 DEF Contexts, TokenOrNone
  <1> QED
    BY <1>4, WipeType DEF kept, swap

LEMMA GuardType ==
    ASSUME NEW c \in Contexts
    PROVE  /\ GuardTenant(c) \in Contexts
           /\ GuardTenant(c).lastFp = c.lastFp
           /\ GuardTenant(c).override = c.override
           /\ \/ GuardTenant(c) = c /\ ~IsStale(c)
              \/ /\ GuardTenant(c).identity = NoIdentity
                 /\ GuardTenant(c).creds = NoIdentity
                 /\ GuardTenant(c).profiles = {}
  BY WipeType DEF GuardTenant

LEMMA DefaultType ==
    ASSUME NEW c \in Contexts
    PROVE  /\ EnsureDefault(c) \in Contexts
           /\ EnsureDefault(c).lastFp = c.lastFp
           /\ EnsureDefault(c).override = c.override
           /\ EnsureDefault(c).profiles = c.profiles
           /\ \/ EnsureDefault(c) = c
              \/ /\ EnsureDefault(c).identity = DefaultIdentity
                 /\ EnsureDefault(c).creds \in {NoIdentity, DefaultIdentity}
                 /\ DefaultIdentity \in VisibleTo(EffectiveToken(c))
  <1>1. ASSUME DefaultIdentity \in VisibleTo(EffectiveToken(c))
        PROVE  DefaultIdentity \in Identities
    BY <1>1, DeploymentAssumption
    DEF VisibleTo, EffectiveToken, Contexts, TokenOrNone
  <1> QED
    BY <1>1, ActivateType DEF EnsureDefault

LEMMA VisibleIsIdentity ==
    ASSUME NEW c \in Contexts, NEW i \in VisibleTo(EffectiveToken(c))
    PROVE  i \in Identities /\ i # NoIdentity
  BY DeploymentAssumption, NullsAreFresh
  DEF VisibleTo, EffectiveToken, Contexts, TokenOrNone

-----------------------------------------------------------------------------
(* Type correctness.                                                       *)

USE DEF vars

LEMMA InitType == Init => TypeOK
  BY DeploymentAssumption
  DEF Init, TypeOK, NothingSaved, Unset, NothingSent, SavedStates, Contexts,
      IdentityOrNone, TokenOrNone, Phases, Origins

LEMMA NullTypes ==
    NothingSaved \in SavedStates /\ Unset \in Contexts
  BY DEF NothingSaved, SavedStates, Unset, Contexts, IdentityOrNone, TokenOrNone

\* What a hydrated request starts from is well typed.
LEMMA HydratedType ==
    ASSUME NEW st \in SavedStates
    PROVE  /\ HydratedContext(st) \in Contexts
           /\ HydratedContext(st).identity = st.identity
           /\ HydratedContext(st).creds = st.creds
           /\ HydratedContext(st).profiles = st.profiles
           /\ HydratedContext(st).lastFp = st.lastFp
           /\ HydratedContext(st).override = NoToken
  BY DEF HydratedContext, SavedStates, Contexts, Unset, TokenOrNone

LEMMA ClearType ==
    ASSUME NEW c \in Contexts
    PROVE  /\ ClearRequestVars(c) \in Contexts
           /\ ClearRequestVars(c).identity = c.identity
           /\ ClearRequestVars(c).creds = c.creds
           /\ ClearRequestVars(c).profiles = c.profiles
           /\ ClearRequestVars(c).lastFp = c.lastFp
           /\ ClearRequestVars(c).override = NoToken
  BY DEF ClearRequestVars, Contexts, TokenOrNone

LEMMA ProfileType ==
    ASSUME NEW c \in Contexts, c.identity # NoIdentity,
           NEW d \in {AddProfile(c), DropProfile(c)}
    PROVE  /\ d \in Contexts
           /\ d.identity = c.identity
           /\ d.creds = c.creds
           /\ d.profiles \subseteq c.profiles \cup {c.identity}
           /\ d.lastFp = c.lastFp
           /\ d.override = c.override
  BY DEF AddProfile, DropProfile, Contexts, IdentityOrNone

LEMMA CacheType ==
    ASSUME NEW c \in Contexts
    PROVE  /\ CacheCredentials(c) \in Contexts
           /\ CacheCredentials(c).identity = c.identity
           /\ CacheCredentials(c).creds = c.identity
           /\ CacheCredentials(c).profiles = c.profiles
           /\ CacheCredentials(c).lastFp = c.lastFp
           /\ CacheCredentials(c).override = c.override
  BY DEF CacheCredentials, Contexts

LEMMA SavedType ==
    ASSUME NEW c \in Contexts
    PROVE  Saved(c) \in SavedStates
  BY DEF Saved, SavedStates, Contexts

LEMMA ReturnType ==
    ASSUME TypeOK, NEW r \in Requests, NEW i \in IdentityOrNone, ReturnCredentials(r, i)
    PROVE  /\ pc' \in [Requests -> Phases]
           /\ host' \in [Requests -> Regions \cup {NoRegion}]
           /\ sent' \in [Requests -> [identity: IdentityOrNone,
                                      host: Regions \cup {NoRegion}]]
  BY DEF TypeOK, ReturnCredentials, Phases, IdentityOrNone

LEMMA RaiseType ==
    ASSUME TypeOK, NEW r \in Requests, RaiseNoCredentials(r)
    PROVE  /\ pc' \in [Requests -> Phases]
           /\ host' \in [Requests -> Regions \cup {NoRegion}]
           /\ sent' \in [Requests -> [identity: IdentityOrNone,
                                      host: Regions \cup {NoRegion}]]
  BY DEF TypeOK, RaiseNoCredentials, Phases

LEMMA StepType == TypeOK /\ [Next]_vars => TypeOK'
  <1> SUFFICES ASSUME TypeOK, [Next]_vars PROVE TypeOK'
    OBVIOUS
  <1>1. ASSUME NEW r \in Requests, Hydrate(r) PROVE TypeOK'
    <2>1. PICK s \in Sessions, t \in Headers :
            /\ sess' = [sess EXCEPT ![r] = s]
            /\ hdr' = [hdr EXCEPT ![r] = t]
            /\ \E st \in {stored[s]} \cup (IF StoreMayFail THEN {NothingSaved} ELSE {}) :
                ctx' = [ctx EXCEPT ![r] = HydratedContext(st)]
      BY <1>1 DEF Hydrate
    <2>2. PICK st \in SavedStates : ctx' = [ctx EXCEPT ![r] = HydratedContext(st)]
      BY <2>1, NullTypes DEF TypeOK
    <2>3. ctx' \in [Requests -> Contexts]
      BY <2>2, HydratedType DEF TypeOK
    <2>4. t \in TokenOrNone
      BY DeploymentAssumption DEF TokenOrNone
    <2> QED
      BY <1>1, <2>1, <2>3, <2>4 DEF Hydrate, TypeOK, Phases, Origins
  <1>2. ASSUME NEW r \in Requests, AuthenticateOk(r) PROVE TypeOK'
    <2>1. ctx[r] \in Contexts /\ hdr[r] \in TokenOrNone
      BY DEF TypeOK
    <2>2. (IF hdr[r] = NoToken THEN ctx[r] ELSE SeeToken(ctx[r], hdr[r])) \in Contexts
      BY <2>1, SeeTokenType DEF TokenOrNone
    <2> QED
      BY <1>2, <2>2 DEF AuthenticateOk, TypeOK, Phases, Origins, TokenOrNone
  <1>3. ASSUME NEW r \in Requests, AuthenticateFails(r) PROVE TypeOK'
    <2>1. ctx[r] \in Contexts /\ hdr[r] \in Tokens
      BY <1>3 DEF TypeOK, TokenOrNone, AuthenticateFails
    <2>2. SeeToken(ctx[r], hdr[r]) \in Contexts
      BY <2>1, SeeTokenType
    <2> QED
      BY <1>3, <2>1, <2>2 DEF AuthenticateFails, TypeOK, Phases, Origins, TokenOrNone
  <1>4. ASSUME NEW r \in Requests, Finish(r) PROVE TypeOK'
    <2>1. ctx' \in [Requests -> Contexts]
      BY <1>4, ClearType DEF Finish, TypeOK
    <2> QED
      BY <1>4, <2>1 DEF Finish, TypeOK, Phases, NothingSent, IdentityOrNone
  <1>5. ASSUME NEW r \in Requests, Persist(r) PROVE TypeOK'
    <2>1. stored' \in [Sessions -> SavedStates]
      BY <1>5, SavedType DEF Persist, TypeOK
    <2> QED
      BY <1>5, <2>1, NullTypes DEF Persist, EndRequest, TypeOK, Phases, Origins
  <1>6. ASSUME NEW r \in Requests, PersistFails(r) PROVE TypeOK'
    <2> QED
      BY <1>6, NullTypes DEF PersistFails, EndRequest, TypeOK, Phases, Origins
  <1>7. ASSUME NEW r \in Requests, SetActiveIdentity(r) PROVE TypeOK'
    <2>1. ctx[r] \in Contexts
      BY DEF TypeOK
    <2>2. PICK i \in VisibleTo(EffectiveToken(ctx[r])) :
            ctx' = [ctx EXCEPT ![r] = ActivateIdentity(ctx[r], i)]
      BY <1>7 DEF SetActiveIdentity
    <2>3. ActivateIdentity(ctx[r], i) \in Contexts
      BY <2>1, VisibleIsIdentity, ActivateType
    <2> QED
      BY <1>7, <2>2, <2>3
      DEF SetActiveIdentity, TypeOK, Phases, Origins, NothingSent, IdentityOrNone
  <1>8. ASSUME NEW r \in Requests, SetActiveProfile(r) PROVE TypeOK'
    <2>1. ctx' \in [Requests -> Contexts]
      BY <1>8, ProfileType DEF SetActiveProfile, TypeOK
    <2> QED
      BY <1>8, <2>1 DEF SetActiveProfile, TypeOK, NothingSent, IdentityOrNone
  <1>9. ASSUME NEW r \in Requests, ClearActiveProfile(r) PROVE TypeOK'
    <2>1. ctx[r].identity # NoIdentity
      BY <1>9, NullsAreFresh DEF ClearActiveProfile, TypeOK, Contexts
    <2>2. ctx' \in [Requests -> Contexts]
      BY <1>9, <2>1, ProfileType DEF ClearActiveProfile, TypeOK
    <2> QED
      BY <1>9, <2>2 DEF ClearActiveProfile, TypeOK, NothingSent, IdentityOrNone
  <1>10. ASSUME NEW r \in Requests, CallApi(r) PROVE TypeOK'
    <2>1. host' \in [Requests -> Regions \cup {NoRegion}]
      BY <1>10, DeploymentAssumption DEF CallApi, TypeOK, Contexts, IdentityOrNone
    <2> QED
      BY <1>10, <2>1 DEF CallApi, TypeOK, Phases, NothingSent, IdentityOrNone
  <1>11. ASSUME NEW r \in Requests, ResolveIdentity(r) PROVE TypeOK'
    <2> DEFINE c == EnsureDefault(GuardTenant(ctx[r]))
    <2>1. c \in Contexts
      BY GuardType, DefaultType DEF TypeOK
    <2>2. ctx' = [ctx EXCEPT ![r] = c] /\ origin' \in [Requests -> Origins]
      BY <1>11 DEF ResolveIdentity, TypeOK, Origins
    <2>3. /\ pc' \in [Requests -> Phases]
          /\ host' \in [Requests -> Regions \cup {NoRegion}]
          /\ sent' \in [Requests -> [identity: IdentityOrNone,
                                     host: Regions \cup {NoRegion}]]
      <3>1. c.identity \in IdentityOrNone
        BY <2>1 DEF Contexts
      <3>2. CASE RaiseNoCredentials(r)
        BY <3>2, RaiseType
      <3>3. CASE c.identity # NoIdentity /\ ReturnCredentials(r, c.identity)
        BY <3>1, <3>3, ReturnType
      <3>4. CASE pc' = [pc EXCEPT ![r] = "waiting"] /\ UNCHANGED <<host, sent>>
        BY <3>4 DEF TypeOK, Phases
      <3> QED
        BY <1>11, <3>2, <3>3, <3>4 DEF ResolveIdentity
    <2> QED
      BY <1>11, <2>1, <2>2, <2>3 DEF ResolveIdentity, TypeOK
  <1>12. ASSUME NEW r \in Requests, EnterRefresh(r) PROVE TypeOK'
    <2>1. ctx[r].identity \in IdentityOrNone
      BY DEF TypeOK, Contexts
    <2>2. CASE ReturnCredentials(r, ctx[r].identity)
      BY <1>12, <2>1, <2>2, ReturnType DEF EnterRefresh, TypeOK
    <2>3. CASE pc' = [pc EXCEPT ![r] = "fetching"] /\ UNCHANGED <<host, sent>>
      BY <1>12, <2>3 DEF EnterRefresh, TypeOK, Phases
    <2> QED
      BY <1>12, <2>2, <2>3 DEF EnterRefresh
  <1>13. ASSUME NEW r \in Requests, FetchSucceeds(r) PROVE TypeOK'
    <2>1. ctx[r] \in Contexts /\ ctx[r].identity \in Identities
      BY <1>13, VisibleIsIdentity DEF FetchSucceeds, TypeOK
    <2>2. ctx' \in [Requests -> Contexts]
      BY <1>13, <2>1, CacheType DEF FetchSucceeds, TypeOK
    <2> QED
      BY <1>13, <2>1, <2>2, ReturnType DEF FetchSucceeds, TypeOK, IdentityOrNone
  <1>14. ASSUME NEW r \in Requests, FetchFails(r) PROVE TypeOK'
    BY <1>14, RaiseType DEF FetchFails, TypeOK
  <1>15. ASSUME NEW i \in Identities, CredentialsAge(i) PROVE TypeOK'
    BY <1>15 DEF CredentialsAge, TypeOK
  <1>16. CASE UNCHANGED vars
    BY <1>16 DEF TypeOK
  <1> QED
    BY <1>1, <1>2, <1>3, <1>4, <1>5, <1>6, <1>7, <1>8, <1>9, <1>10, <1>11,
       <1>12, <1>13, <1>14, <1>15, <1>16 DEF Next, RequestStep

\* Every variable keeps its type.
THEOREM TypeCorrect == Spec => []TypeOK
  BY InitType, StepType, PTL DEF Spec

-----------------------------------------------------------------------------
(* Tenant isolation. The fingerprint kept beside a tenant state must name  *)
(* its owner at every moment, also while a request is between middlewares  *)
(* or waits for credentials; the guard of get_active_credentials is what   *)
(* lets a request without a token rely on it.                              *)

Served == {"running", "resolving", "waiting", "fetching"}

SavedInv(st) ==
    /\ OwnedState(st)
    /\ Headers \subseteq {NoToken} => st.lastFp = NoToken

RequestInv(r) ==
    /\ SavedInv(ctx[r])
    /\ ctx[r].override \in {NoToken, ctx[r].lastFp}
    /\ pc[r] = "hydrated" => hdr[r] \in Headers /\ ctx[r].override = NoToken
    /\ pc[r] \in Served /\ ctx[r].override = NoToken => NoToken \in Headers
    /\ pc[r] \in {"waiting", "fetching"} =>
         ctx[r].identity # NoIdentity /\ ~IsStale(ctx[r])
    /\ sent[r].identity # NoIdentity =>
         /\ pc[r] = "running"
         /\ sent[r].identity \in VisibleTo(EffectiveToken(ctx[r]))

TenantInv ==
    /\ TypeOK
    /\ \A s \in Sessions : SavedInv(stored[s])
    /\ \A r \in Requests : RequestInv(r)

\* An identity that the guard let pass may be used by the effective token.
LEMMA GuardedIdentity ==
    ASSUME NEW c \in Contexts, OwnedState(c),
           c.override \in {NoToken, c.lastFp},
           c.override = NoToken => NoToken \in Headers,
           ~IsStale(c), c.identity # NoIdentity
    PROVE  c.identity \in VisibleTo(EffectiveToken(c))
  <1>1. c.identity \in VisibleTo(OwnerToken(c))
    BY DEF OwnedState
  <1>2. CASE c.override # NoToken
    BY <1>1, <1>2 DEF EffectiveToken, OwnerToken
  <1>3. CASE c.override = NoToken /\ c.lastFp = NoToken
    BY <1>1, <1>3 DEF EffectiveToken, OwnerToken, AnonymousToken
  <1>4. CASE c.override = NoToken /\ c.lastFp # NoToken
    BY <1>1, <1>4 DEF EffectiveToken, OwnerToken, IsStale
  <1> QED
    BY <1>2, <1>3, <1>4

\* With one source of tokens, what the effective token may use is owned by the
\* token the fingerprint names.
LEMMA EffectiveIsOwner ==
    ASSUME SingleTokenSource, NEW c \in Contexts,
           c.override \in {NoToken, c.lastFp},
           c.override = NoToken => NoToken \in Headers,
           Headers \subseteq {NoToken} => c.lastFp = NoToken,
           NEW i \in VisibleTo(EffectiveToken(c))
    PROVE  i \in VisibleTo(OwnerToken(c))
  <1>1. CASE c.override # NoToken
    BY <1>1 DEF EffectiveToken, OwnerToken
  <1>2. CASE c.override = NoToken /\ c.lastFp = NoToken
    BY <1>2 DEF EffectiveToken, OwnerToken, AnonymousToken
  <1>3. CASE c.override = NoToken /\ c.lastFp # NoToken
    BY <1>3 DEF SingleTokenSource, EffectiveToken, AnonymousToken, VisibleTo
  <1> QED
    BY <1>1, <1>2, <1>3

\* Whatever t finds in the session, it owns the state once it was seen.
LEMMA SeenIsOwned ==
    ASSUME SingleTokenSource, NEW c \in Contexts, NEW t \in Tokens, t \in Headers,
           SavedInv(c)
    PROVE  SavedInv(SeeToken(c, t))
  <1> DEFINE d == SeeToken(c, t)
  <1>1. d.lastFp = t /\ t # NoToken
    BY SeeTokenType, NullsAreFresh
  <1>2. AnonymousToken = NoToken /\ ~(Headers \subseteq {NoToken})
    BY <1>1 DEF SingleTokenSource
  <1>3. CASE d.identity = NoIdentity /\ d.profiles = {}
    BY <1>1, <1>2, <1>3 DEF SavedInv, OwnedState
  <1>4. CASE c.lastFp = t /\ d.identity = c.identity /\ d.profiles = c.profiles
    BY <1>1, <1>2, <1>4 DEF SavedInv, OwnedState, OwnerToken
  <1>5. CASE c.lastFp = NoToken /\ d.identity = c.identity /\ d.profiles = c.profiles
    <2>1. VisibleTo(OwnerToken(c)) = {}
      BY <1>2, <1>5 DEF OwnerToken, VisibleTo
    <2> QED
      BY <2>1, <1>1, <1>2, <1>5 DEF SavedInv, OwnedState
  <1> QED
    BY <1>3, <1>4, <1>5, SeeTokenType

\* A state with less in it, or with the same in it, is owned like the other.
LEMMA OwnedMono ==
    ASSUME NEW c, NEW d, SavedInv(c),
           d.lastFp = c.lastFp,
           d.identity \in {c.identity, NoIdentity},
           d.profiles \subseteq c.profiles \cup ({c.identity} \ {NoIdentity})
    PROVE  SavedInv(d)
  <1>1. OwnerToken(d) = OwnerToken(c)
    BY DEF OwnerToken
  <1> QED
    BY <1>1 DEF SavedInv, OwnedState

LEMMA InitTenant == Init => TenantInv
  <1> SUFFICES ASSUME Init PROVE TenantInv
    OBVIOUS
  <1>1. SavedInv(NothingSaved) /\ SavedInv(Unset)
    BY DEF SavedInv, OwnedState, NothingSaved, Unset
  <1>2. ASSUME NEW r \in Requests PROVE RequestInv(r)
    BY <1>1 DEF Init, RequestInv, Unset, NothingSent, Served
  <1> QED
    BY <1>1, <1>2, InitType DEF Init, TenantInv

\* A step of r that replaces its ContextVars by d, and does not touch those of
\* other requests, keeps the invariant when d satisfies it.
LEMMA OneRequest ==
    ASSUME TenantInv, TypeOK', NEW r \in Requests, RequestInv(r)',
           \A q \in Requests \ {r} :
              /\ ctx'[q] = ctx[q] /\ pc'[q] = pc[q]
              /\ hdr'[q] = hdr[q] /\ sent'[q] = sent[q],
           \A s \in Sessions : SavedInv(stored'[s])
    PROVE  TenantInv'
  <1>1. ASSUME NEW q \in Requests \ {r} PROVE RequestInv(q)'
    BY <1>1 DEF TenantInv, RequestInv
  <1> QED
    BY <1>1 DEF TenantInv

LEMMA StepTenant ==
    ASSUME SingleTokenSource
    PROVE  TenantInv /\ [Next]_vars => TenantInv'
  <1> SUFFICES ASSUME TenantInv, [Next]_vars PROVE TenantInv'
    OBVIOUS
  <1>t. TypeOK /\ TypeOK'
    BY StepType DEF TenantInv
  <1>s. stored' = stored => \A s \in Sessions : SavedInv(stored'[s])
    BY DEF TenantInv
  <1>1. ASSUME NEW r \in Requests, Hydrate(r) PROVE TenantInv'
    <2>1. SavedInv(NothingSaved) /\ NothingSaved \in SavedStates
      BY NullTypes DEF SavedInv, OwnedState, NothingSaved
    <2>2. PICK s \in Sessions, t \in Headers :
            /\ hdr' = [hdr EXCEPT ![r] = t]
            /\ \E st \in {stored[s]} \cup (IF StoreMayFail THEN {NothingSaved} ELSE {}) :
                ctx' = [ctx EXCEPT ![r] = HydratedContext(st)]
      BY <1>1 DEF Hydrate
    <2>3. PICK st \in SavedStates : /\ SavedInv(st)
                                    /\ ctx' = [ctx EXCEPT ![r] = HydratedContext(st)]
      BY <2>1, <2>2, <1>t DEF TypeOK, TenantInv
    <2>4. SavedInv(HydratedContext(st))
      BY <2>3, HydratedType, OwnedMono
    <2>5. ctx'[r] = HydratedContext(st) /\ hdr'[r] = t /\ pc'[r] = "hydrated"
      BY <1>1, <1>t, <2>2, <2>3 DEF TypeOK, Hydrate
    <2>6. sent'[r] = sent[r] /\ sent[r].identity = NoIdentity
      BY <1>1 DEF Hydrate, TenantInv, RequestInv
    <2>7. RequestInv(r)'
      BY <2>4, <2>5, <2>6, HydratedType DEF RequestInv, Served
    <2> QED
      BY <1>1, <1>s, <1>t, <2>7, OneRequest DEF Hydrate, TypeOK
  <1>2. ASSUME NEW r \in Requests, AuthenticateOk(r) PROVE TenantInv'
    <2> DEFINE c == IF hdr[r] = NoToken THEN ctx[r] ELSE SeeToken(ctx[r], hdr[r])
    <2>1. /\ ctx[r] \in Contexts /\ hdr[r] \in Headers /\ hdr[r] \in TokenOrNone
          /\ SavedInv(ctx[r]) /\ ctx[r].override = NoToken
          /\ sent[r].identity = NoIdentity
      BY <1>2, <1>t DEF AuthenticateOk, TypeOK, TenantInv, RequestInv
    <2>2. /\ SavedInv(c) /\ c.override \in {NoToken, c.lastFp}
          /\ c.override = NoToken => NoToken \in Headers
      <3>1. CASE hdr[r] = NoToken
        BY <2>1, <3>1
      <3>2. CASE hdr[r] # NoToken
        BY <2>1, <3>2, SeenIsOwned, SeeTokenType, NullsAreFresh DEF TokenOrNone
      <3> QED
        BY <3>1, <3>2
    <2>3. /\ ctx'[r] = c /\ pc'[r] = "running" /\ sent'[r] = sent[r]
      BY <1>2, <1>t DEF AuthenticateOk, TypeOK
    <2>4. RequestInv(r)'
      BY <2>1, <2>2, <2>3 DEF RequestInv
    <2> QED
      BY <1>2, <1>s, <1>t, <2>4, OneRequest DEF AuthenticateOk, TypeOK
  <1>3. ASSUME NEW r \in Requests, AuthenticateFails(r) PROVE TenantInv'
    <2>1. /\ ctx[r] \in Contexts /\ hdr[r] \in Headers /\ hdr[r] \in Tokens
          /\ SavedInv(ctx[r]) /\ ctx[r].override = NoToken
          /\ sent[r].identity = NoIdentity
      BY <1>3, <1>t DEF AuthenticateFails, TypeOK, TenantInv, RequestInv, TokenOrNone
    <2>2. PICK c \in {ctx[r], SeeToken(ctx[r], hdr[r])} : ctx' = [ctx EXCEPT ![r] = c]
      BY <1>3 DEF AuthenticateFails
    <2>3. SavedInv(c) /\ c.override \in {NoToken, c.lastFp}
      BY <2>1, SeenIsOwned, SeeTokenType
    <2>4. /\ ctx'[r] = c /\ pc'[r] = "closing" /\ sent'[r] = sent[r]
      BY <1>3, <1>t, <2>2 DEF AuthenticateFails, TypeOK
    <2>5. RequestInv(r)'
      BY <2>1, <2>3, <2>4 DEF RequestInv, Served
    <2> QED
      BY <1>3, <1>s, <1>t, <2>2, <2>5, OneRequest DEF AuthenticateFails, TypeOK
  <1>4. ASSUME NEW r \in Requests, Finish(r) PROVE TenantInv'
    <2>1. ctx[r] \in Contexts /\ SavedInv(ctx[r])
      BY <1>t DEF TypeOK, TenantInv, RequestInv
    <2>2. /\ ctx'[r] = ClearRequestVars(ctx[r]) /\ pc'[r] = "closing"
          /\ sent'[r] = NothingSent
      BY <1>4, <1>t DEF Finish, TypeOK
    <2>3. SavedInv(ClearRequestVars(ctx[r]))
      BY <2>1, ClearType, OwnedMono
    <2>4. RequestInv(r)'
      BY <2>1, <2>2, <2>3, ClearType DEF RequestInv, Served, NothingSent
    <2> QED
      BY <1>4, <1>s, <1>t, <2>4, OneRequest DEF Finish, TypeOK
  <1>5. ASSUME NEW r \in Requests, EndRequest(r), pc[r] = "closing",
               stored' \in {stored, [stored EXCEPT ![sess[r]] = Saved(ctx[r])]}
        PROVE  TenantInv'
    <2>1. ctx[r] \in Contexts /\ SavedInv(ctx[r]) /\ sent[r].identity = NoIdentity
      BY <1>5, <1>t DEF TypeOK, TenantInv, RequestInv
    <2>2. SavedInv(Saved(ctx[r]))
      BY <2>1, OwnedMono DEF Saved
    <2>3. \A s \in Sessions : SavedInv(stored'[s])
      BY <1>5, <1>t, <2>2 DEF TypeOK, TenantInv
    <2>4. ctx'[r] = Unset /\ pc'[r] = "idle" /\ sent'[r] = sent[r]
      BY <1>5, <1>t DEF EndRequest, TypeOK
    <2>5. SavedInv(Unset)
      BY DEF SavedInv, OwnedState, Unset
    <2>6. RequestInv(r)'
      BY <2>1, <2>4, <2>5 DEF RequestInv, Served, Unset
    <2> QED
      BY <1>5, <1>t, <2>3, <2>6, OneRequest DEF EndRequest, TypeOK
  <1>6. ASSUME NEW r \in Requests, Persist(r) PROVE TenantInv'
    BY <1>5, <1>6 DEF Persist
  <1>7. ASSUME NEW r \in Requests, PersistFails(r) PROVE TenantInv'
    BY <1>5, <1>7 DEF PersistFails
  <1>8. ASSUME NEW r \in Requests, SetActiveIdentity(r) PROVE TenantInv'
    <2>1. /\ ctx[r] \in Contexts /\ SavedInv(ctx[r])
          /\ ctx[r].override \in {NoToken, ctx[r].lastFp}
          /\ ctx[r].override = NoToken => NoToken \in Headers
      BY <1>8, <1>t DEF SetActiveIdentity, TypeOK, TenantInv, RequestInv, Served
    <2>2. PICK i \in VisibleTo(EffectiveToken(ctx[r])) :
            ctx' = [ctx EXCEPT ![r] = ActivateIdentity(ctx[r], i)]
      BY <1>8 DEF SetActiveIdentity
    <2> DEFINE d == ActivateIdentity(ctx[r], i)
    <2>3. /\ d.identity = i /\ d.profiles = ctx[r].profiles
          /\ d.lastFp = ctx[r].lastFp /\ d.override = ctx[r].override
      BY <2>1, VisibleIsIdentity, ActivateType
    <2>4. i \in VisibleTo(OwnerToken(ctx[r])) /\ OwnerToken(d) = OwnerToken(ctx[r])
      BY <2>1, <2>3, EffectiveIsOwner DEF SavedInv, OwnerToken
    <2>5. SavedInv(d)
      BY <2>1, <2>3, <2>4 DEF SavedInv, OwnedState
    <2>6. ctx'[r] = d /\ pc'[r] = "resolving" /\ sent'[r] = NothingSent
      BY <1>8, <1>t, <2>2 DEF SetActiveIdentity, TypeOK
    <2> HIDE DEF d
    <2>7. RequestInv(r)'
      BY <2>1, <2>3, <2>5, <2>6 DEF RequestInv, NothingSent
    <2> QED
      BY <1>8, <1>s, <1>t, <2>2, <2>7, OneRequest DEF SetActiveIdentity, TypeOK
  <1>9. ASSUME NEW r \in Requests, SetActiveProfile(r) \/ ClearActiveProfile(r)
        PROVE  TenantInv'
    <2>1. /\ ctx[r] \in Contexts /\ SavedInv(ctx[r]) /\ pc[r] = "running"
          /\ ctx[r].override \in {NoToken, ctx[r].lastFp}
          /\ ctx[r].override = NoToken => NoToken \in Headers
      BY <1>9, <1>t
      DEF SetActiveProfile, ClearActiveProfile, TypeOK, TenantInv, RequestInv, Served
    <2>2. \/ ctx' = ctx
          \/ /\ ctx[r].identity # NoIdentity
             /\ \E d \in {AddProfile(ctx[r]), DropProfile(ctx[r])} :
                    ctx' = [ctx EXCEPT ![r] = d]
      BY <1>9, <2>1, NullsAreFresh DEF SetActiveProfile, ClearActiveProfile, Contexts
    <2>3. /\ SavedInv(ctx'[r])
          /\ ctx'[r].override = ctx[r].override /\ ctx'[r].lastFp = ctx[r].lastFp
      <3>1. CASE ctx' = ctx
        BY <2>1, <3>1
      <3>2. ASSUME ctx[r].identity # NoIdentity,
                   NEW d \in {AddProfile(ctx[r]), DropProfile(ctx[r])},
                   ctx' = [ctx EXCEPT ![r] = d]
            PROVE  <2>3
        <4>1. ctx'[r] = d
          BY <3>2, <1>t DEF TypeOK
        <4> QED
          BY <2>1, <3>2, <4>1, ProfileType, OwnedMono
      <3> QED
        BY <2>2, <3>1, <3>2
    <2>4. pc'[r] = "running" /\ sent'[r] = NothingSent
      BY <1>9, <1>t, <2>1 DEF SetActiveProfile, ClearActiveProfile, TypeOK
    <2>5. RequestInv(r)'
      BY <2>1, <2>3, <2>4 DEF RequestInv, NothingSent
    <2> QED
      BY <1>9, <1>s, <1>t, <2>2, <2>5, OneRequest
      DEF SetActiveProfile, ClearActiveProfile, TypeOK
  <1>10. ASSUME NEW r \in Requests, CallApi(r) PROVE TenantInv'
    <2>1. pc[r] = "running" /\ RequestInv(r)
      BY <1>10 DEF CallApi, TenantInv
    <2>2. ctx'[r] = ctx[r] /\ pc'[r] = "resolving" /\ sent'[r] = NothingSent
      BY <1>10, <1>t DEF CallApi, TypeOK
    <2>3. RequestInv(r)'
      BY <2>1, <2>2 DEF RequestInv, NothingSent, Served
    <2> QED
      BY <1>10, <1>s, <1>t, <2>3, OneRequest DEF CallApi, TypeOK
  <1>11. ASSUME NEW r \in Requests, ResolveIdentity(r) PROVE TenantInv'
    <2> DEFINE g == GuardTenant(ctx[r])
    <2> DEFINE d == EnsureDefault(g)
    <2>1. /\ ctx[r] \in Contexts /\ SavedInv(ctx[r])
          /\ ctx[r].override \in {NoToken, ctx[r].lastFp}
          /\ ctx[r].override = NoToken => NoToken \in Headers
          /\ sent[r].identity = NoIdentity
      BY <1>11, <1>t DEF ResolveIdentity, TypeOK, TenantInv, RequestInv, Served
    <2>2. /\ g \in Contexts /\ g.lastFp = ctx[r].lastFp /\ g.override = ctx[r].override
          /\ SavedInv(g) /\ ~IsStale(g)
      <3>1. CASE g = ctx[r] /\ ~IsStale(ctx[r])
        BY <2>1, <3>1
      <3>2. CASE g.identity = NoIdentity /\ g.profiles = {}
        BY <2>1, <3>2, GuardType, OwnedMono DEF IsStale
      <3> QED
        BY <2>1, <3>1, <3>2, GuardType
    <2>3. /\ d \in Contexts /\ d.lastFp = g.lastFp /\ d.override = g.override
          /\ SavedInv(d)
          /\ ~IsStale(d)
          /\ d.identity # NoIdentity => d.identity \in VisibleTo(EffectiveToken(d))
      <3>1. CASE d = g
        BY <2>1, <2>2, <3>1, GuardedIdentity DEF SavedInv
      <3>2. CASE /\ d.identity = DefaultIdentity
                 /\ DefaultIdentity \in VisibleTo(EffectiveToken(g))
        <4>1. /\ d \in Contexts /\ d.lastFp = g.lastFp
              /\ d.override = g.override /\ d.profiles = g.profiles
          BY <2>2, DefaultType
        <4>2. /\ EffectiveToken(d) = EffectiveToken(g)
              /\ OwnerToken(d) = OwnerToken(g)
          BY <4>1 DEF EffectiveToken, OwnerToken
        <4>3. DefaultIdentity \in VisibleTo(OwnerToken(g))
          BY <2>1, <2>2, <3>2, EffectiveIsOwner DEF SavedInv
        <4>4. ~IsStale(d)
          <5>1. SUFFICES ASSUME d.lastFp # NoToken, EffectiveToken(d) # d.lastFp
                         PROVE  FALSE
            BY DEF IsStale
          <5>2. d.override = NoToken /\ NoToken \in Headers
            BY <2>1, <2>2, <4>1, <5>1 DEF EffectiveToken
          <5>3. EnvToken = NoToken
            BY <2>2, <4>1, <5>1, <5>2 DEF SingleTokenSource, AnonymousToken, SavedInv
          <5> QED
            BY <3>2, <4>1, <4>2, <5>2, <5>3 DEF EffectiveToken, VisibleTo
        <4> QED
          BY <2>2, <3>2, <4>1, <4>2, <4>3, <4>4 DEF SavedInv, OwnedState
      <3> QED
        BY <2>2, <3>1, <3>2, DefaultType
    <2>4. ctx'[r] = d
      BY <1>11, <1>t DEF ResolveIdentity, TypeOK
    <2> HIDE DEF d, g
    <2>5. \/ pc'[r] = "running" /\ sent'[r] = sent[r]
          \/ pc'[r] = "running" /\ sent'[r].identity = d.identity
          \/ pc'[r] = "waiting" /\ sent'[r] = sent[r] /\ d.identity # NoIdentity
      BY <1>11, <1>t
      DEF ResolveIdentity, TypeOK, ReturnCredentials, RaiseNoCredentials, d, g
    <2>6. RequestInv(r)'
      BY <2>1, <2>2, <2>3, <2>4, <2>5 DEF RequestInv, Served
    <2> QED
      BY <1>11, <1>s, <1>t, <2>6, OneRequest
      DEF ResolveIdentity, TypeOK, ReturnCredentials, RaiseNoCredentials
  <1>12. ASSUME NEW r \in Requests, EnterRefresh(r) PROVE TenantInv'
    <2>1. /\ RequestInv(r) /\ ctx[r] \in Contexts /\ pc[r] = "waiting"
      BY <1>12, <1>t DEF EnterRefresh, TenantInv, TypeOK
    <2>2. ctx[r].identity \in VisibleTo(EffectiveToken(ctx[r]))
      BY <2>1, GuardedIdentity DEF RequestInv, SavedInv, Served
    <2>3. /\ ctx'[r] = ctx[r]
          /\ \/ pc'[r] = "running" /\ sent'[r] = sent[r]
             \/ pc'[r] = "running" /\ sent'[r].identity = ctx[r].identity
             \/ pc'[r] = "fetching" /\ sent'[r] = sent[r]
      BY <1>12, <1>t DEF EnterRefresh, ReturnCredentials, TypeOK
    <2>4. RequestInv(r)'
      BY <2>1, <2>2, <2>3 DEF RequestInv, Served
    <2> QED
      BY <1>12, <1>s, <1>t, <2>4, OneRequest DEF EnterRefresh, ReturnCredentials, TypeOK
  <1>13. ASSUME NEW r \in Requests, FetchSucceeds(r) PROVE TenantInv'
    <2> DEFINE d == CacheCredentials(ctx[r])
    <2>1. /\ RequestInv(r) /\ ctx[r] \in Contexts /\ pc[r] = "fetching"
          /\ ctx[r].identity \in VisibleTo(EffectiveToken(ctx[r]))
      BY <1>13, <1>t DEF FetchSucceeds, TenantInv, TypeOK
    <2>2. /\ d.identity = ctx[r].identity /\ d.profiles = ctx[r].profiles
          /\ d.lastFp = ctx[r].lastFp /\ d.override = ctx[r].override
      BY <2>1, CacheType
    <2>3. SavedInv(d) /\ EffectiveToken(d) = EffectiveToken(ctx[r])
      BY <2>1, <2>2, OwnedMono DEF RequestInv, EffectiveToken
    <2>4. /\ ctx'[r] = d /\ pc'[r] = "running"
          /\ sent'[r] = sent[r] \/ sent'[r].identity = ctx[r].identity
      BY <1>13, <1>t DEF FetchSucceeds, ReturnCredentials, TypeOK
    <2> HIDE DEF d
    <2>5. RequestInv(r)'
      BY <2>1, <2>2, <2>3, <2>4 DEF RequestInv, Served
    <2> QED
      BY <1>13, <1>s, <1>t, <2>5, OneRequest DEF FetchSucceeds, ReturnCredentials, TypeOK
  <1>14. ASSUME NEW r \in Requests, FetchFails(r) PROVE TenantInv'
    <2>1. RequestInv(r) /\ pc[r] = "fetching"
      BY <1>14 DEF FetchFails, TenantInv
    <2>2. ctx'[r] = ctx[r] /\ pc'[r] = "running" /\ sent'[r] = sent[r]
      BY <1>14, <1>t DEF FetchFails, RaiseNoCredentials, TypeOK
    <2>3. RequestInv(r)'
      BY <2>1, <2>2 DEF RequestInv, Served
    <2> QED
      BY <1>14, <1>s, <1>t, <2>3, OneRequest DEF FetchFails, RaiseNoCredentials, TypeOK
  <1>15. ASSUME NEW i \in Identities, CredentialsAge(i) PROVE TenantInv'
    BY <1>15, <1>t DEF CredentialsAge, TenantInv, RequestInv
  <1>16. CASE UNCHANGED vars
    BY <1>16, <1>t DEF TenantInv, RequestInv
  <1> QED
    BY <1>1, <1>2, <1>3, <1>4, <1>6, <1>7, <1>8, <1>9, <1>10, <1>11,
       <1>12, <1>13, <1>14, <1>15, <1>16 DEF Next, RequestStep

\* In a deployment with one source of tokens, an API call carries only
\* credentials of an identity its own token may use.
THEOREM TenantIsolation ==
    ASSUME SingleTokenSource
    PROVE  Spec => []CallsUseOwnIdentity
  <1>1. TenantInv => CallsUseOwnIdentity
    BY DEF TenantInv, RequestInv, CallsUseOwnIdentity
  <1> QED
    BY <1>1, InitTenant, StepTenant, PTL DEF Spec

\* In such a deployment the fingerprint kept beside the tenant state of a session
\* or of a request names the owner of that state, between any two steps.
THEOREM StateHasItsOwner ==
    ASSUME SingleTokenSource
    PROVE  Spec => []TenantStateOwned
  <1>1. TenantInv => TenantStateOwned
    BY DEF TenantInv, RequestInv, SavedInv, TenantStateOwned
  <1> QED
    BY <1>1, InitTenant, StepTenant, PTL DEF Spec

-----------------------------------------------------------------------------
(* Resets are reported where either every request carries a token or none  *)
(* does: the guard of get_active_credentials, which resets silently, then  *)
(* finds nothing to reset, because the middleware has seen the token first. *)

UniformHeaders == NoToken \notin Headers \/ Headers \subseteq {NoToken}

LEMMA UniformIsSingle == UniformHeaders => SingleTokenSource
  BY DEF UniformHeaders, SingleTokenSource, AnonymousToken

\* The swap is recorded, and no other operator touches the record.
LEMMA SwapRecorded ==
    ASSUME NEW c \in Contexts, NEW t \in Tokens,
           SeeToken(c, t).identity # c.identity
    PROVE  SeeToken(c, t).swapped
  <1> DEFINE swap == c.lastFp # NoToken /\ c.lastFp # t
  <1> DEFINE kept == IF swap THEN WipeTenantState(c) ELSE c
  <1>1. kept \in Contexts
    BY WipeType
  <1>2. SeeToken(c, t) = [kept EXCEPT !.lastFp = t, !.override = t, !.swapped = swap]
    BY DEF SeeToken
  <1> HIDE DEF kept
  <1>3. SeeToken(c, t).identity = kept.identity /\ SeeToken(c, t).swapped = swap
    BY <1>1, <1>2 DEF Contexts
  <1> QED
    BY <1>3 DEF kept

LEMMA SwappedKept ==
    ASSUME NEW c \in Contexts
    PROVE  /\ \A i : ActivateIdentity(c, i).swapped = c.swapped
           /\ AddProfile(c).swapped = c.swapped
           /\ DropProfile(c).swapped = c.swapped
           /\ CacheCredentials(c).swapped = c.swapped
           /\ EnsureDefault(c).swapped = c.swapped
  BY DEF ActivateIdentity, AddProfile, DropProfile, CacheCredentials, EnsureDefault, Contexts

LEMMA NeverStale ==
    ASSUME UniformHeaders, NEW r \in Requests, RequestInv(r), pc[r] \in Served
    PROVE  ~IsStale(ctx[r])
  BY DEF UniformHeaders, RequestInv, SavedInv, IsStale, EffectiveToken

ReportedReset(r) ==
    /\ pc[r] = "hydrated" => origin[r] = "saved"
    /\ pc[r] \in Served /\ origin[r] = "reset" => ctx[r].swapped

ResetInv == TenantInv /\ \A r \in Requests : ReportedReset(r)

LEMMA StepReset ==
    ASSUME UniformHeaders
    PROVE  ResetInv /\ [Next]_vars => ResetInv'
  <1> SUFFICES ASSUME ResetInv, [Next]_vars PROVE \A r \in Requests : ReportedReset(r)'
    BY UniformIsSingle, StepTenant DEF ResetInv
  <1>t. TypeOK /\ \A r \in Requests : RequestInv(r) /\ ReportedReset(r) /\ ctx[r] \in Contexts
    BY DEF ResetInv, TenantInv, TypeOK
  <1>1. ASSUME NEW r \in Requests, ReportedReset(r)',
               \A q \in Requests \ {r} :
                  ctx'[q] = ctx[q] /\ pc'[q] = pc[q] /\ origin'[q] = origin[q]
        PROVE  \A q \in Requests : ReportedReset(q)'
    BY <1>1, <1>t DEF ReportedReset
  <1>2. ASSUME NEW r \in Requests, Hydrate(r) PROVE \A q \in Requests : ReportedReset(q)'
    <2>1. pc'[r] = "hydrated" /\ origin'[r] = "saved"
      BY <1>2, <1>t DEF Hydrate, TypeOK
    <2>2. \A q \in Requests \ {r} :
            ctx'[q] = ctx[q] /\ pc'[q] = pc[q] /\ origin'[q] = origin[q]
      BY <1>2, <1>t DEF Hydrate, TypeOK
    <2> QED
      BY <1>1, <2>1, <2>2 DEF ReportedReset, Served
  <1>3. ASSUME NEW r \in Requests, AuthenticateOk(r)
        PROVE  \A q \in Requests : ReportedReset(q)'
    <2> DEFINE c == IF hdr[r] = NoToken THEN ctx[r] ELSE SeeToken(ctx[r], hdr[r])
    <2>1. /\ pc'[r] = "running" /\ ctx'[r] = c /\ origin[r] = "saved"
          /\ origin'[r] = IF c.identity # ctx[r].identity THEN "reset" ELSE origin[r]
      BY <1>3, <1>t DEF AuthenticateOk, TypeOK, ReportedReset
    <2>2. c.identity # ctx[r].identity => c.swapped
      BY <1>t, SwapRecorded DEF TypeOK, TokenOrNone
    <2> HIDE DEF c
    <2>3. ReportedReset(r)'
      BY <2>1, <2>2 DEF ReportedReset
    <2> QED
      BY <1>1, <1>3, <1>t, <2>3 DEF AuthenticateOk, TypeOK
  <1>4. ASSUME NEW r \in Requests,
               AuthenticateFails(r) \/ Finish(r) \/ Persist(r) \/ PersistFails(r)
        PROVE  \A q \in Requests : ReportedReset(q)'
    <2>1. pc'[r] \in {"closing", "idle"}
      BY <1>4, <1>t DEF AuthenticateFails, Finish, Persist, PersistFails, EndRequest, TypeOK
    <2>2. ReportedReset(r)'
      BY <2>1 DEF ReportedReset, Served
    <2> QED
      BY <1>1, <1>4, <1>t, <2>2
      DEF AuthenticateFails, Finish, Persist, PersistFails, EndRequest, TypeOK
  <1>5. ASSUME NEW r \in Requests, SetActiveIdentity(r)
        PROVE  \A q \in Requests : ReportedReset(q)'
    <2>1. pc'[r] = "resolving" /\ origin'[r] = "chosen"
      BY <1>5, <1>t DEF SetActiveIdentity, TypeOK
    <2>2. ReportedReset(r)'
      BY <2>1 DEF ReportedReset
    <2> QED
      BY <1>1, <1>5, <1>t, <2>2 DEF SetActiveIdentity, TypeOK
  <1>6. ASSUME NEW r \in Requests,
               \/ SetActiveProfile(r) \/ ClearActiveProfile(r) \/ CallApi(r)
               \/ EnterRefresh(r) \/ FetchSucceeds(r) \/ FetchFails(r)
        PROVE  \A q \in Requests : ReportedReset(q)'
    <2>1. /\ pc[r] \in Served /\ pc'[r] \in Served
          /\ origin' = origin
          /\ ctx'[r] \in {ctx[r], AddProfile(ctx[r]), DropProfile(ctx[r]),
                          CacheCredentials(ctx[r])}
      BY <1>6, <1>t
      DEF SetActiveProfile, ClearActiveProfile, CallApi, EnterRefresh, FetchSucceeds,
          FetchFails, ReturnCredentials, RaiseNoCredentials, TypeOK, Served
    <2>2. ctx'[r].swapped = ctx[r].swapped
      BY <1>t, <2>1, SwappedKept
    <2>3. ReportedReset(r)'
      BY <1>t, <2>1, <2>2 DEF ReportedReset, Served
    <2> QED
      BY <1>1, <1>6, <1>t, <2>3
      DEF SetActiveProfile, ClearActiveProfile, CallApi, EnterRefresh, FetchSucceeds,
          FetchFails, ReturnCredentials, RaiseNoCredentials, TypeOK
  <1>7. ASSUME NEW r \in Requests, ResolveIdentity(r)
        PROVE  \A q \in Requests : ReportedReset(q)'
    <2>1. GuardTenant(ctx[r]) = ctx[r] /\ pc[r] \in Served
      BY <1>7, <1>t, NeverStale DEF ResolveIdentity, GuardTenant, Served
    <2>2. /\ ctx'[r].swapped = ctx[r].swapped
          /\ origin'[r] \in {"default", origin[r]}
      BY <1>7, <1>t, <2>1, SwappedKept DEF ResolveIdentity, TypeOK
    <2>3. pc'[r] \in Served
      BY <1>7, <1>t
      DEF ResolveIdentity, ReturnCredentials, RaiseNoCredentials, TypeOK, Served
    <2>4. ReportedReset(r)'
      BY <1>t, <2>1, <2>2, <2>3 DEF ReportedReset, Served
    <2> QED
      BY <1>1, <1>7, <1>t, <2>4
      DEF ResolveIdentity, ReturnCredentials, RaiseNoCredentials, TypeOK
  <1>8. ASSUME NEW i \in Identities, CredentialsAge(i)
        PROVE  \A q \in Requests : ReportedReset(q)'
    BY <1>8, <1>t DEF CredentialsAge, ReportedReset
  <1>9. CASE UNCHANGED vars
    BY <1>9, <1>t DEF ReportedReset
  <1> QED
    BY <1>2, <1>3, <1>4, <1>5, <1>6, <1>7, <1>8, <1>9 DEF Next, RequestStep

\* Where all requests carry a token, or none does, a reset of the identity by the
\* authentication layer is there for the tool to report.
THEOREM ResetsReported ==
    ASSUME UniformHeaders
    PROVE  Spec => []ResetIsReported
  <1>1. Init => ResetInv
    BY UniformIsSingle, InitTenant DEF Init, ResetInv, ReportedReset, Served
  <1>2. ResetInv => ResetIsReported
    BY DEF ResetInv, ReportedReset, ResetIsReported, Served
  <1> QED
    BY <1>1, <1>2, StepReset, PTL DEF Spec

-----------------------------------------------------------------------------
(* Sessions that run one request at a time, on a store that works: what a  *)
(* request saves is what its session had, unless it changed it itself.     *)

InSession(r) == pc[r] # "idle"

AloneInv ==
    /\ TypeOK
    /\ \A r \in Requests : InSession(r) => sess[r] \in Sessions
    /\ \A r, q \in Requests : InSession(r) /\ InSession(q) /\ sess[r] = sess[q] => r = q
    /\ \A r \in Requests : InSession(r) /\ origin[r] = "saved" =>
          ctx[r].identity = stored[sess[r]].identity

LEMMA IdentityKept ==
    ASSUME NEW c \in Contexts
    PROVE  /\ AddProfile(c).identity = c.identity
           /\ DropProfile(c).identity = c.identity
           /\ CacheCredentials(c).identity = c.identity
  BY DEF AddProfile, DropProfile, CacheCredentials, Contexts

\* With room for one request, a session that lets one in has none.
LEMMA RoomMeansNobody ==
    ASSUME IsFiniteSet(Requests), MaxPerSession = 1, NEW s \in Sessions,
           Cardinality(InFlight(s)) < MaxPerSession
    PROVE  InFlight(s) = {}
  <1>1. IsFiniteSet(InFlight(s))
    BY FS_Subset DEF InFlight
  <1>2. Cardinality(InFlight(s)) = 0
    BY <1>1, FS_CardinalityType
  <1> QED
    BY <1>1, <1>2, FS_EmptySet

LEMMA StepAlone ==
    ASSUME IsFiniteSet(Requests), MaxPerSession = 1, ~StoreMayFail
    PROVE  AloneInv /\ [Next]_vars => AloneInv'
  <1> SUFFICES ASSUME AloneInv, [Next]_vars PROVE AloneInv'
    OBVIOUS
  <1>t. TypeOK /\ TypeOK'
    BY StepType DEF AloneInv
  \* A step of a request that stays in its session.
  <1>1. ASSUME NEW r \in Requests, InSession(r), pc'[r] # "idle",
               stored' = stored, sess' = sess,
               \A q \in Requests \ {r} :
                  ctx'[q] = ctx[q] /\ pc'[q] = pc[q] /\ origin'[q] = origin[q],
               origin'[r] = "saved" =>
                  origin[r] = "saved" /\ ctx'[r].identity = ctx[r].identity
        PROVE  AloneInv'
    BY <1>1, <1>t DEF AloneInv, InSession
  <1>2. ASSUME NEW r \in Requests, Hydrate(r) PROVE AloneInv'
    <2>1. PICK s \in Sessions :
            /\ Cardinality(InFlight(s)) < MaxPerSession
            /\ sess' = [sess EXCEPT ![r] = s]
            /\ ctx' = [ctx EXCEPT ![r] = HydratedContext(stored[s])]
      BY <1>2 DEF Hydrate
    <2>2. \A q \in Requests : InSession(q) => sess[q] # s
      BY <2>1, RoomMeansNobody DEF InFlight, InSession
    <2>3. /\ sess'[r] = s /\ ctx'[r].identity = stored[s].identity
          /\ stored' = stored /\ pc'[r] = "hydrated"
      BY <1>2, <1>t, <2>1, HydratedType DEF Hydrate, TypeOK
    <2>4. \A q \in Requests \ {r} : /\ ctx'[q] = ctx[q] /\ pc'[q] = pc[q]
                                    /\ origin'[q] = origin[q] /\ sess'[q] = sess[q]
      BY <1>2, <1>t, <2>1 DEF Hydrate, TypeOK
    <2> QED
      BY <1>t, <2>2, <2>3, <2>4 DEF AloneInv, InSession
  <1>3. ASSUME NEW r \in Requests, AuthenticateOk(r) \/ AuthenticateFails(r)
        PROVE  AloneInv'
    <2>1. /\ origin'[r] = "saved" =>
               origin[r] = "saved" /\ ctx'[r].identity = ctx[r].identity
          /\ InSession(r) /\ pc'[r] # "idle"
      BY <1>3, <1>t DEF AuthenticateOk, AuthenticateFails, TypeOK, InSession
    <2> QED
      BY <1>1, <1>3, <1>t, <2>1 DEF AuthenticateOk, AuthenticateFails, TypeOK
  <1>4. ASSUME NEW r \in Requests, Finish(r) PROVE AloneInv'
    <2>1. ctx'[r].identity = ctx[r].identity
      BY <1>4, <1>t, ClearType DEF Finish, TypeOK
    <2> QED
      BY <1>1, <1>4, <1>t, <2>1 DEF Finish, TypeOK, InSession
  <1>5. ASSUME NEW r \in Requests, Persist(r) \/ PersistFails(r) PROVE AloneInv'
    <2>1. Persist(r) /\ InSession(r) /\ sess[r] \in Sessions
      BY <1>5 DEF Persist, PersistFails, AloneInv, InSession
    <2>2. \A q \in Requests \ {r} : /\ ctx'[q] = ctx[q] /\ pc'[q] = pc[q]
                                    /\ origin'[q] = origin[q] /\ sess'[q] = sess[q]
      BY <1>t, <2>1 DEF Persist, EndRequest, TypeOK
    <2>3. /\ pc'[r] = "idle"
          /\ \A s \in Sessions \ {sess[r]} : stored'[s] = stored[s]
      BY <1>t, <2>1 DEF Persist, EndRequest, TypeOK
    <2>4. \A q \in Requests \ {r} : InSession(q) => sess[q] # sess[r]
      BY <2>1 DEF AloneInv
    <2> QED
      BY <1>t, <2>2, <2>3, <2>4 DEF AloneInv, InSession
  <1>6. ASSUME NEW r \in Requests, SetActiveIdentity(r) PROVE AloneInv'
    <2>1. origin'[r] = "chosen" /\ InSession(r) /\ pc'[r] # "idle"
      BY <1>6, <1>t DEF SetActiveIdentity, TypeOK, InSession
    <2> QED
      BY <1>1, <1>6, <1>t, <2>1 DEF SetActiveIdentity, TypeOK
  <1>7. ASSUME NEW r \in Requests,
               \/ SetActiveProfile(r) \/ ClearActiveProfile(r) \/ CallApi(r)
               \/ EnterRefresh(r) \/ FetchSucceeds(r) \/ FetchFails(r)
        PROVE  AloneInv'
    <2>1. /\ InSession(r) /\ pc'[r] # "idle"
          /\ ctx'[r] \in {ctx[r], AddProfile(ctx[r]), DropProfile(ctx[r]),
                          CacheCredentials(ctx[r])}
      BY <1>7, <1>t
      DEF SetActiveProfile, ClearActiveProfile, CallApi, EnterRefresh, FetchSucceeds,
          FetchFails, ReturnCredentials, RaiseNoCredentials, TypeOK, InSession
    <2>2. ctx'[r].identity = ctx[r].identity
      <3>1. ctx[r] \in Contexts
        BY <1>t DEF TypeOK
      <3> QED
        BY <2>1, <3>1, IdentityKept
    <2> QED
      BY <1>1, <1>7, <1>t, <2>1, <2>2
      DEF SetActiveProfile, ClearActiveProfile, CallApi, EnterRefresh, FetchSucceeds,
          FetchFails, ReturnCredentials, RaiseNoCredentials, TypeOK
  <1>8. ASSUME NEW r \in Requests, ResolveIdentity(r) PROVE AloneInv'
    <2> DEFINE g == GuardTenant(ctx[r])
               d == EnsureDefault(g)
    <2>1. /\ ctx'[r] = d
          /\ origin'[r] = CASE d.identity # g.identity -> "default"
                             [] g.identity # ctx[r].identity -> "reset"
                             [] OTHER -> origin[r]
      BY <1>8, <1>t DEF ResolveIdentity, TypeOK
    <2>2. origin'[r] = "saved" => origin[r] = "saved" /\ ctx'[r].identity = ctx[r].identity
      BY <2>1
    <2>3. InSession(r) /\ pc'[r] # "idle"
      BY <1>8, <1>t
      DEF ResolveIdentity, ReturnCredentials, RaiseNoCredentials, TypeOK, InSession
    <2> QED
      BY <1>1, <1>8, <1>t, <2>2, <2>3
      DEF ResolveIdentity, ReturnCredentials, RaiseNoCredentials, TypeOK
  <1>9. ASSUME NEW i \in Identities, CredentialsAge(i) PROVE AloneInv'
    BY <1>9, <1>t DEF CredentialsAge, AloneInv, InSession
  <1>10. CASE UNCHANGED vars
    BY <1>10, <1>t DEF AloneInv, InSession
  <1> QED
    BY <1>2, <1>3, <1>4, <1>5, <1>6, <1>7, <1>8, <1>9, <1>10 DEF Next, RequestStep

\* Where a session has one request at a time and its store does not fail, a request
\* that only worked with the identity it found saves that identity.
THEOREM ReadersKeepIdentity ==
    ASSUME IsFiniteSet(Requests), MaxPerSession = 1, ~StoreMayFail
    PROVE  Spec => ReadersDoNotRevert
  <1> DEFINE Reads == \A r \in Requests :
        pc[r] = "closing" /\ pc'[r] = "idle" /\ origin[r] = "saved" =>
            stored'[sess[r]].identity = stored[sess[r]].identity
  <1>1. Init => AloneInv
    BY InitType DEF Init, AloneInv, InSession
  <1>2. AloneInv /\ [Next]_vars => Reads
    <2> SUFFICES ASSUME AloneInv, [Next]_vars, NEW r \in Requests,
                        pc[r] = "closing", pc'[r] = "idle", origin[r] = "saved"
                 PROVE  stored'[sess[r]].identity = stored[sess[r]].identity
      OBVIOUS
    <2>1. Persist(r)
      <3>1. ASSUME NEW q \in Requests, RequestStep(q)
            PROVE  pc[q] = "closing" /\ pc'[q] = "idle" => Persist(q)
        BY <3>1
        DEF RequestStep, AloneInv, TypeOK, Hydrate, AuthenticateOk, AuthenticateFails, Finish,
            Persist, PersistFails, EndRequest, SetActiveIdentity, SetActiveProfile,
            ClearActiveProfile, CallApi, ResolveIdentity, EnterRefresh, FetchSucceeds,
            FetchFails, ReturnCredentials, RaiseNoCredentials
      <3>2. ASSUME NEW q \in Requests \ {r}, RequestStep(q) PROVE pc'[r] = pc[r]
        BY <3>2
        DEF RequestStep, AloneInv, TypeOK, Hydrate, AuthenticateOk, AuthenticateFails, Finish,
            Persist, PersistFails, EndRequest, SetActiveIdentity, SetActiveProfile,
            ClearActiveProfile, CallApi, ResolveIdentity, EnterRefresh, FetchSucceeds,
            FetchFails, ReturnCredentials, RaiseNoCredentials
      <3> QED
        BY <3>1, <3>2 DEF Next, CredentialsAge
    <2>2. /\ sess[r] \in Sessions /\ ctx[r] \in Contexts
          /\ ctx[r].identity = stored[sess[r]].identity
      BY DEF AloneInv, InSession, TypeOK
    <2>3. stored'[sess[r]] = Saved(ctx[r])
      BY <2>1, <2>2 DEF Persist, AloneInv, TypeOK
    <2> QED
      BY <2>2, <2>3 DEF Saved
  <1>3. Spec => []AloneInv
    BY <1>1, StepAlone, PTL DEF Spec
  <1> QED
    BY <1>2, <1>3, PTL DEF Spec, ReadersDoNotRevert

-----------------------------------------------------------------------------
(* Credentials kept beside an identity are that identity's, whatever the   *)
(* deployment: the property is inductive with the types alone.             *)

Matched(c) == c.creds \in {NoIdentity, c.identity}

LEMMA StepMatch ==
    TypeOK /\ CredentialsMatchIdentity /\ [Next]_vars => CredentialsMatchIdentity'
  <1> SUFFICES ASSUME TypeOK, CredentialsMatchIdentity, [Next]_vars
               PROVE  CredentialsMatchIdentity'
    OBVIOUS
  <1>m. /\ \A s \in Sessions : Matched(stored[s])
        /\ \A r \in Requests : Matched(ctx[r]) /\ ctx[r] \in Contexts
    BY DEF CredentialsMatchIdentity, Matched, TypeOK
  <1>1. ASSUME NEW r \in Requests, NEW d, Matched(d), ctx' = [ctx EXCEPT ![r] = d],
               stored' = stored
        PROVE  CredentialsMatchIdentity'
    BY <1>1, <1>m DEF CredentialsMatchIdentity, Matched, TypeOK
  <1>2. ASSUME ctx' = ctx, stored' = stored PROVE CredentialsMatchIdentity'
    BY <1>2 DEF CredentialsMatchIdentity
  <1>3. ASSUME NEW r \in Requests, Hydrate(r) PROVE CredentialsMatchIdentity'
    <2>1. PICK st \in SavedStates :
            Matched(st) /\ ctx' = [ctx EXCEPT ![r] = HydratedContext(st)]
      BY <1>3, <1>m, NullTypes DEF Hydrate, TypeOK, Matched, NothingSaved
    <2>2. Matched(HydratedContext(st))
      BY <2>1, HydratedType DEF Matched
    <2> QED
      BY <1>1, <1>3, <2>1, <2>2 DEF Hydrate
  <1>4. ASSUME NEW c \in Contexts, NEW t \in Tokens, Matched(c)
        PROVE  Matched(SeeToken(c, t))
    BY <1>4, SeeTokenType DEF Matched
  <1>5. ASSUME NEW r \in Requests, AuthenticateOk(r) \/ AuthenticateFails(r)
        PROVE  CredentialsMatchIdentity'
    <2>1. hdr[r] # NoToken => hdr[r] \in Tokens
      BY DEF TypeOK, TokenOrNone
    <2>2. PICK d : Matched(d) /\ ctx' = [ctx EXCEPT ![r] = d]
      BY <1>4, <1>5, <1>m, <2>1 DEF AuthenticateOk, AuthenticateFails
    <2> QED
      BY <1>1, <1>5, <2>2 DEF AuthenticateOk, AuthenticateFails
  <1>6. ASSUME NEW r \in Requests, Finish(r) PROVE CredentialsMatchIdentity'
    <2>1. Matched(ClearRequestVars(ctx[r]))
      BY <1>m, ClearType DEF Matched
    <2> QED
      BY <1>1, <1>6, <2>1 DEF Finish
  <1>7. ASSUME NEW r \in Requests, Persist(r) \/ PersistFails(r)
        PROVE  CredentialsMatchIdentity'
    <2>1. Matched(Saved(ctx[r])) /\ Matched(Unset)
      BY <1>m DEF Matched, Saved, Unset
    <2>2. \A s \in Sessions : Matched(stored'[s])
      BY <1>7, <1>m, <2>1 DEF Persist, PersistFails, TypeOK
    <2>3. \A q \in Requests : Matched(ctx'[q])
      BY <1>7, <1>m, <2>1 DEF Persist, PersistFails, EndRequest, TypeOK
    <2> QED
      BY <2>2, <2>3 DEF CredentialsMatchIdentity, Matched
  <1>8. ASSUME NEW r \in Requests, SetActiveIdentity(r) PROVE CredentialsMatchIdentity'
    <2>1. PICK i \in VisibleTo(EffectiveToken(ctx[r])) :
            ctx' = [ctx EXCEPT ![r] = ActivateIdentity(ctx[r], i)]
      BY <1>8 DEF SetActiveIdentity
    <2>2. Matched(ActivateIdentity(ctx[r], i))
      BY <1>m, VisibleIsIdentity, ActivateType DEF Matched
    <2> QED
      BY <1>1, <1>8, <2>1, <2>2 DEF SetActiveIdentity
  <1>9. ASSUME NEW r \in Requests, SetActiveProfile(r) \/ ClearActiveProfile(r)
        PROVE  CredentialsMatchIdentity'
    <2>1. \/ ctx' = ctx
          \/ /\ ctx[r].identity # NoIdentity
             /\ \E d \in {AddProfile(ctx[r]), DropProfile(ctx[r])} :
                    ctx' = [ctx EXCEPT ![r] = d]
      BY <1>9, <1>m, NullsAreFresh DEF SetActiveProfile, ClearActiveProfile, Contexts
    <2>2. stored' = stored
      BY <1>9 DEF SetActiveProfile, ClearActiveProfile
    <2>3. ASSUME ctx[r].identity # NoIdentity,
                 NEW d \in {AddProfile(ctx[r]), DropProfile(ctx[r])}
          PROVE  Matched(d)
      BY <1>m, <2>3, ProfileType DEF Matched
    <2> QED
      BY <1>1, <1>2, <2>1, <2>2, <2>3
  <1>10. ASSUME NEW r \in Requests, ResolveIdentity(r) PROVE CredentialsMatchIdentity'
    <2>1. Matched(GuardTenant(ctx[r])) /\ GuardTenant(ctx[r]) \in Contexts
      BY <1>m, GuardType DEF Matched
    <2>2. Matched(EnsureDefault(GuardTenant(ctx[r])))
      BY <2>1, DefaultType DEF Matched
    <2> QED
      BY <1>1, <1>10, <2>2 DEF ResolveIdentity
  <1>11. ASSUME NEW r \in Requests, FetchSucceeds(r) PROVE CredentialsMatchIdentity'
    <2>1. Matched(CacheCredentials(ctx[r]))
      BY <1>m, CacheType DEF Matched
    <2> QED
      BY <1>1, <1>11, <2>1 DEF FetchSucceeds
  <1>12. ASSUME NEW r \in Requests, CallApi(r) \/ EnterRefresh(r) \/ FetchFails(r)
         PROVE  CredentialsMatchIdentity'
    BY <1>2, <1>12 DEF CallApi, EnterRefresh, FetchFails
  <1>13. ASSUME NEW i \in Identities, CredentialsAge(i) PROVE CredentialsMatchIdentity'
    BY <1>2, <1>13 DEF CredentialsAge
  <1> QED
    BY <1>2, <1>3, <1>5, <1>6, <1>7, <1>8, <1>9, <1>10, <1>11, <1>12, <1>13
    DEF Next, RequestStep

\* Credentials kept by a request or a session are those of the identity kept
\* beside them.
THEOREM MatchingCredentials == Spec => []CredentialsMatchIdentity
  <1>1. Init => CredentialsMatchIdentity
    BY DEF Init, CredentialsMatchIdentity, NothingSaved, Unset
  <1> QED
    BY <1>1, InitType, StepType, StepMatch, PTL DEF Spec

-----------------------------------------------------------------------------
(* Routing. Without a default identity, the identity can only disappear    *)
(* between the choice of the host and the end of the wait for credentials, *)
(* and then nothing is sent.                                               *)

RoutedRequest(r) ==
    /\ pc[r] \in {"resolving", "waiting", "fetching"} =>
         \/ host[r] = NoRegion
         \/ ctx[r].identity = NoIdentity
         \/ host[r] = RegionOf[ctx[r].identity]
    /\ pc[r] \notin {"resolving", "waiting", "fetching"} => host[r] = NoRegion
    /\ sent[r].identity # NoIdentity => sent[r].host = RegionOf[sent[r].identity]

RoutingInv == TypeOK /\ \A r \in Requests : RoutedRequest(r)

LEMMA StepRouting ==
    ASSUME DefaultIdentity = NoIdentity
    PROVE  RoutingInv /\ [Next]_vars => RoutingInv'
  <1> SUFFICES ASSUME RoutingInv, [Next]_vars PROVE RoutingInv'
    OBVIOUS
  <1>t. TypeOK /\ TypeOK'
    BY StepType DEF RoutingInv
  <1>1. ASSUME NEW r \in Requests, RoutedRequest(r)',
               \A q \in Requests \ {r} :
                  /\ ctx'[q] = ctx[q] /\ pc'[q] = pc[q]
                  /\ host'[q] = host[q] /\ sent'[q] = sent[q]
        PROVE  RoutingInv'
    BY <1>1, <1>t DEF RoutingInv, RoutedRequest
  <1>2. ASSUME NEW r \in Requests,
               \/ Hydrate(r) \/ AuthenticateOk(r) \/ AuthenticateFails(r)
               \/ Persist(r) \/ PersistFails(r)
        PROVE  RoutingInv'
    <2>1. /\ pc[r] \in {"idle", "hydrated", "closing"}
          /\ pc'[r] \in {"idle", "hydrated", "running", "closing"}
          /\ host'[r] = host[r] /\ sent'[r] = sent[r]
      BY <1>2, <1>t
      DEF Hydrate, AuthenticateOk, AuthenticateFails, Persist, PersistFails,
          EndRequest, TypeOK
    <2>2. RoutedRequest(r)'
      BY <2>1 DEF RoutingInv, RoutedRequest
    <2> QED
      BY <1>1, <1>2, <1>t, <2>2
      DEF Hydrate, AuthenticateOk, AuthenticateFails, Persist, PersistFails,
          EndRequest, TypeOK
  <1>3. ASSUME NEW r \in Requests, Finish(r) PROVE RoutingInv'
    <2>1. RoutedRequest(r)'
      BY <1>3, <1>t DEF Finish, TypeOK, RoutedRequest, NothingSent
    <2> QED
      BY <1>1, <1>3, <1>t, <2>1 DEF Finish, TypeOK
  <1>4. ASSUME NEW r \in Requests,
               SetActiveIdentity(r) \/ SetActiveProfile(r) \/ ClearActiveProfile(r)
        PROVE  RoutingInv'
    <2>1. /\ host'[r] = NoRegion /\ sent'[r] = NothingSent
      BY <1>4, <1>t
      DEF SetActiveIdentity, SetActiveProfile, ClearActiveProfile, TypeOK,
          RoutingInv, RoutedRequest
    <2>2. RoutedRequest(r)'
      BY <2>1 DEF RoutedRequest, NothingSent
    <2> QED
      BY <1>1, <1>4, <1>t, <2>2
      DEF SetActiveIdentity, SetActiveProfile, ClearActiveProfile, TypeOK
  <1>5. ASSUME NEW r \in Requests, CallApi(r) PROVE RoutingInv'
    <2>1. RoutedRequest(r)'
      BY <1>5, <1>t DEF CallApi, TypeOK, RoutedRequest, NothingSent
    <2> QED
      BY <1>1, <1>5, <1>t, <2>1 DEF CallApi, TypeOK
  <1>6. ASSUME NEW r \in Requests, ResolveIdentity(r) PROVE RoutingInv'
    <2> DEFINE d == EnsureDefault(GuardTenant(ctx[r]))
    <2>1. ctx[r] \in Contexts /\ GuardTenant(ctx[r]) \in Contexts
      BY <1>t, GuardType DEF TypeOK
    <2>2. d.identity \in {ctx[r].identity, NoIdentity}
      BY <2>1, GuardType, DefaultType
    <2>3. ctx'[r] = d /\ RoutedRequest(r) /\ pc[r] = "resolving"
      BY <1>6, <1>t DEF ResolveIdentity, TypeOK, RoutingInv
    <2> HIDE DEF d
    <2>4. RoutedRequest(r)'
      <3>1. CASE RaiseNoCredentials(r)
        BY <2>3, <3>1, <1>t DEF RaiseNoCredentials, RoutedRequest, TypeOK
      <3>2. CASE d.identity # NoIdentity /\ ReturnCredentials(r, d.identity)
        BY <2>2, <2>3, <3>2, <1>t DEF ReturnCredentials, RoutedRequest, TypeOK
      <3>3. CASE pc' = [pc EXCEPT ![r] = "waiting"] /\ UNCHANGED <<host, sent>>
        BY <2>2, <2>3, <3>3, <1>t DEF RoutedRequest, TypeOK
      <3> QED
        BY <1>6, <3>1, <3>2, <3>3 DEF ResolveIdentity, d
    <2> QED
      BY <1>1, <1>6, <1>t, <2>4
      DEF ResolveIdentity, TypeOK, ReturnCredentials, RaiseNoCredentials
  <1>7. ASSUME NEW r \in Requests, EnterRefresh(r) PROVE RoutingInv'
    <2>1. RoutedRequest(r)'
      BY <1>7, <1>t DEF EnterRefresh, ReturnCredentials, TypeOK, RoutingInv, RoutedRequest
    <2> QED
      BY <1>1, <1>7, <1>t, <2>1 DEF EnterRefresh, ReturnCredentials, TypeOK
  <1>8. ASSUME NEW r \in Requests, FetchSucceeds(r) PROVE RoutingInv'
    <2>1. ctx[r] \in Contexts /\ ctx[r].identity # NoIdentity
      BY <1>8, <1>t, VisibleIsIdentity DEF FetchSucceeds, TypeOK
    <2>2. ctx'[r].identity = ctx[r].identity
      BY <1>8, <1>t, <2>1, CacheType DEF FetchSucceeds, TypeOK
    <2>3. RoutedRequest(r)'
      BY <1>8, <1>t, <2>1, <2>2
      DEF FetchSucceeds, ReturnCredentials, TypeOK, RoutingInv, RoutedRequest
    <2> QED
      BY <1>1, <1>8, <1>t, <2>3 DEF FetchSucceeds, ReturnCredentials, TypeOK
  <1>9. ASSUME NEW r \in Requests, FetchFails(r) PROVE RoutingInv'
    <2>1. RoutedRequest(r)'
      BY <1>9, <1>t DEF FetchFails, RaiseNoCredentials, TypeOK, RoutingInv, RoutedRequest
    <2> QED
      BY <1>1, <1>9, <1>t, <2>1 DEF FetchFails, RaiseNoCredentials, TypeOK
  <1>10. ASSUME NEW i \in Identities, CredentialsAge(i) PROVE RoutingInv'
    BY <1>10, <1>t DEF CredentialsAge, RoutingInv, RoutedRequest
  <1>11. CASE UNCHANGED vars
    BY <1>11, <1>t DEF RoutingInv, RoutedRequest
  <1> QED
    BY <1>2, <1>3, <1>4, <1>5, <1>6, <1>7, <1>8, <1>9, <1>10, <1>11 DEF Next, RequestStep

\* Without a default identity, every API call goes to the region of the
\* identity whose credentials it carries.
THEOREM RoutedToIdentity ==
    ASSUME DefaultIdentity = NoIdentity
    PROVE  Spec => []HostMatchesCredentials
  <1>1. Init => RoutingInv
    BY InitType DEF Init, RoutingInv, RoutedRequest, NothingSent
  <1>2. RoutingInv => HostMatchesCredentials
    BY DEF RoutingInv, RoutedRequest, HostMatchesCredentials
  <1> QED
    BY <1>1, <1>2, StepRouting, PTL DEF Spec
=============================================================================
