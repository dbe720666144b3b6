--------------------------- MODULE Serving_proofs ---------------------------
(* Proofs about how the server offers its tools and keeps what they need: the  *)
(* tools built at start, for any specs and any sizes of theirs; the calls of   *)
(* code mode, for any number of them; the catalog's refresh, for any versions   *)
(* and servers; the pool of HTTP clients, for any keys and clients.             *)
EXTENDS ServerBuild, CodeMode, CatalogRefresh, HttpPool,
        FiniteSetTheorems, SequenceTheorems, TLAPS

-----------------------------------------------------------------------------
(* Building. Specs are mounted one at a time, each once, so that the counts   *)
(* taken on the way add up; the middlewares are pieced together in an order    *)
(* that only their kinds matter to; a call that switches a group has the       *)
(* servers it has not come to yet still to do.                               *)

Installed == {"errors", "caching", "sampling", "session", "refresh_token", "jwt", "oauth",
              "sidecar"}

LEMMA Joined ==
    ASSUME NEW q \in Seq(Installed), NEW r \in Seq(Installed)
    PROVE  /\ q \o r \in Seq(Installed)
           /\ Len(q \o r) = Len(q) + Len(r)
           /\ \A i \in 1..Len(q) : (q \o r)[i] = q[i]
           /\ \A i \in Len(q) + 1 .. Len(q) + Len(r) :
                 i - Len(q) \in 1..Len(r) /\ (q \o r)[i] = r[i - Len(q)]
  <1>1. Len(q) \in Nat /\ Len(r) \in Nat
    OBVIOUS
  <1> QED
    BY <1>1, ConcatProperties

\* The session is restored once, at n, or never, if n is 0; what needs it comes after,
\* the conversion of the token first.
Ordered(q, n) ==
    /\ q \in Seq(Installed) /\ n \in 0..Len(q)
    /\ \A i \in 1..Len(q) : q[i] = "session" <=> i = n
    /\ \A i \in 1..Len(q) : q[i] = "refresh_token" => i = n + 1
    /\ \A i \in 1..Len(q) : q[i] = "jwt" => n + 1 < i
    /\ \A i \in 1..Len(q) : q[i] = "oauth" => n < i

WithoutSidecar(q) == \A i \in 1..Len(q) : q[i] # "sidecar"

LEMMA OptionalFacts ==
    ASSUME NEW condition \in BOOLEAN, NEW name \in Installed
    PROVE  /\ If(condition, name) \in Seq(Installed) /\ Len(If(condition, name)) \in 0..1
           /\ \A i \in 1..Len(If(condition, name)) : i = 1 /\ If(condition, name)[i] = name
  BY DEF If

\* The session comes first, then the conversion, then the validation.
AuthOrder(r) ==
    /\ r \in Seq(Installed) /\ Len(r) \in Nat
    /\ \A i \in 1..Len(r) : \/ i = 1 /\ r[i] = "session"
                            \/ i = 2 /\ r[i] = "refresh_token"
                            \/ i = 3 /\ r[i] = "jwt"

LEMMA AuthFacts ==
    ASSUME settings \in Settings
    PROVE  /\ AuthOrder(AuthMiddlewares)
           /\ ~settings.openbridge \/ settings.endpoint => Len(AuthMiddlewares) # 0
  <1>1. CASE settings.openbridge /\ settings.endpoint /\ settings.validation
    <2>1. AuthMiddlewares = <<"session", "refresh_token", "jwt">>
      BY <1>1 DEF AuthMiddlewares
    <2> QED
      BY <2>1 DEF Installed, AuthOrder
  <1>2. CASE settings.openbridge /\ settings.endpoint /\ ~settings.validation
    <2>1. AuthMiddlewares = <<"session", "refresh_token">>
      BY <1>2 DEF AuthMiddlewares
    <2> QED
      BY <2>1 DEF Installed, AuthOrder
  <1>3. CASE ~settings.openbridge
    <2>1. AuthMiddlewares = <<"session">>
      BY <1>3 DEF AuthMiddlewares
    <2> QED
      BY <2>1 DEF Installed, AuthOrder
  <1>4. CASE settings.openbridge /\ ~settings.endpoint
    <2>1. AuthMiddlewares = <<>>
      BY <1>4 DEF AuthMiddlewares
    <2> QED
      BY <1>4, <2>1 DEF Installed, AuthOrder
  <1> QED
    BY <1>1, <1>2, <1>3, <1>4 DEF Settings

\* What comes before the session needs none.
Early(q) == /\ q \in Seq(Installed)
            /\ \A i \in 1..Len(q) : q[i] \in {"errors", "caching", "sampling"}

LEMMA EarlyJoined == ASSUME NEW q, NEW r, Early(q), Early(r) PROVE Early(q \o r)
  <1>1. q \in Seq(Installed) /\ r \in Seq(Installed) /\ Len(q) \in Nat /\ Len(r) \in Nat
    BY DEF Early
  <1>2. /\ q \o r \in Seq(Installed) /\ Len(q \o r) = Len(q) + Len(r)
        /\ \A i \in 1..Len(q) : (q \o r)[i] = q[i]
        /\ \A i \in Len(q) + 1 .. Len(q) + Len(r) :
              i - Len(q) \in 1..Len(r) /\ (q \o r)[i] = r[i - Len(q)]
    BY <1>1, Joined
  <1>3. \A i \in 1..Len(q \o r) : i \in 1..Len(q) \/ i \in Len(q) + 1 .. Len(q) + Len(r)
    BY <1>1, <1>2
  <1> QED
    BY <1>2, <1>3 DEF Early

SessionAt(q, r) == IF Len(r) = 0 THEN 0 ELSE Len(q) + 1

\* The session comes next, if at all, and what needs it right after.
LEMMA SessionJoined ==
    ASSUME NEW q, Early(q), NEW r, AuthOrder(r)
    PROVE  Ordered(q \o r, SessionAt(q, r)) /\ WithoutSidecar(q \o r)
  <1>1. q \in Seq(Installed) /\ r \in Seq(Installed) /\ Len(q) \in Nat /\ Len(r) \in Nat
    BY DEF Early, AuthOrder
  <1>2. /\ q \o r \in Seq(Installed) /\ Len(q \o r) = Len(q) + Len(r)
        /\ \A i \in 1..Len(q) : (q \o r)[i] = q[i]
        /\ \A i \in Len(q) + 1 .. Len(q) + Len(r) :
              i - Len(q) \in 1..Len(r) /\ (q \o r)[i] = r[i - Len(q)]
    BY <1>1, Joined
  <1>3. ASSUME NEW i \in 1..Len(q \o r)
        PROVE  \/ i <= Len(q) /\ (q \o r)[i] \in {"errors", "caching", "sampling"}
               \/ Len(r) # 0 /\ i = Len(q) + 1 /\ (q \o r)[i] = "session"
               \/ Len(r) # 0 /\ i = Len(q) + 2 /\ (q \o r)[i] = "refresh_token"
               \/ Len(r) # 0 /\ i = Len(q) + 3 /\ (q \o r)[i] = "jwt"
    <2>1. CASE i <= Len(q)
      <3>1. i \in 1..Len(q)
        BY <1>1, <1>2, <2>1
      <3> QED
        BY <1>2, <2>1, <3>1 DEF Early
    <2>2. CASE i > Len(q)
      <3>1. i \in Len(q) + 1 .. Len(q) + Len(r) /\ Len(r) # 0
        BY <1>1, <1>2, <2>2
      <3>2. i - Len(q) \in 1..Len(r) /\ (q \o r)[i] = r[i - Len(q)]
        BY <1>2, <3>1
      <3>3. \/ i - Len(q) = 1 /\ (q \o r)[i] = "session"
            \/ i - Len(q) = 2 /\ (q \o r)[i] = "refresh_token"
            \/ i - Len(q) = 3 /\ (q \o r)[i] = "jwt"
        BY <3>2 DEF AuthOrder
      <3> QED
        BY <1>1, <3>1, <3>3
    <2> QED
      BY <1>1, <1>2, <2>1, <2>2
  <1>4. Len(r) # 0 => Len(q) + 1 \in 1..Len(q \o r) /\ (q \o r)[Len(q) + 1] = "session"
    <2> SUFFICES ASSUME Len(r) # 0
                 PROVE  Len(q) + 1 \in 1..Len(q \o r) /\ (q \o r)[Len(q) + 1] = "session"
      OBVIOUS
    <2>1. Len(q) + 1 \in 1..Len(q \o r)
      BY <1>1, <1>2
    <2> QED
      BY <1>1, <1>3, <2>1
  <1>5. SessionAt(q, r) \in 0..Len(q \o r)
    BY <1>1, <1>2 DEF SessionAt
  <1>6. Ordered(q \o r, SessionAt(q, r))
    <2> DEFINE n == SessionAt(q, r)
               t == q \o r
    <2>1. CASE Len(r) = 0
      <3>1. n = 0
        BY <2>1 DEF SessionAt
      <3>2. \A i \in 1..Len(t) : t[i] \in {"errors", "caching", "sampling"} /\ i # 0
        BY <1>1, <1>2, <1>3, <2>1
      <3> HIDE DEF n, t
      <3> QED
        BY <1>2, <1>5, <3>1, <3>2 DEF Ordered, n, t
    <2>2. CASE Len(r) # 0
      <3>1. n = Len(q) + 1
        BY <2>2 DEF SessionAt
      <3>2. \A i \in 1..Len(t) : t[i] = "session" <=> i = n
        BY <1>1, <1>3, <1>4, <2>2, <3>1
      <3>3. \A i \in 1..Len(t) : t[i] = "refresh_token" => i = n + 1
        BY <1>1, <1>3, <3>1
      <3>4. \A i \in 1..Len(t) : t[i] = "jwt" => n + 1 < i
        BY <1>1, <1>3, <3>1
      <3>5. \A i \in 1..Len(t) : t[i] # "oauth"
        BY <1>3
      <3> HIDE DEF n, t
      <3> QED
        BY <1>2, <1>5, <3>2, <3>3, <3>4, <3>5 DEF Ordered, n, t
    <2> QED
      BY <2>1, <2>2
  <1> QED
    BY <1>3, <1>6 DEF WithoutSidecar

\* Nothing that is added later comes before the session.
LEMMA LaterJoined ==
    ASSUME NEW q, NEW n, Ordered(q, n), NEW condition \in BOOLEAN, NEW name \in {"oauth", "sidecar"}
    PROVE  /\ Ordered(q \o If(condition, name), n)
           /\ \A i \in 1..Len(q \o If(condition, name)) :
                 \/ i \in 1..Len(q) /\ (q \o If(condition, name))[i] = q[i]
                 \/ i = Len(q \o If(condition, name)) /\ (q \o If(condition, name))[i] = name
  <1> DEFINE e == If(condition, name)
  <1>1. /\ e \in Seq(Installed) /\ Len(e) \in 0..1 /\ \A i \in 1..Len(e) : e[i] = name
    <2>1. name \in Installed
      BY DEF Installed
    <2> QED
      BY <2>1, OptionalFacts
  <1>2. q \in Seq(Installed) /\ n \in 0..Len(q) /\ Len(q) \in Nat
    BY DEF Ordered
  <1> HIDE DEF e
  <1>3. /\ q \o e \in Seq(Installed) /\ Len(q \o e) = Len(q) + Len(e)
        /\ \A i \in 1..Len(q) : (q \o e)[i] = q[i]
        /\ \A i \in Len(q) + 1 .. Len(q) + Len(e) :
              i - Len(q) \in 1..Len(e) /\ (q \o e)[i] = e[i - Len(q)]
    BY <1>1, <1>2, Joined
  <1>4. ASSUME NEW i \in 1..Len(q \o e)
        PROVE  \/ i \in 1..Len(q) /\ (q \o e)[i] = q[i]
               \/ i > Len(q) /\ i = Len(q \o e) /\ (q \o e)[i] = name
    BY <1>1, <1>2, <1>3
  <1>5. n \in 0..Len(q \o e)
    BY <1>1, <1>2, <1>3
  <1>6. Ordered(q \o e, n)
    BY <1>2, <1>3, <1>4, <1>5 DEF Ordered
  <1> QED
    BY <1>4, <1>6 DEF e

\* A session is restored where one can be.
Restored(n) == ~settings.openbridge \/ settings.endpoint => n # 0

LEMMA MiddlewaresOrdered ==
    ASSUME settings \in Settings
    PROVE  LET q == <<"errors">> \o If(settings.caching, "caching")
                      \o If(settings.sampling, "sampling") \o AuthMiddlewares
                      \o If(settings.oauthApp, "oauth")
           IN  (\E n \in 0..Len(q) : Ordered(q, n) /\ Restored(n)) /\ WithoutSidecar(q)
  <1> DEFINE pre == <<"errors">> \o If(settings.caching, "caching") \o If(settings.sampling, "sampling")
             withSession == pre \o AuthMiddlewares
             q == withSession \o If(settings.oauthApp, "oauth")
  <1>1. /\ settings.caching \in BOOLEAN /\ settings.sampling \in BOOLEAN
        /\ settings.oauthApp \in BOOLEAN
    BY DEF Settings
  <1>2. Early(<<"errors">>)
    BY DEF Early, Installed
  <1>3. Early(If(settings.caching, "caching")) /\ Early(If(settings.sampling, "sampling"))
    <2>1. {"caching", "sampling"} \subseteq Installed
      BY DEF Installed
    <2> QED
      BY <1>1, <2>1, OptionalFacts DEF Early
  <1>4. Early(pre)
    BY <1>2, <1>3, EarlyJoined
  <1> HIDE DEF pre
  <1>5. /\ Ordered(withSession, SessionAt(pre, AuthMiddlewares)) /\ WithoutSidecar(withSession)
        /\ Restored(SessionAt(pre, AuthMiddlewares))
    <2>1. Len(pre) \in Nat
      BY <1>4 DEF Early
    <2> QED
      BY <1>4, <2>1, AuthFacts, SessionJoined DEF Restored, SessionAt
  <1> HIDE DEF withSession
  <1> DEFINE n == SessionAt(pre, AuthMiddlewares)
  <1>6. /\ Ordered(q, n)
        /\ \A i \in 1..Len(q) : \/ i \in 1..Len(withSession) /\ q[i] = withSession[i]
                                \/ i = Len(q) /\ q[i] = "oauth"
    <2>1. Ordered(withSession, n) /\ "oauth" \in {"oauth", "sidecar"}
      BY <1>5
    <2> HIDE DEF q, n
    <2>2. ASSUME NEW condition \in BOOLEAN
          PROVE  /\ Ordered(withSession \o If(condition, "oauth"), n)
                 /\ \A i \in 1..Len(withSession \o If(condition, "oauth")) :
                       \/ i \in 1..Len(withSession)
                          /\ (withSession \o If(condition, "oauth"))[i] = withSession[i]
                       \/ i = Len(withSession \o If(condition, "oauth"))
                          /\ (withSession \o If(condition, "oauth"))[i] = "oauth"
      BY <2>1, LaterJoined
    <2> QED
      BY <1>1, <2>2 DEF q, n
  <1> HIDE DEF q
  <1>7. n \in 0..Len(q) /\ WithoutSidecar(q)
    BY <1>5, <1>6 DEF Ordered, WithoutSidecar
  <1>8. (\E m \in 0..Len(q) : Ordered(q, m) /\ Restored(m)) /\ WithoutSidecar(q)
    BY <1>5, <1>6, <1>7
  <1> QED
    BY <1>8 DEF q, withSession, pre

LEMMA SidecarLast ==
    ASSUME NEW q, NEW n, Ordered(q, n), WithoutSidecar(q), NEW condition \in BOOLEAN
    PROVE  LET r == q \o If(condition, "sidecar")
           IN  Ordered(r, n) /\ \A i \in 1..Len(r) : r[i] = "sidecar" => i = Len(r)
  BY LaterJoined DEF WithoutSidecar

\* A spec adds its tools to those of others.
LEMMA CountAdds ==
    ASSUME NEW ss \in SUBSET Specs, IsFiniteSet(ToolsOf(ss)), NEW s \in Specs \ ss
    PROVE  /\ IsFiniteSet(ToolsOf(ss \cup {s}))
           /\ ToolCount(ss \cup {s}) = ToolCount(ss) + ToolsIn[s]
           /\ ToolCount(ss) \in Nat
  <1> DEFINE new == {s} \X (1..ToolsIn[s])
  <1>1. ToolsIn[s] \in Nat
    BY BuildAssumption
  <1>2. IsFiniteSet(new) /\ Cardinality(new) = ToolsIn[s]
    <2>1. IsFiniteSet({s}) /\ Cardinality({s}) = 1
      BY FS_Singleton
    <2>2. IsFiniteSet(1..ToolsIn[s]) /\ Cardinality(1..ToolsIn[s]) = ToolsIn[s]
      BY <1>1, FS_Interval
    <2>3. Cardinality(new) = 1 * ToolsIn[s] /\ IsFiniteSet(new)
      BY <2>1, <2>2, FS_Product
    <2> QED
      BY <1>1, <2>3
  <1>3. ToolsOf(ss \cup {s}) = ToolsOf(ss) \cup new
    BY DEF ToolsOf
  <1>4. ToolsOf(ss) \cap new = {}
    BY DEF ToolsOf
  <1> HIDE DEF new
  <1>5. Cardinality(ToolsOf(ss)) \in Nat
    BY FS_CardinalityType
  <1>6. /\ IsFiniteSet(ToolsOf(ss) \cup new)
        /\ Cardinality(ToolsOf(ss) \cup new) = Cardinality(ToolsOf(ss)) + ToolsIn[s] - Cardinality({})
    BY <1>2, <1>4, FS_Union
  <1>7. Cardinality({}) = 0 /\ ToolsIn[s] - 0 = ToolsIn[s]
    BY <1>1, FS_EmptySet
  <1>8. Cardinality(ToolsOf(ss) \cup new) = Cardinality(ToolsOf(ss)) + ToolsIn[s]
    BY <1>1, <1>5, <1>6, <1>7
  <1> QED
    BY <1>3, <1>5, <1>6, <1>8 DEF ToolCount

CountsAddUp == \A p \in GroupNames :
    IsFiniteSet(ToolsOf(Group(p))) /\ counts[p] = ToolCount(Group(p) \ uncounted)

\* What has been looked at is mounted if it can be, and nothing else is.
MountedInv ==
    /\ mounted \cap toMount = {} /\ toMount \subseteq Selected
    /\ phase = "new" => mounted = {}
    /\ phase # "new" => mounted \subseteq Selected /\ Selected \ broken \subseteq mounted \cup toMount
    /\ phase \notin {"new", "mounting"} => toMount = {}

\* Before any call, tools are as they were built.
AsBuilt ==
    phase # "ready" =>
        /\ \A c \in GroupCalls : switching[c] = NoSwitch
        /\ \A p \in GroupNames : asked[p] = "nothing"
        /\ enabled = IF phase = "tools" /\ Hidden THEN {} ELSE mounted

\* A call has the servers of its group left that are not switched yet.
SwitchesInv ==
    \A c \in GroupCalls : switching[c] # NoSwitch =>
        /\ phase = "ready" /\ "groups" \in toolsets
        /\ switching[c].group \in GroupNames
        /\ switching[c].left \subseteq Group(switching[c].group)

\* No call wants anything but this of the group p.
AllWant(p, enable) ==
    \A c \in GroupCalls : switching[c].group = p => switching[c].enable = enable
ToDo(p, s) == \E c \in GroupCalls : switching[c].group = p /\ s \in switching[c].left

\* What is known to be wanted is done, or some call under way has it left.
GroupInv(p) ==
    /\ asked[p] = "shown" =>
         AllWant(p, TRUE) /\ \A s \in Group(p) : s \in enabled \/ ToDo(p, s)
    /\ asked[p] = "hidden" =>
         AllWant(p, FALSE) /\ \A s \in Group(p) : s \notin enabled \/ ToDo(p, s)
    /\ asked[p] = "nothing" =>
         /\ \A c \in GroupCalls : switching[c].group # p
         /\ IF Hidden THEN Group(p) \cap enabled = {} ELSE Group(p) \subseteq enabled

GroupsInv == phase = "ready" => EveryToolReachable /\ \A p \in GroupNames : GroupInv(p)

MiddlewaresBuilt ==
    phase # "new" => \E n \in 0..Len(middlewares) :
        /\ Ordered(middlewares, n) /\ Restored(n)
        /\ phase = "mounting" => WithoutSidecar(middlewares)
        /\ \A i \in 1..Len(middlewares) : middlewares[i] = "sidecar" => i = Len(middlewares)

BuildInv ==
    /\ BuildTypeOK /\ MountedInv /\ CountsAddUp /\ AsBuilt /\ SwitchesInv /\ GroupsInv
    /\ MiddlewaresBuilt

\* A group has a name, so that no call switches one when it switches none.
LEMMA NamesAreNames == "(none)" \notin GroupNames
  BY BuildAssumption DEF GroupNames

LEMMA BuildInitially == BuildInit => BuildInv
  <1> SUFFICES ASSUME BuildInit PROVE BuildInv
    OBVIOUS
  <1>1. BuildTypeOK
    BY DEF BuildInit, BuildTypeOK, NoSwitch
  <1>2. \A p \in GroupNames :
            Group(p) = {} /\ Group(p) \ uncounted = {} /\ ToolsOf({}) = {} /\ counts[p] = 0
    BY DEF BuildInit, Group, ToolsOf
  <1>3. CountsAddUp
    BY <1>2, FS_EmptySet DEF CountsAddUp, ToolCount
  <1> QED
    BY <1>1, <1>3 DEF BuildInit, BuildInv, MountedInv, AsBuilt, SwitchesInv, GroupsInv,
                      MiddlewaresBuilt

\* What a step keeps that only builds: before "ready" nothing is known of groups.
LEMMA BuildingKeeps ==
    ASSUME BuildInv, phase # "ready", phase' # "ready", UNCHANGED <<settings, switching, asked>>,
           enabled' = IF phase' = "tools" /\ Hidden THEN {} ELSE mounted'
    PROVE  AsBuilt' /\ SwitchesInv' /\ GroupsInv'
  BY DEF BuildInv, AsBuilt, SwitchesInv, GroupsInv, Hidden, BuildTypeOK

LEMMA MountKeeps == ASSUME BuildInv, NEW s \in Specs, MountResource(s) PROVE BuildInv'
  <1>0. /\ BuildTypeOK /\ phase = "mounting" /\ s \in toMount /\ s \notin mounted
        /\ toMount' = toMount \ {s}
        /\ UNCHANGED <<settings, packages, broken, phase, middlewares, toolsets, switching,
                       asked>>
    BY DEF BuildInv, MountedInv, MountResource
  <1>1. enabled = mounted /\ UNCHANGED <<Selected, Hidden>>
    BY <1>0 DEF BuildInv, AsBuilt, Selected, Allowlist, Requested, Hidden
  <1>2. MiddlewaresBuilt'
    BY <1>0 DEF BuildInv, MiddlewaresBuilt, Restored
  <1>3. CASE s \in broken
    <2>1. UNCHANGED <<mounted, counts, enabled, uncounted>>
      BY <1>3 DEF MountResource
    <2>2. BuildTypeOK' /\ CountsAddUp'
      BY <1>0, <2>1 DEF BuildInv, BuildTypeOK, CountsAddUp, Group
    <2>3. MountedInv'
      BY <1>0, <1>1, <1>3, <2>1 DEF BuildInv, MountedInv
    <2> QED
      BY <1>0, <1>1, <1>2, <2>1, <2>2, <2>3, BuildingKeeps DEF BuildInv
  <1>4. CASE s \notin broken
    <2> DEFINE g == PrefixOf[s]
    <2>1. /\ mounted' = mounted \cup {s} /\ enabled' = enabled \cup {s}
          /\ \/ uncounted' = uncounted
                /\ counts' = [counts EXCEPT ![g] = counts[g] + ToolsIn[s]]
             \/ uncounted' = uncounted \cup {s} /\ counts' = counts
      BY <1>4 DEF MountResource
    <2>2. g \in GroupNames /\ ToolsIn[s] \in Nat
      BY BuildAssumption DEF GroupNames
    <2>3. /\ Group(g)' = Group(g) \cup {s} /\ s \notin Group(g) /\ s \notin uncounted
          /\ \A p \in GroupNames \ {g} : Group(p)' = Group(p) /\ s \notin Group(p)
          /\ \A p \in GroupNames : Group(p) \subseteq Specs
      BY <1>0, <2>1 DEF Group, BuildTypeOK
    <2>4. CountsAddUp'
      <3> SUFFICES ASSUME NEW p \in GroupNames
                   PROVE  /\ IsFiniteSet(ToolsOf(Group(p)'))
                          /\ counts'[p] = ToolCount(Group(p)' \ uncounted')
        BY DEF CountsAddUp, ToolsOf, ToolCount
      <3>1. IsFiniteSet(ToolsOf(Group(p))) /\ counts[p] = ToolCount(Group(p) \ uncounted)
        BY DEF BuildInv, CountsAddUp
      <3>2. CASE p = g
        <4> DEFINE ss == Group(p) \ uncounted
        <4>1. /\ ss \in SUBSET Specs /\ s \in Specs \ ss /\ Group(p) \in SUBSET Specs
              /\ s \in Specs \ Group(p)
          BY <2>3, <3>2
        <4>2. IsFiniteSet(ToolsOf(ss))
          <5>1. ToolsOf(ss) \subseteq ToolsOf(Group(p))
            BY DEF ToolsOf
          <5> QED
            BY <3>1, <5>1, FS_Subset
        <4>3. \/ Group(p)' \ uncounted' = ss \cup {s} /\ counts'[p] = counts[p] + ToolsIn[s]
              \/ Group(p)' \ uncounted' = ss /\ counts'[p] = counts[p]
          BY <1>0, <2>1, <2>2, <2>3, <3>2 DEF BuildTypeOK
        <4> HIDE DEF ss
        <4>4. ToolCount(ss \cup {s}) = ToolCount(ss) + ToolsIn[s]
          BY <4>1, <4>2, CountAdds
        <4>5. IsFiniteSet(ToolsOf(Group(p) \cup {s}))
          BY <3>1, <4>1, CountAdds
        <4>6. counts[p] = ToolCount(ss)
          BY <3>1 DEF ss
        <4> QED
          BY <2>3, <3>2, <4>3, <4>4, <4>5, <4>6
      <3>3. CASE p # g
        <4>1. Group(p)' \ uncounted' = Group(p) \ uncounted /\ Group(p)' = Group(p)
          BY <2>1, <2>3, <3>3
        <4>2. counts'[p] = counts[p]
          BY <1>0, <2>1, <3>3 DEF BuildTypeOK
        <4> QED
          BY <3>1, <4>1, <4>2
      <3> QED
        BY <3>2, <3>3
    <2>5. BuildTypeOK'
      <3>1. counts' \in [GroupNames -> Nat]
        BY <1>0, <2>1, <2>2 DEF BuildTypeOK
      <3> QED
        BY <1>0, <1>4, <2>1, <3>1 DEF BuildTypeOK
    <2>6. MountedInv'
      BY <1>0, <1>1, <2>1 DEF BuildInv, MountedInv, BuildTypeOK
    <2> QED
      BY <1>0, <1>1, <1>2, <2>1, <2>4, <2>5, <2>6, BuildingKeeps DEF BuildInv
  <1> QED
    BY <1>3, <1>4

\* A step that mounts nothing keeps the counts.
LEMMA CountsStay ==
    ASSUME CountsAddUp, mounted' = mounted, counts' = counts, uncounted' = uncounted
    PROVE  CountsAddUp'
  BY DEF CountsAddUp, Group, ToolCount, ToolsOf

LEMMA PhaseKeeps ==
    ASSUME BuildInv, SetupMiddleware \/ AddSidecars \/ DisableMountedTools \/ RegisterBuiltinTools
    PROVE  BuildInv'
  <1>0. /\ BuildTypeOK /\ CountsAddUp /\ MiddlewaresBuilt /\ MountedInv /\ AsBuilt
        /\ UNCHANGED <<settings, packages, broken, mounted, counts, uncounted, switching, asked>>
    BY DEF BuildInv, SetupMiddleware, AddSidecars, DisableMountedTools, RegisterBuiltinTools
  <1>1. UNCHANGED <<Selected, Hidden>> /\ CountsAddUp' /\ \A n : Restored(n)' = Restored(n)
    BY <1>0, CountsStay DEF Selected, Allowlist, Requested, Hidden, Restored
  <1>2. CASE SetupMiddleware
    <2>1. MiddlewaresBuilt'
      <3>1. /\ \E n \in 0..Len(middlewares') : Ordered(middlewares', n) /\ Restored(n)
            /\ WithoutSidecar(middlewares')
        BY <1>0, <1>2, MiddlewaresOrdered DEF SetupMiddleware, BuildTypeOK
      <3> QED
        BY <1>1, <1>2, <3>1 DEF SetupMiddleware, MiddlewaresBuilt, WithoutSidecar
    <2>2. Selected \subseteq Specs
      BY DEF Selected
    <2>3. BuildTypeOK'
      BY <1>0, <1>2, <2>2 DEF SetupMiddleware, BuildTypeOK
    <2>4. MountedInv'
      BY <1>0, <1>1, <1>2 DEF SetupMiddleware, MountedInv
    <2> QED
      BY <1>0, <1>1, <1>2, <2>1, <2>3, <2>4, BuildingKeeps DEF SetupMiddleware, BuildInv, AsBuilt
  <1>3. CASE AddSidecars
    <2>1. MiddlewaresBuilt'
      <3>1. settings.sidecars \in BOOLEAN
        BY <1>0 DEF BuildTypeOK, Settings
      <3>2. PICK n \in 0..Len(middlewares) :
               Ordered(middlewares, n) /\ Restored(n) /\ WithoutSidecar(middlewares)
        BY <1>0, <1>3 DEF AddSidecars, MiddlewaresBuilt
      <3>3. /\ Ordered(middlewares', n)
            /\ \A i \in 1..Len(middlewares') :
                  middlewares'[i] = "sidecar" => i = Len(middlewares')
        BY <1>3, <3>1, <3>2, SidecarLast DEF AddSidecars
      <3>4. n \in 0..Len(middlewares')
        BY <3>3 DEF Ordered
      <3> QED
        BY <1>1, <1>3, <3>2, <3>3, <3>4 DEF AddSidecars, MiddlewaresBuilt
    <2>2. BuildTypeOK'
      BY <1>0, <1>3 DEF AddSidecars, BuildTypeOK
    <2>3. MountedInv'
      BY <1>0, <1>1, <1>3 DEF AddSidecars, MountedInv
    <2> QED
      BY <1>0, <1>1, <1>3, <2>1, <2>2, <2>3, BuildingKeeps DEF AddSidecars, BuildInv, AsBuilt
  <1>4. CASE DisableMountedTools
    <2>1. BuildTypeOK' /\ MiddlewaresBuilt'
      BY <1>0, <1>1, <1>4 DEF DisableMountedTools, BuildTypeOK, MiddlewaresBuilt
    <2>2. MountedInv'
      BY <1>0, <1>1, <1>4 DEF DisableMountedTools, MountedInv
    <2>3. enabled' = IF phase' = "tools" /\ Hidden THEN {} ELSE mounted'
      BY <1>0, <1>4 DEF DisableMountedTools, AsBuilt, Hidden
    <2> QED
      BY <1>0, <1>1, <1>4, <2>1, <2>2, <2>3, BuildingKeeps DEF DisableMountedTools, BuildInv
  <1>5. CASE RegisterBuiltinTools
    <2>1. BuildTypeOK' /\ MiddlewaresBuilt'
      BY <1>0, <1>1, <1>5 DEF RegisterBuiltinTools, BuildTypeOK, MiddlewaresBuilt
    <2>2. MountedInv'
      BY <1>0, <1>1, <1>5 DEF RegisterBuiltinTools, MountedInv
    <2>3. /\ phase = "tools" /\ phase' = "ready" /\ enabled' = enabled
          /\ mounted # {} /\ ~settings.codeMode => "groups" \in toolsets'
      BY <1>5 DEF RegisterBuiltinTools
    <2>4. /\ \A c \in GroupCalls : switching'[c] = NoSwitch
          /\ \A p \in GroupNames : asked'[p] = "nothing"
          /\ enabled = IF Hidden THEN {} ELSE mounted
      BY <1>0, <2>3 DEF AsBuilt
    <2>5. AsBuilt' /\ SwitchesInv'
      BY <2>3, <2>4 DEF AsBuilt, SwitchesInv
    <2>6. EveryToolReachable'
      BY <1>0, <2>3, <2>4 DEF EveryToolReachable, Hidden
    <2>7. ASSUME NEW p \in GroupNames PROVE GroupInv(p)'
      <3>1. asked'[p] = "nothing" /\ \A c \in GroupCalls : switching'[c].group # p
        BY <2>4, NamesAreNames DEF NoSwitch
      <3>2. IF Hidden' THEN Group(p)' \cap enabled' = {} ELSE Group(p)' \subseteq enabled'
        BY <1>0, <1>1, <2>3, <2>4 DEF Group
      <3> QED
        BY <3>1, <3>2 DEF GroupInv
    <2> QED
      BY <1>1, <2>1, <2>2, <2>5, <2>6, <2>7 DEF BuildInv, GroupsInv
  <1> QED
    BY <1>2, <1>3, <1>4, <1>5

\* What a call keeps, besides what is known of the groups.
LEMMA CallsKeep ==
    ASSUME BuildInv, phase = "ready",
           UNCHANGED <<settings, packages, broken, phase, toMount, mounted, counts, middlewares,
                       toolsets, uncounted>>,
           "groups" \in toolsets, enabled' \subseteq mounted,
           switching' \in [GroupCalls -> Switches \cup {NoSwitch}],
           asked' \in [GroupNames -> {"nothing", "shown", "hidden", "either"}],
           \A c \in GroupCalls : switching'[c] # NoSwitch =>
               switching'[c].group \in GroupNames /\ switching'[c].left \subseteq Group(switching'[c].group),
           \A p \in GroupNames : GroupInv(p)'
    PROVE  BuildInv'
  <1>1. CountsAddUp' /\ \A p : Group(p)' = Group(p) /\ Group(p) \subseteq mounted
    BY CountsStay DEF BuildInv, Group
  <1>2. BuildTypeOK'
    <2>1. \A c \in GroupCalls : switching'[c].left \subseteq mounted
      BY <1>1 DEF NoSwitch
    <2> QED
      BY <2>1 DEF BuildInv, BuildTypeOK
  <1>3. MountedInv' /\ MiddlewaresBuilt'
    BY DEF BuildInv, MountedInv, MiddlewaresBuilt, Selected, Allowlist, Requested, Restored
  <1>4. AsBuilt' /\ SwitchesInv'
    BY <1>1 DEF AsBuilt, SwitchesInv
  <1>5. GroupsInv'
    BY DEF GroupsInv, EveryToolReachable
  <1> QED
    BY <1>1, <1>2, <1>3, <1>4, <1>5 DEF BuildInv

LEMMA EnableKeeps ==
    ASSUME BuildInv, NEW c \in GroupCalls, NEW p \in GroupNames, NEW enable \in BOOLEAN,
           EnableToolGroup(c, p, enable)
    PROVE  BuildInv'
  <1> DEFINE new == [group |-> p, enable |-> enable, left |-> Group(p)]
  <1>0. /\ BuildTypeOK /\ phase = "ready" /\ "groups" \in toolsets /\ switching[c] = NoSwitch
        /\ switching' = [switching EXCEPT ![c] = new]
        /\ asked' = [asked EXCEPT ![p] = Wanted(c, p, enable)]
        /\ UNCHANGED <<settings, packages, broken, phase, toMount, mounted, counts, enabled,
                       middlewares, toolsets, uncounted>>
    BY DEF EnableToolGroup, BuildInv
  <1>1. new \in Switches /\ \A q : Group(q)' = Group(q) /\ Group(q) \subseteq mounted
    BY <1>0 DEF Group, Switches, BuildTypeOK
  <1>2. Wanted(c, p, enable) \in {"shown", "hidden", "either"}
    BY DEF Wanted
  <1>3. switching' \in [GroupCalls -> Switches \cup {NoSwitch}]
        /\ asked' \in [GroupNames -> {"nothing", "shown", "hidden", "either"}]
    BY <1>0, <1>1, <1>2 DEF BuildTypeOK
  <1>4. /\ switching'[c] = new /\ \A d \in GroupCalls \ {c} : switching'[d] = switching[d]
        /\ asked'[p] = Wanted(c, p, enable) /\ \A q \in GroupNames \ {p} : asked'[q] = asked[q]
    BY <1>0 DEF BuildTypeOK
  <1>5. ASSUME NEW q \in GroupNames PROVE GroupInv(q)'
    <2>1. GroupInv(q) /\ switching[c].group # q /\ switching[c].left = {}
      BY <1>0, NamesAreNames DEF BuildInv, GroupsInv, NoSwitch
    <2>2. CASE q # p
      <3>1. switching'[c].group # q
        BY <1>4, <2>2
      <3>2. \A d \in GroupCalls : switching'[d].group = q <=> switching[d].group = q
        BY <1>4, <2>1, <3>1
      <3>3. \A s : ToDo(q, s)' <=> ToDo(q, s)
        BY <1>4, <2>1, <3>1 DEF ToDo
      <3>4. \A e : AllWant(q, e)' <=> AllWant(q, e)
        BY <1>4, <2>1, <3>1 DEF AllWant
      <3> QED
        BY <1>0, <1>1, <1>4, <2>1, <2>2, <3>2, <3>3, <3>4 DEF GroupInv, Hidden
    <2>3. CASE q = p
      <3>1. \A s \in Group(q) : ToDo(q, s)'
        BY <1>4, <2>3 DEF ToDo
      <3>2. asked'[q] \in {"shown", "hidden"} => AllWant(q, enable)'
        BY <1>4, <2>3 DEF Wanted, AllWant
      <3>3. (asked'[q] = "shown" => enable) /\ (asked'[q] = "hidden" => ~enable)
            /\ asked'[q] # "nothing"
        BY <1>4, <2>3 DEF Wanted
      <3> QED
        BY <1>1, <3>1, <3>2, <3>3 DEF GroupInv
    <2> QED
      BY <2>2, <2>3
  <1>6. \A d \in GroupCalls : switching'[d] # NoSwitch =>
            switching'[d].group \in GroupNames /\ switching'[d].left \subseteq Group(switching'[d].group)
    BY <1>4 DEF BuildInv, SwitchesInv
  <1> HIDE DEF new
  <1> QED
    BY <1>0, <1>3, <1>5, <1>6, CallsKeep DEF BuildTypeOK

LEMMA SwitchServerKeeps ==
    ASSUME BuildInv, NEW c \in GroupCalls, NEW s \in Specs, SwitchServer(c, s)
    PROVE  BuildInv'
  <1> DEFINE p == switching[c].group
             enable == switching[c].enable
  <1>0. /\ BuildTypeOK /\ s \in switching[c].left
        /\ enabled' = IF enable THEN enabled \cup {s} ELSE enabled \ {s}
        /\ switching' = [switching EXCEPT ![c] =
              IF switching[c].left = {s} THEN NoSwitch
              ELSE [switching[c] EXCEPT !.left = switching[c].left \ {s}]]
        /\ UNCHANGED <<settings, packages, broken, phase, toMount, mounted, counts,
                       middlewares, toolsets, uncounted, asked>>
    BY DEF SwitchServer, BuildInv
  <1>1. switching[c] # NoSwitch /\ switching[c] \in Switches
    BY <1>0 DEF NoSwitch, BuildTypeOK
  <1>2. /\ phase = "ready" /\ "groups" \in toolsets /\ p \in GroupNames /\ enable \in BOOLEAN
        /\ switching[c].left \subseteq Group(p) /\ PrefixOf[s] = p /\ s \in mounted
    BY <1>0, <1>1 DEF BuildInv, SwitchesInv, Group, Switches
  <1>3. [switching[c] EXCEPT !.left = switching[c].left \ {s}] \in Switches
    BY <1>1 DEF Switches
  <1>4. /\ switching' \in [GroupCalls -> Switches \cup {NoSwitch}]
        /\ \A d \in GroupCalls \ {c} : switching'[d] = switching[d]
    BY <1>0, <1>3 DEF BuildTypeOK
  <1>5. \/ switching'[c] = NoSwitch /\ switching[c].left = {s}
        \/ /\ switching'[c].group = p /\ switching'[c].enable = enable
           /\ switching'[c].left = switching[c].left \ {s}
    BY <1>0, <1>1 DEF BuildTypeOK, Switches
  <1>6. \A q : Group(q)' = Group(q)
    BY <1>0 DEF Group
  <1> HIDE DEF p, enable
  <1>7. ASSUME NEW q \in GroupNames PROVE GroupInv(q)'
    <2>0. GroupInv(q) /\ asked'[q] = asked[q] /\ Hidden' = Hidden /\ q # "(none)"
      BY <1>0, <1>2, NamesAreNames DEF BuildInv, GroupsInv, Hidden
    <2>1. \A d \in GroupCalls : switching'[d].group = q =>
              switching[d].group = q /\ switching'[d].enable = switching[d].enable
      BY <1>4, <1>5, <2>0 DEF NoSwitch, p, enable
    <2>2. \A e : AllWant(q, e) => AllWant(q, e)'
      BY <2>1 DEF AllWant
    <2>3. \A t \in Specs : t # s /\ ToDo(q, t) => ToDo(q, t)'
      <3> SUFFICES ASSUME NEW t \in Specs, t # s, NEW d \in GroupCalls,
                          switching[d].group = q, t \in switching[d].left
                   PROVE  switching'[d].group = q /\ t \in switching'[d].left
        BY DEF ToDo
      <3> QED
        BY <1>4, <1>5 DEF p
    <2>4. q # p => \A t \in Group(q) : t # s /\ (t \in enabled' <=> t \in enabled)
      BY <1>0, <1>2 DEF Group
    <2>5. Group(q) \subseteq Specs
      BY <1>0 DEF BuildTypeOK, Group
    <2>6. CASE q # p
      BY <1>6, <2>0, <2>1, <2>2, <2>3, <2>4, <2>5, <2>6 DEF GroupInv
    <2>7. CASE q = p
      <3>1. asked[q] # "nothing"
        BY <2>0, <2>7 DEF GroupInv, p
      <3>2. asked[q] = "shown" => enable = TRUE
        BY <2>0, <2>7 DEF GroupInv, AllWant, p, enable
      <3>3. asked[q] = "hidden" => enable = FALSE
        BY <2>0, <2>7 DEF GroupInv, AllWant, p, enable
      <3>4. \A t \in Group(q) : t # s => (t \in enabled' <=> t \in enabled)
        BY <1>0
      <3>5. asked[q] = "shown" => s \in enabled'
        BY <1>0, <3>2
      <3>6. asked[q] = "hidden" => s \notin enabled'
        BY <1>0, <3>3
      <3> QED
        BY <1>6, <2>0, <2>2, <2>3, <2>5, <3>1, <3>4, <3>5, <3>6 DEF GroupInv
    <2> QED
      BY <2>6, <2>7
  <1>8. \A d \in GroupCalls : switching'[d] # NoSwitch =>
            switching'[d].group \in GroupNames /\ switching'[d].left \subseteq Group(switching'[d].group)
    BY <1>2, <1>4, <1>5 DEF BuildInv, SwitchesInv
  <1>9. enabled' \subseteq mounted
    BY <1>0, <1>2 DEF BuildTypeOK
  <1> QED
    BY <1>0, <1>2, <1>4, <1>7, <1>8, <1>9, CallsKeep DEF BuildTypeOK

LEMMA FailedSwitchKeeps ==
    ASSUME BuildInv, NEW c \in GroupCalls, SwitchFails(c)
    PROVE  BuildInv'
  <1> DEFINE p == switching[c].group
  <1>0. /\ BuildTypeOK /\ switching[c] # NoSwitch
        /\ asked' = [asked EXCEPT ![p] = "either"]
        /\ switching' = [switching EXCEPT ![c] = NoSwitch]
        /\ UNCHANGED <<settings, packages, broken, phase, toMount, mounted, counts, enabled,
                       middlewares, toolsets, uncounted>>
    BY DEF SwitchFails, BuildInv
  <1>1. phase = "ready" /\ "groups" \in toolsets /\ p \in GroupNames
    BY <1>0 DEF BuildInv, SwitchesInv
  <1>2. /\ switching' \in [GroupCalls -> Switches \cup {NoSwitch}]
        /\ asked' \in [GroupNames -> {"nothing", "shown", "hidden", "either"}]
        /\ switching'[c] = NoSwitch /\ \A d \in GroupCalls \ {c} : switching'[d] = switching[d]
        /\ asked'[p] = "either" /\ \A q \in GroupNames \ {p} : asked'[q] = asked[q]
    BY <1>0, <1>1 DEF BuildTypeOK
  <1> HIDE DEF p
  <1>3. ASSUME NEW q \in GroupNames PROVE GroupInv(q)'
    <2>0. GroupInv(q) /\ q # "(none)"
      BY <1>1, NamesAreNames DEF BuildInv, GroupsInv
    <2>1. CASE q = p
      BY <1>2, <2>1 DEF GroupInv
    <2>2. CASE q # p
      <3>1. \A d \in GroupCalls : switching'[d].group = q => switching'[d] = switching[d]
        BY <1>2, <2>0 DEF NoSwitch
      <3>2. \A s : ToDo(q, s) => ToDo(q, s)'
        BY <1>2, <2>2 DEF ToDo, p
      <3>3. \A e : AllWant(q, e) => AllWant(q, e)'
        BY <3>1 DEF AllWant
      <3>4. Group(q)' = Group(q) /\ Hidden' = Hidden /\ asked'[q] = asked[q]
        BY <1>0, <1>2, <2>2 DEF Group, Hidden
      <3> QED
        BY <1>0, <2>0, <3>1, <3>2, <3>3, <3>4 DEF GroupInv
    <2> QED
      BY <2>1, <2>2
  <1>4. \A d \in GroupCalls : switching'[d] # NoSwitch =>
            switching'[d].group \in GroupNames /\ switching'[d].left \subseteq Group(switching'[d].group)
    BY <1>2 DEF BuildInv, SwitchesInv
  <1> QED
    BY <1>0, <1>1, <1>2, <1>3, <1>4, CallsKeep DEF BuildTypeOK

LEMMA BuildStep == BuildInv /\ [BuildNext]_buildVars => BuildInv'
  <1> SUFFICES ASSUME BuildInv, [BuildNext]_buildVars PROVE BuildInv'
    OBVIOUS
  <1>1. CASE UNCHANGED buildVars
    <2>1. UNCHANGED <<settings, packages, broken, phase, toMount, mounted, counts, enabled,
                      middlewares, toolsets, switching, uncounted, asked>>
      BY <1>1 DEF buildVars
    <2>2. BuildTypeOK' /\ MiddlewaresBuilt'
      BY <2>1 DEF BuildInv, BuildTypeOK, MiddlewaresBuilt, Restored
    <2>3. MountedInv'
      BY <2>1 DEF BuildInv, MountedInv, Selected, Allowlist, Requested
    <2>4. CountsAddUp'
      BY <2>1, CountsStay DEF BuildInv
    <2>5. AsBuilt' /\ SwitchesInv'
      BY <2>1 DEF BuildInv, AsBuilt, SwitchesInv, Hidden, Group
    <2>6. ASSUME GroupsInv PROVE GroupsInv'
      BY <2>1, <2>6 DEF GroupsInv, GroupInv, AllWant, ToDo, EveryToolReachable, Hidden, Group
    <2> QED
      BY <2>2, <2>3, <2>4, <2>5, <2>6 DEF BuildInv
  <1> QED
    BY <1>1, PhaseKeeps, MountKeeps, EnableKeeps, SwitchServerKeeps, FailedSwitchKeeps DEF BuildNext

LEMMA BuildInvariant == BuildSpec => []BuildInv
  BY BuildInitially, BuildStep, PTL DEF BuildSpec

LEMMA BuildInvSuffices == BuildInv => BuiltAsConfigured
  <1> SUFFICES ASSUME BuildInv, phase = "ready" PROVE BuiltAsConfigured
    BY DEF BuiltAsConfigured, MountedAsAskedFor, EveryToolReachable, GroupsAsAsked,
           TotalsAreOfMounted, MiddlewareOrder
  <1>1. EveryToolReachable
    BY DEF BuildInv, GroupsInv
  <1>2. MountedAsAskedFor
    <2>1. mounted \subseteq Selected /\ Selected \ broken \subseteq mounted
      BY DEF BuildInv, MountedInv
    <2>2. mounted \subseteq Specs \ broken
      BY DEF BuildInv, BuildTypeOK
    <2>3. Requested \subseteq {UnknownName} => Allowlist = {}
      <3>1. Requested \subseteq {UnknownName}
              => Requested \cap Aliases = {} /\ Requested \cap Specs = {}
        BY BuildAssumption
      <3> QED
        BY <3>1 DEF Allowlist
    <2>4. \A s \in Specs :
             s \in Requested \/ (\E n \in Requested \cap Aliases : AliasOf[n] = s) => s \in Allowlist
      BY DEF Allowlist
    <2>5. \A s \in Specs : s \in Allowlist => s \in Selected
      BY DEF Selected
    <2> QED
      BY <2>1, <2>2, <2>3, <2>4, <2>5 DEF MountedAsAskedFor, Selected
  <1>3. GroupsAsAsked
    <2> SUFFICES ASSUME NEW p \in GroupNames, \A c \in GroupCalls : switching[c].group # p
                 PROVE  /\ asked[p] = "shown" \/ (asked[p] = "nothing" /\ ~Hidden)
                             => Group(p) \subseteq enabled
                        /\ asked[p] = "hidden" \/ (asked[p] = "nothing" /\ Hidden)
                             => Group(p) \cap enabled = {}
      BY DEF GroupsAsAsked
    <2>1. GroupInv(p) /\ \A s : ~ToDo(p, s)
      BY DEF BuildInv, GroupsInv, ToDo
    <2> QED
      BY <2>1 DEF GroupInv
  <1>4. TotalsAreOfMounted
    <2> SUFFICES ASSUME NEW p \in GroupNames
                 PROVE  /\ Counted(p) <= ToolCount(Group(p))
                        /\ Group(p) \cap uncounted = {} => Counted(p) = ToolCount(Group(p))
      BY DEF TotalsAreOfMounted
    <2>1. IsFiniteSet(ToolsOf(Group(p))) /\ counts[p] = ToolCount(Group(p) \ uncounted)
      BY DEF BuildInv, CountsAddUp
    <2>2. \A ss \in SUBSET Group(p) : ToolCount(ss) <= ToolCount(Group(p))
      <3> TAKE ss \in SUBSET Group(p)
      <3>1. ToolsOf(ss) \subseteq ToolsOf(Group(p))
        BY DEF ToolsOf
      <3> QED
        BY <2>1, <3>1, FS_Subset DEF ToolCount
    <2>3. Counted(p) <= ToolCount(Group(p))
      BY <2>1, <2>2 DEF Counted
    <2>4. ASSUME Group(p) \cap uncounted = {}
          PROVE  Counted(p) = ToolCount(Group(p))
      <3>1. Group(p) \ uncounted = Group(p)
        BY <2>4
      <3>2. counts[p] = ToolCount(Group(p))
        BY <2>1, <3>1
      <3>3. CASE counts[p] = 0
        <4>1. ToolsOf(Group(p)) = {}
          BY <2>1, <3>2, <3>3, FS_EmptySet DEF ToolCount
        <4>2. ToolsOf(Group(p) \cap enabled) = {}
          BY <4>1 DEF ToolsOf
        <4> QED
          BY <3>3, <4>1, <4>2 DEF Counted, ToolCount
      <3>4. CASE counts[p] # 0
        BY <3>2, <3>4 DEF Counted
      <3> QED
        BY <3>3, <3>4
    <2> QED
      BY <2>3, <2>4
  <1>5. MiddlewareOrder
    <2> DEFINE At(name) == {i \in DOMAIN middlewares : middlewares[i] = name}
    <2>1. PICK n \in 0..Len(middlewares) :
             /\ Ordered(middlewares, n) /\ Restored(n)
             /\ \A i \in 1..Len(middlewares) : middlewares[i] = "sidecar" => i = Len(middlewares)
      BY DEF BuildInv, MiddlewaresBuilt
    <2>2. DOMAIN middlewares = 1..Len(middlewares) /\ Len(middlewares) \in Nat /\ n \in Nat
      BY <2>1 DEF Ordered
    <2>3. /\ n \in 0..Len(middlewares)
          /\ \A i \in 1..Len(middlewares) : (middlewares[i] = "session" <=> i = n)
          /\ \A i \in 1..Len(middlewares) : middlewares[i] = "refresh_token" => i = n + 1
          /\ \A i \in 1..Len(middlewares) : middlewares[i] = "jwt" => n + 1 < i
          /\ \A i \in 1..Len(middlewares) : middlewares[i] = "oauth" => n < i
      BY <2>1 DEF Ordered
    <2>4. At("session") \subseteq {n} /\ (n # 0 => At("session") = {n})
      <3>1. n # 0 => n \in 1..Len(middlewares)
        BY <2>2, <2>3
      <3> QED
        BY <2>2, <2>3, <3>1
    <2>5. Cardinality({n}) = 1
      BY FS_Singleton
    <2>6. ~settings.openbridge \/ settings.endpoint => Cardinality(At("session")) = 1
      BY <2>1, <2>4, <2>5 DEF Restored
    <2>7. \A j \in At("refresh_token") \cup At("jwt") \cup At("oauth") : n < j
      <3>1. \A j \in 1..Len(middlewares) :
               middlewares[j] \in {"refresh_token", "jwt", "oauth"} => n < j
        BY <2>2, <2>3
      <3> QED
        BY <2>2, <3>1
    <2>8. \A i \in At("refresh_token"), j \in At("jwt") : i < j
      BY <2>2, <2>3
    <2>9. \A i \in At("sidecar") : i = Len(middlewares)
      BY <2>1, <2>2
    <2> QED
      BY <2>4, <2>6, <2>7, <2>8, <2>9 DEF MiddlewareOrder
  <1> QED
    BY <1>1, <1>2, <1>3, <1>4, <1>5 DEF BuiltAsConfigured

\* What is enabled is mounted, and what is mounted could be read. (_mount_single_resource.)
THEOREM BuildTypes == BuildSpec => []BuildTypeOK
  BY BuildInvariant, PTL DEF BuildInv

\* For any specs, prefixes, aliases and settings, and any calls that overlap or fail: what
\* was asked for is mounted, every tool can be called or enabled, a group is as the last
\* call left it, totals are those of what is mounted, and the middlewares are in order.
\* (ServerBuilder.build, enable_tool_group, list_tool_groups.)
THEOREM BuiltRight == BuildSpec => []BuiltAsConfigured
  BY BuildInvariant, BuildInvSuffices, PTL

-----------------------------------------------------------------------------
(* Code mode. Where a call is tells whether its tool has run.               *)

InCall == script \in {"calling", "tool", "succeeded", "failed"}

CallInv ==
    /\ InCall => callId \in ScriptCalls /\ callId \notin futures
    /\ script \in {"calling", "tool"} => ran[callId] = 0
    /\ script = "succeeded" => ran[callId] = 1
    /\ \A i \in ScriptCalls : i > callId => ran[i] = 0
    /\ \A i \in futures : i <= callId

CodeInv == CodeTypeOK /\ CallInv /\ BlockCorrect

LEMMA CodeInitially == CodeInit => CodeInv
  BY CodeModeAssumption
  DEF CodeInit, CodeInv, CodeTypeOK, CallInv, InCall, BlockCorrect, FuturesResolve,
      ContextSurvives, RunOnce, ScriptCalls, Swapped

LEMMA CodeStep == CodeInv /\ [CodeNext]_codeVars => CodeInv'
  <1> SUFFICES ASSUME CodeInv, [CodeNext]_codeVars PROVE CodeInv'
    OBVIOUS
  <1> USE CodeModeAssumption DEF ScriptCalls, Swapped, CodeInv, CallInv, InCall, contextVars
  <1>1. CASE CallTool
    <2>1. CodeTypeOK'
      BY <1>1 DEF CallTool, CodeTypeOK
    <2>2. CallInv'
      BY <1>1 DEF CallTool, CodeTypeOK
    <2>3. BlockCorrect'
      BY <1>1 DEF CallTool, BlockCorrect, FuturesResolve, ContextSurvives, RunOnce
    <2> QED
      BY <2>1, <2>2, <2>3
  <1>2. CASE CallUnknown
    <2>1. CodeTypeOK'
      BY <1>2 DEF CallUnknown, CodeTypeOK
    <2>2. CallInv'
      BY <1>2 DEF CallUnknown, CodeTypeOK
    <2>3. BlockCorrect'
      BY <1>2 DEF CallUnknown, CodeTypeOK, BlockCorrect, FuturesResolve, ContextSurvives, RunOnce
    <2> QED
      BY <2>1, <2>2, <2>3
  <1>3. CASE Hydrate
    <2>1. CodeTypeOK'
      BY <1>3 DEF Hydrate, CodeTypeOK
    <2>2. CallInv'
      BY <1>3 DEF Hydrate, CodeTypeOK
    <2>3. BlockCorrect'
      BY <1>3 DEF Hydrate, BlockCorrect, FuturesResolve, ContextSurvives, RunOnce
    <2> QED
      BY <2>1, <2>2, <2>3
  <1>4. CASE RunTool
    <2>1. /\ callId \in ScriptCalls /\ ran[callId] = 0
          /\ ran' = [ran EXCEPT ![callId] = ran[callId] + 1]
          /\ UNCHANGED <<session, callId, futures, pending, received, sessionAuth, missed>>
          /\ \/ auth' = callId /\ lastSet' = callId
             \/ auth' = auth /\ lastSet' = lastSet
          /\ script' \in {"succeeded", "failed"}
      BY <1>4 DEF RunTool
    <2>2. CodeTypeOK'
      BY <2>1 DEF CodeTypeOK
    <2>3. /\ ran'[callId] = 1
          /\ \A i \in ScriptCalls : i # callId => ran'[i] = ran[i]
      BY <2>1 DEF CodeTypeOK
    <2>4. CallInv'
      <3>1. \A i \in ScriptCalls : i > callId' => ran'[i] = 0
        <4> SUFFICES ASSUME NEW i \in ScriptCalls, i > callId PROVE ran'[i] = 0
          BY <2>1
        <4>1. i # callId /\ ran[i] = 0
          BY <2>1
        <4> QED
          BY <2>3, <4>1
      <3>2. callId' \notin futures' /\ \A i \in futures' : i <= callId'
        BY <1>4, <2>1 DEF RunTool
      <3> QED
        BY <2>1, <2>3, <3>1, <3>2
    <2>5. BlockCorrect'
      BY <2>1, <2>3 DEF BlockCorrect, FuturesResolve, ContextSurvives, RunOnce
    <2> QED
      BY <2>2, <2>4, <2>5
  <1>5. CASE ReturnToScript
    <2>1. CodeTypeOK'
      BY <1>5 DEF ReturnToScript, SaveContext, Persist, CodeTypeOK
    <2>2. CallInv'
      <3>1. script' \in {"running", "over"} /\ callId' = callId /\ ran' = ran /\ callId \in ScriptCalls
        BY <1>5 DEF ReturnToScript
      <3>2. futures' \subseteq futures \cup {callId}
        BY <1>5 DEF ReturnToScript
      <3>3. \A i \in futures' : i <= callId
        BY <3>1, <3>2
      <3> QED
        BY <3>1, <3>3
    <2>3. BlockCorrect'
      BY <1>5 DEF ReturnToScript, SaveContext, Persist, CodeTypeOK, BlockCorrect, FuturesResolve,
                  ContextSurvives, RunOnce
    <2> QED
      BY <2>1, <2>2, <2>3
  <1>6. CASE \E ids \in (SUBSET futures) \ {{}} : Await(ids)
    <2> PICK ids \in SUBSET futures : Await(ids)
      BY <1>6
    <2>1. CodeTypeOK'
      BY DEF Await, Taken, CodeTypeOK
    <2>2. CallInv'
      BY DEF Await, CodeTypeOK
    <2>3. BlockCorrect'
      BY DEF Await, CodeTypeOK, BlockCorrect, FuturesResolve, ContextSurvives, RunOnce
    <2> QED
      BY <2>1, <2>2, <2>3
  <1>7. CASE Finish
    BY <1>7 DEF Finish, CodeTypeOK, BlockCorrect, FuturesResolve, ContextSurvives, RunOnce
  <1>8. CASE UNCHANGED codeVars
    BY <1>8 DEF codeVars, CodeTypeOK, BlockCorrect, FuturesResolve, ContextSurvives, RunOnce
  <1> QED
    BY <1>1, <1>2, <1>3, <1>4, <1>5, <1>6, <1>7, <1>8 DEF CodeNext

\* Types of a block's calls; its futures are those whose results the loop holds.
THEOREM CodeTypes == CodeSpec => []CodeTypeOK
  BY CodeInitially, CodeStep, PTL DEF CodeSpec, CodeInv

\* However many calls a script makes, and in whatever order it awaits them: every
\* future resolves, the session keeps what tools set, no tool runs twice. (run,
\* bridged_call_tool.)
THEOREM BlockIsCorrect == CodeSpec => []BlockCorrect
  BY CodeInitially, CodeStep, PTL DEF CodeSpec, CodeInv

-----------------------------------------------------------------------------
(* The catalog's refresh.                                                  *)

LEMMA CatalogNames ==
    /\ CatalogFiles = {"dimensions", "metrics", "dimension_label_index", "index",
                       "catalog_meta"}
    /\ Hashed \subseteq CatalogFiles
    /\ Len(CommitOrder) = 5
    /\ \A i \in 1..5 : CommitOrder[i] \in CatalogFiles
    /\ CommitOrder[1] = "dimensions" /\ CommitOrder[2] = "metrics"
    /\ CommitOrder[3] = "dimension_label_index" /\ CommitOrder[4] = "index"
    /\ CommitOrder[5] = "catalog_meta"
    /\ \A i \in 1..5 : CommitOrder[i] = "catalog_meta" => i = 5
  <1>1. DOMAIN CommitOrder = 1..5 /\ Len(CommitOrder) = 5
    BY DEF CommitOrder
  <1>2. /\ CommitOrder[1] = "dimensions" /\ CommitOrder[2] = "metrics"
        /\ CommitOrder[3] = "dimension_label_index" /\ CommitOrder[4] = "index"
        /\ CommitOrder[5] = "catalog_meta"
    BY DEF CommitOrder
  <1>3. 1..5 = {1, 2, 3, 4, 5}
    OBVIOUS
  <1>4. CatalogFiles = {CommitOrder[i] : i \in {1, 2, 3, 4, 5}}
    BY <1>1, <1>3 DEF CatalogFiles
  <1>5. CatalogFiles = {"dimensions", "metrics", "dimension_label_index", "index",
                        "catalog_meta"}
    BY <1>2, <1>4
  <1> QED
    BY <1>1, <1>2, <1>3, <1>5 DEF Hashed

-----------------------------------------------------------------------------
(* The inductive invariant. A refresh goes through the files in order, so    *)
(* that catalog_meta.json lists hashes of its own version; a server whose    *)
(* hashes have been checked since the last refresh has what is on disk.     *)

WrittenSoFar == target # NoVersion =>
    \A i \in 1..5 : i < fileNo => disk[CommitOrder[i]] = target

ManifestIsOfMeta == \A f \in Hashed : manifest[f] = disk["catalog_meta"]

MetaFirst == \A s \in Servers : loaded[s]["catalog_meta"] = NoVersion =>
    \A f \in CatalogFiles : loaded[s][f] = NoVersion

SettledIsOnDisk == \A s \in Servers : settled[s] =>
    /\ target = NoVersion
    /\ loaded[s]["catalog_meta"] = disk["catalog_meta"]
    /\ \A f \in Hashed : disk[f] = disk["catalog_meta"]
    /\ \A f \in CatalogFiles : loaded[s][f] \in {NoVersion, disk[f]}

CatalogInv ==
    /\ CatalogTypeOK /\ WrittenSoFar /\ ManifestIsOfMeta /\ MetaFirst /\ SettledIsOnDisk

LEMMA CatalogInitially == CatalogInit => CatalogInv
  BY CatalogNames
  DEF CatalogInit, CatalogInv, CatalogTypeOK, WrittenSoFar, ManifestIsOfMeta, MetaFirst,
      SettledIsOnDisk, Contents

LEMMA ReplaceKeepsInv == CatalogInv /\ ReplaceFile => CatalogInv'
  <1> SUFFICES ASSUME CatalogInv, ReplaceFile PROVE CatalogInv'
    OBVIOUS
  <1> USE CatalogNames, CatalogAssumption
  <1>1. /\ CatalogTypeOK /\ fileNo \in 1..5 /\ target \in CatalogVersions
        /\ target # NoVersion /\ FileAt = CommitOrder[fileNo] /\ FileAt \in CatalogFiles
    BY DEF CatalogInv, CatalogTypeOK, ReplaceFile, FileAt, Contents
  <1>2. /\ disk' \in [CatalogFiles -> Contents]
        /\ disk'[FileAt] = target
        /\ \A f \in CatalogFiles : f # FileAt => disk'[f] = disk[f]
    BY <1>1 DEF CatalogTypeOK, ReplaceFile, Contents
  <1>3. /\ fileNo = 5 => target' = NoVersion /\ fileNo' = 1
        /\ fileNo # 5 => target' = target /\ fileNo' = fileNo + 1 /\ fileNo' \in 1..5
    BY <1>1 DEF ReplaceFile
  <1>4. \A s \in Servers : ~settled[s] /\ ~settled'[s]
    BY <1>1 DEF CatalogInv, SettledIsOnDisk, ReplaceFile
  <1>5. CASE FileAt = "catalog_meta"
    <2>1. fileNo = 5
      BY <1>1, <1>5
    <2>2. \A f \in Hashed : disk[f] = target
      <3>1. \A i \in 1..5 : i < 5 => disk[CommitOrder[i]] = target
        BY <1>1, <2>1 DEF CatalogInv, WrittenSoFar
      <3>2. disk["dimensions"] = target /\ disk["metrics"] = target
            /\ disk["dimension_label_index"] = target
        BY <3>1
      <3> QED
        BY <3>2 DEF Hashed
    <2>3. manifest' = [f \in Hashed |-> disk[f]]
      BY <1>5 DEF ReplaceFile
    <2>4. CatalogTypeOK'
      <3>1. manifest' \in [Hashed -> Contents]
        BY <1>1, <2>3 DEF CatalogTypeOK
      <3>2. /\ orphans' \subseteq CatalogFiles /\ target' \in Contents /\ fileNo' \in 1..5
            /\ loaded' = loaded /\ settled' = settled
        <4>1. orphans' = orphans \ {FileAt} /\ loaded' = loaded /\ settled' = settled
          BY DEF ReplaceFile
        <4>2. orphans' \subseteq CatalogFiles
          BY <1>1, <4>1, Zenon DEF CatalogTypeOK
        <4> QED
          BY <1>3, <2>1, <4>1, <4>2 DEF Contents
      <3> QED
        BY <1>1, <1>2, <3>1, <3>2 DEF CatalogTypeOK
    <2>5. ManifestIsOfMeta' /\ WrittenSoFar'
      BY <1>2, <1>3, <1>5, <2>1, <2>2, <2>3 DEF ManifestIsOfMeta, WrittenSoFar
    <2> QED
      BY <1>4, <2>4, <2>5 DEF CatalogInv, MetaFirst, SettledIsOnDisk, ReplaceFile
  <1>6. CASE FileAt # "catalog_meta"
    <2>1. fileNo # 5 /\ manifest' = manifest
      BY <1>1, <1>6 DEF ReplaceFile
    <2>2. CatalogTypeOK'
      BY <1>1, <1>2, <1>3, <2>1 DEF CatalogTypeOK, ReplaceFile, Contents
    <2>3. ManifestIsOfMeta'
      BY <1>2, <1>6, <2>1 DEF CatalogInv, ManifestIsOfMeta
    <2>4. WrittenSoFar'
      <3> SUFFICES ASSUME NEW i \in 1..5, i < fileNo' PROVE disk'[CommitOrder[i]] = target'
        BY DEF WrittenSoFar
      <3>1. target' = target /\ (i < fileNo \/ i = fileNo)
        BY <1>1, <1>3, <2>1
      <3>2. CASE i = fileNo
        BY <1>1, <1>2, <3>1, <3>2
      <3>3. CASE i < fileNo
        BY <1>1, <1>2, <3>1, <3>3 DEF CatalogInv, WrittenSoFar
      <3> QED
        BY <3>1, <3>2, <3>3
    <2> QED
      BY <1>4, <2>2, <2>3, <2>4 DEF CatalogInv, MetaFirst, SettledIsOnDisk, ReplaceFile
  <1> QED
    BY <1>5, <1>6

LEMMA LoadMetaKeepsInv ==
    ASSUME CatalogInv, NEW s \in Servers, LoadMeta(s)
    PROVE  CatalogInv'
  <1> USE CatalogNames DEF CatalogInv
  <1>1. CatalogTypeOK' /\ WrittenSoFar' /\ ManifestIsOfMeta'
    BY DEF LoadMeta, CatalogTypeOK, WrittenSoFar, ManifestIsOfMeta
  <1>2. /\ loaded'[s]["catalog_meta"] = disk["catalog_meta"]
        /\ \A f \in CatalogFiles : f # "catalog_meta" => loaded'[s][f] = NoVersion
        /\ \A t \in Servers \ {s} : loaded'[t] = loaded[t] /\ settled'[t] = settled[t]
        /\ settled'[s] => target = NoVersion
    BY DEF LoadMeta, CatalogTypeOK, MetaFirst
  <1>3. disk["catalog_meta"] # NoVersion /\ \A f \in Hashed : disk[f] = disk["catalog_meta"]
    BY DEF LoadMeta, HashesMatch, ManifestIsOfMeta
  <1>4. disk' = disk /\ target' = target
    BY DEF LoadMeta
  <1>5. MetaFirst'
    BY <1>2, <1>3 DEF MetaFirst
  <1>6. SettledIsOnDisk'
    BY <1>2, <1>3, <1>4 DEF SettledIsOnDisk
  <1> QED
    BY <1>1, <1>5, <1>6

LEMMA LoadFileKeepsInv ==
    ASSUME CatalogInv, NEW s \in Servers, NEW f \in CatalogFiles \ {"catalog_meta"},
           LoadFile(s, f)
    PROVE  CatalogInv'
  <1> USE CatalogNames DEF CatalogInv
  <1>1. CatalogTypeOK' /\ WrittenSoFar' /\ ManifestIsOfMeta'
    BY DEF LoadFile, CatalogTypeOK, WrittenSoFar, ManifestIsOfMeta
  <1>2. /\ loaded'[s][f] = disk[f]
        /\ \A g \in CatalogFiles : g # f => loaded'[s][g] = loaded[s][g]
        /\ \A t \in Servers \ {s} : loaded'[t] = loaded[t]
        /\ disk' = disk /\ target' = target /\ settled' = settled
    BY DEF LoadFile, CatalogTypeOK
  <1>3. MetaFirst' /\ SettledIsOnDisk'
    BY <1>2 DEF LoadFile, MetaFirst, SettledIsOnDisk
  <1> QED
    BY <1>1, <1>3

LEMMA CatalogStep == CatalogInv /\ [CatalogNext]_catalogVars => CatalogInv'
  <1> SUFFICES ASSUME CatalogInv, [CatalogNext]_catalogVars PROVE CatalogInv'
    OBVIOUS
  <1> USE CatalogNames, CatalogAssumption
  <1>1. CASE \E v \in CatalogVersions : BeginRefresh(v)
    BY <1>1 DEF BeginRefresh, Swept, CatalogInv, CatalogTypeOK, WrittenSoFar, ManifestIsOfMeta,
                MetaFirst, SettledIsOnDisk, Contents
  <1>2. CASE RejectSources
    BY <1>2 DEF RejectSources, Swept, CatalogInv, CatalogTypeOK, WrittenSoFar, ManifestIsOfMeta,
                MetaFirst, SettledIsOnDisk
  <1>3. CASE WriteTmp
    BY <1>3 DEF WriteTmp, FileAt, CatalogInv, CatalogTypeOK, WrittenSoFar, ManifestIsOfMeta,
                MetaFirst, SettledIsOnDisk
  <1>4. CASE ReplaceFile
    BY <1>4, ReplaceKeepsInv
  <1>5. CASE FailRefresh
    <2>1. CatalogTypeOK'
      <3>1. orphans' \subseteq CatalogFiles
        BY <1>5, Zenon DEF FailRefresh, CatalogInv, CatalogTypeOK
      <3>2. /\ target' \in Contents /\ fileNo' \in 1..5
            /\ UNCHANGED <<disk, manifest, loaded, settled>>
        BY <1>5 DEF FailRefresh, Contents
      <3> QED
        BY <3>1, <3>2 DEF CatalogInv, CatalogTypeOK
    <2>2. /\ WrittenSoFar' /\ ManifestIsOfMeta' /\ MetaFirst' /\ SettledIsOnDisk'
      BY <1>5 DEF FailRefresh, CatalogInv, WrittenSoFar, ManifestIsOfMeta, MetaFirst,
                  SettledIsOnDisk
    <2> QED
      BY <2>1, <2>2 DEF CatalogInv
  <1>6. CASE KillRefresh
    BY <1>6 DEF KillRefresh, CatalogInv, CatalogTypeOK, WrittenSoFar, ManifestIsOfMeta,
                MetaFirst, SettledIsOnDisk, Contents
  <1>7. CASE \E s \in Servers : LoadMeta(s)
    BY <1>7, LoadMetaKeepsInv
  <1>8. CASE \E s \in Servers : RestartServer(s)
    BY <1>8 DEF RestartServer, CatalogInv, CatalogTypeOK, WrittenSoFar, ManifestIsOfMeta,
                MetaFirst, SettledIsOnDisk, Contents
  <1>9. CASE \E s \in Servers : \E f \in CatalogFiles \ {"catalog_meta"} : LoadFile(s, f)
    BY <1>9, LoadFileKeepsInv
  <1>10. CASE UNCHANGED catalogVars
    BY <1>10 DEF catalogVars, CatalogInv, CatalogTypeOK, WrittenSoFar, ManifestIsOfMeta,
                 MetaFirst, SettledIsOnDisk
  <1> QED
    BY <1>1, <1>2, <1>3, <1>4, <1>5, <1>6, <1>7, <1>8, <1>9, <1>10 DEF CatalogNext

LEMMA CatalogInvariant == CatalogSpec => []CatalogInv
  BY CatalogInitially, CatalogStep, PTL DEF CatalogSpec

\* Types of the catalog on disk and in the servers. (refresh, _load_meta.)
THEOREM CatalogTypes == CatalogSpec => []CatalogTypeOK
  <1>1. CatalogInv => CatalogTypeOK
    BY DEF CatalogInv
  <1> QED
    BY <1>1, CatalogInvariant, PTL

\* However refreshes end and whatever servers load in between, a server that checked
\* the hashes since the last refresh serves one version, and --check vouches for the
\* file without a hash as well. (refresh, check_drift, the loader.)
THEOREM ServesOneVersion == CatalogSpec => []OneVersionServed
  <1>1. CatalogInv => OneVersionServed
    <2> SUFFICES ASSUME CatalogInv, NEW s \in Servers, settled[s]
                 PROVE  /\ \A f \in Hashed :
                               loaded[s][f] \in {NoVersion, loaded[s]["catalog_meta"]}
                        /\ \A v \in CatalogVersions : InSync(v) =>
                               \A f \in CatalogFiles : loaded[s][f] \in {NoVersion, v}
      BY DEF OneVersionServed, ServedIsOneCommit, CheckedIsServed
    <2>1. /\ \A f \in Hashed : disk[f] = loaded[s]["catalog_meta"]
          /\ \A f \in CatalogFiles : loaded[s][f] \in {NoVersion, disk[f]}
      BY DEF CatalogInv, SettledIsOnDisk
    <2> QED
      BY <2>1, CatalogNames DEF InSync
  <1> QED
    BY <1>1, CatalogInvariant, PTL

-----------------------------------------------------------------------------
(* Refinement.                                                             *)

LEMMA RefinesInit == CatalogInit => Atomic!AtomicInit
  BY CatalogNames DEF CatalogInit, HashesMatch, Atomic!AtomicInit

LEMMA RefinesStep ==
    CatalogInv /\ CatalogInv' /\ [CatalogNext]_catalogVars
        => [Atomic!AtomicNext]_(Atomic!atomicVars)
  <1> DEFINE readable == IF HashesMatch THEN disk["dimensions"] ELSE NoVersion
             committed == disk["catalog_meta"]
  <1> SUFFICES ASSUME CatalogInv, CatalogInv', [CatalogNext]_catalogVars
               PROVE  Atomic!Withdraw \/ Atomic!Restore \/ Atomic!CommitVersion
    BY DEF Atomic!AtomicNext
  <1>1. readable' \in {NoVersion, committed'}
    BY DEF CatalogInv, ManifestIsOfMeta, HashesMatch, Hashed
  <1>2. CASE ReplaceFile /\ FileAt = "catalog_meta"
    <2>1. /\ CatalogTypeOK /\ fileNo \in 1..5 /\ target \in CatalogVersions
          /\ FileAt = CommitOrder[fileNo]
      BY <1>2, CatalogNames, CatalogAssumption
      DEF ReplaceFile, CatalogInv, CatalogTypeOK, FileAt, Contents
    <2>2. fileNo = 5 /\ target # NoVersion
      BY <1>2, <2>1, CatalogNames, CatalogAssumption
    <2>3. \A i \in 1..5 : i < 5 => disk[CommitOrder[i]] = target
      BY <2>2 DEF CatalogInv, WrittenSoFar
    <2>4. disk["dimensions"] = target /\ disk["metrics"] = target
          /\ disk["dimension_label_index"] = target
      BY <2>3, CatalogNames
    <2>5. /\ committed' = target
          /\ \A f \in Hashed : disk'[f] = target /\ manifest'[f] = target
      BY <1>2, <2>1, <2>4, CatalogNames DEF ReplaceFile, CatalogTypeOK, Hashed
    <2>6. HashesMatch'
      BY <2>2, <2>5 DEF HashesMatch
    <2>7. readable' = committed'
      BY <2>5, <2>6 DEF Hashed
    <2> QED
      BY <2>1, <2>5, <2>7 DEF Atomic!CommitVersion
  <1>3. CASE ~(ReplaceFile /\ FileAt = "catalog_meta")
    <2>1. committed' = committed
      BY <1>3, CatalogNames
      DEF CatalogInv, CatalogTypeOK, CatalogNext, catalogVars, BeginRefresh, RejectSources,
          WriteTmp, ReplaceFile, FailRefresh, KillRefresh, LoadMeta, LoadFile, RestartServer
    <2> QED
      BY <1>1, <2>1 DEF Atomic!Withdraw, Atomic!Restore
  <1> QED
    BY <1>2, <1>3

\* A refresh, killed or not, commits the whole catalog or nothing: what the hashes
\* let through implements the abstract catalog. (refresh; CommitsAtomically.)
THEOREM RefreshIsAtomic == CatalogSpec => CommitsAtomically
  BY CatalogInitially, CatalogStep, RefinesInit, RefinesStep, PTL
  DEF CatalogSpec, CommitsAtomically, Atomic!AtomicSpec

-----------------------------------------------------------------------------
(* The pool of clients.                                                    *)

\* What a clean-up has yet to deal with.
Left == (open \ late) \ unclosable

\* One close_all at a time; it alone has clients to close.
OneCloses ==
    /\ \A c, d \in Cleaners : cleaner[c] = "closing" /\ cleaner[d] = "closing" => c = d
    /\ \A c \in Cleaners : cleaner[c] # "closing" => toClose[c] = {}
    /\ \A c \in Cleaners : toClose[c] \subseteq open \ unclosable

\* Before the first clean-up the pool has every open client. From then on some
\* close_all has those that are left.
LeftIsSeen ==
    /\ (\A c \in Cleaners : cleaner[c] = "idle") => open \subseteq InPool
    /\ (\E c \in Cleaners : cleaner[c] # "idle") =>
           \A n \in Left : \E c \in Cleaners : n \in toClose[c]
    /\ cleanupDone => \E c \in Cleaners : cleaner[c] # "idle"

\* No client that was closed, or could not be, stays in the pool.
PoolIsOpen ==
    /\ InPool \subseteq 1..lastMade
    /\ ~isClosing => InPool \subseteq open \ unclosable

PoolInv == PoolTypeOK /\ OneCloses /\ LeftIsSeen /\ PoolIsOpen

LEMMA PoolInitially == PoolInit => PoolInv
  <1> SUFFICES ASSUME PoolInit PROVE PoolInv
    OBVIOUS
  <1>1. PoolTypeOK
    <2>1. /\ clients \in [ClientKeys -> Clients \cup {NoClient}]
          /\ lastMade \in 0..MaxClients /\ lastGot \in 0..lastMade
      BY PoolAssumption DEF PoolInit, Clients, NoClient
    <2>2. /\ open \subseteq 1..lastMade /\ unclosable \subseteq open /\ late \subseteq 1..lastMade
          /\ isClosing = FALSE /\ cleanupDone = FALSE
          /\ cleaner \in [Cleaners -> {"idle", "closing", "closed", "over"}]
          /\ toClose \in [Cleaners -> SUBSET (1..lastMade)]
          /\ \A c \in Cleaners : cleaner[c] # "closing"
      BY DEF PoolInit
    <2> QED
      BY <2>1, <2>2 DEF PoolTypeOK
  <1>3. OneCloses
    BY DEF PoolInit, OneCloses
  <1>2. LeftIsSeen /\ PoolIsOpen
    BY DEF PoolInit, LeftIsSeen, Left, PoolIsOpen, InPool, NoClient
  <1> QED
    BY <1>1, <1>2, <1>3 DEF PoolInv

LEMMA GetKeepsInv ==
    ASSUME PoolInv, NEW k \in ClientKeys, GetClient(k)
    PROVE  PoolInv'
  <1> USE PoolAssumption DEF NoClient, Clients
  <1>0. /\ PoolTypeOK /\ OneCloses /\ LeftIsSeen /\ PoolIsOpen
        /\ UNCHANGED <<unclosable, isClosing, cleaner, toClose, cleanupDone>>
    BY DEF PoolInv, GetClient
  <1>1. CASE clients[k] # NoClient
    <2>1. UNCHANGED <<clients, lastMade, open, late>> /\ lastGot' = clients[k]
      BY <1>1 DEF GetClient
    <2>2. clients[k] \in 1..MaxClients
      BY <1>0, <1>1 DEF PoolTypeOK
    <2>3. clients[k] \in InPool
      BY <1>1 DEF InPool
    <2>4. lastGot' \in 0..lastMade
      BY <1>0, <2>1, <2>3 DEF PoolIsOpen, PoolTypeOK
    <2> QED
      BY <1>0, <2>1, <2>4 DEF PoolInv, PoolTypeOK, OneCloses, LeftIsSeen, Left, PoolIsOpen, InPool
  <1>2. CASE clients[k] = NoClient
    <2>1. /\ lastMade < MaxClients /\ lastMade' = lastMade + 1 /\ lastGot' = lastMade'
          /\ clients' = [clients EXCEPT ![k] = lastMade']
          /\ open' = open \cup {lastMade'}
          /\ late' = IF \A c \in Cleaners : cleaner[c] = "idle" THEN late
                     ELSE late \cup {lastMade'}
      BY <1>2 DEF GetClient
    <2>2. /\ lastMade \in Nat /\ lastMade' \in 1..MaxClients
          /\ 1..lastMade \subseteq 1..lastMade' /\ lastMade' \in 1..lastMade'
      BY <1>0, <2>1 DEF PoolTypeOK
    <2>3. clients'[k] = lastMade' /\ \A l \in ClientKeys \ {k} : clients'[l] = clients[l]
      BY <1>0, <2>1 DEF PoolTypeOK
    <2>4. InPool' = InPool \cup {lastMade'}
      <3>1. InPool' \subseteq InPool \cup {lastMade'}
        BY <2>3 DEF InPool
      <3>2. \A n \in InPool : n \in InPool'
        BY <1>2, <2>3 DEF InPool
      <3>3. lastMade' \in InPool'
        BY <2>2, <2>3 DEF InPool
      <3> QED
        BY <3>1, <3>2, <3>3
    <2>5. PoolTypeOK'
      <3>1. clients' \in [ClientKeys -> (1..MaxClients) \cup {0}]
        BY <1>0, <2>1, <2>2 DEF PoolTypeOK
      <3>2. open' \subseteq 1..lastMade' /\ late' \subseteq 1..lastMade'
            /\ unclosable' \subseteq open'
        BY <1>0, <2>1, <2>2 DEF PoolTypeOK
      <3>3. toClose' \in [Cleaners -> SUBSET (1..lastMade')]
        BY <1>0, <2>2 DEF PoolTypeOK
      <3> QED
        BY <1>0, <2>1, <2>2, <3>1, <3>2, <3>3 DEF PoolTypeOK
    <2>6. OneCloses'
      BY <1>0, <2>1 DEF OneCloses
    <2>7. LeftIsSeen'
      <3>1. CASE \A c \in Cleaners : cleaner[c] = "idle"
        BY <1>0, <2>1, <2>4, <3>1 DEF LeftIsSeen
      <3>2. CASE \E c \in Cleaners : cleaner[c] # "idle"
        <4>1. Left' \subseteq Left
          BY <1>0, <2>1, <3>2 DEF Left
        <4> QED
          BY <1>0, <3>2, <4>1 DEF LeftIsSeen
      <3> QED
        BY <3>1, <3>2
    <2>8. PoolIsOpen'
      BY <1>0, <2>1, <2>2, <2>4 DEF PoolIsOpen, PoolTypeOK
    <2> QED
      BY <2>5, <2>6, <2>7, <2>8 DEF PoolInv
  <1> QED
    BY <1>1, <1>2

LEMMA BeginKeepsInv ==
    ASSUME PoolInv, NEW c \in Cleaners, BeginCleanup(c)
    PROVE  PoolInv'
  <1>0. /\ PoolTypeOK /\ OneCloses /\ LeftIsSeen /\ PoolIsOpen /\ cleaner[c] = "idle"
        /\ UNCHANGED <<clients, lastMade, open, unclosable, late, cleanupDone, lastGot>>
    BY DEF PoolInv, BeginCleanup
  <1>1. CASE ~isClosing /\ InPool # {}
    <2>1. /\ isClosing' = TRUE
          /\ toClose' = [toClose EXCEPT ![c] = InPool]
          /\ cleaner' = [cleaner EXCEPT ![c] = "closing"]
      BY <1>1 DEF BeginCleanup, Closes
    <2>2. InPool \subseteq open /\ InPool \subseteq 1..lastMade
      BY <1>0, <1>1 DEF PoolIsOpen, PoolTypeOK
    <2>3. \A d \in Cleaners : cleaner[d] # "closing"
      BY <1>0, <1>1 DEF PoolTypeOK
    <2>4. /\ cleaner'[c] = "closing" /\ toClose'[c] = InPool
          /\ \A d \in Cleaners \ {c} : cleaner'[d] = cleaner[d] /\ toClose'[d] = toClose[d]
      BY <1>0, <2>1 DEF PoolTypeOK
    <2>5. PoolTypeOK'
      BY <1>0, <2>1, <2>2, <2>4 DEF PoolTypeOK
    <2>6. OneCloses'
      <3>1. InPool \subseteq open \ unclosable
        BY <1>0, <1>1 DEF PoolIsOpen
      <3> QED
        BY <1>0, <2>3, <2>4, <3>1 DEF OneCloses
    <2>7. LeftIsSeen'
      <3>1. CASE \A d \in Cleaners : cleaner[d] = "idle"
        BY <1>0, <2>4, <3>1 DEF LeftIsSeen, Left
      <3>2. CASE \E d \in Cleaners : cleaner[d] # "idle"
        <4>1. toClose[c] = {}
          BY <1>0 DEF OneCloses
        <4> QED
          BY <1>0, <2>4, <3>2, <4>1 DEF LeftIsSeen, Left
      <3> QED
        BY <3>1, <3>2
    <2> QED
      BY <1>0, <2>1, <2>5, <2>6, <2>7 DEF PoolInv, PoolIsOpen, InPool
  <1>2. CASE ~(~isClosing /\ InPool # {})
    <2>1. /\ cleaner' = [cleaner EXCEPT ![c] = "closed"]
          /\ UNCHANGED <<isClosing, toClose>>
      BY <1>2 DEF BeginCleanup, Closes
    <2>2. /\ cleaner'[c] = "closed"
          /\ \A d \in Cleaners \ {c} : cleaner'[d] = cleaner[d]
      BY <1>0, <2>1 DEF PoolTypeOK
    <2>3. PoolTypeOK'
      BY <1>0, <2>1, <2>2 DEF PoolTypeOK
    <2>4. OneCloses' /\ PoolIsOpen'
      BY <1>0, <2>1, <2>2 DEF OneCloses, PoolIsOpen, InPool
    <2>5. LeftIsSeen'
      <3>1. CASE \A d \in Cleaners : cleaner[d] = "idle"
        <4>1. InPool = {}
          BY <1>0, <1>2, <3>1 DEF PoolTypeOK
        <4> QED
          BY <1>0, <2>2, <3>1, <4>1 DEF LeftIsSeen, Left
      <3>2. CASE \E d \in Cleaners : cleaner[d] # "idle"
        BY <1>0, <2>1, <2>2, <3>2 DEF LeftIsSeen, Left
      <3> QED
        BY <3>1, <3>2
    <2> QED
      BY <2>3, <2>4, <2>5 DEF PoolInv
  <1> QED
    BY <1>1, <1>2

LEMMA CloseKeepsInv ==
    ASSUME PoolInv, NEW c \in Cleaners, NEW n \in toClose[c], NEW closed \in BOOLEAN,
           CloseOne(c, n, closed)
    PROVE  PoolInv'
  <1>0. /\ PoolTypeOK /\ OneCloses /\ LeftIsSeen /\ PoolIsOpen /\ isClosing
        /\ UNCHANGED <<clients, lastMade, late, isClosing, cleaner, cleanupDone, lastGot>>
    BY DEF PoolInv, CloseOne, PoolTypeOK
  <1>1. /\ toClose' = [toClose EXCEPT ![c] = toClose[c] \ {n}]
        /\ open' = IF closed THEN open \ {n} ELSE open
        /\ unclosable' = IF closed THEN unclosable ELSE unclosable \cup {n}
        /\ cleaner[c] = "closing"
    BY DEF CloseOne, Remaining
  <1>2. toClose'[c] = toClose[c] \ {n} /\ \A d \in Cleaners \ {c} : toClose'[d] = toClose[d]
    BY <1>0, <1>1 DEF PoolTypeOK
  <1>3. n \notin unclosable /\ n \in open
    BY <1>0 DEF OneCloses
  <1>4. PoolTypeOK'
    <2>1. open' \subseteq 1..lastMade' /\ unclosable' \subseteq open'
      BY <1>0, <1>1, <1>3 DEF PoolTypeOK
    <2>2. toClose' \in [Cleaners -> SUBSET (1..lastMade')]
      BY <1>0, <1>1 DEF PoolTypeOK
    <2> QED
      BY <1>0, <2>1, <2>2 DEF PoolTypeOK
  <1>5. OneCloses'
    <2>1. \A d \in Cleaners \ {c} : toClose[d] = {}
      BY <1>0, <1>1 DEF OneCloses
    <2> QED
      BY <1>0, <1>1, <1>2, <2>1 DEF OneCloses
  <1>6. LeftIsSeen'
    <2>1. Left' \subseteq Left \ {n}
      BY <1>0, <1>1 DEF Left
    <2> QED
      BY <1>0, <1>1, <1>2, <2>1 DEF LeftIsSeen
  <1>7. PoolIsOpen'
    BY <1>0 DEF PoolIsOpen, InPool
  <1> QED
    BY <1>4, <1>5, <1>6, <1>7 DEF PoolInv

LEMMA EndKeepsInv ==
    ASSUME PoolInv, NEW c \in Cleaners, EndCloseAll(c)
    PROVE  PoolInv'
  <1> USE DEF NoClient
  <1>0. /\ PoolTypeOK /\ OneCloses /\ LeftIsSeen /\ cleaner[c] = "closing"
        /\ toClose[c] = {} /\ isClosing' = FALSE
        /\ clients' = [k \in ClientKeys |-> 0]
        /\ cleaner' = [cleaner EXCEPT ![c] = "closed"]
        /\ UNCHANGED <<lastMade, open, unclosable, late, toClose, cleanupDone, lastGot>>
    BY DEF PoolInv, EndCloseAll, ClearedClients
  <1>1. /\ cleaner'[c] = "closed"
        /\ \A d \in Cleaners \ {c} : cleaner'[d] = cleaner[d] /\ cleaner[d] # "closing"
    BY <1>0 DEF PoolTypeOK, OneCloses
  <1>2. PoolTypeOK'
    BY <1>0, <1>1 DEF PoolTypeOK
  <1>3. OneCloses'
    BY <1>0, <1>1 DEF OneCloses
  <1>4. LeftIsSeen'
    BY <1>0, <1>1 DEF LeftIsSeen, Left
  <1>5. PoolIsOpen'
    BY <1>0 DEF PoolIsOpen, InPool
  <1> QED
    BY <1>2, <1>3, <1>4, <1>5 DEF PoolInv

\* A clean-up that is skipped or ends touches no client.
LEMMA OverKeepsInv ==
    ASSUME PoolInv, NEW c \in Cleaners, SkipCleanup(c) \/ EndCleanup(c)
    PROVE  PoolInv'
  <1>0. /\ PoolTypeOK /\ OneCloses /\ LeftIsSeen /\ PoolIsOpen
        /\ cleaner[c] \in {"idle", "closed"} /\ (cleaner[c] = "idle" => cleanupDone)
        /\ cleaner' = [cleaner EXCEPT ![c] = "over"] /\ cleanupDone' = TRUE
        /\ UNCHANGED <<clients, lastMade, open, unclosable, late, isClosing, toClose, lastGot>>
    BY DEF PoolInv, PoolTypeOK, SkipCleanup, EndCleanup
  <1>1. /\ cleaner'[c] = "over"
        /\ \A d \in Cleaners \ {c} : cleaner'[d] = cleaner[d]
    BY <1>0 DEF PoolTypeOK
  <1>2. PoolTypeOK' /\ OneCloses' /\ PoolIsOpen'
    BY <1>0, <1>1 DEF PoolTypeOK, OneCloses, PoolIsOpen, InPool
  <1>3. LeftIsSeen'
    BY <1>0, <1>1 DEF LeftIsSeen, Left
  <1> QED
    BY <1>2, <1>3 DEF PoolInv

LEMMA PoolStep == PoolInv /\ [PoolNext]_poolVars => PoolInv'
  <1> SUFFICES ASSUME PoolInv, [PoolNext]_poolVars PROVE PoolInv'
    OBVIOUS
  <1>1. CASE \E k \in ClientKeys : GetClient(k)
    BY <1>1, GetKeepsInv
  <1>2. ASSUME NEW c \in Cleaners, BeginCleanup(c) PROVE PoolInv'
    BY <1>2, BeginKeepsInv
  <1>3. ASSUME NEW c \in Cleaners, SkipCleanup(c) \/ EndCleanup(c) PROVE PoolInv'
    BY <1>3, OverKeepsInv
  <1>4. ASSUME NEW c \in Cleaners, EndCloseAll(c) PROVE PoolInv'
    BY <1>4, EndKeepsInv
  <1>5. ASSUME NEW c \in Cleaners, NEW n \in toClose[c], NEW closed \in BOOLEAN,
               CloseOne(c, n, closed)
        PROVE  PoolInv'
    BY <1>5, CloseKeepsInv
  <1>6. CASE UNCHANGED poolVars
    BY <1>6 DEF poolVars, PoolInv, PoolTypeOK, OneCloses, LeftIsSeen, Left, PoolIsOpen, InPool
  <1> QED
    BY <1>1, <1>2, <1>3, <1>4, <1>5, <1>6 DEF PoolNext

LEMMA PoolInvariant == PoolSpec => []PoolInv
  BY PoolInitially, PoolStep, PTL DEF PoolSpec

\* Types of the pool and its clean-ups; one close_all at a time. (close_all.)
THEOREM PoolTypes == PoolSpec => []PoolTypeOK
  BY PoolInvariant, PTL DEF PoolInv

\* When the last clean-up is over, nothing older than the first is open, but for
\* what could not be closed: the invariant CleanupClosesAll. (close_all.)
LEMMA PoolIsCleaned == PoolInv => CleanupClosesAll
  <1> SUFFICES ASSUME PoolInv, NEW c \in Cleaners, cleaner[c] = "over",
                      \A d \in Cleaners : cleaner[d] \in {"idle", "over"}
               PROVE  open \subseteq late \cup unclosable
    BY DEF CleanupClosesAll
  <1>1. \A d \in Cleaners : toClose[d] = {}
    BY DEF PoolInv, OneCloses
  <1>2. Left = {}
    BY <1>1 DEF PoolInv, LeftIsSeen
  <1> QED
    BY <1>2 DEF Left

LEMMA GetsOpenStep ==
    PoolInv /\ [PoolNext]_poolVars =>
        [lastGot' # NoClient /\ ~isClosing /\ cleaner' = cleaner => lastGot' \in open']_poolVars
  <1> SUFFICES ASSUME PoolInv, PoolNext, lastGot' # NoClient, ~isClosing, cleaner' = cleaner
               PROVE  lastGot' \in open'
    OBVIOUS
  <1>1. CASE \E k \in ClientKeys : GetClient(k)
    <2> PICK k \in ClientKeys : GetClient(k)
      BY <1>1
    <2>1. CASE clients[k] # NoClient
      <3>1. lastGot' \in InPool /\ open' = open
        BY <2>1 DEF GetClient, InPool
      <3> QED
        BY <3>1 DEF PoolInv, PoolIsOpen
    <2>2. CASE clients[k] = NoClient
      BY <2>2 DEF GetClient
    <2> QED
      BY <2>1, <2>2
  <1>2. ASSUME NEW c \in Cleaners, BeginCleanup(c) \/ SkipCleanup(c) \/ EndCleanup(c)
        PROVE  cleaner'[c] # cleaner[c]
    BY <1>2 DEF BeginCleanup, SkipCleanup, EndCleanup, PoolInv, PoolTypeOK
  <1>3. ASSUME NEW c \in Cleaners, EndCloseAll(c) \/ cleaner[c] = "closing" PROVE FALSE
    BY <1>3 DEF EndCloseAll, PoolInv, PoolTypeOK
  <1> QED
    BY <1>1, <1>2, <1>3 DEF PoolNext, CloseOne

\* The server's clean-up and that of a signal, in any order and overlapping, close
\* what there was, and who asks afterwards gets a client that works. (get_client,
\* close_all, cleanup_resources_async.)
THEOREM PoolSurvivesCleanup == PoolSpec => PoolOutlivesCleanup
  BY PoolInvariant, PoolInitially, PoolStep, PoolIsCleaned, GetsOpenStep, PTL
  DEF PoolSpec, PoolOutlivesCleanup, GetsOpenClient
=============================================================================
