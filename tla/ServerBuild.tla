---------------------------- MODULE ServerBuild ----------------------------
(***************************************************************************)
(* How ServerBuilder puts the server together (which OpenAPI packages it    *)
(* mounts, which middlewares and tools it installs, what progressive        *)
(* disclosure hides and code mode wraps), and the calls that enable and     *)
(* disable groups of API tools once it runs, server by server, with others  *)
(* in between. A spec that cannot be mounted is skipped, one whose tools     *)
(* cannot be listed stays mounted and is not counted.                       *)
(***************************************************************************)
EXTENDS Integers, Sequences, FiniteSets

CONSTANTS Specs,        \* OpenAPI files; each is named by its own name as well
          Aliases,      \* names packages.json maps to specs
          AliasOf,      \* alias -> spec, or a name there is no spec of
          Defaults,     \* names packages.json asks for by default
          UnknownName,
          PrefixOf,     \* spec -> prefix of its tools, which specs may share
          ToolsIn,      \* spec -> number of its tools
          GroupCalls    \* calls of enable_tool_group that may overlap

ASSUME BuildAssumption ==
    /\ Aliases \cap Specs = {}
    /\ UnknownName \notin Aliases \cup Specs
    /\ AliasOf \in [Aliases -> Specs \cup {UnknownName}]
    /\ Defaults \subseteq Aliases \cup Specs
    /\ DOMAIN PrefixOf = Specs /\ \A s \in Specs : PrefixOf[s] # "(none)"
    /\ ToolsIn \in [Specs -> Nat]

Names == Aliases \cup Specs \cup {UnknownName}
GroupNames == {PrefixOf[s] : s \in Specs}

Settings == [codeMode : BOOLEAN, progressive : BOOLEAN, openbridge : BOOLEAN,
             endpoint : BOOLEAN, validation : BOOLEAN, oauthApp : BOOLEAN,
             caching : BOOLEAN, sampling : BOOLEAN, sidecars : BOOLEAN,
             packagesSet : BOOLEAN]

VARIABLES
    settings,
    packages,     \* names in AMAZON_AD_API_PACKAGES
    broken,       \* specs that cannot be parsed or turned into tools
    phase,
    toMount,      \* specs not looked at yet
    mounted,      \* mounted_servers, by spec
    counts,       \* group_tool_counts
    enabled,      \* specs whose tools are enabled
    middlewares, toolsets,
    switching,    \* call -> the group it switches, how, and the servers left
    uncounted,    \* history: mounted specs whose tools could not be listed
    asked         \* history: group -> what calls that ended well asked for

buildVars == <<settings, packages, broken, phase, toMount, mounted, counts,
               enabled, middlewares, toolsets, switching, uncounted, asked>>

NoSwitch == [group |-> "(none)", enable |-> FALSE, left |-> {}]
Switches == [group : GroupNames, enable : BOOLEAN, left : SUBSET Specs]

\* Types; what is enabled is mounted, and what is mounted can be.
BuildTypeOK ==
    /\ settings \in Settings
    /\ packages \subseteq Names /\ broken \subseteq Specs
    /\ phase \in {"new", "mounting", "mounted", "tools", "ready"}
    /\ toMount \subseteq Specs
    /\ mounted \subseteq Specs \ broken
    /\ counts \in [GroupNames -> Nat]
    /\ enabled \subseteq mounted /\ uncounted \subseteq mounted
    /\ switching \in [GroupCalls -> Switches \cup {NoSwitch}]
    /\ \A c \in GroupCalls : switching[c].left \subseteq mounted
    /\ asked \in [GroupNames -> {"nothing", "shown", "hidden", "either"}]

BuildInit ==
    /\ settings \in Settings
    /\ packages \in IF settings.packagesSet THEN (SUBSET Names) \ {{}} ELSE {{}}
    /\ broken \in SUBSET Specs
    /\ phase = "new"
    /\ toMount = {} /\ mounted = {} /\ enabled = {} /\ uncounted = {}
    /\ switching = [c \in GroupCalls |-> NoSwitch]
    /\ asked = [p \in GroupNames |-> "nothing"]
    /\ counts = [p \in GroupNames |-> 0]
    /\ middlewares = <<>> /\ toolsets = {}

-----------------------------------------------------------------------------
(* Building.                                                               *)

\* What is asked for: the names in the environment, or the defaults.
Requested == IF settings.packagesSet THEN packages ELSE Defaults

\* _load_package_allowlist: an alias before a spec of that name.
Allowlist == {AliasOf[n] : n \in Requested \cap Aliases} \cup (Requested \cap Specs)

\* An empty list is no restriction, although the log then says "loading nothing".
Selected == IF Allowlist = {} THEN Specs ELSE Allowlist \cap Specs

If(condition, name) == IF condition THEN <<name>> ELSE <<>>

\* The OpenBridge server gets the session middleware with the token ones, or none at
\* all if there is no endpoint to convert tokens at.
AuthMiddlewares ==
    CASE ~settings.openbridge -> <<"session">>
      [] settings.openbridge /\ ~settings.endpoint -> <<>>
      [] settings.openbridge /\ settings.endpoint /\ ~settings.validation ->
           <<"session", "refresh_token">>
      [] settings.openbridge /\ settings.endpoint /\ settings.validation ->
           <<"session", "refresh_token", "jwt">>

\* The server and its middlewares are made, and the mounting begins.
SetupMiddleware ==
    /\ phase = "new"
    /\ middlewares' = <<"errors">> \o If(settings.caching, "caching")
                        \o If(settings.sampling, "sampling") \o AuthMiddlewares
                        \o If(settings.oauthApp, "oauth")
    /\ toMount' = Selected
    /\ phase' = "mounting"
    /\ UNCHANGED <<settings, packages, broken, mounted, counts, enabled,
                   toolsets, switching, uncounted, asked>>

\* One spec: mounted under its prefix, then counted if its tools can be listed; what
\* raises is logged, and undoes nothing.
MountResource(s) ==
    /\ phase = "mounting" /\ s \in toMount
    /\ toMount' = toMount \ {s}
    /\ IF s \in broken
       THEN UNCHANGED <<mounted, counts, enabled, uncounted>>
       ELSE /\ mounted' = mounted \cup {s}
            /\ enabled' = enabled \cup {s}
            /\ \/ /\ counts' = [counts EXCEPT ![PrefixOf[s]] = @ + ToolsIn[s]]
                  /\ UNCHANGED uncounted
               \/ uncounted' = uncounted \cup {s} /\ UNCHANGED counts
    /\ UNCHANGED <<settings, packages, broken, phase, middlewares, toolsets,
                   switching, asked>>

\* The rules of the sidecar files become a middleware, if there are any.
AddSidecars ==
    /\ phase = "mounting" /\ toMount = {}
    /\ middlewares' = middlewares \o If(settings.sidecars, "sidecar")
    /\ phase' = "mounted"
    /\ UNCHANGED <<settings, packages, broken, toMount, mounted, counts, enabled,
                   toolsets, switching, uncounted, asked>>

\* Progressive disclosure, which code mode overrides.
DisableMountedTools ==
    /\ phase = "mounted"
    /\ enabled' = IF settings.progressive /\ ~settings.codeMode THEN {} ELSE enabled
    /\ phase' = "tools"
    /\ UNCHANGED <<settings, packages, broken, toMount, mounted, counts,
                   middlewares, toolsets, switching, uncounted, asked>>

\* The built-in tools; the tools for groups when there are any, and no code mode.
RegisterBuiltinTools ==
    /\ phase = "tools"
    /\ toolsets' = {"profiles", "region", "downloads", "catalog", "campaigns", "sampling"}
        \cup (IF settings.openbridge THEN {"identity"} ELSE {"oauth"})
        \cup (IF mounted # {} /\ ~settings.codeMode THEN {"groups"} ELSE {})
        \cup (IF settings.codeMode THEN {"execute"} ELSE {})
    /\ phase' = "ready"
    /\ UNCHANGED <<settings, packages, broken, toMount, mounted, counts, enabled,
                   middlewares, switching, uncounted, asked>>

-----------------------------------------------------------------------------
(* Groups of tools.                                                        *)

Group(p) == {s \in mounted : PrefixOf[s] = p}

\* The tools of some specs, each by its spec and a number, and how many they are.
ToolsOf(ss) == UNION {{s} \X (1..ToolsIn[s]) : s \in ss}

ToolCount(ss) == Cardinality(ToolsOf(ss))

\* list_tool_groups: the count taken at start-up, or what is enabled now.
Counted(p) == IF counts[p] = 0 THEN ToolCount(Group(p) \cap enabled) ELSE counts[p]

Hidden == settings.progressive /\ ~settings.codeMode

\* What is known to be wanted of the group, if the call goes through and no call under
\* way wants the opposite.
Wanted(c, p, enable) ==
    IF \E d \in GroupCalls \ {c} : switching[d].group = p /\ switching[d].enable # enable
    THEN "either" ELSE IF enable THEN "shown" ELSE "hidden"

\* Fault: only the first server mounted under the prefix is switched.
EnableFirst(c, p, enable) ==
    /\ phase = "ready" /\ "groups" \in toolsets /\ switching[c] = NoSwitch /\ Group(p) # {}
    /\ switching' = [switching EXCEPT ![c] =
            [group |-> p, enable |-> enable, left |-> {CHOOSE s \in Group(p) : TRUE}]]
    /\ asked' = [asked EXCEPT ![p] = Wanted(c, p, enable)]
    /\ UNCHANGED <<settings, packages, broken, phase, toMount, mounted, counts, enabled,
                   middlewares, toolsets, uncounted>>

\* enable_tool_group: every server mounted under the prefix, in a loop.
EnableToolGroup(c, p, enable) ==
    /\ phase = "ready" /\ "groups" \in toolsets /\ switching[c] = NoSwitch /\ Group(p) # {}
    /\ switching' = [switching EXCEPT ![c] =
            [group |-> p, enable |-> enable, left |-> Group(p)]]
    /\ asked' = [asked EXCEPT ![p] = Wanted(c, p, enable)]
    /\ UNCHANGED <<settings, packages, broken, phase, toMount, mounted, counts, enabled,
                   middlewares, toolsets, uncounted>>

\* One turn of the loop: the next server is switched, and the loop waits for a list of
\* tools before or after that.
SwitchServer(c, s) ==
    /\ s \in switching[c].left
    /\ enabled' = IF switching[c].enable THEN enabled \cup {s} ELSE enabled \ {s}
    /\ switching' = [switching EXCEPT ![c] =
            IF @.left = {s} THEN NoSwitch
            ELSE [switching[c] EXCEPT !.left = switching[c].left \ {s}]]
    /\ UNCHANGED <<settings, packages, broken, phase, toMount, mounted, counts,
                   middlewares, toolsets, uncounted, asked>>

\* A list of tools fails, or the call is cancelled: the servers left stay as they are.
SwitchFails(c) ==
    /\ switching[c] # NoSwitch
    /\ asked' = [asked EXCEPT ![switching[c].group] = "either"]
    /\ switching' = [switching EXCEPT ![c] = NoSwitch]
    /\ UNCHANGED <<settings, packages, broken, phase, toMount, mounted, counts, enabled,
                   middlewares, toolsets, uncounted>>

BuildNext ==
    \/ SetupMiddleware \/ AddSidecars \/ DisableMountedTools \/ RegisterBuiltinTools
    \/ \E s \in Specs : MountResource(s)
    \/ \E c \in GroupCalls :
        \/ \E p \in GroupNames, enable \in BOOLEAN : EnableToolGroup(c, p, enable)
        \/ \E s \in Specs : SwitchServer(c, s)
        \/ SwitchFails(c)

BuildSpec == BuildInit /\ [][BuildNext]_buildVars

-----------------------------------------------------------------------------
\* Whatever the combination of code mode and progressive disclosure, a mounted
\* tool can be called, or the tool that enables it can. (build.)
EveryToolReachable ==
    phase = "ready" => mounted = enabled \/ "groups" \in toolsets

\* What is asked for and can be mounted is, and nothing else, whatever cannot; but if
\* none of the names is known, everything is. (_load_package_allowlist.)
MountedAsAskedFor ==
    phase = "ready" =>
        /\ \A s \in Specs \ broken :
             s \in Requested \/ (\E n \in Requested \cap Aliases : AliasOf[n] = s)
               => s \in mounted
        /\ Allowlist # {} => mounted \subseteq Allowlist
        /\ Requested \subseteq {UnknownName} => mounted = Specs \ broken

\* Between calls, each group is as the last call left it, all of its servers alike:
\* hidden at first with progressive disclosure; unless calls for the opposite overlapped,
\* or one failed half-way, since. (_disable_mounted_tools, enable_tool_group.)
GroupsAsAsked ==
    phase = "ready" => \A p \in GroupNames :
        (\A c \in GroupCalls : switching[c].group # p) =>
            /\ asked[p] = "shown" \/ (asked[p] = "nothing" /\ ~Hidden)
                 => Group(p) \subseteq enabled
            /\ asked[p] = "hidden" \/ (asked[p] = "nothing" /\ Hidden)
                 => Group(p) \cap enabled = {}

\* The totals list_tool_groups reports are those of the mounted tools, whatever is
\* enabled, and although specs share prefixes and some cannot be mounted; too low only
\* where a mounted server could not list its tools.
TotalsAreOfMounted ==
    phase = "ready" => \A p \in GroupNames :
        /\ Counted(p) <= ToolCount(Group(p))
        /\ Group(p) \cap uncounted = {} => Counted(p) = ToolCount(Group(p))

\* A session's state is restored once, before its token is compared with it and
\* converted, that before it is validated, and the sidecar rules see a request last; but
\* without an endpoint an OpenBridge server restores nothing. (_setup_middleware.)
MiddlewareOrder ==
    LET At(name) == {i \in DOMAIN middlewares : middlewares[i] = name} IN
    phase = "ready" =>
        /\ ~settings.openbridge \/ settings.endpoint => Cardinality(At("session")) = 1
        /\ \A i \in At("session"), j \in At("refresh_token") \cup At("jwt") \cup At("oauth") : i < j
        /\ \A i \in At("refresh_token"), j \in At("jwt") : i < j
        /\ \A i \in At("sidecar") : i = Len(middlewares)

\* What was asked for is mounted, hidden and shown as the tool groups tell.
BuiltAsConfigured ==
    /\ MountedAsAskedFor /\ EveryToolReachable /\ GroupsAsAsked
    /\ TotalsAreOfMounted /\ MiddlewareOrder
=============================================================================
