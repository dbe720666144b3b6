------------------------------ MODULE MCTools ------------------------------
(* Small instances for TLC of what is behind the tools, and of how the server *)
(* offers them. They share no state: a behaviour exercises one of them, and   *)
(* the others keep the least of their initial states.                         *)
EXTENDS ServerBuild, CampaignTools, ProfileListing, ProfilePaging, CodeMode,
        Downloads, CatalogRefresh, ReportFields, HttpPool, TLC

CONSTANTS caller1, caller2, switch1, switch2, list1, list2, user1, user2, dl1, dl2, adv1, adv2, gz, json,
          cat1, cat2, srv, dim1, dim2, met, pre1, pre2, lab1, lab2, key1, key2

MCAliasOf == [n \in Aliases |-> IF n = "ads" THEN "sp" ELSE UnknownName]
MCPrefixOf == [s \in Specs |-> IF s \in {"sp", "sb"} THEN "camp" ELSE s]
MCToolsIn == [s \in Specs |-> IF s = "sp" THEN 2 ELSE 1]
MCUnpacked == [n \in Archives |-> json]

VARIABLE part

Parts == {"build", "campaigns", "listing", "paging", "code", "downloads", "catalog",
          "fields", "pool"}

\* A formula of the component that is exercised, and one of any other.
When(component, formula, otherwise) == IF part = component THEN formula ELSE otherwise

NoRequirements == required = [f \in Fields |-> {}]
NoComplements == complementary = [f \in Fields |-> {}]
NoLabels ==
    /\ prefixOf = [d \in Dimensions |-> CHOOSE p \in Prefixes : TRUE]
    /\ keyOf = [l \in Labels |-> NoKey]
    /\ says = [m \in Metrics |-> [s \in Sides |-> {}]]

\* Sources differ in one thing at a time: the checks do not look at two together.
OneThing ==
    \/ NoComplements /\ NoLabels /\ fails = {}
    \/ NoRequirements /\ NoLabels /\ fails = {}
    \/ NoRequirements /\ NoComplements /\ fails = {}
    \/ NoRequirements /\ NoComplements /\ NoLabels

\* One initial state for what is not exercised.
Least ==
    /\ When("build", TRUE,
            /\ settings = [f \in DOMAIN (CHOOSE r \in Settings : TRUE) |-> FALSE]
            /\ packages = {} /\ broken = {})
    /\ When("campaigns", TRUE,
            /\ account = [k \in Kinds |-> [f \in FieldsOf[k] |-> 0]]
            /\ hasProfile = {})
    /\ When("listing", TRUE,
            /\ listRegion = [i \in Identities |-> CHOOSE r \in ListRegions : TRUE]
            /\ caller = [c \in ListCalls |-> CHOOSE i \in Identities : TRUE])
    /\ When("paging", TRUE, total = 0 /\ limit = 1)
    /\ When("code", TRUE, session = FALSE)
    /\ When("downloads", TRUE, active = NoProfile)
    /\ When("fields", TRUE,
            NoRequirements /\ NoComplements /\ NoLabels /\ fails = {})

\* What only the middlewares depend on is varied apart from what the groups depend on.
Apart ==
    \/ broken = {} /\ ~settings.packagesSet /\ ~settings.codeMode
    \/ \A f \in {"openbridge", "endpoint", "validation", "oauthApp", "caching", "sampling",
                 "sidecars"} : ~settings[f]

Init ==
    /\ part \in Parts
    /\ Least
    /\ BuildInit /\ Apart /\ CampaignInit /\ ListInit /\ PagingInit /\ CodeInit
    /\ DownloadsInit /\ CatalogInit /\ OneThing /\ FieldsInit /\ PoolInit

\* Calls that overlap are about one kind of entity: others do not meet.
MeetingCalls == \A c, d \in Callers :
    at'[c] # "idle" /\ at'[d] # "idle" => tool'[c].kind = tool'[d].kind

Next ==
    /\ When("build", BuildNext, UNCHANGED buildVars)
    /\ When("campaigns", CampaignNext /\ MeetingCalls, UNCHANGED campaignVars)
    /\ When("listing", ListNext, UNCHANGED listVars)
    /\ When("paging", NextPage, UNCHANGED pagingVars)
    /\ When("code", CodeNext, UNCHANGED codeVars)
    /\ When("downloads", DownloadsNext, UNCHANGED dlVars)
    /\ When("catalog", CatalogNext, UNCHANGED catalogVars)
    /\ When("fields", FieldsNext, UNCHANGED fieldsVars)
    /\ When("pool", PoolNext, UNCHANGED poolVars)
    /\ UNCHANGED part

partVars == <<buildVars, campaignVars, listVars, pagingVars, codeVars, dlVars,
              catalogVars, fieldsVars, poolVars, part>>

Spec == Init /\ [][Next]_partVars

\* Where symmetry pays: the lists.
Interchangeable == Permutations(ListCalls) \cup Permutations(Identities)

-----------------------------------------------------------------------------
\* The types of every component, which say of some what cannot be: a bid adjustment
\* out of range, a file beyond the limit, a group enabled that is not mounted.
ToolsTypesOK ==
    /\ BuildTypeOK /\ CampaignTypeOK /\ ListingTypeOK /\ CodeTypeOK
    /\ DownloadsTypeOK /\ CatalogTypeOK /\ FieldsTypeOK /\ PoolTypeOK

\* The profile lists, whole and in pages. (profile_listing.py.)
ListingsCorrect == ListingCorrect /\ PagesCoverList
=============================================================================
