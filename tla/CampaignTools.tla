--------------------------- MODULE CampaignTools ---------------------------
(***************************************************************************)
(* The campaign management tools: one operation of the Amazon Ads API per   *)
(* call, but for the bids of a Sponsored Products campaign, which a PUT     *)
(* replaces as a whole, so that an update reads them, merges and writes.    *)
(* The account is external: an entity is a function from fields to values,  *)
(* and only its bid adjustments have values the tools look at.              *)
(***************************************************************************)
EXTENDS Integers, Sequences, FiniteSets, Functions

CONSTANTS Callers,
          MaxPct,      \* 900: the largest bid adjustment
          MaxGiven,    \* bound on the optional arguments of a call
          MaxCalls     \* bound on the calls made

ASSUME CampaignAssumption ==
    MaxPct \in Nat /\ MaxGiven \in Nat /\ MaxCalls \in Nat

Unset == 0 - 1
Bids == {"placement_top_pct", "placement_product_page_pct",
         "placement_rest_of_search_pct"}
Bidding == Bids \cup {"bidding_strategy"}

-----------------------------------------------------------------------------
(* The tools: what each requires, and may be given.                        *)

Tool(op, kind, needs, fields) ==
    [op |-> op, kind |-> kind, needs |-> needs, fields |-> fields, oneOf |-> {}]
WithOneOf(tool, fields) == [tool EXCEPT !.oneOf = fields, !.fields = @ \cup fields]

Update(kind, fields) == Tool("update", kind, {}, fields)
Archive(kind) == Tool("archive", kind, {}, {})
Create(kind, needs, fields) == Tool("create", kind, needs, fields)
List(kind, filters) ==
    Tool("list", kind, {}, filters \cup {"max_results", "next_token"})

update_sp_campaigns == Update("sp_campaign",
    {"name", "state", "budget_amount", "budget_type", "start_date", "end_date"} \cup Bidding)
archive_sp_campaign == Archive("sp_campaign")
update_sb_campaigns == Update("sb_campaign", {"name", "state", "budget_amount", "budget_type"})
update_sp_ad_groups == Update("sp_ad_group", {"name", "state", "default_bid"})
archive_sp_ad_group == Archive("sp_ad_group")
update_sp_keywords == Update("sp_keyword", {"state", "bid"})
archive_sp_keyword == Archive("sp_keyword")
update_sp_product_ads == Update("sp_product_ad", {"state"})
archive_sp_product_ad == Archive("sp_product_ad")
list_sp_ad_groups == List("sp_ad_group", {"campaign_id", "state_filter"})
list_sp_keywords == List("sp_keyword", {"campaign_id", "ad_group_id", "state_filter"})
create_sp_campaign == Create("sp_campaign", {"name", "targeting_type", "budget_amount"},
    {"state", "portfolio_id", "bidding_strategy", "start_date", "end_date"})
create_sp_ad_group == Create("sp_ad_group", {"campaign_id", "name", "default_bid"}, {"state"})
create_sp_keyword == Create("sp_keyword",
    {"campaign_id", "ad_group_id", "keyword_text", "match_type", "bid"}, {"state"})
create_sp_product_ad == WithOneOf(
    Create("sp_product_ad", {"campaign_id", "ad_group_id"}, {"state"}), {"asin", "sku"})
list_sp_campaigns == List("sp_campaign",
    {"name_filter", "state_filter", "portfolio_id_filter", "include_extended_data"})
list_sp_product_ads == List("sp_product_ad", {"campaign_id", "ad_group_id", "state_filter"})
list_sp_portfolios == List("portfolio", {"name_filter", "portfolio_id_filter"})
create_sp_negative_keyword ==
    Create("negative_keyword", {"campaign_id", "keyword_text", "match_type"}, {"state"})
list_sp_negative_keywords == List("negative_keyword", {"campaign_id", "state_filter"})
update_sp_negative_keywords == Update("negative_keyword", {"state"})
create_sp_ad_group_negative_keyword == Create("ad_group_negative_keyword",
    {"campaign_id", "ad_group_id", "keyword_text", "match_type"}, {"state"})
list_sp_ad_group_negative_keywords ==
    List("ad_group_negative_keyword", {"campaign_id", "ad_group_id", "state_filter"})
update_sp_ad_group_negative_keywords == Update("ad_group_negative_keyword", {"state"})
create_sp_target == WithOneOf(
    Create("target", {"campaign_id", "ad_group_id", "bid"}, {"expression_type", "state"}),
    {"target_asin", "expression"})
list_sp_targets == List("target", {"campaign_id", "ad_group_id", "state_filter"})
update_sp_targets == Update("target", {"bid", "state"})
archive_sp_target == Archive("target")
create_sp_negative_target == WithOneOf(
    Create("negative_target", {"campaign_id"}, {"state"}), {"negative_asin", "expression"})
list_sp_negative_targets == List("negative_target", {"campaign_id", "state_filter"})
update_sp_negative_targets == Update("negative_target", {"state"})

\* The tools by the part of register_campaign_management_tools that adds them.
CampaignAndGroupTools == {update_sp_campaigns, archive_sp_campaign,
    update_sb_campaigns, update_sp_ad_groups, archive_sp_ad_group}
KeywordAndAdTools == {update_sp_keywords, archive_sp_keyword,
    update_sp_product_ads, archive_sp_product_ad}
CreateTools == {list_sp_ad_groups, list_sp_keywords, create_sp_campaign,
    create_sp_ad_group, create_sp_keyword, create_sp_product_ad}
ListTools == {list_sp_campaigns, list_sp_product_ads, list_sp_portfolios}
NegativeKeywordTools == {create_sp_negative_keyword, list_sp_negative_keywords,
    update_sp_negative_keywords, create_sp_ad_group_negative_keyword,
    list_sp_ad_group_negative_keywords, update_sp_ad_group_negative_keywords}
TargetTools == {create_sp_target, list_sp_targets, update_sp_targets, archive_sp_target,
    create_sp_negative_target, list_sp_negative_targets, update_sp_negative_targets}
Tools == CampaignAndGroupTools \cup KeywordAndAdTools \cup CreateTools \cup ListTools
         \cup NegativeKeywordTools \cup TargetTools

-----------------------------------------------------------------------------
Kinds == {t.kind : t \in Tools}

\* What can be changed of an entity of each kind.
FieldsOf == [kind \in Kinds |->
    UNION {t.fields : t \in {u \in Tools : u.op = "update" /\ u.kind = kind}}]

Numbers == 0..(MaxPct + 1)

VARIABLES
    account,    \* external: kind -> the fields of the entity that calls name
    archived,   \* external: kinds whose entity is archived
    hasProfile, \* callers whose session has an active profile
    tool,       \* caller -> the tool it runs
    given,      \* caller -> its optional arguments
    at,         \* caller -> where its call is
    found,      \* caller -> the bidding it read
    outcome,    \* caller -> what the service did, or how the call ended
    writes,     \* history: caller -> changes its call made in the account
    made        \* calls made so far

campaignVars == <<account, archived, hasProfile, tool, given, at, found, outcome,
                  writes, made>>

NoBidding == [f \in Bidding |-> Unset]
NoArguments == [f \in {} |-> Unset]
Outcomes == {"none", "refused", "listed", "accepted", "rejected", "http_error", "lost",
             "done", "failed", "raised"}

\* Types; no bid adjustment outside 0..MaxPct is in the account.
CampaignTypeOK ==
    /\ \A f \in Bids : account["sp_campaign"][f] <= MaxPct
    /\ archived \subseteq Kinds /\ hasProfile \subseteq Callers
    /\ tool \in [Callers -> Tools]
    /\ \A c \in Callers : DOMAIN given[c] \subseteq tool[c].fields
    /\ at \in [Callers -> {"idle", "read", "send", "answer"}]
    /\ found \in [Callers -> [Bidding -> {Unset} \cup Numbers]]
    /\ outcome \in [Callers -> Outcomes]
    /\ writes \in [Callers -> Nat] /\ made \in 0..MaxCalls

CampaignInit ==
    /\ \E bidding \in {Unset, 0} :
        account = [k \in Kinds |-> [f \in FieldsOf[k] |-> IF f \in Bidding THEN bidding ELSE 0]]
    /\ archived = {}
    /\ hasProfile \in SUBSET Callers
    /\ tool = [c \in Callers |-> update_sp_campaigns]
    /\ given = [c \in Callers |-> NoArguments]
    /\ at = [c \in Callers |-> "idle"]
    /\ found = [c \in Callers |-> NoBidding]
    /\ outcome = [c \in Callers |-> "none"]
    /\ writes = [c \in Callers |-> 0]
    /\ made = 0

-----------------------------------------------------------------------------
(* A call.                                                                 *)

\* Fault: the adjustments are not looked at.
RefusedUnranged(t, g) ==
    t.oneOf # {} /\ t.oneOf \cap DOMAIN g = {}

\* What a tool refuses before it sends anything.
Refused(t, g) ==
    \/ t.oneOf # {} /\ t.oneOf \cap DOMAIN g = {}
    \/ \E f \in Bids \cap DOMAIN g : t.op = "update" /\ g[f] > MaxPct

SetsBidding(t, g) == t = update_sp_campaigns /\ Bidding \cap DOMAIN g # {}

\* The arguments that matter here: what an update sets, what a create needs one
\* of. The value matters of an adjustment only.
Matter(t) == IF t.op = "update" THEN t.fields ELSE t.oneOf
Arguments(t) ==
    {g \in UNION {[fs -> Numbers] : fs \in {fs \in SUBSET Matter(t) : Cardinality(fs) <= MaxGiven}} :
        \A f \in DOMAIN g \ Bids : g[f] = 1}
Requests == UNION {{[tool |-> t, given |-> g] : g \in Arguments(t)} : t \in Tools}

\* Any tool, with any arguments. Without an active profile it raises.
Call(c) ==
    /\ at[c] = "idle" /\ made < MaxCalls
    /\ made' = made + 1
    /\ \E r \in Requests :
        IF c \notin hasProfile \/ Refused(r.tool, r.given)
        THEN /\ outcome' = [outcome EXCEPT ![c] = IF c \in hasProfile THEN "failed" ELSE "raised"]
             /\ UNCHANGED <<tool, given, at>>
        ELSE /\ outcome' = [outcome EXCEPT ![c] = "none"]
             /\ tool' = [tool EXCEPT ![c] = r.tool]
             /\ given' = [given EXCEPT ![c] = r.given]
             /\ at' = [at EXCEPT ![c] = IF SetsBidding(r.tool, r.given) THEN "read" ELSE "send"]
    /\ UNCHANGED <<account, archived, hasProfile, found, writes>>

\* The call returns or raises, and its locals are gone.
End(c, how) ==
    /\ at' = [at EXCEPT ![c] = "idle"]
    /\ outcome' = [outcome EXCEPT ![c] = how]
    /\ tool' = [tool EXCEPT ![c] = update_sp_campaigns]
    /\ given' = [given EXCEPT ![c] = NoArguments]
    /\ found' = [found EXCEPT ![c] = NoBidding]
    /\ writes' = [writes EXCEPT ![c] = 0]

\* The bidding before a merge; an error, or no such campaign, ends the call.
Prefetch(c) ==
    /\ at[c] = "read"
    /\ \/ /\ found' = [found EXCEPT ![c] = Restrict(account["sp_campaign"], Bidding)]
          /\ at' = [at EXCEPT ![c] = "send"]
          /\ UNCHANGED <<tool, given, outcome, writes>>
       \/ \E how \in {"failed", "raised"} : End(c, how)
    /\ UNCHANGED <<account, archived, hasProfile, made>>

\* Fault: the payload has only the adjustments that were given.
MergedGiven(c) ==
    [f \in Bidding |-> IF f \in DOMAIN given[c] THEN given[c][f] ELSE Unset]

\* The bidding that is sent: what was read, under what was given.
Merged(c) ==
    [f \in Bidding |-> IF f \in DOMAIN given[c] THEN given[c][f] ELSE found[c][f]]

\* A budget without a type is a daily one.
BudgetType(g) ==
    IF "budget_amount" \in DOMAIN g /\ "budget_type" \notin DOMAIN g THEN {"budget_type"} ELSE {}

\* The other fields of an update.
Payload(t, g) ==
    [f \in (DOMAIN g \cup BudgetType(g)) \ Bidding |-> IF f \in DOMAIN g THEN g[f] ELSE 0]

\* External: an update replaces what it is sent, and the bidding as a whole.
Updated(c, entity) ==
    [f \in DOMAIN entity |->
        IF f \in Bidding /\ SetsBidding(tool[c], given[c]) THEN Merged(c)[f]
        ELSE IF f \in DOMAIN Payload(tool[c], given[c]) THEN Payload(tool[c], given[c])[f]
        ELSE entity[f]]

\* External: the service does what it is asked. The answer says so, or is lost,
\* or is an error of the gateway in front of it.
Apply(c) ==
    /\ at[c] = "send"
    /\ at' = [at EXCEPT ![c] = "answer"]
    /\ LET k == tool[c].kind IN
       CASE tool[c].op = "list" ->
                UNCHANGED <<account, archived, writes>>
         [] tool[c].op = "create" ->
                writes' = [writes EXCEPT ![c] = @ + 1] /\ UNCHANGED <<account, archived>>
         [] tool[c].op = "archive" ->
                /\ archived' = archived \cup {k}
                /\ writes' = [writes EXCEPT ![c] = @ + 1] /\ UNCHANGED account
         [] tool[c].op = "update" ->
                /\ k \notin archived
                /\ account' = [account EXCEPT ![k] = Updated(c, @)]
                /\ writes' = [writes EXCEPT ![c] = @ + 1] /\ UNCHANGED archived
    /\ \E said \in {IF tool[c].op = "list" THEN "listed" ELSE "accepted", "http_error", "lost"} :
        outcome' = [outcome EXCEPT ![c] = said]
    /\ UNCHANGED <<hasProfile, tool, given, found, made>>

\* External: it does not, and says so (a 207 with an error in it, or a status),
\* or the request is lost.
Decline(c) ==
    /\ at[c] = "send"
    /\ at' = [at EXCEPT ![c] = "answer"]
    /\ \E said \in {"rejected", "http_error", "lost"} :
        outcome' = [outcome EXCEPT ![c] = said]
    /\ UNCHANGED <<account, archived, hasProfile, tool, given, found, writes, made>>

\* Fault: a request whose answer was lost is sent again.
ConcludeRetrying(c) ==
    /\ at[c] = "answer"
    /\ \/ End(c, CASE outcome[c] \in {"listed", "accepted"} -> "done"
                   [] outcome[c] \in {"rejected", "http_error"} -> "failed"
                   [] outcome[c] = "lost" -> "raised")
       \/ /\ outcome[c] = "lost" /\ at' = [at EXCEPT ![c] = "send"]
          /\ UNCHANGED <<tool, given, found, outcome, writes>>
    /\ UNCHANGED <<account, archived, hasProfile, made>>

\* The tool reads the answer: only a success in it is one.
Conclude(c) ==
    /\ at[c] = "answer"
    /\ End(c, CASE outcome[c] \in {"listed", "accepted"} -> "done"
                [] outcome[c] \in {"rejected", "http_error"} -> "failed"
                [] outcome[c] = "lost" -> "raised")
    /\ UNCHANGED <<account, archived, hasProfile, made>>

CampaignNext == \E c \in Callers :
    Call(c) \/ Prefetch(c) \/ Apply(c) \/ Decline(c) \/ Conclude(c)

CampaignSpec == CampaignInit /\ [][CampaignNext]_campaignVars

-----------------------------------------------------------------------------
\* A call changes the account at most once, whatever answers are lost (nothing is
\* sent twice); a list never does.
AtMostOneWrite ==
    \A c \in Callers : writes[c] <= IF tool[c].op = "list" THEN 0 ELSE 1

\* A tool that reports success has made its change (an item the service listed as an
\* error is not one), and it reports success of a change that was confirmed.
\* ("success_list" and "error_list" in every tool.)
ReportIsTrue == [][\A c \in Callers : at[c] = "answer" /\ at'[c] = "idle" /\ tool[c].op # "list" =>
    /\ outcome'[c] = "done" => writes[c] = 1
    /\ outcome[c] = "accepted" => outcome'[c] = "done"]_campaignVars

Kept(f, k) == account'[k][f] = account[k][f]

\* Nothing is changed that the caller did not name, whatever was read before and
\* whoever writes meanwhile; a budget takes its type along, one bid the bidding.
\* ("if ... is not None" in every update.)
OnlyWhatWasNamed == [][\A c \in Callers : at[c] = "send" /\ at'[c] = "answer" =>
    \A k \in Kinds : account'[k] # account[k] => \A f \in FieldsOf[k] :
        \/ Kept(f, k)
        \/ k = tool[c].kind /\ f \in DOMAIN given[c] \cup BudgetType(given[c])
        \/ k = "sp_campaign" /\ f \in Bidding /\ SetsBidding(tool[c], given[c])
    ]_campaignVars

\* "Placement adjustments are merged: any placement not specified retains its
\* current value" (update_sp_campaigns), as does the strategy, if the campaign's
\* bidding is still what the call read.
UnnamedBidsRetained == [][\A c \in Callers :
    /\ at[c] = "send" /\ at'[c] = "answer" /\ tool[c] = update_sp_campaigns
    /\ found[c] = Restrict(account["sp_campaign"], Bidding)
    => \A f \in Bidding \ DOMAIN given[c] : Kept(f, "sp_campaign")]_campaignVars

\* A call reports what it did, and does what it was told and no more.
UpdatesAreExact == ReportIsTrue /\ OnlyWhatWasNamed /\ UnnamedBidsRetained
=============================================================================
