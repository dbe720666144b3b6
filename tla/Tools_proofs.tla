---------------------------- MODULE Tools_proofs ----------------------------
(* Proofs about what the tools do: campaign tools, for any number of callers and *)
(* of calls; profile lists, whole and in pages; downloads, for any files; the    *)
(* report-field catalog, for any fields, labels and requirements.                *)
EXTENDS CampaignTools, ProfileListing, ProfilePaging, Downloads, ReportFields,
        SequenceTheorems, TLAPS

-----------------------------------------------------------------------------
(* Campaign tools. What a call has changed follows from where it is, and what *)
(* the service said; what an update may change, from the payload it builds.   *)

ToolOK(t) ==
    /\ t.op \in {"update", "archive", "create", "list"}
    /\ t.oneOf \subseteq t.fields

LEMMA ToolShapes ==
    ASSUME NEW kind, NEW needs, NEW fields, NEW one
    PROVE  /\ ToolOK(Update(kind, fields)) /\ ToolOK(Archive(kind))
           /\ ToolOK(Create(kind, needs, fields)) /\ ToolOK(List(kind, fields))
           /\ ToolOK(WithOneOf(Create(kind, needs, fields), one))
  <1>1. ASSUME NEW op \in {"update", "archive", "create", "list"}, NEW n, NEW fs
        PROVE  ToolOK(Tool(op, kind, n, fs)) /\ ToolOK(WithOneOf(Tool(op, kind, n, fs), one))
    BY DEF ToolOK, Tool, WithOneOf
  <1> QED
    BY <1>1 DEF Update, Archive, Create, List

LEMMA ToolsAreOK == \A t \in Tools : ToolOK(t)
  <1>1. \A t \in CampaignAndGroupTools : ToolOK(t)
    BY ToolShapes DEF CampaignAndGroupTools, update_sp_campaigns, archive_sp_campaign,
       update_sb_campaigns, update_sp_ad_groups, archive_sp_ad_group
  <1>2. \A t \in KeywordAndAdTools : ToolOK(t)
    BY ToolShapes DEF KeywordAndAdTools, update_sp_keywords, archive_sp_keyword,
       update_sp_product_ads, archive_sp_product_ad
  <1>3. \A t \in CreateTools : ToolOK(t)
    BY ToolShapes DEF CreateTools, list_sp_ad_groups, list_sp_keywords, create_sp_campaign,
       create_sp_ad_group, create_sp_keyword, create_sp_product_ad
  <1>4. \A t \in ListTools : ToolOK(t)
    BY ToolShapes DEF ListTools, list_sp_campaigns, list_sp_product_ads, list_sp_portfolios
  <1>5. \A t \in NegativeKeywordTools : ToolOK(t)
    BY ToolShapes DEF NegativeKeywordTools, create_sp_negative_keyword,
       list_sp_negative_keywords, update_sp_negative_keywords,
       create_sp_ad_group_negative_keyword, list_sp_ad_group_negative_keywords,
       update_sp_ad_group_negative_keywords
  <1>6. \A t \in TargetTools : ToolOK(t)
    BY ToolShapes DEF TargetTools, create_sp_target, list_sp_targets, update_sp_targets,
       archive_sp_target, create_sp_negative_target, list_sp_negative_targets,
       update_sp_negative_targets
  <1> QED
    BY <1>1, <1>2, <1>3, <1>4, <1>5, <1>6 DEF Tools

LEMMA CampaignTool ==
    /\ update_sp_campaigns \in Tools
    /\ update_sp_campaigns.op = "update" /\ update_sp_campaigns.kind = "sp_campaign"
    /\ "sp_campaign" \in Kinds
    /\ Bidding \subseteq FieldsOf["sp_campaign"]
  <1>1. /\ update_sp_campaigns \in Tools
        /\ update_sp_campaigns.op = "update" /\ update_sp_campaigns.kind = "sp_campaign"
        /\ Bidding \subseteq update_sp_campaigns.fields
    BY DEF Tools, CampaignAndGroupTools, update_sp_campaigns, Update, Tool
  <1>2. "sp_campaign" \in Kinds
    BY <1>1 DEF Kinds
  <1>3. FieldsOf["sp_campaign"] =
            UNION {t.fields : t \in {u \in Tools : u.op = "update" /\ u.kind = "sp_campaign"}}
    BY <1>2 DEF FieldsOf
  <1> QED
    BY <1>1, <1>2, <1>3

LEMMA RequestFacts ==
    ASSUME NEW r \in Requests
    PROVE  /\ r.tool \in Tools /\ DOMAIN r.given \subseteq r.tool.fields
           /\ \A f \in DOMAIN r.given : r.given[f] \in Numbers
  <1>0. PICK t \in Tools : \E g \in Arguments(t) : r = [tool |-> t, given |-> g]
    BY DEF Requests
  <1>1. PICK g \in Arguments(t) : r = [tool |-> t, given |-> g]
    BY <1>0
  <1>2. PICK fs \in SUBSET Matter(t) : g \in [fs -> Numbers]
    BY DEF Arguments
  <1>3. Matter(t) \subseteq t.fields
    BY ToolsAreOK DEF ToolOK, Matter
  <1> QED
    BY <1>1, <1>2, <1>3

ReadBidding(b) == b \in [Bidding -> {Unset} \cup Numbers] /\ \A f \in Bids : b[f] <= MaxPct

GivenOK(c) ==
    /\ \A f \in DOMAIN given[c] : given[c][f] \in Numbers
    /\ SetsBidding(tool[c], given[c]) => \A f \in Bids \cap DOMAIN given[c] : given[c][f] <= MaxPct

ProgressOK(c) ==
    /\ at[c] # "answer" => writes[c] = 0
    /\ at[c] = "answer" =>
          /\ writes[c] <= 1 /\ (tool[c].op = "list" => writes[c] = 0)
          /\ outcome[c] \in {"listed", "accepted", "rejected", "http_error", "lost"}
          /\ outcome[c] = "listed" => tool[c].op = "list"
          /\ outcome[c] = "accepted" => writes[c] = 1

AccountOK == \A k \in Kinds : account[k] \in [FieldsOf[k] -> {Unset} \cup Numbers]

CampaignOK == CampaignTypeOK /\ AccountOK

CampaignInv ==
    /\ CampaignOK
    /\ DOMAIN account = Kinds /\ DOMAIN given = Callers
    /\ \A c \in Callers : GivenOK(c) /\ ReadBidding(found[c]) /\ ProgressOK(c)

LEMMA CampaignInitially == CampaignInit => CampaignInv
  <1> SUFFICES ASSUME CampaignInit PROVE CampaignInv
    OBVIOUS
  <1>1. MaxPct \in Nat /\ {Unset, 0} \subseteq {Unset} \cup Numbers /\ Unset <= MaxPct
    BY CampaignAssumption DEF Unset, Numbers
  <1>2. PICK bidding \in {Unset, 0} :
            account = [k \in Kinds |-> [f \in FieldsOf[k] |-> IF f \in Bidding THEN bidding ELSE 0]]
    BY DEF CampaignInit
  <1>3. \A k \in Kinds : account[k] \in [FieldsOf[k] -> {Unset} \cup Numbers]
    BY <1>1, <1>2
  <1>4. \A f \in Bids : account["sp_campaign"][f] <= MaxPct
    BY <1>1, <1>2, CampaignTool DEF Bidding
  <1>5. NoBidding \in [Bidding -> {Unset} \cup Numbers] /\ ReadBidding(NoBidding)
    BY <1>1 DEF NoBidding, ReadBidding, Bidding
  <1>6. DOMAIN NoArguments = {}
    BY DEF NoArguments
  <1>7. CampaignOK
    <2>1. /\ tool \in [Callers -> Tools] /\ found \in [Callers -> [Bidding -> {Unset} \cup Numbers]]
          /\ \A c \in Callers : DOMAIN given[c] \subseteq tool[c].fields
      BY <1>5, <1>6, CampaignTool DEF CampaignInit
    <2>2. /\ at \in [Callers -> {"idle", "read", "send", "answer"}]
          /\ outcome \in [Callers -> Outcomes] /\ writes \in [Callers -> Nat]
          /\ made \in 0..MaxCalls
      BY CampaignAssumption DEF CampaignInit, Outcomes
    <2> QED
      BY <1>3, <1>4, <2>1, <2>2 DEF CampaignInit, CampaignOK, CampaignTypeOK, AccountOK
  <1>8. \A c \in Callers : GivenOK(c) /\ ReadBidding(found[c]) /\ ProgressOK(c)
    BY <1>5, <1>6 DEF CampaignInit, GivenOK, ProgressOK
  <1> QED
    BY <1>2, <1>7, <1>8 DEF CampaignInv, CampaignInit

\* A step of c leaves the calls of the others alone; what remains is to show about its own.
LEMMA OneCallMoves ==
    ASSUME CampaignInv, NEW c \in Callers, CampaignOK',
           DOMAIN account' = Kinds, DOMAIN given' = Callers,
           \A d \in Callers \ {c} :
               /\ at'[d] = at[d] /\ tool'[d] = tool[d] /\ given'[d] = given[d]
               /\ found'[d] = found[d] /\ outcome'[d] = outcome[d] /\ writes'[d] = writes[d],
           GivenOK(c)', ReadBidding(found'[c]), ProgressOK(c)'
    PROVE  CampaignInv'
  <1>1. ASSUME NEW d \in Callers \ {c}
        PROVE  GivenOK(d)' /\ ReadBidding(found'[d]) /\ ProgressOK(d)'
    BY DEF CampaignInv, GivenOK, ProgressOK
  <1> QED
    BY <1>1 DEF CampaignInv

LEMMA CallKeeps == ASSUME CampaignInv, NEW c \in Callers, Call(c) PROVE CampaignInv'
  <1>0. /\ CampaignOK /\ DOMAIN given = Callers /\ ReadBidding(found[c])
        /\ DOMAIN account = Kinds /\ GivenOK(c) /\ writes[c] = 0 /\ at[c] = "idle"
        /\ made' = made + 1 /\ made < MaxCalls
        /\ UNCHANGED <<account, archived, hasProfile, found, writes>>
    BY DEF CampaignInv, Call, ProgressOK
  <1>1. made' \in 0..MaxCalls
    BY <1>0, CampaignAssumption DEF CampaignOK, CampaignTypeOK, AccountOK
  <1>2. PICK r \in Requests :
            IF c \notin hasProfile \/ Refused(r.tool, r.given)
            THEN /\ outcome' = [outcome EXCEPT ![c] = IF c \in hasProfile THEN "failed" ELSE "raised"]
                 /\ UNCHANGED <<tool, given, at>>
            ELSE /\ outcome' = [outcome EXCEPT ![c] = "none"]
                 /\ tool' = [tool EXCEPT ![c] = r.tool]
                 /\ given' = [given EXCEPT ![c] = r.given]
                 /\ at' = [at EXCEPT ![c] = IF SetsBidding(r.tool, r.given) THEN "read" ELSE "send"]
    BY DEF Call
  <1>3. CASE c \notin hasProfile \/ Refused(r.tool, r.given)
    <2>1. /\ outcome' \in [Callers -> Outcomes]
          /\ \A d \in Callers \ {c} : outcome'[d] = outcome[d]
      BY <1>0, <1>2, <1>3 DEF CampaignOK, CampaignTypeOK, AccountOK, Outcomes
    <2>2. UNCHANGED <<tool, given, at>>
      BY <1>2, <1>3
    <2>3. CampaignOK'
      BY <1>0, <1>1, <2>1, <2>2 DEF CampaignOK, CampaignTypeOK, AccountOK
    <2>4. GivenOK(c)' /\ ReadBidding(found'[c]) /\ ProgressOK(c)'
      BY <1>0, <2>2 DEF GivenOK, ProgressOK
    <2> QED
      BY <1>0, <2>1, <2>2, <2>3, <2>4, OneCallMoves
  <1>4. CASE ~(c \notin hasProfile \/ Refused(r.tool, r.given))
    <2>0. /\ outcome' = [outcome EXCEPT ![c] = "none"]
          /\ tool' = [tool EXCEPT ![c] = r.tool]
          /\ given' = [given EXCEPT ![c] = r.given]
          /\ at' = [at EXCEPT ![c] = IF SetsBidding(r.tool, r.given) THEN "read" ELSE "send"]
      BY <1>2, <1>4
    <2>1. /\ outcome' \in [Callers -> Outcomes] /\ tool' \in [Callers -> Tools]
          /\ at' \in [Callers -> {"idle", "read", "send", "answer"}]
          /\ DOMAIN given' = Callers
      BY <1>0, <2>0, RequestFacts DEF CampaignOK, CampaignTypeOK, AccountOK, Outcomes
    <2>2. /\ at'[c] # "answer" /\ tool'[c] = r.tool /\ given'[c] = r.given
          /\ \A d \in Callers \ {c} : /\ at'[d] = at[d] /\ tool'[d] = tool[d]
                                      /\ given'[d] = given[d] /\ outcome'[d] = outcome[d]
      BY <1>0, <2>0 DEF CampaignOK, CampaignTypeOK, AccountOK
    <2>3. \A d \in Callers : DOMAIN given'[d] \subseteq tool'[d].fields
      BY <1>0, <2>2, RequestFacts DEF CampaignOK, CampaignTypeOK, AccountOK
    <2>4. CampaignOK'
      BY <1>0, <1>1, <2>1, <2>3 DEF CampaignOK, CampaignTypeOK, AccountOK
    <2>5. GivenOK(c)'
      <3>1. ASSUME SetsBidding(r.tool, r.given), NEW f \in Bids \cap DOMAIN r.given
            PROVE  r.given[f] <= MaxPct
        <4>1. r.tool.op = "update" /\ ~(r.given[f] > MaxPct)
          BY <1>4, <3>1, CampaignTool DEF SetsBidding, Refused
        <4>2. r.given[f] \in Int /\ MaxPct \in Nat
          BY RequestFacts, CampaignAssumption DEF Numbers
        <4> QED
          BY <4>1, <4>2
      <3> QED
        BY <2>2, <3>1, RequestFacts DEF GivenOK
    <2>6. ProgressOK(c)' /\ ReadBidding(found'[c])
      BY <1>0, <2>2 DEF ProgressOK
    <2> QED
      BY <1>0, <2>1, <2>2, <2>4, <2>5, <2>6, OneCallMoves
  <1> QED
    BY <1>3, <1>4

LEMMA EndKeeps ==
    ASSUME CampaignInv, NEW c \in Callers, NEW how \in Outcomes, End(c, how),
           UNCHANGED <<account, archived, hasProfile, made>>
    PROVE  CampaignInv'
  <1>0. CampaignOK /\ DOMAIN given = Callers /\ DOMAIN account = Kinds
    BY DEF CampaignInv
  <1>1. DOMAIN NoArguments = {} /\ ReadBidding(NoBidding)
    BY CampaignAssumption DEF NoArguments, NoBidding, ReadBidding, Unset, Bidding
  <1>2. /\ at'[c] = "idle" /\ tool'[c] = update_sp_campaigns /\ given'[c] = NoArguments
        /\ found'[c] = NoBidding /\ writes'[c] = 0
        /\ \A d \in Callers \ {c} :
               /\ at'[d] = at[d] /\ tool'[d] = tool[d] /\ given'[d] = given[d]
               /\ found'[d] = found[d] /\ outcome'[d] = outcome[d] /\ writes'[d] = writes[d]
    BY <1>0 DEF End, CampaignOK, CampaignTypeOK, AccountOK
  <1>3. CampaignOK'
    <2>1. /\ at' \in [Callers -> {"idle", "read", "send", "answer"}]
          /\ outcome' \in [Callers -> Outcomes] /\ writes' \in [Callers -> Nat]
      BY <1>0 DEF End, CampaignOK, CampaignTypeOK, AccountOK
    <2>2. /\ tool' \in [Callers -> Tools]
          /\ found' \in [Callers -> [Bidding -> {Unset} \cup Numbers]]
      BY <1>0, <1>1, CampaignTool DEF End, CampaignOK, CampaignTypeOK, AccountOK, ReadBidding
    <2>3. \A d \in Callers : DOMAIN given'[d] \subseteq tool'[d].fields
      BY <1>0, <1>1, <1>2 DEF CampaignOK, CampaignTypeOK, AccountOK
    <2> QED
      BY <1>0, <2>1, <2>2, <2>3 DEF CampaignOK, CampaignTypeOK, AccountOK
  <1>4. GivenOK(c)' /\ ReadBidding(found'[c]) /\ ProgressOK(c)' /\ DOMAIN given' = Callers
    BY <1>0, <1>1, <1>2 DEF GivenOK, ProgressOK, End
  <1> QED
    BY <1>0, <1>2, <1>3, <1>4, OneCallMoves

LEMMA PrefetchKeeps == ASSUME CampaignInv, NEW c \in Callers, Prefetch(c) PROVE CampaignInv'
  <1>0. /\ CampaignOK /\ DOMAIN given = Callers /\ DOMAIN account = Kinds
        /\ GivenOK(c) /\ ProgressOK(c) /\ at[c] = "read"
        /\ UNCHANGED <<account, archived, hasProfile, made>>
    BY DEF CampaignInv, Prefetch
  <1>1. ASSUME NEW how \in {"failed", "raised"}, End(c, how) PROVE CampaignInv'
    <2>1. how \in Outcomes
      BY DEF Outcomes
    <2> QED
      BY <1>0, <1>1, <2>1, EndKeeps
  <1>2. ASSUME found' = [found EXCEPT ![c] = Restrict(account["sp_campaign"], Bidding)],
               at' = [at EXCEPT ![c] = "send"],
               UNCHANGED <<tool, given, outcome, writes>>
        PROVE  CampaignInv'
    <2>1. ReadBidding(Restrict(account["sp_campaign"], Bidding))
      BY <1>0, CampaignTool DEF CampaignOK, CampaignTypeOK, AccountOK, Restrict, ReadBidding, Bidding
    <2>2. /\ found' \in [Callers -> [Bidding -> {Unset} \cup Numbers]]
          /\ at' \in [Callers -> {"idle", "read", "send", "answer"}]
          /\ found'[c] = Restrict(account["sp_campaign"], Bidding) /\ at'[c] = "send"
          /\ \A d \in Callers \ {c} : at'[d] = at[d] /\ found'[d] = found[d]
      BY <1>0, <1>2, <2>1 DEF CampaignOK, CampaignTypeOK, AccountOK, ReadBidding
    <2>3. CampaignOK'
      BY <1>0, <1>2, <2>2 DEF CampaignOK, CampaignTypeOK, AccountOK
    <2>4. GivenOK(c)' /\ ReadBidding(found'[c]) /\ ProgressOK(c)'
      BY <1>0, <1>2, <2>1, <2>2 DEF GivenOK, ProgressOK
    <2> QED
      BY <1>0, <1>2, <2>2, <2>3, <2>4, OneCallMoves
  <1> QED
    BY <1>1, <1>2 DEF Prefetch

\* What an update makes of the entity it is sent to.
LEMMA UpdateFacts ==
    ASSUME CampaignInv, NEW c \in Callers, tool[c].op = "update", NEW k, k = tool[c].kind
    PROVE  /\ k \in Kinds
           /\ Updated(c, account[k]) \in [FieldsOf[k] -> {Unset} \cup Numbers]
           /\ k = "sp_campaign" => \A f \in Bids : Updated(c, account[k])[f] <= MaxPct
           /\ \A f \in FieldsOf[k] :
                 \/ Updated(c, account[k])[f] = account[k][f]
                 \/ f \in DOMAIN given[c] \cup BudgetType(given[c])
                 \/ k = "sp_campaign" /\ f \in Bidding /\ SetsBidding(tool[c], given[c])
           /\ tool[c] = update_sp_campaigns
              /\ found[c] = Restrict(account["sp_campaign"], Bidding) =>
                 \A f \in Bidding \ DOMAIN given[c] :
                    Updated(c, account[k])[f] = account["sp_campaign"][f]
  <1>0. CampaignOK /\ GivenOK(c) /\ ReadBidding(found[c]) /\ k \in Kinds
    BY DEF CampaignInv, CampaignOK, CampaignTypeOK, AccountOK, Kinds
  <1> DEFINE sets == SetsBidding(tool[c], given[c])
             payload == Payload(tool[c], given[c])
  <1>1. sets => k = "sp_campaign"
    BY CampaignTool DEF SetsBidding
  <1>2. /\ DOMAIN payload = (DOMAIN given[c] \cup BudgetType(given[c])) \ Bidding
        /\ \A f \in DOMAIN payload : payload[f] \in Numbers
    BY <1>0, CampaignAssumption DEF Payload, GivenOK, Numbers
  <1>3. \A f \in Bidding : Merged(c)[f] = IF f \in DOMAIN given[c] THEN given[c][f] ELSE found[c][f]
    BY DEF Merged
  <1>4. \A f \in Bidding : Merged(c)[f] \in {Unset} \cup Numbers
    BY <1>0, <1>3 DEF GivenOK, ReadBidding
  <1>5. sets => \A f \in Bids : Merged(c)[f] <= MaxPct
    BY <1>0, <1>3 DEF GivenOK, ReadBidding, Bidding
  <1>6. account[k] \in [FieldsOf[k] -> {Unset} \cup Numbers]
    BY <1>0 DEF CampaignOK, CampaignTypeOK, AccountOK
  <1>7. \A f \in FieldsOf[k] : Updated(c, account[k])[f] =
            IF f \in Bidding /\ sets THEN Merged(c)[f]
            ELSE IF f \in DOMAIN payload THEN payload[f] ELSE account[k][f]
    BY <1>6 DEF Updated
  <1>8. Updated(c, account[k]) \in [FieldsOf[k] -> {Unset} \cup Numbers]
    <2>1. \A f \in FieldsOf[k] : Updated(c, account[k])[f] \in {Unset} \cup Numbers
      BY <1>2, <1>4, <1>6, <1>7
    <2>2. Updated(c, account[k]) = [f \in FieldsOf[k] |-> Updated(c, account[k])[f]]
      BY <1>6 DEF Updated
    <2> HIDE DEF sets, payload
    <2> QED
      BY <2>1, <2>2
  <1>9. ASSUME k = "sp_campaign", NEW f \in Bids PROVE Updated(c, account[k])[f] <= MaxPct
    <2>1. f \in FieldsOf[k] /\ f \in Bidding /\ f \notin DOMAIN payload
      BY <1>2, <1>9, CampaignTool DEF Bidding
    <2>2. account[k][f] <= MaxPct
      BY <1>0, <1>9 DEF CampaignOK, CampaignTypeOK, AccountOK
    <2> QED
      BY <1>5, <1>7, <2>1, <2>2
  <1>10. ASSUME NEW f \in FieldsOf[k]
         PROVE  \/ Updated(c, account[k])[f] = account[k][f]
                \/ f \in DOMAIN given[c] \cup BudgetType(given[c])
                \/ k = "sp_campaign" /\ f \in Bidding /\ SetsBidding(tool[c], given[c])
    BY <1>1, <1>2, <1>7
  <1>11. ASSUME tool[c] = update_sp_campaigns,
                found[c] = Restrict(account["sp_campaign"], Bidding),
                NEW f \in Bidding \ DOMAIN given[c]
         PROVE  Updated(c, account[k])[f] = account["sp_campaign"][f]
    <2>1. k = "sp_campaign" /\ f \in FieldsOf[k]
      BY <1>11, CampaignTool
    <2>2. f \notin DOMAIN payload
      BY <1>2
    <2>3. found[c][f] = account["sp_campaign"][f]
      BY <1>11 DEF Restrict
    <2> QED
      BY <1>3, <1>7, <2>1, <2>2, <2>3
  <1> QED
    BY <1>0, <1>8, <1>9, <1>10, <1>11

\* What the service may do: nothing, or, for what is no list, one change of it.
LEMMA ApplyFacts ==
    ASSUME CampaignInv, NEW c \in Callers, Apply(c)
    PROVE  /\ at' = [at EXCEPT ![c] = "answer"]
           /\ UNCHANGED <<hasProfile, tool, given, found, made>>
           /\ outcome' \in {[outcome EXCEPT ![c] = said] : said \in
                   {IF tool[c].op = "list" THEN "listed" ELSE "accepted", "http_error", "lost"}}
           /\ IF tool[c].op = "list" THEN UNCHANGED writes
              ELSE writes' = [writes EXCEPT ![c] = @ + 1]
           /\ archived' \subseteq Kinds
           /\ \/ UNCHANGED account
              \/ /\ tool[c].op = "update"
                 /\ account' = [account EXCEPT ![tool[c].kind] = Updated(c, @)]
  <1>1. tool[c] \in Tools /\ tool[c].kind \in Kinds /\ archived \subseteq Kinds
    BY DEF CampaignInv, CampaignOK, CampaignTypeOK, AccountOK, Kinds
  <1>2. tool[c].op \in {"update", "archive", "create", "list"}
    BY <1>1, ToolsAreOK DEF ToolOK
  <1>3. /\ IF tool[c].op = "list" THEN UNCHANGED writes
           ELSE writes' = [writes EXCEPT ![c] = @ + 1]
        /\ archived' \subseteq Kinds
        /\ \/ UNCHANGED account
           \/ /\ tool[c].op = "update"
              /\ account' = [account EXCEPT ![tool[c].kind] = Updated(c, @)]
    <2>1. CASE tool[c].op = "list"
      BY <1>1, <2>1 DEF Apply
    <2>2. CASE tool[c].op = "create"
      BY <1>1, <2>2 DEF Apply
    <2>3. CASE tool[c].op = "archive"
      BY <1>1, <2>3 DEF Apply
    <2>4. CASE tool[c].op = "update"
      BY <1>1, <2>4 DEF Apply
    <2> QED
      BY <1>2, <2>1, <2>2, <2>3, <2>4
  <1>4. outcome' \in {[outcome EXCEPT ![c] = said] : said \in
                   {IF tool[c].op = "list" THEN "listed" ELSE "accepted", "http_error", "lost"}}
    BY DEF Apply
  <1> QED
    BY <1>3, <1>4 DEF Apply

LEMMA ApplyKeeps == ASSUME CampaignInv, NEW c \in Callers, Apply(c) PROVE CampaignInv'
  <1>0. /\ CampaignOK /\ DOMAIN given = Callers /\ DOMAIN account = Kinds
        /\ GivenOK(c) /\ ReadBidding(found[c]) /\ writes[c] = 0
    BY DEF CampaignInv, ProgressOK, Apply
  <1>1. PICK said \in {IF tool[c].op = "list" THEN "listed" ELSE "accepted", "http_error", "lost"} :
            outcome' = [outcome EXCEPT ![c] = said]
    BY ApplyFacts
  <1>11. /\ at' \in [Callers -> {"idle", "read", "send", "answer"}] /\ at'[c] = "answer"
        /\ \A d \in Callers \ {c} : at'[d] = at[d]
    BY <1>0 DEF Apply, CampaignOK, CampaignTypeOK, AccountOK
  <1>12. /\ outcome' \in [Callers -> Outcomes] /\ outcome'[c] = said
        /\ \A d \in Callers \ {c} : outcome'[d] = outcome[d]
    BY <1>0, <1>1 DEF CampaignOK, CampaignTypeOK, AccountOK, Outcomes
  <1>13. /\ writes' \in [Callers -> Nat] /\ writes'[c] = IF tool[c].op = "list" THEN 0 ELSE 1
        /\ \A d \in Callers \ {c} : writes'[d] = writes[d]
    <2>1. IF tool[c].op = "list" THEN UNCHANGED writes ELSE writes' = [writes EXCEPT ![c] = @ + 1]
      BY ApplyFacts
    <2> QED
      BY <1>0, <2>1 DEF CampaignOK, CampaignTypeOK, AccountOK
  <1>2. /\ at' \in [Callers -> {"idle", "read", "send", "answer"}]
        /\ outcome' \in [Callers -> Outcomes] /\ writes' \in [Callers -> Nat]
    BY <1>11, <1>12, <1>13
  <1>3. /\ at'[c] = "answer" /\ outcome'[c] = said
        /\ writes'[c] = IF tool[c].op = "list" THEN 0 ELSE 1
        /\ \A d \in Callers \ {c} :
               at'[d] = at[d] /\ outcome'[d] = outcome[d] /\ writes'[d] = writes[d]
    BY <1>11, <1>12, <1>13
  <1>4. /\ DOMAIN account' = Kinds
        /\ \A k \in Kinds : account'[k] \in [FieldsOf[k] -> {Unset} \cup Numbers]
        /\ \A f \in Bids : account'["sp_campaign"][f] <= MaxPct
    <2>1. CASE UNCHANGED account
      BY <1>0, <2>1 DEF CampaignOK, CampaignTypeOK, AccountOK
    <2>2. CASE /\ tool[c].op = "update"
               /\ account' = [account EXCEPT ![tool[c].kind] = Updated(c, @)]
      <3>1. /\ tool[c].kind \in Kinds
            /\ account' = [account EXCEPT ![tool[c].kind] = Updated(c, account[tool[c].kind])]
        BY <1>0, <2>2, UpdateFacts
      <3>2. \A k \in Kinds : account'[k] =
                IF k = tool[c].kind THEN Updated(c, account[k]) ELSE account[k]
        BY <1>0, <3>1
      <3>3. DOMAIN account' = Kinds
        BY <1>0, <2>2
      <3>4. ASSUME NEW k \in Kinds
            PROVE  account'[k] \in [FieldsOf[k] -> {Unset} \cup Numbers]
        <4>1. CASE k = tool[c].kind
          BY <2>2, <3>2, <4>1, UpdateFacts
        <4>2. CASE k # tool[c].kind
          BY <1>0, <3>2, <4>2 DEF CampaignOK, CampaignTypeOK, AccountOK
        <4> QED
          BY <4>1, <4>2
      <3>5. ASSUME NEW f \in Bids PROVE account'["sp_campaign"][f] <= MaxPct
        <4>1. CASE tool[c].kind = "sp_campaign"
          BY <2>2, <3>2, <4>1, UpdateFacts
        <4>2. CASE tool[c].kind # "sp_campaign"
          BY <1>0, <3>2, <4>2, CampaignTool DEF CampaignOK, CampaignTypeOK, AccountOK
        <4> QED
          BY <4>1, <4>2
      <3> QED
        BY <3>3, <3>4, <3>5
    <2> QED
      BY <2>1, <2>2, ApplyFacts
  <1>5. CampaignOK'
    BY <1>0, <1>2, <1>4, ApplyFacts DEF CampaignOK, CampaignTypeOK, AccountOK
  <1>6. GivenOK(c)' /\ ReadBidding(found'[c]) /\ ProgressOK(c)'
    BY <1>0, <1>3, ApplyFacts DEF GivenOK, ProgressOK
  <1> QED
    BY <1>0, <1>3, <1>4, <1>5, <1>6, ApplyFacts, OneCallMoves

LEMMA DeclineKeeps == ASSUME CampaignInv, NEW c \in Callers, Decline(c) PROVE CampaignInv'
  <1>0. /\ CampaignOK /\ DOMAIN given = Callers /\ DOMAIN account = Kinds
        /\ GivenOK(c) /\ ReadBidding(found[c]) /\ writes[c] = 0
    BY DEF CampaignInv, ProgressOK, Decline
  <1>1. /\ at' \in [Callers -> {"idle", "read", "send", "answer"}]
        /\ outcome' \in [Callers -> Outcomes]
        /\ at'[c] = "answer" /\ outcome'[c] \in {"rejected", "http_error", "lost"}
        /\ \A d \in Callers \ {c} : at'[d] = at[d] /\ outcome'[d] = outcome[d]
    BY <1>0 DEF Decline, CampaignOK, CampaignTypeOK, AccountOK, Outcomes
  <1>2. CampaignOK'
    BY <1>0, <1>1 DEF Decline, CampaignOK, CampaignTypeOK, AccountOK
  <1>3. GivenOK(c)' /\ ReadBidding(found'[c]) /\ ProgressOK(c)'
    BY <1>0, <1>1 DEF Decline, GivenOK, ProgressOK
  <1> QED
    BY <1>0, <1>1, <1>2, <1>3, OneCallMoves DEF Decline

\* How a call ends that the service has answered, or not.
Ending(said) == CASE said \in {"listed", "accepted"} -> "done"
                  [] said \in {"rejected", "http_error"} -> "failed"
                  [] said = "lost" -> "raised"

LEMMA ConcludeFacts ==
    ASSUME CampaignInv, NEW c \in Callers, Conclude(c)
    PROVE  /\ End(c, Ending(outcome[c])) /\ Ending(outcome[c]) \in Outcomes
           /\ Ending(outcome[c]) = "done" <=> outcome[c] \in {"listed", "accepted"}
  <1>1. outcome[c] \in {"listed", "accepted", "rejected", "http_error", "lost"}
    BY DEF CampaignInv, ProgressOK, Conclude
  <1> QED
    BY <1>1 DEF Conclude, Ending, Outcomes

LEMMA ConcludeKeeps == ASSUME CampaignInv, NEW c \in Callers, Conclude(c) PROVE CampaignInv'
  BY ConcludeFacts, EndKeeps DEF Conclude

LEMMA CampaignStep == CampaignInv /\ [CampaignNext]_campaignVars => CampaignInv'
  <1> SUFFICES ASSUME CampaignInv, [CampaignNext]_campaignVars PROVE CampaignInv'
    OBVIOUS
  <1>1. ASSUME NEW c \in Callers, Call(c) \/ Prefetch(c) \/ Apply(c) \/ Decline(c) \/ Conclude(c)
        PROVE  CampaignInv'
    BY <1>1, CallKeeps, PrefetchKeeps, ApplyKeeps, DeclineKeeps, ConcludeKeeps
  <1>2. CASE UNCHANGED campaignVars
    BY <1>2 DEF campaignVars, CampaignInv, CampaignOK, CampaignTypeOK, AccountOK, GivenOK, ProgressOK
  <1> QED
    BY <1>1, <1>2 DEF CampaignNext

LEMMA CampaignInvariant == CampaignSpec => []CampaignInv
  BY CampaignInitially, CampaignStep, PTL DEF CampaignSpec

\* No bid adjustment out of range comes into the account, also by a merge with what was
\* read before. (update_sp_campaigns.)
THEOREM CampaignTypes == CampaignSpec => []CampaignTypeOK
  BY CampaignInvariant, PTL DEF CampaignInv, CampaignOK

\* No call of a tool changes the account twice, and no list changes it. (The tools of
\* campaign_management.py make one request and never retry it.)
THEOREM CallsWriteOnce == CampaignSpec => []AtMostOneWrite
  <1>1. CampaignInv => AtMostOneWrite
    <2> SUFFICES ASSUME CampaignInv, NEW c \in Callers
                 PROVE  writes[c] <= IF tool[c].op = "list" THEN 0 ELSE 1
      BY DEF AtMostOneWrite
    <2>1. writes[c] \in Nat /\ ProgressOK(c)
      BY DEF CampaignInv, CampaignOK, CampaignTypeOK, AccountOK
    <2> QED
      BY <2>1 DEF ProgressOK
  <1> QED
    BY <1>1, CampaignInvariant, PTL

\* A step that moves a call moves no other one.
LEMMA OnlyOneAnswers ==
    ASSUME CampaignInv, [CampaignNext]_campaignVars, NEW c \in Callers, at'[c] # at[c]
    PROVE  \/ Call(c) \/ Prefetch(c) \/ Apply(c) \/ Decline(c) \/ Conclude(c)
  <1>1. PICK d \in Callers : Call(d) \/ Prefetch(d) \/ Apply(d) \/ Decline(d) \/ Conclude(d)
    BY DEF CampaignNext, campaignVars
  <1>2. at \in [Callers -> {"idle", "read", "send", "answer"}]
    BY DEF CampaignInv, CampaignOK, CampaignTypeOK, AccountOK
  <1>3. \A x \in Callers \ {d} : at'[x] = at[x]
    BY <1>1, <1>2 DEF Call, Prefetch, Apply, Decline, Conclude, End
  <1> QED
    BY <1>1, <1>3

\* Whatever overlaps with it and whatever answer is lost, a call that reports success has
\* made its change, and a call changes nothing that its caller did not name; bids that
\* were not named keep their values if nobody has written in between.
\* (update_sp_campaigns and the other tools of campaign_management.py.)
THEOREM UpdatesChangeWhatWasNamed == CampaignSpec => UpdatesAreExact
  <1>1. ASSUME CampaignInv, [CampaignNext]_campaignVars, NEW c \in Callers,
               at[c] = "answer", at'[c] = "idle", tool[c].op # "list"
        PROVE  /\ outcome'[c] = "done" => writes[c] = 1
               /\ outcome[c] = "accepted" => outcome'[c] = "done"
    <2>1. Conclude(c)
      BY <1>1, OnlyOneAnswers DEF Call, Prefetch, Apply, Decline
    <2>2. outcome'[c] = Ending(outcome[c]) /\ ProgressOK(c)
      BY <2>1, <1>1, ConcludeFacts DEF End, CampaignInv, CampaignOK, CampaignTypeOK, AccountOK
    <2> QED
      BY <1>1, <2>1, <2>2, ConcludeFacts DEF ProgressOK
  <1>2. ASSUME CampaignInv, [CampaignNext]_campaignVars, NEW c \in Callers,
               at[c] = "send", at'[c] = "answer"
        PROVE  \/ UNCHANGED account
               \/ /\ tool[c].op = "update" /\ tool[c].kind \in Kinds
                  /\ \A k \in Kinds : account'[k] =
                        IF k = tool[c].kind THEN Updated(c, account[k]) ELSE account[k]
    <2>1. Apply(c) \/ Decline(c)
      <3>1. at'[c] # at[c] /\ CampaignOK
        BY <1>2 DEF CampaignInv
      <3>2. Call(c) \/ Prefetch(c) \/ Apply(c) \/ Decline(c) \/ Conclude(c)
        BY <1>2, <3>1, OnlyOneAnswers
      <3> QED
        BY <1>2, <3>1, <3>2 DEF Call, Prefetch, Conclude
    <2>2. CASE Decline(c)
      BY <2>2 DEF Decline
    <2>3. CASE Apply(c)
      <3>1. CASE UNCHANGED account
        BY <3>1
      <3>2. CASE /\ tool[c].op = "update"
                 /\ account' = [account EXCEPT ![tool[c].kind] = Updated(c, @)]
        <4>1. DOMAIN account = Kinds /\ tool[c].kind \in Kinds
          BY <1>2, <3>2, UpdateFacts DEF CampaignInv
        <4>2. \A k \in Kinds : account'[k] =
                  IF k = tool[c].kind THEN Updated(c, account[k]) ELSE account[k]
          BY <3>2, <4>1
        <4> QED
          BY <3>2, <4>1, <4>2
      <3> QED
        BY <1>2, <2>3, <3>1, <3>2, ApplyFacts
    <2> QED
      BY <2>1, <2>2, <2>3
  <1>3. ASSUME CampaignInv, [CampaignNext]_campaignVars, NEW c \in Callers,
               at[c] = "send", at'[c] = "answer",
               NEW k \in Kinds, account'[k] # account[k], NEW f \in FieldsOf[k]
        PROVE  \/ Kept(f, k)
               \/ k = tool[c].kind /\ f \in DOMAIN given[c] \cup BudgetType(given[c])
               \/ k = "sp_campaign" /\ f \in Bidding /\ SetsBidding(tool[c], given[c])
    <2>1. k = tool[c].kind /\ tool[c].op = "update" /\ account'[k] = Updated(c, account[k])
      BY <1>2, <1>3
    <2> QED
      BY <1>3, <2>1, UpdateFacts DEF Kept
  <1>4. ASSUME CampaignInv, [CampaignNext]_campaignVars, NEW c \in Callers,
               at[c] = "send", at'[c] = "answer", tool[c] = update_sp_campaigns,
               found[c] = Restrict(account["sp_campaign"], Bidding),
               NEW f \in Bidding \ DOMAIN given[c]
        PROVE  Kept(f, "sp_campaign")
    <2>1. \/ UNCHANGED account
          \/ account'["sp_campaign"] = Updated(c, account["sp_campaign"])
      BY <1>2, <1>4, CampaignTool
    <2>2. tool[c].op = "update" /\ tool[c].kind = "sp_campaign"
      BY <1>4, CampaignTool
    <2> QED
      BY <1>4, <2>1, <2>2, UpdateFacts DEF Kept
  <1>5. CampaignInv /\ [CampaignNext]_campaignVars =>
        \A c \in Callers : at[c] = "answer" /\ at'[c] = "idle" /\ tool[c].op # "list" =>
            /\ outcome'[c] = "done" => writes[c] = 1
            /\ outcome[c] = "accepted" => outcome'[c] = "done"
    BY <1>1
  <1>6. CampaignInv /\ [CampaignNext]_campaignVars =>
        \A c \in Callers : at[c] = "send" /\ at'[c] = "answer" =>
            \A k \in Kinds : account'[k] # account[k] => \A f \in FieldsOf[k] :
                \/ Kept(f, k)
                \/ k = tool[c].kind /\ f \in DOMAIN given[c] \cup BudgetType(given[c])
                \/ k = "sp_campaign" /\ f \in Bidding /\ SetsBidding(tool[c], given[c])
    BY <1>3
  <1>7. CampaignInv /\ [CampaignNext]_campaignVars =>
        \A c \in Callers :
            /\ at[c] = "send" /\ at'[c] = "answer" /\ tool[c] = update_sp_campaigns
            /\ found[c] = Restrict(account["sp_campaign"], Bidding)
            => \A f \in Bidding \ DOMAIN given[c] : Kept(f, "sp_campaign")
    BY <1>4
  <1> QED
    BY <1>5, <1>6, <1>7, CampaignInvariant, PTL
    DEF CampaignSpec, UpdatesAreExact, ReportIsTrue, OnlyWhatWasNamed, UnnamedBidsRetained

-----------------------------------------------------------------------------
(* Profile lists. While no region is switched under a call, the key it looked *)
(* up is the place it asks; what it returns is at least as recent as the time *)
(* it began, or as an entry that was not expired then.                        *)

Waiting == {"credentials", "request", "response"}

EntryOK(k) == entries[k] # NoList =>
    /\ entries[k].of \in Keys /\ entries[k].of[1] = k[1]
    /\ ~switched => entries[k].of = k
    /\ entries[k].stamp <= entries[k].read

ListCallOK(c) ==
    /\ stage[c] \in Waiting =>
          /\ key[c] \in Keys /\ key[c][1] = caller[c]
          /\ ~switched => listRegion[caller[c]] = key[c][2]
          /\ backup[c] # NoList => backup[c].of \in Keys /\ backup[c].of[1] = caller[c]
    /\ stage[c] \in {"request", "response"} /\ ~switched => url[c] = key[c][2]
    /\ stage[c] = "response" =>
          /\ got[c].of = <<caller[c], url[c]>>
          /\ begun[c] <= got[c].read /\ got[c].read <= clock
    /\ stage[c] \in {"returned", "choosing"} => got[c].of \in Keys /\ got[c].of[1] = caller[c]
    /\ stage[c] = "returned" /\ ~flagged[c] => got[c].read >= begun[c] - ListTtl
    /\ chosen[c] # <<>> => chosen[c][1] = caller[c]

ListInv ==
    /\ ListingTypeOK
    /\ \A k \in Keys : EntryOK(k)
    /\ \A c \in ListCalls : ListCallOK(c)

LEMMA ListFacts ==
    /\ ListTtl \in Nat /\ MaxClock \in Nat /\ NoList \in Lists /\ 0 \in Times
    /\ Places = Keys \cup {<<>>}
    /\ \A k \in Keys : k # <<>> /\ k[1] \in Identities /\ k[2] \in ListRegions
                       /\ k = <<k[1], k[2]>>
    /\ \A i \in Identities, r \in ListRegions :
          <<i, r>> \in Keys /\ <<i, r>>[1] = i /\ <<i, r>>[2] = r
  <1>1. ListTtl \in Nat /\ MaxClock \in Nat /\ NoList \in Lists /\ 0 \in Times
    BY ListingAssumption DEF NoList, Lists, Places, Times
  <1>0. Places = Keys \cup {<<>>}
    BY DEF NoList, Places
  <1>2. ASSUME NEW k \in Keys
        PROVE  k # <<>> /\ k[1] \in Identities /\ k[2] \in ListRegions /\ k = <<k[1], k[2]>>
    BY DEF Keys
  <1> QED
    BY <1>0, <1>1, <1>2 DEF Keys

LEMMA ListInitially == ListInit => ListInv
  <1> SUFFICES ASSUME ListInit PROVE ListInv
    OBVIOUS
  <1>1. ListingTypeOK
    <2>1. listRegion \in [Identities -> ListRegions]
      BY DEF ListInit
    <2>2. url \in [ListCalls -> ListRegions]
      BY <2>1 DEF ListInit
    <2>3. entries \in [Keys -> Lists] /\ \A k \in Keys : entries[k].stamp <= 0 /\ entries[k].read <= 0
      BY ListFacts DEF ListInit, NoList
    <2>4. /\ stage \in [ListCalls -> Stages] /\ flagged \in [ListCalls -> BOOLEAN]
          /\ key \in [ListCalls -> Places] /\ chosen \in [ListCalls -> Places]
      BY ListFacts DEF ListInit, Stages
    <2>5. /\ backup \in [ListCalls -> Lists] /\ got \in [ListCalls -> Lists]
          /\ begun \in [ListCalls -> Times] /\ \A c \in ListCalls : begun[c] <= 0
      BY ListFacts DEF ListInit
    <2>6. clock = 0 /\ switched \in BOOLEAN /\ caller \in [ListCalls -> Identities]
      BY DEF ListInit
    <2> QED
      BY <2>1, <2>2, <2>3, <2>4, <2>5, <2>6, ListFacts DEF ListingTypeOK
  <1>2. \A k \in Keys : EntryOK(k)
    BY DEF ListInit, EntryOK
  <1>3. \A c \in ListCalls : ListCallOK(c)
    BY DEF ListInit, ListCallOK, Waiting
  <1> QED
    BY <1>1, <1>2, <1>3 DEF ListInv

\* A step of one call leaves the others alone.
LEMMA OneListMoves ==
    ASSUME ListInv, NEW c \in ListCalls, ListingTypeOK',
           UNCHANGED <<clock, listRegion, caller, switched>>,
           \A d \in ListCalls \ {c} :
               /\ stage'[d] = stage[d] /\ begun'[d] = begun[d] /\ key'[d] = key[d]
               /\ backup'[d] = backup[d] /\ url'[d] = url[d] /\ got'[d] = got[d]
               /\ flagged'[d] = flagged[d] /\ chosen'[d] = chosen[d],
           \A k \in Keys : EntryOK(k)', ListCallOK(c)'
    PROVE  ListInv'
  <1>1. ASSUME NEW d \in ListCalls \ {c} PROVE ListCallOK(d)'
    BY DEF ListInv, ListCallOK
  <1> QED
    BY <1>1 DEF ListInv

LEMMA LookupKeeps ==
    ASSUME ListInv, NEW c \in ListCalls, NEW force \in BOOLEAN, Lookup(c, force)
    PROVE  ListInv'
  <1> DEFINE k == CacheKey(c)
             entry == entries[k]
             hit == entry # NoList /\ ~force /\ ~Expired(entry)
  <1>0. ListingTypeOK /\ stage[c] = "new" /\ \A q \in Keys : EntryOK(q)
    BY DEF ListInv, Lookup
  <1>1. k \in Keys /\ k[1] = caller[c] /\ k[2] = listRegion[caller[c]] /\ entry \in Lists
    BY <1>0, ListFacts DEF CacheKey, ListingTypeOK
  <1>2. /\ stage' = [stage EXCEPT ![c] = IF hit THEN "returned" ELSE "credentials"]
        /\ got' = [got EXCEPT ![c] = IF hit THEN entry ELSE got[c]]
        /\ backup' = [backup EXCEPT ![c] = IF hit THEN NoList ELSE entry]
        /\ begun' = [begun EXCEPT ![c] = clock]
        /\ key' = [key EXCEPT ![c] = k]
        /\ UNCHANGED <<clock, listRegion, entries, caller, url, flagged, chosen, switched>>
    BY DEF Lookup
  <1> HIDE DEF k
  <1>3. ListingTypeOK'
    <2>1. /\ stage' \in [ListCalls -> Stages] /\ got' \in [ListCalls -> Lists]
          /\ backup' \in [ListCalls -> Lists] /\ begun' \in [ListCalls -> Times]
          /\ key' \in [ListCalls -> Places]
      BY <1>0, <1>1, <1>2, ListFacts DEF ListingTypeOK, Stages
    <2>2. \A d \in ListCalls : begun'[d] <= clock
      BY <1>0, <1>2 DEF ListingTypeOK, Times
    <2> QED
      BY <1>0, <1>2, <2>1, <2>2 DEF ListingTypeOK
  <1>4. /\ stage'[c] = IF hit THEN "returned" ELSE "credentials"
        /\ hit => got'[c] = entry
        /\ ~hit => backup'[c] = entry
        /\ begun'[c] = clock /\ key'[c] = k
    BY <1>0, <1>2 DEF ListingTypeOK
  <1>5. hit => entry.read >= clock - ListTtl
    <2>1. entry.stamp \in Nat /\ entry.read \in Nat /\ clock \in Nat
      BY <1>0, <1>1 DEF ListingTypeOK, Lists, Times
    <2>2. entry # NoList => entry.stamp <= entry.read
      BY <1>0, <1>1 DEF EntryOK
    <2> QED
      BY <2>1, <2>2, ListFacts DEF Expired
  <1>6. entry # NoList => entry.of \in Keys /\ entry.of[1] = caller[c]
    BY <1>0, <1>1 DEF EntryOK
  <1>7. ListCallOK(c)'
    <2>1. chosen[c] # <<>> => chosen[c][1] = caller[c]
      BY DEF ListInv, ListCallOK
    <2>2. CASE hit
      <3>1. stage'[c] = "returned" /\ got'[c] = entry /\ begun'[c] = clock
        BY <1>4, <2>2
      <3> HIDE DEF entry, hit
      <3> QED
        BY <1>2, <1>5, <1>6, <2>1, <2>2, <3>1 DEF ListCallOK, Waiting, hit
    <2>3. CASE ~hit
      <3>1. stage'[c] = "credentials" /\ backup'[c] = entry /\ key'[c] = k
        BY <1>4, <2>3
      <3> HIDE DEF entry, hit
      <3> QED
        BY <1>1, <1>2, <1>6, <2>1, <3>1 DEF ListCallOK, Waiting
    <2> QED
      BY <2>2, <2>3
  <1>8. \A q \in Keys : EntryOK(q)'
    BY <1>0, <1>2 DEF EntryOK
  <1>9. \A d \in ListCalls \ {c} :
            /\ stage'[d] = stage[d] /\ begun'[d] = begun[d] /\ key'[d] = key[d]
            /\ backup'[d] = backup[d] /\ got'[d] = got[d]
    BY <1>0, <1>2 DEF ListingTypeOK
  <1> QED
    BY <1>2, <1>3, <1>7, <1>8, <1>9, OneListMoves

LEMMA AskKeeps == ASSUME ListInv, NEW c \in ListCalls, Ask(c) PROVE ListInv'
  <1>0. /\ ListingTypeOK /\ ListCallOK(c) /\ stage[c] = "credentials" /\ \A q \in Keys : EntryOK(q)
        /\ UNCHANGED <<clock, listRegion, entries, caller, begun, key, backup, got,
                       flagged, chosen, switched>>
    BY DEF ListInv, Ask
  <1>1. /\ stage' \in [ListCalls -> Stages] /\ url' \in [ListCalls -> ListRegions]
        /\ stage'[c] = "request" /\ url'[c] = listRegion[caller[c]]
        /\ \A d \in ListCalls \ {c} : stage'[d] = stage[d] /\ url'[d] = url[d]
    BY <1>0 DEF Ask, ListingTypeOK, Stages
  <1>2. ListingTypeOK' /\ \A q \in Keys : EntryOK(q)'
    BY <1>0, <1>1 DEF ListingTypeOK, EntryOK
  <1>3. ListCallOK(c)'
    BY <1>0, <1>1 DEF ListCallOK, Waiting
  <1> QED
    BY <1>0, <1>1, <1>2, <1>3, OneListMoves

LEMMA ServeKeeps == ASSUME ListInv, NEW c \in ListCalls, Serve(c) PROVE ListInv'
  <1>0. /\ ListingTypeOK /\ ListCallOK(c) /\ stage[c] = "request" /\ \A q \in Keys : EntryOK(q)
        /\ UNCHANGED <<clock, listRegion, entries, caller, begun, key, backup, url,
                       flagged, chosen, switched>>
    BY DEF ListInv, Serve
  <1> DEFINE answer == [of |-> <<caller[c], url[c]>>, read |-> clock, stamp |-> 0]
  <1>1. answer \in Lists
    BY <1>0, ListFacts DEF ListingTypeOK, Lists
  <1>2. /\ stage' \in [ListCalls -> Stages] /\ got' \in [ListCalls -> Lists]
        /\ stage'[c] = "response" /\ got'[c] = answer
        /\ \A d \in ListCalls \ {c} : stage'[d] = stage[d] /\ got'[d] = got[d]
    BY <1>0, <1>1 DEF Serve, ListingTypeOK, Stages
  <1>3. ListingTypeOK' /\ \A q \in Keys : EntryOK(q)'
    BY <1>0, <1>2 DEF ListingTypeOK, EntryOK
  <1>4. clock <= clock /\ begun[c] <= clock
    BY <1>0 DEF ListingTypeOK, Times
  <1>5. ListCallOK(c)'
    BY <1>0, <1>2, <1>4 DEF ListCallOK, Waiting
  <1> QED
    BY <1>0, <1>2, <1>3, <1>5, OneListMoves

LEMMA KeepKeeps == ASSUME ListInv, NEW c \in ListCalls, Keep(c) PROVE ListInv'
  <1>0. /\ ListingTypeOK /\ ListCallOK(c) /\ stage[c] = "response" /\ \A q \in Keys : EntryOK(q)
        /\ UNCHANGED <<clock, listRegion, caller, begun, key, backup, url, flagged,
                       chosen, switched>>
    BY DEF ListInv, Keep
  <1> DEFINE entry == [got[c] EXCEPT !.stamp = Stamp(c)]
  <1>1. /\ entry \in Lists /\ entry.of = <<caller[c], url[c]>> /\ entry.stamp = begun[c]
        /\ entry.read = got[c].read
    BY <1>0 DEF ListingTypeOK, Lists, Stamp, ListCallOK
  <1>2. /\ key[c] \in Keys /\ key[c][1] = caller[c] /\ (~switched => url[c] = key[c][2])
        /\ begun[c] <= entry.read /\ entry.read <= clock
        /\ entry.of \in Keys /\ entry.of[1] = key[c][1] /\ (~switched => entry.of = key[c])
    <2>1. /\ key[c] \in Keys /\ key[c][1] = caller[c] /\ (~switched => url[c] = key[c][2])
          /\ begun[c] <= entry.read /\ entry.read <= clock
      BY <1>0, <1>1 DEF ListCallOK, Waiting
    <2>2. caller[c] \in Identities /\ url[c] \in ListRegions
      BY <1>0 DEF ListingTypeOK
    <2> HIDE DEF entry
    <2> QED
      BY <1>1, <2>1, <2>2, ListFacts
  <1>3. /\ entries' = [entries EXCEPT ![key[c]] = entry]
        /\ got' = [got EXCEPT ![c] = entry]
        /\ stage' = [stage EXCEPT ![c] = "returned"]
    BY DEF Keep
  <1> HIDE DEF entry
  <1>4. \A q \in Keys : entries'[q] = IF q = key[c] THEN entry ELSE entries[q]
    BY <1>0, <1>2, <1>3 DEF ListingTypeOK
  <1>5. \A q \in Keys : EntryOK(q)'
    BY <1>0, <1>1, <1>2, <1>4 DEF EntryOK
  <1>6. ListingTypeOK'
    <2>1. entries' \in [Keys -> Lists] /\ got' \in [ListCalls -> Lists] /\ stage' \in [ListCalls -> Stages]
      BY <1>0, <1>1, <1>2, <1>3 DEF ListingTypeOK, Stages
    <2>2. \A q \in Keys : entries'[q].stamp <= clock /\ entries'[q].read <= clock
      BY <1>0, <1>1, <1>2, <1>4 DEF ListingTypeOK
    <2> QED
      BY <1>0, <2>1, <2>2 DEF ListingTypeOK
  <1>7. /\ got'[c] = entry /\ stage'[c] = "returned"
        /\ \A d \in ListCalls \ {c} : stage'[d] = stage[d] /\ got'[d] = got[d]
    BY <1>0, <1>3 DEF ListingTypeOK
  <1>8. ListCallOK(c)'
    <2>1. entry.read >= begun[c] - ListTtl
      BY <1>0, <1>1, <1>2, ListFacts DEF ListingTypeOK, Lists, Times
    <2> QED
      BY <1>0, <1>2, <1>7, <2>1 DEF ListCallOK, Waiting
  <1> QED
    BY <1>0, <1>5, <1>6, <1>7, <1>8, OneListMoves

LEMMA FailFetchKeeps == ASSUME ListInv, NEW c \in ListCalls, FailFetch(c) PROVE ListInv'
  <1>0. /\ ListingTypeOK /\ ListCallOK(c) /\ stage[c] \in Waiting /\ \A q \in Keys : EntryOK(q)
        /\ UNCHANGED <<clock, listRegion, entries, caller, begun, key, backup, url,
                       chosen, switched>>
    BY DEF ListInv, FailFetch, Waiting
  <1>1. /\ stage' \in [ListCalls -> Stages] /\ got' \in [ListCalls -> Lists]
        /\ flagged' \in [ListCalls -> BOOLEAN]
        /\ stage'[c] = IF backup[c] # NoList THEN "returned" ELSE "over"
        /\ got'[c] = backup[c] /\ flagged'[c] = (backup[c] # NoList)
        /\ \A d \in ListCalls \ {c} :
              stage'[d] = stage[d] /\ got'[d] = got[d] /\ flagged'[d] = flagged[d]
    BY <1>0 DEF FailFetch, ListingTypeOK, Stages
  <1>2. ListingTypeOK' /\ \A q \in Keys : EntryOK(q)'
    BY <1>0, <1>1 DEF ListingTypeOK, EntryOK
  <1>3. ListCallOK(c)'
    BY <1>0, <1>1 DEF ListCallOK, Waiting
  <1> QED
    BY <1>0, <1>1, <1>2, <1>3, OneListMoves

LEMMA ElicitKeeps == ASSUME ListInv, NEW c \in ListCalls, Elicit(c) PROVE ListInv'
  <1>0. /\ ListingTypeOK /\ ListCallOK(c) /\ stage[c] = "returned" /\ \A q \in Keys : EntryOK(q)
        /\ UNCHANGED <<clock, listRegion, entries, caller, begun, key, backup, url, got,
                       flagged, chosen, switched>>
    BY DEF ListInv, Elicit
  <1>1. /\ stage' \in [ListCalls -> Stages] /\ stage'[c] = "choosing"
        /\ \A d \in ListCalls \ {c} : stage'[d] = stage[d]
    BY <1>0 DEF Elicit, ListingTypeOK, Stages
  <1>2. ListingTypeOK' /\ (\A q \in Keys : EntryOK(q)') /\ ListCallOK(c)'
    BY <1>0, <1>1 DEF ListingTypeOK, EntryOK, ListCallOK, Waiting
  <1> QED
    BY <1>0, <1>1, <1>2, OneListMoves

LEMMA SelectKeeps == ASSUME ListInv, NEW c \in ListCalls, Select(c) PROVE ListInv'
  <1>0. /\ ListingTypeOK /\ ListCallOK(c) /\ stage[c] = "choosing" /\ \A q \in Keys : EntryOK(q)
        /\ UNCHANGED <<clock, listRegion, entries, caller, begun, key, backup, url,
                       flagged, switched>>
    BY DEF ListInv, Select
  <1>1. /\ stage' \in [ListCalls -> Stages] /\ got' \in [ListCalls -> Lists]
        /\ stage'[c] = "over"
        /\ \A d \in ListCalls \ {c} : stage'[d] = stage[d] /\ got'[d] = got[d]
    BY <1>0, ListFacts DEF Select, ListingTypeOK, Stages
  <1>2. /\ chosen' \in [ListCalls -> Places]
        /\ chosen'[c] # <<>> => chosen'[c][1] = caller[c]
        /\ \A d \in ListCalls \ {c} : chosen'[d] = chosen[d]
    <2>1. got[c].of \in Keys /\ got[c].of[1] = caller[c]
      BY <1>0 DEF ListCallOK
    <2>2. CASE chosen' = chosen
      BY <1>0, <2>2 DEF ListingTypeOK, ListCallOK
    <2>3. CASE chosen' = [chosen EXCEPT ![c] = got[c].of]
      BY <1>0, <2>1, <2>3, ListFacts DEF ListingTypeOK
    <2> QED
      BY <2>2, <2>3 DEF Select
  <1>3. ListingTypeOK' /\ \A q \in Keys : EntryOK(q)'
    BY <1>0, <1>1, <1>2 DEF ListingTypeOK, EntryOK
  <1>4. ListCallOK(c)'
    BY <1>0, <1>1, <1>2 DEF ListCallOK, Waiting
  <1> QED
    BY <1>0, <1>1, <1>2, <1>3, <1>4, OneListMoves

LEMMA SwitchKeeps ==
    ASSUME ListInv, NEW i \in Identities, NEW r \in ListRegions, Switch(i, r)
    PROVE  ListInv'
  <1>0. /\ ListingTypeOK /\ \A q \in Keys : EntryOK(q)
        /\ UNCHANGED <<clock, entries, caller, stage, begun, key, backup, url, got,
                       flagged, chosen>>
        /\ listRegion' = [listRegion EXCEPT ![i] = r]
        /\ switched' = (switched \/ \E c \in ListCalls : caller[c] = i /\ stage[c] \in Waiting)
    BY DEF ListInv, Switch, Waiting
  <1>1. switched' \in BOOLEAN /\ listRegion' \in [Identities -> ListRegions] /\ (switched => switched')
    BY <1>0 DEF ListingTypeOK
  <1>2. ListingTypeOK' /\ \A q \in Keys : EntryOK(q)'
    BY <1>0, <1>1 DEF ListingTypeOK, EntryOK
  <1>3. ASSUME NEW c \in ListCalls PROVE ListCallOK(c)'
    <2>1. stage[c] \in Waiting /\ ~switched' => listRegion'[caller[c]] = listRegion[caller[c]]
      BY <1>0 DEF ListingTypeOK
    <2>2. ListCallOK(c)
      BY DEF ListInv
    <2> QED
      BY <1>0, <1>1, <2>1, <2>2 DEF ListCallOK
  <1> QED
    BY <1>2, <1>3 DEF ListInv

LEMMA TickKeeps == ASSUME ListInv, Tick PROVE ListInv'
  <1>0. /\ ListingTypeOK /\ clock' = clock + 1 /\ clock < MaxClock
        /\ UNCHANGED <<listRegion, entries, caller, stage, begun, key, backup, url, got,
                       flagged, chosen, switched>>
    BY DEF ListInv, Tick
  <1>1. clock' \in Times /\ \A n \in Times : n <= clock => n <= clock'
    BY <1>0, ListFacts DEF ListingTypeOK, Times
  <1>2. ListingTypeOK'
    <2>1. \A k \in Keys : entries[k].stamp \in Times /\ entries[k].read \in Times
      BY <1>0 DEF ListingTypeOK, Lists
    <2> QED
      BY <1>0, <1>1, <2>1 DEF ListingTypeOK
  <1>3. \A k \in Keys : EntryOK(k)'
    BY <1>0 DEF ListInv, EntryOK
  <1>4. ASSUME NEW c \in ListCalls PROVE ListCallOK(c)'
    <2>1. got[c].read \in Times /\ ListCallOK(c)
      BY <1>0 DEF ListInv, ListingTypeOK, Lists
    <2> QED
      BY <1>0, <1>1, <2>1 DEF ListCallOK
  <1> QED
    BY <1>2, <1>3, <1>4 DEF ListInv

LEMMA ListStep == ListInv /\ [ListNext]_listVars => ListInv'
  <1> SUFFICES ASSUME ListInv, [ListNext]_listVars PROVE ListInv'
    OBVIOUS
  <1>1. ASSUME NEW c \in ListCalls, NEW force \in BOOLEAN, Lookup(c, force) PROVE ListInv'
    BY <1>1, LookupKeeps
  <1>2. ASSUME NEW c \in ListCalls,
               Ask(c) \/ Serve(c) \/ Keep(c) \/ FailFetch(c) \/ Elicit(c) \/ Select(c)
        PROVE  ListInv'
    BY <1>2, AskKeeps, ServeKeeps, KeepKeeps, FailFetchKeeps, ElicitKeeps, SelectKeeps
  <1>3. ASSUME NEW i \in Identities, NEW r \in ListRegions, Switch(i, r) PROVE ListInv'
    BY <1>3, SwitchKeeps
  <1>4. CASE Tick
    BY <1>4, TickKeeps
  <1>5. CASE UNCHANGED listVars
    BY <1>5 DEF listVars, ListInv, ListingTypeOK, EntryOK, ListCallOK
  <1> QED
    BY <1>1, <1>2, <1>3, <1>4, <1>5 DEF ListNext

LEMMA ListInvariant == ListSpec => []ListInv
  BY ListInitially, ListStep, PTL DEF ListSpec

\* No list is stamped with a time to come. (ProfileCache.get_profiles.)
THEOREM ListingTypes == ListSpec => []ListingTypeOK
  BY ListInvariant, PTL DEF ListInv

\* However fetches overlap, fail and overwrite one another, what is returned as fresh is,
\* an entry is the list of its identity, and only one's own profile can be selected.
\* (ProfileCache.get_profiles, select_profile.)
THEOREM ListingsAreFresh == ListSpec => []ListingCorrect
  <1>1. ListInv => ListingCorrect
    <2> SUFFICES ASSUME ListInv PROVE ListingCorrect
      OBVIOUS
    <2>1. UnflaggedIsRecent /\ SelectedIsOwn
      BY DEF ListInv, ListCallOK, UnflaggedIsRecent, SelectedIsOwn
    <2>2. FiledWhereRead
      BY DEF ListInv, EntryOK, FiledWhereRead
    <2> QED
      BY <2>1, <2>2 DEF ListingCorrect
  <1> QED
    BY <1>1, ListInvariant, PTL

-----------------------------------------------------------------------------
(* Pages. Those seen so far follow one another up to where the walk has come. *)

Reached == IF walking THEN offset ELSE total

PagingInv ==
    /\ total \in Nat /\ limit \in Int /\ offset \in Nat /\ walking \in BOOLEAN
    /\ Reached <= total
    /\ \A p \in pages : p[1] \in Nat /\ p[2] \in Nat /\ p[2] <= Reached
    /\ \A i \in 0..(Reached - 1) : \E p \in pages : p[1] <= i /\ i < p[2]
    /\ PagesCoverList

LEMMA PageFacts ==
    ASSUME NEW n \in Nat, NEW o \in Nat, NEW l \in Int
    PROVE  /\ Returned(n, o, l) \in Nat
           /\ o < n => Returned(n, o, l) > 0 /\ o + Returned(n, o, l) <= n
           /\ o = n => Returned(n, o, l) = 0
  <1>1. ApplyLimit(l) \in Nat \ {0}
    BY PagingAssumption DEF ApplyLimit
  <1> QED
    BY <1>1 DEF Returned

LEMMA PagingInitially == PagingInit => PagingInv
  <1> SUFFICES ASSUME PagingInit PROVE PagingInv
    OBVIOUS
  <1>1. total \in Nat /\ limit \in Int /\ offset = 0 /\ pages = {} /\ walking = TRUE
    BY PagingAssumption DEF PagingInit
  <1>2. PagesCoverList
    <2>1. <<0, 0>> \in {<<0, 0>>} \cup pages /\ offset = <<0, 0>>[2] /\ (total > offset \/ total = 0)
      BY <1>1
    <2> QED
      BY <1>1, <2>1 DEF PagesCoverList
  <1> QED
    BY <1>1, <1>2 DEF PagingInv, Reached

LEMMA PagingStep == PagingInv /\ [NextPage]_pagingVars => PagingInv'
  <1> SUFFICES ASSUME PagingInv, [NextPage]_pagingVars PROVE PagingInv'
    OBVIOUS
  <1>1. CASE UNCHANGED pagingVars
    BY <1>1 DEF pagingVars, PagingInv, Reached, PagesCoverList
  <1>2. CASE NextPage
    <2> DEFINE end == offset + Returned(total, offset, limit)
               page == <<offset, end>>
    <2>0. /\ total \in Nat /\ limit \in Int /\ offset \in Nat /\ walking /\ Reached = offset
          /\ offset <= total
          /\ \A p \in pages : p[1] \in Nat /\ p[2] \in Nat /\ p[2] <= offset
          /\ \A i \in 0..(offset - 1) : \E p \in pages : p[1] <= i /\ i < p[2]
          /\ total > offset \/ total = 0
      BY <1>2 DEF PagingInv, NextPage, Reached, PagesCoverList
    <2>1. /\ pages' = pages \cup {page} /\ (walking' <=> end < total) /\ walking' \in BOOLEAN
          /\ offset' = IF end < total THEN end ELSE offset
          /\ total' = total /\ limit' = limit
      <3>1. HasMore(total, offset, limit) \in BOOLEAN /\ (HasMore(total, offset, limit) <=> end < total)
        BY DEF HasMore
      <3> HIDE DEF end
      <3> QED
        BY <1>2, <3>1 DEF NextPage, end
    <2>3. end \in Nat /\ offset <= end /\ end <= total
      <3> DEFINE size == Returned(total, offset, limit)
      <3>1. /\ size \in Nat /\ end = offset + size
            /\ offset < total => offset + size <= total
            /\ offset = total => size = 0
        BY <2>0, PageFacts
      <3> HIDE DEF size, end
      <3> QED
        BY <2>0, <3>1
    <2> HIDE DEF end
    <2>4. Reached' = end
      BY <2>0, <2>1, <2>3 DEF Reached
    <2>5. \A p \in pages' : p[1] \in Nat /\ p[2] \in Nat /\ p[2] <= end
      BY <2>0, <2>1, <2>3
    <2>6. ASSUME NEW i \in 0..(end - 1) PROVE \E p \in pages' : p[1] <= i /\ i < p[2]
      <3>1. CASE i < offset
        BY <2>0, <2>1, <3>1
      <3>2. CASE i >= offset
        <4>1. page \in pages' /\ page[1] <= i /\ i < page[2]
          BY <2>1, <2>3, <3>2
        <4> QED
          BY <4>1
      <3> QED
        BY <2>0, <3>1, <3>2
    <2>7. ASSUME NEW p \in pages', NEW q \in pages', p # q PROVE p[2] <= q[1] \/ q[2] <= p[1]
      <3>1. CASE p \in pages /\ q \in pages
        BY <2>7, <3>1 DEF PagingInv, PagesCoverList
      <3>2. CASE p = page /\ q \in pages
        BY <2>0, <3>2
      <3>3. CASE q = page /\ p \in pages
        BY <2>0, <3>3
      <3> QED
        BY <2>1, <2>7, <3>1, <3>2, <3>3
    <2>8. PagesCoverList'
      <3>1. ~walking' => end = total
        BY <2>0, <2>1, <2>3
      <3>2. walking' => page \in {<<0, 0>>} \cup pages' /\ offset' = page[2] /\ total' > offset'
        BY <2>0, <2>1, <2>3
      <3> QED
        BY <2>1, <2>6, <2>7, <3>1, <3>2 DEF PagesCoverList
    <2> QED
      BY <2>0, <2>1, <2>3, <2>4, <2>5, <2>6, <2>8 DEF PagingInv
  <1> QED
    BY <1>1, <1>2

\* Going on at next_offset reaches every profile once, whatever the limit asked for and
\* however long the list. (page_profiles.)
THEOREM PagesCover == PagingSpec => []PagesCoverList
  <1>1. PagingSpec => []PagingInv
    BY PagingInitially, PagingStep, PTL DEF PagingSpec
  <1> QED
    BY <1>1, PTL DEF PagingInv

-----------------------------------------------------------------------------
(* Downloads. A download that shares no name with another owns what is at    *)
(* its names; the invariant says for each of its stages what that is. Names   *)
(* are only ever added to those in use, so who shares none has never shared   *)
(* one.                                                                      *)

TouchedBy(p) == IF p = NoPath THEN {}
                ELSE {p} \cup IF p[2] \in Archives THEN {<<p[1], Unpacked[p[2]]>>} ELSE {}

LEMMA PathFacts ==
    /\ NoPath \notin Paths
    /\ \A p \in Paths : TouchedBy(p) \subseteq Paths /\ p \in TouchedBy(p)
    /\ \A p \in Paths : p[2] \in Archives =>
          /\ <<p[1], Unpacked[p[2]]>> \in Paths /\ <<p[1], Unpacked[p[2]]>> # p
          /\ Unpacked[p[2]] \notin Archives
  <1>1. ASSUME NEW p \in Paths PROVE p # NoPath
    <2>1. PICK q1 \in DlProfiles, q2 \in FileNames : p = <<q1, q2>>
      BY DEF Paths
    <2> QED
      BY <2>1 DEF NoPath
  <1>2. ASSUME NEW p \in Paths, p[2] \in Archives
        PROVE  /\ <<p[1], Unpacked[p[2]]>> \in Paths /\ <<p[1], Unpacked[p[2]]>> # p
               /\ Unpacked[p[2]] \notin Archives
    BY <1>2, DownloadsAssumption DEF Paths, FileNames
  <1> QED
    BY <1>1, <1>2 DEF TouchedBy

LEMMA TouchesFacts ==
    ASSUME NEW d \in Downloads
    PROVE  /\ Touches(d) = TouchedBy(path[d])
           /\ path[d][2] \in Archives => UnpackedPath(d) = <<path[d][1], Unpacked[path[d][2]]>>
  BY DEF Touches, TouchedBy, UnpackedPath

Owned(d) == [openers |-> {d}, size |-> arrived[d]]

StageInv(d) ==
    /\ progress[d] = "new" => path[d] = NoPath /\ arrived[d] = 0
    /\ progress[d] \notin {"new", "failed"} => path[d] \in Paths /\ arrived[d] <= MaxSize
    /\ progress[d] \in {"received", "abandoned"} => path[d][2] \in Archives
    /\ progress[d] \in {"saved", "done"} =>
          result[d] = path[d] \/ (path[d][2] \in Archives /\ result[d] = UnpackedPath(d))

OwnsItsFiles(d) == path[d] # NoPath /\ Alone(d) =>
    /\ progress[d] \in {"streaming", "received"} =>
          /\ handle[d] /\ file[path[d]] = Owned(d)
          /\ \A p \in Touches(d) \ {path[d]} : file[p] = Absent
    /\ progress[d] \in {"saved", "done", "abandoned", "aborted"} => file[path[d]] = Owned(d)
    /\ progress[d] \in {"saved", "done"} => file[result[d]].openers = {d}
    /\ progress[d] = "failed" => \A p \in Touches(d) : file[p] = Absent

NothingElsewhere == \A p \in Paths :
    (\A d \in Downloads : p \notin Touches(d)) => file[p] = Absent

DlInv ==
    /\ DownloadsTypeOK
    /\ NothingElsewhere
    /\ \A d \in Downloads : StageInv(d) /\ OwnsItsFiles(d)

LEMMA DlInitially == DownloadsInit => DlInv
  <1> SUFFICES ASSUME DownloadsInit PROVE DlInv
    OBVIOUS
  <1>1. Absent \in [openers : SUBSET Downloads, size : 0..(MaxSize + 1)] /\ 0 <= MaxSize
    BY DownloadsAssumption DEF Absent
  <1>2. DownloadsTypeOK
    BY <1>1, DownloadsAssumption DEF DownloadsInit, DownloadsTypeOK, Absent, DownloadStages
  <1>3. NothingElsewhere
    BY DEF DownloadsInit, NothingElsewhere
  <1>4. \A d \in Downloads : StageInv(d) /\ OwnsItsFiles(d)
    BY DEF DownloadsInit, StageInv, OwnsItsFiles
  <1> QED
    BY <1>2, <1>3, <1>4 DEF DlInv

\* A step of e, which changes nothing at names that are not its own, leaves to the other
\* downloads what they own.
LEMMA OthersUndisturbed ==
    ASSUME DlInv, NEW e \in Downloads,
           Touches(e) \subseteq TouchedBy(path'[e]),
           \A p \in Paths \ TouchedBy(path'[e]) : file'[p] = file[p],
           \A d \in Downloads \ {e} :
               /\ progress'[d] = progress[d] /\ path'[d] = path[d]
               /\ result'[d] = result[d] /\ arrived'[d] = arrived[d]
               /\ handle'[d] = handle[d] \/ path[d] \in TouchedBy(path'[e]),
           DownloadsTypeOK', StageInv(e)', OwnsItsFiles(e)'
    PROVE  DlInv'
  <1>1. \A d \in Downloads : /\ Touches(d)' = TouchedBy(path'[d])
                             /\ Touches(d) = TouchedBy(path[d])
    BY DEF Touches, TouchedBy, UnpackedPath
  <1>2. NothingElsewhere'
    <2> SUFFICES ASSUME NEW p \in Paths, \A d \in Downloads : p \notin Touches(d)'
                 PROVE  file'[p] = Absent
      BY DEF NothingElsewhere
    <2>1. p \notin TouchedBy(path'[e]) /\ \A d \in Downloads : p \notin Touches(d)
      BY <1>1
    <2> QED
      BY <2>1 DEF DlInv, NothingElsewhere
  <1>3. ASSUME NEW d \in Downloads \ {e} PROVE StageInv(d)'
    BY DEF DlInv, StageInv, UnpackedPath
  <1>4. ASSUME NEW d \in Downloads \ {e} PROVE OwnsItsFiles(d)'
    <2>0. SUFFICES ASSUME path[d] # NoPath, Alone(d)'
                   PROVE  OwnsItsFiles(d)'
      BY DEF OwnsItsFiles
    <2>1. Touches(d) \cap TouchedBy(path'[e]) = {}
      BY <1>1, <2>0 DEF Alone
    <2>2. Alone(d) /\ Touches(d)' = Touches(d) /\ Owned(d)' = Owned(d)
      BY <1>1, <2>0, <2>1 DEF Alone, Owned
    <2>3. path[d] \in Paths
      BY <2>0 DEF DlInv, DownloadsTypeOK
    <2>4. path[d] \in Touches(d) /\ Touches(d) \subseteq Paths
      BY <1>1, <2>3, PathFacts
    <2>5. \A p \in Touches(d) : file'[p] = file[p]
      BY <2>1, <2>4
    <2>6. handle'[d] = handle[d]
      BY <2>1, <2>4
    <2>7. progress[d] \in {"saved", "done"} => result[d] \in Touches(d)
      BY <1>1, <2>3, <2>4, TouchesFacts DEF DlInv, StageInv, TouchedBy
    <2>8. OwnsItsFiles(d)
      BY DEF DlInv
    <2>9. ASSUME progress'[d] \in {"streaming", "received"}
          PROVE  /\ handle'[d] /\ file'[path'[d]] = Owned(d)'
                 /\ \A p \in Touches(d)' \ {path'[d]} : file'[p] = Absent
      BY <2>0, <2>2, <2>4, <2>5, <2>6, <2>8, <2>9 DEF OwnsItsFiles
    <2>10. /\ progress'[d] \in {"saved", "done", "abandoned", "aborted"} =>
                 file'[path'[d]] = Owned(d)'
           /\ progress'[d] \in {"saved", "done"} => file'[result'[d]].openers = {d}
      BY <2>0, <2>2, <2>4, <2>5, <2>7, <2>8 DEF OwnsItsFiles
    <2>11. ASSUME progress'[d] = "failed"
           PROVE  \A p \in Touches(d)' : file'[p] = Absent
      BY <2>0, <2>2, <2>5, <2>8, <2>11 DEF OwnsItsFiles
    <2> QED
      BY <2>9, <2>10, <2>11 DEF OwnsItsFiles
  <1> QED
    BY <1>2, <1>3, <1>4 DEF DlInv

\* The shape of the file table, and what stays of the types.
LEMMA FileTyped ==
    ASSUME DownloadsTypeOK, NEW p \in Paths,
           NEW f \in [openers : SUBSET Downloads, size : 0..(MaxSize + 1)],
           p[2] \in Archives => f.size <= MaxSize
    PROVE  /\ [file EXCEPT ![p] = f] \in
                  [Paths -> [openers : SUBSET Downloads, size : 0..(MaxSize + 1)]]
           /\ \A q \in Paths : q[2] \in Archives => [file EXCEPT ![p] = f][q].size <= MaxSize
  BY DEF DownloadsTypeOK

LEMMA OpenKeeps == ASSUME DlInv, NEW d \in Downloads, NEW p \in Paths, Open(d, p) PROVE DlInv'
  <1>0. /\ DownloadsTypeOK /\ MaxSize \in Nat /\ path[d] = NoPath /\ arrived[d] = 0
        /\ Touches(d) = {}
    BY DownloadsAssumption DEF DlInv, StageInv, Open, Touches
  <1> DEFINE f == [openers |-> file[p].openers \cup {d}, size |-> 0]
  <1>1. /\ path' = [path EXCEPT ![d] = p] /\ file' = [file EXCEPT ![p] = f]
        /\ handle' = [handle EXCEPT ![d] = TRUE]
        /\ progress' = [progress EXCEPT ![d] = "streaming"]
        /\ UNCHANGED <<active, result, arrived>>
    BY DEF Open
  <1>2. f \in [openers : SUBSET Downloads, size : 0..(MaxSize + 1)] /\ f.size <= MaxSize
    BY <1>0 DEF DownloadsTypeOK
  <1>3. DownloadsTypeOK'
    <2>1. /\ file' \in [Paths -> [openers : SUBSET Downloads, size : 0..(MaxSize + 1)]]
          /\ \A q \in Paths : q[2] \in Archives => file'[q].size <= MaxSize
      BY <1>0, <1>1, <1>2, FileTyped
    <2> QED
      BY <1>0, <1>1, <2>1 DEF DownloadsTypeOK, DownloadStages
  <1>4. StageInv(d)'
    BY <1>0, <1>1 DEF StageInv, DownloadsTypeOK
  <1>5. path'[d] = p /\ Touches(d)' = TouchedBy(p)
    BY <1>0, <1>1 DEF Touches, TouchedBy, UnpackedPath, DownloadsTypeOK
  <1>6. OwnsItsFiles(d)'
    <2> SUFFICES ASSUME Alone(d)'
                 PROVE  /\ handle'[d] /\ file'[p] = [openers |-> {d}, size |-> 0]
                        /\ \A q \in TouchedBy(p) \ {p} : file'[q] = Absent
      BY <1>0, <1>1, <1>5 DEF OwnsItsFiles, Owned, DownloadsTypeOK
    <2>1. \A q \in TouchedBy(p), e \in Downloads : q \notin Touches(e)
      <3>1. \A e \in Downloads \ {d} : Touches(e)' = Touches(e)
        BY <1>0, <1>1 DEF Touches, UnpackedPath, DownloadsTypeOK
      <3> QED
        BY <1>0, <1>5, <3>1 DEF Alone
    <2>2. \A q \in TouchedBy(p) : q \in Paths /\ file[q] = Absent
      BY <2>1, PathFacts DEF DlInv, NothingElsewhere
    <2>3. handle'[d] /\ p \in TouchedBy(p)
      BY <1>0, <1>1, PathFacts DEF DownloadsTypeOK
    <2>4. f = [openers |-> {d}, size |-> 0]
      BY <2>2, PathFacts DEF Absent
    <2>5. file'[p] = f /\ \A q \in Paths \ {p} : file'[q] = file[q]
      BY <1>0, <1>1 DEF DownloadsTypeOK
    <2> QED
      BY <2>2, <2>3, <2>4, <2>5
  <1>7. \A q \in Paths \ TouchedBy(path'[d]) : file'[q] = file[q]
    BY <1>0, <1>1, <1>5, PathFacts DEF DownloadsTypeOK
  <1> QED
    BY <1>0, <1>1, <1>3, <1>4, <1>6, <1>7, OthersUndisturbed DEF DownloadsTypeOK

LEMMA UnlinkKeeps ==
    ASSUME DlInv, NEW d \in Downloads, progress[d] = "streaming", Unlink(d),
           progress' = [progress EXCEPT ![d] = "failed"],
           UNCHANGED <<active, path, result>>,
           arrived' \in {arrived, [arrived EXCEPT ![d] = @ + 1]}
    PROVE  DlInv'
  <1>0. /\ DownloadsTypeOK /\ MaxSize \in Nat /\ path[d] \in Paths /\ arrived[d] <= MaxSize
        /\ OwnsItsFiles(d)
    BY DownloadsAssumption DEF DlInv, StageInv
  <1>1. /\ file' = [file EXCEPT ![path[d]] = Absent]
        /\ handle' = [e \in Downloads |-> handle[e] /\ path[e] # path[d]]
    BY DEF Unlink
  <1>2. Absent \in [openers : SUBSET Downloads, size : 0..(MaxSize + 1)] /\ Absent.size <= MaxSize
    BY <1>0 DEF Absent
  <1>3. DownloadsTypeOK'
    <2>1. /\ file' \in [Paths -> [openers : SUBSET Downloads, size : 0..(MaxSize + 1)]]
          /\ \A q \in Paths : q[2] \in Archives => file'[q].size <= MaxSize
      BY <1>0, <1>1, <1>2, FileTyped
    <2>2. arrived' \in [Downloads -> 0..(MaxSize + 1)]
      BY <1>0 DEF DownloadsTypeOK
    <2>3. handle' \in [Downloads -> BOOLEAN] /\ active' \in DlProfiles \cup {NoProfile}
      BY <1>0, <1>1 DEF DownloadsTypeOK
    <2>4. progress' \in [Downloads -> DownloadStages]
      BY <1>0 DEF DownloadsTypeOK, DownloadStages
    <2> QED
      BY <1>0, <2>1, <2>2, <2>3, <2>4 DEF DownloadsTypeOK
  <1>4. StageInv(d)'
    BY <1>0 DEF StageInv, DownloadsTypeOK
  <1>5. \A e \in Downloads : Touches(e)' = Touches(e) /\ Alone(e)' = Alone(e)
    BY DEF Touches, UnpackedPath, Alone
  <1>6. OwnsItsFiles(d)'
    <2>1. progress'[d] = "failed"
      BY <1>0 DEF DownloadsTypeOK
    <2>2. ASSUME path[d] # NoPath, Alone(d), NEW p \in Touches(d) PROVE file'[p] = Absent
      BY <1>0, <1>1, <1>2, <2>2, TouchesFacts, PathFacts DEF OwnsItsFiles, DownloadsTypeOK
    <2> QED
      BY <1>5, <2>1, <2>2 DEF OwnsItsFiles
  <1>7. Touches(d) \subseteq TouchedBy(path'[d]) /\ path[d] \in TouchedBy(path'[d])
    BY <1>0, TouchesFacts, PathFacts
  <1>8. \A q \in Paths \ TouchedBy(path'[d]) : file'[q] = file[q]
    BY <1>0, <1>1, <1>7 DEF DownloadsTypeOK
  <1>9. \A e \in Downloads \ {d} :
            /\ progress'[e] = progress[e] /\ path'[e] = path[e]
            /\ result'[e] = result[e] /\ arrived'[e] = arrived[e]
            /\ handle'[e] = handle[e] \/ path[e] \in TouchedBy(path'[d])
    BY <1>0, <1>1, <1>7 DEF DownloadsTypeOK
  <1> QED
    BY <1>3, <1>4, <1>6, <1>7, <1>8, <1>9, OthersUndisturbed

LEMMA WriteKeeps ==
    ASSUME DlInv, NEW d \in Downloads, Receive(d), ~TooLarge(d)
    PROVE  DlInv'
  <1>0. /\ DownloadsTypeOK /\ MaxSize \in Nat /\ path[d] \in Paths /\ arrived[d] <= MaxSize
        /\ OwnsItsFiles(d) /\ progress[d] = "streaming"
    BY DownloadsAssumption DEF DlInv, StageInv, Receive
  <1> DEFINE f == [openers |-> file[path[d]].openers,
                   size |-> Larger(file[path[d]].size, arrived[d] + 1)]
  <1>1. /\ arrived[d] \in Nat /\ arrived[d] + 1 <= MaxSize
        /\ arrived' = [arrived EXCEPT ![d] = @ + 1]
        /\ UNCHANGED <<active, path, result, progress, handle>>
        /\ ~handle[d] => UNCHANGED file
        /\ handle[d] => file' = [file EXCEPT ![path[d]] = f]
    <2>1. arrived[d] \in Nat /\ arrived[d] + 1 <= MaxSize
      BY <1>0 DEF DownloadsTypeOK, TooLarge
    <2>2. [file EXCEPT ![path[d]].size = Larger(@, arrived[d] + 1)]
              = [file EXCEPT ![path[d]] = f]
      <3>1. file[path[d]] \in [openers : SUBSET Downloads, size : 0..(MaxSize + 1)]
        BY <1>0 DEF DownloadsTypeOK
      <3>2. [file[path[d]] EXCEPT !.size = Larger(@, arrived[d] + 1)] = f
        BY <3>1
      <3>3. [file EXCEPT ![path[d]].size = Larger(@, arrived[d] + 1)]
              = [file EXCEPT ![path[d]] = [file[path[d]] EXCEPT !.size = Larger(@, arrived[d] + 1)]]
        OBVIOUS
      <3> QED
        BY <3>2, <3>3
    <2> QED
      BY <2>1, <2>2 DEF Receive
  <1>2. /\ f \in [openers : SUBSET Downloads, size : 0..(MaxSize + 1)]
        /\ path[d][2] \in Archives => f.size <= MaxSize
    BY <1>0, <1>1 DEF DownloadsTypeOK, Larger
  <1>3. DownloadsTypeOK'
    <2>1. /\ file' \in [Paths -> [openers : SUBSET Downloads, size : 0..(MaxSize + 1)]]
          /\ \A q \in Paths : q[2] \in Archives => file'[q].size <= MaxSize
      <3>1. CASE handle[d]
        BY <1>0, <1>1, <1>2, <3>1, FileTyped
      <3>2. CASE ~handle[d]
        BY <1>0, <1>1, <3>2 DEF DownloadsTypeOK
      <3> QED
        BY <3>1, <3>2
    <2>2. arrived' \in [Downloads -> 0..(MaxSize + 1)]
      BY <1>0, <1>1 DEF DownloadsTypeOK
    <2> QED
      BY <1>0, <1>1, <2>1, <2>2 DEF DownloadsTypeOK
  <1>4. StageInv(d)'
    BY <1>0, <1>1 DEF StageInv, DownloadsTypeOK
  <1>5. \A e \in Downloads : Touches(e)' = Touches(e) /\ Alone(e)' = Alone(e)
    BY <1>1 DEF Touches, UnpackedPath, Alone
  <1>6. OwnsItsFiles(d)'
    <2> SUFFICES ASSUME Alone(d)
                 PROVE  /\ handle'[d] /\ file'[path[d]] = Owned(d)'
                        /\ \A p \in Touches(d) \ {path[d]} : file'[p] = Absent
      BY <1>0, <1>1, <1>5 DEF OwnsItsFiles
    <2>1. /\ handle[d] /\ file[path[d]] = Owned(d)
          /\ \A p \in Touches(d) \ {path[d]} : file[p] = Absent
      BY <1>0, PathFacts DEF OwnsItsFiles
    <2>2. file'[path[d]] = f /\ \A p \in Paths \ {path[d]} : file'[p] = file[p]
      BY <1>0, <1>1, <2>1 DEF DownloadsTypeOK
    <2>3. f = [openers |-> {d}, size |-> arrived[d] + 1]
      <3>1. file[path[d]].openers = {d} /\ file[path[d]].size = arrived[d]
        BY <2>1 DEF Owned
      <3>2. Larger(file[path[d]].size, arrived[d] + 1) = arrived[d] + 1
        BY <1>1, <3>1 DEF Larger
      <3> QED
        BY <3>1, <3>2
    <2>4. Owned(d)' = [openers |-> {d}, size |-> arrived[d] + 1]
      BY <1>0, <1>1 DEF Owned, DownloadsTypeOK
    <2>5. Touches(d) \subseteq Paths
      BY <1>0, TouchesFacts, PathFacts
    <2> QED
      BY <1>1, <2>1, <2>2, <2>3, <2>4, <2>5
  <1>7. Touches(d) \subseteq TouchedBy(path'[d]) /\ path[d] \in TouchedBy(path'[d])
    BY <1>0, <1>1, TouchesFacts, PathFacts
  <1>8. \A q \in Paths \ TouchedBy(path'[d]) : file'[q] = file[q]
    BY <1>0, <1>1, <1>7 DEF DownloadsTypeOK
  <1>9. \A e \in Downloads \ {d} :
            /\ progress'[e] = progress[e] /\ path'[e] = path[e]
            /\ result'[e] = result[e] /\ arrived'[e] = arrived[e] /\ handle'[e] = handle[e]
    BY <1>0, <1>1 DEF DownloadsTypeOK
  <1> QED
    BY <1>3, <1>4, <1>6, <1>7, <1>8, <1>9, OthersUndisturbed

LEMMA ReceiveKeeps == ASSUME DlInv, NEW d \in Downloads, Receive(d) PROVE DlInv'
  <1>1. CASE TooLarge(d)
    BY <1>1, UnlinkKeeps DEF Receive
  <1>2. CASE ~TooLarge(d)
    BY <1>2, WriteKeeps
  <1> QED
    BY <1>1, <1>2

LEMMA BreakKeeps == ASSUME DlInv, NEW d \in Downloads, Break(d) PROVE DlInv'
  BY UnlinkKeeps DEF Break

LEMMA EndOfStreamKeeps == ASSUME DlInv, NEW d \in Downloads, EndOfStream(d) PROVE DlInv'
  <1>0. /\ DownloadsTypeOK /\ path[d] \in Paths /\ StageInv(d)
        /\ OwnsItsFiles(d) /\ progress[d] = "streaming"
    BY DEF DlInv, StageInv, EndOfStream
  <1>1. /\ UNCHANGED <<active, file, path, handle, arrived>>
        /\ \/ /\ path[d][2] \in Archives /\ progress'[d] = "received" /\ result' = result
           \/ /\ progress'[d] = "saved" /\ result'[d] = path[d]
        /\ \A e \in Downloads \ {d} : progress'[e] = progress[e] /\ result'[e] = result[e]
    BY <1>0 DEF EndOfStream, DownloadsTypeOK
  <1>2. DownloadsTypeOK'
    <2>1. /\ progress' \in [Downloads -> DownloadStages]
          /\ result' \in [Downloads -> Paths \cup {NoPath}]
      BY <1>0 DEF EndOfStream, DownloadsTypeOK, DownloadStages
    <2> QED
      BY <1>0, <1>1, <2>1 DEF DownloadsTypeOK
  <1>3. StageInv(d)'
    BY <1>0, <1>1 DEF StageInv
  <1>4. /\ \A e \in Downloads : Touches(e)' = Touches(e) /\ Alone(e)' = Alone(e)
        /\ Owned(d)' = Owned(d)
    BY <1>1 DEF Touches, UnpackedPath, Alone, Owned
  <1>5. OwnsItsFiles(d)'
    BY <1>0, <1>1, <1>4 DEF OwnsItsFiles, Owned
  <1>6. Touches(d) \subseteq TouchedBy(path'[d])
    BY <1>1, TouchesFacts
  <1> QED
    BY <1>1, <1>2, <1>3, <1>5, <1>6, OthersUndisturbed

LEMMA UnpackKeeps ==
    ASSUME DlInv, NEW d \in Downloads, NEW unpacked \in BOOLEAN, NEW n \in UnpackedSizes \cup {0},
           Unpack(d, unpacked, n)
    PROVE  DlInv'
  <1> DEFINE u == UnpackedPath(d)
             f == IF unpacked THEN [openers |-> file[u].openers \cup {d}, size |-> n] ELSE Absent
  <1>0. /\ DownloadsTypeOK /\ MaxSize \in Nat /\ path[d] \in Paths /\ StageInv(d)
        /\ OwnsItsFiles(d) /\ progress[d] = "received" /\ path[d][2] \in Archives
    BY DownloadsAssumption DEF DlInv, StageInv, Unpack
  <1>1. u \in Paths /\ u # path[d] /\ u[2] \notin Archives /\ u \in Touches(d)
    BY <1>0, PathFacts, TouchesFacts DEF Touches, UnpackedPath
  <1>2. f \in [openers : SUBSET Downloads, size : 0..(MaxSize + 1)]
    BY <1>0, <1>1 DEF DownloadsTypeOK, Absent, UnpackedSizes
  <1>3. /\ file' = [file EXCEPT ![u] = f]
        /\ result' = [result EXCEPT ![d] = IF unpacked THEN u ELSE path[d]]
        /\ progress' = [progress EXCEPT ![d] = "saved"]
        /\ UNCHANGED <<active, path, arrived>>
        /\ \A e \in Downloads : handle'[e] = (handle[e] /\ (unpacked \/ path[e] # u))
        /\ handle' \in [Downloads -> BOOLEAN]
    <2>1. CASE unpacked
      BY <1>0, <2>1 DEF Unpack, Result, DownloadsTypeOK
    <2>2. CASE ~unpacked
      BY <1>0, <2>2 DEF Unpack, Result, DownloadsTypeOK
    <2> QED
      BY <2>1, <2>2
  <1>4. DownloadsTypeOK'
    <2>1. /\ file' \in [Paths -> [openers : SUBSET Downloads, size : 0..(MaxSize + 1)]]
          /\ \A q \in Paths : q[2] \in Archives => file'[q].size <= MaxSize
      BY <1>0, <1>1, <1>2, <1>3, FileTyped
    <2> QED
      BY <1>0, <1>1, <1>3, <2>1 DEF DownloadsTypeOK, DownloadStages
  <1>5. progress'[d] = "saved" /\ result'[d] = IF unpacked THEN u ELSE path[d]
    BY <1>0, <1>3 DEF DownloadsTypeOK
  <1>6. /\ \A e \in Downloads : Touches(e)' = Touches(e) /\ Alone(e)' = Alone(e)
        /\ Owned(d)' = Owned(d) /\ UnpackedPath(d)' = u
    BY <1>3 DEF Touches, UnpackedPath, Alone, Owned
  <1>7. StageInv(d)'
    BY <1>0, <1>3, <1>5, <1>6 DEF StageInv
  <1>8. OwnsItsFiles(d)'
    <2> SUFFICES ASSUME Alone(d)
                 PROVE  /\ file'[path[d]] = Owned(d)
                        /\ file'[IF unpacked THEN u ELSE path[d]].openers = {d}
      BY <1>1, <1>3, <1>5, <1>6 DEF OwnsItsFiles
    <2>1. file[u] = Absent /\ file[path[d]] = Owned(d)
      BY <1>0, <1>1, PathFacts DEF OwnsItsFiles
    <2>2. file'[u] = f /\ file'[path[d]] = file[path[d]]
      BY <1>0, <1>1, <1>3 DEF DownloadsTypeOK
    <2> QED
      BY <2>1, <2>2 DEF Absent, Owned
  <1>9. Touches(d) \subseteq TouchedBy(path'[d]) /\ u \in TouchedBy(path'[d])
    BY <1>1, <1>3, TouchesFacts
  <1>10. \A q \in Paths \ TouchedBy(path'[d]) : file'[q] = file[q]
    BY <1>0, <1>3, <1>9 DEF DownloadsTypeOK
  <1>11. \A e \in Downloads \ {d} :
            /\ progress'[e] = progress[e] /\ path'[e] = path[e]
            /\ result'[e] = result[e] /\ arrived'[e] = arrived[e]
            /\ handle'[e] = handle[e] \/ path[e] \in TouchedBy(path'[d])
    BY <1>0, <1>3, <1>9 DEF DownloadsTypeOK
  <1> QED
    BY <1>4, <1>7, <1>8, <1>9, <1>10, <1>11, OthersUndisturbed

\* A download that goes on, or fails, after its stream, with every file left as it is.
LEMMA AfterStreamKeeps ==
    ASSUME DlInv, NEW d \in Downloads, AbandonUnpack(d) \/ Abort(d) \/ SaveMetadata(d)
    PROVE  DlInv'
  <1>0. /\ DownloadsTypeOK /\ path[d] \in Paths /\ StageInv(d) /\ OwnsItsFiles(d)
        /\ UNCHANGED <<active, file, path, result, handle, arrived>>
    BY DEF DlInv, StageInv, AbandonUnpack, Abort, SaveMetadata
  <1>1. PICK next \in {"abandoned", "aborted", "done"} :
            progress' = [progress EXCEPT ![d] = next]
    BY DEF AbandonUnpack, Abort, SaveMetadata
  <1>2. /\ progress[d] \in {"received", "saved"} /\ progress'[d] = next
        /\ next = "abandoned" => progress[d] = "received"
        /\ next = "done" => progress[d] = "saved"
        /\ \A e \in Downloads \ {d} : progress'[e] = progress[e]
        /\ progress' \in [Downloads -> DownloadStages]
    BY <1>0, <1>1 DEF AbandonUnpack, Abort, SaveMetadata, DownloadsTypeOK, DownloadStages
  <1>3. DownloadsTypeOK'
    BY <1>0, <1>2 DEF DownloadsTypeOK
  <1>4. /\ \A e \in Downloads : Touches(e)' = Touches(e) /\ Alone(e)' = Alone(e)
        /\ Owned(d)' = Owned(d)
    BY <1>0 DEF Touches, UnpackedPath, Alone, Owned
  <1>5. StageInv(d)'
    BY <1>0, <1>2 DEF StageInv, UnpackedPath
  <1>6. OwnsItsFiles(d)'
    BY <1>0, <1>2, <1>4 DEF OwnsItsFiles
  <1>7. Touches(d) \subseteq TouchedBy(path'[d])
    BY <1>0, TouchesFacts
  <1> QED
    BY <1>0, <1>2, <1>3, <1>5, <1>6, <1>7, OthersUndisturbed

LEMMA UnpackAloneKeeps ==
    ASSUME DlInv, NEW d \in Downloads, NEW n \in UnpackedSizes \cup {0}, UnpackAlone(d, n)
    PROVE  DlInv'
  <1> DEFINE u == UnpackedPath(d)
             f == [openers |-> file[u].openers \cup {d}, size |-> n]
  <1>0. /\ DownloadsTypeOK /\ MaxSize \in Nat /\ path[d] \in Paths /\ StageInv(d)
        /\ OwnsItsFiles(d) /\ progress[d] = "abandoned" /\ path[d][2] \in Archives
    BY DownloadsAssumption DEF DlInv, StageInv, UnpackAlone
  <1>1. u \in Paths /\ u # path[d] /\ u[2] \notin Archives /\ u \in Touches(d)
    BY <1>0, PathFacts, TouchesFacts DEF Touches, UnpackedPath
  <1>2. f \in [openers : SUBSET Downloads, size : 0..(MaxSize + 1)]
    BY <1>0, <1>1 DEF DownloadsTypeOK, UnpackedSizes
  <1>3. /\ file' = [file EXCEPT ![u] = f]
        /\ progress' = [progress EXCEPT ![d] = "aborted"]
        /\ UNCHANGED <<active, path, result, handle, arrived>>
    BY DEF UnpackAlone
  <1>4. DownloadsTypeOK'
    <2>1. /\ file' \in [Paths -> [openers : SUBSET Downloads, size : 0..(MaxSize + 1)]]
          /\ \A q \in Paths : q[2] \in Archives => file'[q].size <= MaxSize
      BY <1>0, <1>1, <1>2, <1>3, FileTyped
    <2>2. progress' \in [Downloads -> DownloadStages]
      BY <1>0, <1>3 DEF DownloadsTypeOK, DownloadStages
    <2> QED
      BY <1>0, <1>3, <2>1, <2>2 DEF DownloadsTypeOK
  <1>5. /\ \A e \in Downloads : Touches(e)' = Touches(e) /\ Alone(e)' = Alone(e)
        /\ Owned(d)' = Owned(d) /\ progress'[d] = "aborted"
    BY <1>0, <1>3 DEF Touches, UnpackedPath, Alone, Owned, DownloadsTypeOK
  <1>6. StageInv(d)'
    BY <1>0, <1>3, <1>5 DEF StageInv
  <1>7. OwnsItsFiles(d)'
    <2>1. file'[path[d]] = file[path[d]]
      BY <1>0, <1>1, <1>3 DEF DownloadsTypeOK
    <2> QED
      BY <1>0, <1>3, <1>5, <2>1 DEF OwnsItsFiles
  <1>8. Touches(d) \subseteq TouchedBy(path'[d]) /\ u \in TouchedBy(path'[d])
    BY <1>1, <1>3, TouchesFacts
  <1>9. \A q \in Paths \ TouchedBy(path'[d]) : file'[q] = file[q]
    BY <1>0, <1>3, <1>8 DEF DownloadsTypeOK
  <1>10. \A e \in Downloads \ {d} : progress'[e] = progress[e]
    BY <1>0, <1>3 DEF DownloadsTypeOK
  <1> QED
    BY <1>3, <1>4, <1>6, <1>7, <1>8, <1>9, <1>10, OthersUndisturbed

LEMMA RefuseDownloadKeeps == ASSUME DlInv, NEW d \in Downloads, RefuseDownload(d) PROVE DlInv'
  <1>0. /\ DownloadsTypeOK /\ path[d] = NoPath /\ Touches(d) = {} /\ progress'[d] = "failed"
    BY DEF DlInv, StageInv, RefuseDownload, Touches, DownloadsTypeOK
  <1>1. DownloadsTypeOK' /\ StageInv(d)' /\ OwnsItsFiles(d)'
    BY <1>0 DEF RefuseDownload, DownloadsTypeOK, DownloadStages, StageInv, OwnsItsFiles
  <1> QED
    BY <1>0, <1>1, OthersUndisturbed DEF RefuseDownload, DownloadsTypeOK

LEMMA DlUnchanged ==
    ASSUME DlInv, active' \in DlProfiles \cup {NoProfile},
           UNCHANGED <<file, progress, path, result, handle, arrived>>
    PROVE  DlInv'
  BY DEF DlInv, DownloadsTypeOK, NothingElsewhere, StageInv, OwnsItsFiles, Alone, Touches,
         UnpackedPath, Owned

LEMMA DlStep == DlInv /\ [DownloadsNext]_dlVars => DlInv'
  <1> SUFFICES ASSUME DlInv, [DownloadsNext]_dlVars PROVE DlInv'
    OBVIOUS
  <1>1. ASSUME NEW p \in DlProfiles, SetProfile(p) PROVE DlInv'
    BY <1>1, DlUnchanged DEF SetProfile
  <1>2. ASSUME NEW d \in Downloads, NEW p \in Paths, Open(d, p) PROVE DlInv'
    BY <1>2, OpenKeeps
  <1>3. ASSUME NEW d \in Downloads, RefuseDownload(d) PROVE DlInv'
    BY <1>3, RefuseDownloadKeeps
  <1>4. ASSUME NEW d \in Downloads, Receive(d) PROVE DlInv'
    BY <1>4, ReceiveKeeps
  <1>5. ASSUME NEW d \in Downloads, Break(d) PROVE DlInv'
    BY <1>5, BreakKeeps
  <1>6. ASSUME NEW d \in Downloads, EndOfStream(d) PROVE DlInv'
    BY <1>6, EndOfStreamKeeps
  <1>7. ASSUME NEW d \in Downloads, NEW n \in UnpackedSizes, Unpack(d, TRUE, n) PROVE DlInv'
    BY <1>7, UnpackKeeps
  <1>8. ASSUME NEW d \in Downloads, Unpack(d, FALSE, 0) PROVE DlInv'
    BY <1>8, UnpackKeeps
  <1>9. ASSUME NEW d \in Downloads, AbandonUnpack(d) \/ Abort(d) \/ SaveMetadata(d) PROVE DlInv'
    BY <1>9, AfterStreamKeeps
  <1>10. ASSUME NEW d \in Downloads, NEW n \in UnpackedSizes \cup {0}, UnpackAlone(d, n)
         PROVE  DlInv'
    BY <1>10, UnpackAloneKeeps
  <1>11. CASE UNCHANGED dlVars
    BY <1>11, DlUnchanged DEF dlVars, DlInv, DownloadsTypeOK
  <1> QED
    BY <1>1, <1>2, <1>3, <1>4, <1>5, <1>6, <1>7, <1>8, <1>9, <1>10, <1>11 DEF DownloadsNext

LEMMA DlInvariant == DownloadsSpec => []DlInv
  BY DlInitially, DlStep, PTL DEF DownloadsSpec

LEMMA DlInvSuffices == DlInv => DownloadsCorrect
  <1> SUFFICES ASSUME DlInv PROVE DownloadsCorrect
    OBVIOUS
  <1>0. DownloadsTypeOK /\ \A d \in Downloads : StageInv(d) /\ OwnsItsFiles(d)
    BY DEF DlInv
  <1>1. ASSUME NEW d \in Downloads, progress[d] = "done", Alone(d)
        PROVE  /\ path[d] \in Paths /\ arrived[d] <= MaxSize
               /\ result[d] = path[d] => file[path[d]] = Owned(d)
               /\ result[d] # path[d] => file[result[d]].openers = {d}
    BY <1>0, <1>1, PathFacts DEF StageInv, OwnsItsFiles
  <1>2. NamedFileIsThere
    <2>1. \A d \in Downloads : Owned(d).openers = {d} /\ Owned(d).size = arrived[d]
      BY DEF Owned
    <2> QED
      BY <1>1, <2>1 DEF NamedFileIsThere
  <1>3. DownloadedIsServed
    <2> SUFFICES ASSUME NEW d \in Downloads,
                        progress[d] = "done", Alone(d), result[d] = path[d]
                 PROVE  /\ Served(result[d])
                        /\ \A n \in 0..MaxSize :
                              ReadFrom(result[d], n) <=> active = path[d][1] /\ n < arrived[d]
      BY DEF DownloadedIsServed
    <2>1. file[result[d]] = [openers |-> {d}, size |-> arrived[d]] /\ arrived[d] <= MaxSize
      BY <1>1 DEF Owned
    <2>2. file[result[d]] # Absent
      BY <2>1 DEF Absent
    <2> QED
      BY <2>1, <2>2 DEF Served, ReadFrom, Reach
  <1>4. FailureLeavesNoPart
    BY <1>0 DEF FailureLeavesNoPart, OwnsItsFiles, Owned
  <1> QED
    BY <1>2, <1>3, <1>4 DEF DownloadsCorrect

\* Every file stays within the limit for what is received, whoever writes to it.
\* (download_export.)
THEOREM DownloadsTypes == DownloadsSpec => []DownloadsTypeOK
  BY DlInvariant, PTL DEF DlInv

\* However downloads overlap, fail at any step and change profile: a file that a download
\* names is there and can be had, and a failed one leaves nothing or the whole of what it
\* received, for every download that shares no name with another. (download_export,
\* read_download, handle_file_download.)
THEOREM DownloadsAreCorrect == DownloadsSpec => []DownloadsCorrect
  BY DlInvariant, DlInvSuffices, PTL

-----------------------------------------------------------------------------
(* The report-field catalog. A search that goes down a path and blackens     *)
(* what it has left keeps: nothing black requires what is not black, and a   *)
(* set of black fields always has one that requires none of the set.         *)

PathIndices == 1..Len(gray)

\* What a node on the path requires and has been looked at is black, or is the next of
\* the path.
LookedAt == refresh = "cycles" => \A i \in PathIndices : \A g \in required[gray[i]] \ todo[gray[i]] :
    g \in black \/ (i + 1 \in PathIndices /\ g = gray[i + 1])

\* No set of black fields goes round in a circle.
BlackEnds == \A fs \in (SUBSET black) \ {{}} : \E f \in fs : required[f] \cap fs = {}

FieldsInv ==
    /\ FieldsTypeOK
    /\ fails \subseteq {"charset", "uniqueness", "compatibility_floor"}
    /\ refresh = "none" => gray = <<>>
    /\ refresh \in {"cycles", "accepted"} =>
          ReferencesExist /\ fails \cap {"charset", "uniqueness"} = {}
    /\ \A i, j \in PathIndices : gray[i] = gray[j] => i = j
    /\ \A i \in PathIndices : gray[i] \notin black /\ todo[gray[i]] \subseteq required[gray[i]]
    /\ \A i \in PathIndices : i + 1 \in PathIndices => gray[i + 1] \in required[gray[i]]
    /\ \A f \in black : required[f] \subseteq black
    /\ LookedAt
    /\ BlackEnds
    /\ CyclesAreFound

LEMMA FieldsInitOK == FieldsInit => FieldsInv
<1> SUFFICES ASSUME FieldsInit PROVE FieldsInv
  OBVIOUS
<1>1. PathIndices = {} /\ gray = <<>> /\ gray \in Seq(Fields)
  BY DEF FieldsInit, PathIndices
<1>5. refresh = "none" /\ black = {} /\ todo \in [Fields -> SUBSET Fields]
  BY DEF FieldsInit
<1>6. FieldsTypeOK
  BY <1>1, <1>5 DEF FieldsInit, FieldsTypeOK
<1> QED
  BY <1>1, <1>5, <1>6 DEF FieldsInit, FieldsInv, LookedAt, BlackEnds, CyclesAreFound

\* The last of a path, and a path with one more at its end.
LEMMA SearchPathFacts ==
    ASSUME NEW S, NEW s \in Seq(S)
    PROVE  /\ s # <<>> => Len(s) \in Nat \ {0} /\ s[Len(s)] \in S
           /\ \A i \in 1..Len(s) : s[i] \in S
           /\ \A x \in S : /\ Append(s, x) \in Seq(S) /\ Len(Append(s, x)) = Len(s) + 1
                           /\ \A i \in 1..Len(s) : Append(s, x)[i] = s[i]
                           /\ Append(s, x)[Len(s) + 1] = x
           /\ s # <<>> => /\ SubSeq(s, 1, Len(s) - 1) \in Seq(S)
                          /\ Len(SubSeq(s, 1, Len(s) - 1)) = Len(s) - 1
                          /\ \A i \in 1..(Len(s) - 1) : SubSeq(s, 1, Len(s) - 1)[i] = s[i]
<1>1. s # <<>> => Len(s) \in Nat \ {0} /\ s[Len(s)] \in S
  OBVIOUS
<1>2. \A x \in S : /\ Append(s, x) \in Seq(S) /\ Len(Append(s, x)) = Len(s) + 1
                  /\ \A i \in 1..Len(s) : Append(s, x)[i] = s[i]
                  /\ Append(s, x)[Len(s) + 1] = x
  OBVIOUS
<1>3. ASSUME s # <<>>
      PROVE  /\ SubSeq(s, 1, Len(s) - 1) \in Seq(S)
             /\ Len(SubSeq(s, 1, Len(s) - 1)) = Len(s) - 1
             /\ \A i \in 1..(Len(s) - 1) : SubSeq(s, 1, Len(s) - 1)[i] = s[i]
  <2>1. PICK n \in Nat : n = Len(s) - 1
    BY <1>1, <1>3
  <2>2. \A i \in 1..n : s[i] \in S
    BY <2>1, <1>1, <1>3
  <2>3. /\ SubSeq(s, 1, n) \in Seq(S)
        /\ Len(SubSeq(s, 1, n)) = IF 1 <= n THEN n - 1 + 1 ELSE 0
        /\ \A i \in 1..(n - 1 + 1) : SubSeq(s, 1, n)[i] = s[1 + i - 1]
    BY <2>2, SubSeqProperties
  <2>4. n - 1 + 1 = n /\ \A i \in 1..n : 1 + i - 1 = i
    OBVIOUS
  <2>5. /\ SubSeq(s, 1, n) \in Seq(S) /\ Len(SubSeq(s, 1, n)) = n
        /\ \A i \in 1..n : SubSeq(s, 1, n)[i] = s[i]
    BY <2>3, <2>4
  <2> QED
    BY <2>1, <2>5
<1>4. \A i \in 1..Len(s) : s[i] \in S
  OBVIOUS
<1> QED
  BY <1>1, <1>2, <1>3, <1>4

LEMMA ReferencesChecked == ASSUME FieldsInv, CheckReferences PROVE FieldsInv'
<1> USE DEF sources, Graph
<1>1. gray = <<>> /\ gray' = <<>> /\ PathIndices' = {} /\ PathIndices = {}
  BY DEF FieldsInv, CheckReferences, PathIndices
<1>2. FieldsTypeOK'
  BY DEF FieldsInv, FieldsTypeOK, CheckReferences
<1>3. ReferencesExist' = ReferencesExist
  BY DEF CheckReferences, ReferencesExist
<1>4. CyclesAreFound'
  <2>1. ~ReferencesExist => \E f \in Fields : UnknownField \in required[f] \cup complementary[f]
    BY DEF FieldsInv, FieldsTypeOK, ReferencesExist
  <2> QED
    BY <2>1 DEF CheckReferences, CyclesAreFound
<1>5. BlackEnds'
  BY DEF FieldsInv, BlackEnds, CheckReferences
<1> QED
  BY <1>1, <1>2, <1>3, <1>4, <1>5 DEF FieldsInv, CheckReferences, LookedAt

LEMMA VisitStarts == ASSUME FieldsInv, NEW f \in Fields, Visit(f) PROVE FieldsInv'
<1> USE DEF sources, Graph
<1>1. PathIndices' = {1} /\ gray'[1] = f /\ gray' \in Seq(Fields) /\ \A i \in PathIndices' : i + 1 \notin PathIndices'
  BY DEF Visit, PathIndices
<1>2. required[f] \subseteq Fields /\ refresh = "cycles"
  BY DEF FieldsInv, ReferencesExist, Visit
<1>3. todo' \in [Fields -> SUBSET Fields] /\ todo'[f] = required[f]
  BY <1>2 DEF FieldsInv, FieldsTypeOK, Visit
<1>4. FieldsTypeOK'
  BY <1>1, <1>3 DEF FieldsInv, FieldsTypeOK, Visit
<1>5. BlackEnds' /\ ReferencesExist' /\ CyclesAreFound'
  BY <1>2 DEF FieldsInv, BlackEnds, ReferencesExist, CyclesAreFound, Visit
<1>6. LookedAt'
  BY <1>1, <1>3 DEF LookedAt, Visit
<1>7. \A i \in PathIndices' : i = 1 /\ gray'[i] = f
  BY <1>1
<1> QED
  BY <1>1, <1>2, <1>3, <1>4, <1>5, <1>6, <1>7 DEF FieldsInv, Visit

\* A neighbour on the path: the path from it on is a circle.
LEMMA CircleRejected ==
    ASSUME FieldsInv, NEW f \in Fields, Look(f), OnPath(f) PROVE FieldsInv'
<1> USE DEF sources, Graph
<1> DEFINE n == Len(gray)
<1>0. gray \in Seq(Fields) /\ gray # <<>> /\ n \in Nat \ {0} /\ PathIndices = 1..n /\ DOMAIN gray = 1..n
      /\ Current = gray[n] /\ Current \in Fields /\ \A i \in PathIndices : gray[i] \in Fields
  BY SearchPathFacts DEF FieldsInv, FieldsTypeOK, Look, PathIndices, Current
<1> HIDE DEF n
<1>1. refresh = "cycles" /\ refresh' = "rejected" /\ gray' = gray /\ PathIndices' = PathIndices
      /\ todo' = [todo EXCEPT ![Current] = @ \ {f}]
  BY DEF Look, PathIndices
<1>2. FieldsTypeOK' /\ todo' \in [Fields -> SUBSET Fields] /\ \A x \in Fields : todo'[x] \subseteq todo[x]
  BY <1>0, <1>1 DEF FieldsInv, FieldsTypeOK, Look
<1>3. PICK j \in 1..n : gray[j] = f
  BY <1>0 DEF OnPath
<1> DEFINE circle == {gray[i] : i \in j..n}
<1>4. circle \in (SUBSET Fields) \ {{}}
  <2>1. \A i \in j..n : i \in PathIndices
    BY <1>0, <1>3
  <2>2. j \in j..n
    BY <1>0, <1>3
  <2> QED
    BY <2>1, <2>2, <1>0
<1>5. \A x \in circle : required[x] \cap circle # {}
  <2> SUFFICES ASSUME NEW i \in j..n PROVE required[gray[i]] \cap circle # {}
    OBVIOUS
  <2>1. CASE i = n
    <3>1. f \in required[gray[n]]
      BY <1>0 DEF FieldsInv, Look
    <3>2. f \in circle
      BY <1>0, <1>3
    <3> QED
      BY <3>1, <3>2, <2>1
  <2>2. CASE i # n
    <3>1. i \in PathIndices /\ i + 1 \in PathIndices /\ i + 1 \in j..n
      BY <2>2, <1>0, <1>3
    <3>2. gray[i + 1] \in required[gray[i]]
      BY <3>1 DEF FieldsInv
    <3> QED
      BY <3>1, <3>2
  <2> QED
    BY <2>1, <2>2
<1> HIDE DEF circle
<1>6. CyclesAreFound'
  BY <1>1, <1>4, <1>5 DEF CyclesAreFound, Look
<1>7. BlackEnds' /\ LookedAt'
  BY <1>1 DEF FieldsInv, BlackEnds, LookedAt, Look
<1>8. \A i \in PathIndices' : gray'[i] \notin black' /\ todo'[gray'[i]] \subseteq required'[gray'[i]]
  BY <1>0, <1>1, <1>2 DEF FieldsInv, Look
<1> QED
  BY <1>1, <1>2, <1>6, <1>7, <1>8 DEF FieldsInv, Look

\* A black neighbour is passed over.
LEMMA BlackPassedOver ==
    ASSUME FieldsInv, NEW f \in Fields, Look(f), ~OnPath(f), f \in black PROVE FieldsInv'
<1> USE DEF sources, Graph
<1> DEFINE n == Len(gray)
<1>0. gray \in Seq(Fields) /\ gray # <<>> /\ n \in Nat \ {0} /\ PathIndices = 1..n
      /\ Current = gray[n] /\ Current \in Fields /\ \A i \in PathIndices : gray[i] \in Fields
  BY SearchPathFacts DEF FieldsInv, FieldsTypeOK, Look, PathIndices, Current
<1> HIDE DEF n
<1>1. refresh = "cycles" /\ refresh' = "cycles" /\ gray' = gray /\ PathIndices' = PathIndices
      /\ todo' = [todo EXCEPT ![Current] = @ \ {f}]
  BY DEF Look, PathIndices
<1>2. FieldsTypeOK' /\ todo \in [Fields -> SUBSET Fields]
      /\ \A x \in Fields : todo'[x] \subseteq todo[x] /\ todo[x] \subseteq todo'[x] \cup {f}
  BY <1>0, <1>1 DEF FieldsInv, FieldsTypeOK, Look
<1>3. LookedAt'
  <2> SUFFICES ASSUME NEW i \in PathIndices, NEW g \in required[gray[i]] \ todo'[gray[i]]
               PROVE  g \in black \/ (i + 1 \in PathIndices /\ g = gray[i + 1])
    BY <1>1 DEF LookedAt, Look
  <2>1. g = f \/ g \notin todo[gray[i]]
    BY <1>0, <1>2
  <2> QED
    BY <2>1, <1>1 DEF FieldsInv, LookedAt
<1>4. BlackEnds' /\ CyclesAreFound' /\ ReferencesExist'
  BY <1>1 DEF FieldsInv, BlackEnds, CyclesAreFound, ReferencesExist, Look
<1>5. \A i \in PathIndices' : gray'[i] \notin black' /\ todo'[gray'[i]] \subseteq required'[gray'[i]]
  BY <1>0, <1>1, <1>2 DEF FieldsInv, Look
<1> QED
  BY <1>1, <1>2, <1>3, <1>4, <1>5 DEF FieldsInv, Look

\* A white neighbour is visited.
LEMMA WhiteVisited ==
    ASSUME FieldsInv, NEW f \in Fields, Look(f), ~OnPath(f), f \notin black PROVE FieldsInv'
<1> USE DEF sources, Graph
<1> DEFINE n == Len(gray)
<1>0. gray \in Seq(Fields) /\ gray # <<>> /\ n \in Nat \ {0} /\ PathIndices = 1..n /\ DOMAIN gray = 1..n
      /\ Current = gray[n] /\ Current \in Fields /\ \A i \in PathIndices : gray[i] \in Fields
  BY SearchPathFacts DEF FieldsInv, FieldsTypeOK, Look, PathIndices, Current
<1>1. refresh = "cycles" /\ refresh' = "cycles" /\ gray' = Append(gray, f)
      /\ todo' = [todo EXCEPT ![Current] = @ \ {f}, ![f] = required[f]]
      /\ f \in todo[Current]
  BY DEF Look
<1>2. gray' \in Seq(Fields) /\ PathIndices' = 1..(n + 1) /\ gray'[n + 1] = f /\ \A i \in 1..n : gray'[i] = gray[i]
  BY <1>0, <1>1, SearchPathFacts DEF PathIndices
<1> HIDE DEF n
<1>3. \A i \in PathIndices : gray[i] # f
  BY <1>0 DEF OnPath
<1>4. required[f] \subseteq Fields
  BY <1>1 DEF FieldsInv, ReferencesExist
<1>5. /\ todo \in [Fields -> SUBSET Fields] /\ todo' \in [Fields -> SUBSET Fields]
      /\ todo'[f] = required[f]
      /\ \A x \in Fields \ {f} : todo'[x] \subseteq todo[x] /\ todo[x] \subseteq todo'[x] \cup {f}
      /\ \A x \in Fields \ {f, Current} : todo'[x] = todo[x]
  BY <1>0, <1>1, <1>4 DEF FieldsInv, FieldsTypeOK
<1>6. FieldsTypeOK'
  BY <1>2, <1>5 DEF FieldsInv, FieldsTypeOK, Look
<1>7. required' = required /\ black' = black /\ fails' = fails
  BY DEF Look
<1>8. f \in required[gray[n]]
  BY <1>0, <1>1 DEF FieldsInv
<1>9. \A i, j \in PathIndices' : gray'[i] = gray'[j] => i = j
  <2> SUFFICES ASSUME NEW i \in PathIndices', NEW j \in PathIndices', gray'[i] = gray'[j] PROVE i = j
    OBVIOUS
  <2>1. (i \in 1..n \/ i = n + 1) /\ (j \in 1..n \/ j = n + 1)
    BY <1>0, <1>2
  <2> QED
    BY <2>1, <1>0, <1>2, <1>3 DEF FieldsInv
<1>10. \A i \in PathIndices' : gray'[i] \notin black' /\ todo'[gray'[i]] \subseteq required'[gray'[i]]
  <2> SUFFICES ASSUME NEW i \in PathIndices'
               PROVE  gray'[i] \notin black /\ todo'[gray'[i]] \subseteq required[gray'[i]]
    BY <1>7
  <2>1. CASE i = n + 1
    BY <2>1, <1>2, <1>5
  <2>2. CASE i \in 1..n
    BY <2>2, <1>0, <1>2, <1>3, <1>5 DEF FieldsInv
  <2> QED
    BY <2>1, <2>2, <1>0, <1>2
<1>11. \A i \in PathIndices' : i + 1 \in PathIndices' => gray'[i + 1] \in required'[gray'[i]]
  <2> SUFFICES ASSUME NEW i \in PathIndices', i + 1 \in PathIndices' PROVE gray'[i + 1] \in required[gray'[i]]
    BY <1>7
  <2>1. CASE i = n
    BY <2>1, <1>0, <1>2, <1>8
  <2>2. CASE i # n
    <3>1. i \in PathIndices /\ i + 1 \in PathIndices
      BY <2>2, <1>0, <1>2
    <3> QED
      BY <3>1, <1>0, <1>2 DEF FieldsInv
  <2> QED
    BY <2>1, <2>2
<1>12. LookedAt'
  <2> SUFFICES ASSUME NEW i \in PathIndices', NEW g \in required[gray'[i]] \ todo'[gray'[i]]
               PROVE  g \in black \/ (i + 1 \in PathIndices' /\ g = gray'[i + 1])
    BY <1>7 DEF LookedAt
  <2>1. CASE i = n + 1
    BY <2>1, <1>2, <1>5
  <2>2. CASE i \in 1..n /\ g = f /\ i # n
    <3>1. f \notin todo[gray[i]]
      BY <2>2, <1>0, <1>2, <1>3, <1>5 DEF FieldsInv
    <3>2. f \in required[gray[i]] \ todo[gray[i]] /\ i \in PathIndices
      BY <2>2, <3>1, <1>0, <1>2
    <3>3. i + 1 \in PathIndices /\ f = gray[i + 1]
      BY <3>2, <1>1 DEF FieldsInv, LookedAt
    <3> QED
      BY <3>3, <1>3
  <2>3. CASE i = n /\ g = f
    BY <2>3, <1>0, <1>2
  <2>4. CASE i \in 1..n /\ g # f
    <3>1. i \in PathIndices /\ gray'[i] = gray[i] /\ gray[i] \in Fields \ {f}
      BY <2>4, <1>0, <1>2, <1>3
    <3>2. g \in required[gray[i]] \ todo[gray[i]]
      BY <3>1, <2>4, <1>5
    <3>3. g \in black \/ (i + 1 \in PathIndices /\ g = gray[i + 1])
      BY <3>1, <3>2, <1>1 DEF FieldsInv, LookedAt
    <3> QED
      BY <3>3, <1>0, <1>2
  <2> QED
    BY <2>1, <2>2, <2>3, <2>4, <1>0, <1>2
<1>13. BlackEnds' /\ CyclesAreFound' /\ ReferencesExist'
  BY <1>1 DEF FieldsInv, BlackEnds, CyclesAreFound, ReferencesExist, Look
<1> QED
  BY <1>1, <1>6, <1>7, <1>9, <1>10, <1>11, <1>12, <1>13 DEF FieldsInv

\* What is left turns black, and what it requires is black already.
LEMMA LeaveBlackens == ASSUME FieldsInv, Leave PROVE FieldsInv'
<1> USE DEF sources, Graph
<1> DEFINE n == Len(gray)
           c == Current
<1>0. gray \in Seq(Fields) /\ gray # <<>> /\ n \in Nat \ {0} /\ PathIndices = 1..n
      /\ c = gray[n] /\ c \in Fields /\ \A i \in PathIndices : gray[i] \in Fields
  BY SearchPathFacts DEF FieldsInv, FieldsTypeOK, Leave, PathIndices, Current
<1>1. refresh = "cycles" /\ todo[c] = {} /\ gray' = SubSeq(gray, 1, n - 1) /\ black' = black \cup {c}
      /\ UNCHANGED <<sources, refresh, todo>>
  BY DEF Leave
<1>2. gray' \in Seq(Fields) /\ Len(gray') = n - 1 /\ PathIndices' = 1..(n - 1)
      /\ \A i \in 1..(n - 1) : gray'[i] = gray[i]
  BY <1>0, <1>1, SearchPathFacts DEF PathIndices
<1> HIDE DEF n, c
<1>3. required[c] \subseteq black
  <2>1. n \in PathIndices /\ n + 1 \notin PathIndices
    BY <1>0
  <2> QED
    BY <2>1, <1>0, <1>1 DEF FieldsInv, LookedAt
<1>4. FieldsTypeOK'
  BY <1>0, <1>1, <1>2 DEF FieldsInv, FieldsTypeOK
<1>5. c \notin black
  BY <1>0 DEF FieldsInv
<1>6. \A i \in PathIndices' : i \in PathIndices /\ i # n /\ gray'[i] = gray[i] /\ gray[i] # c
  BY <1>0, <1>2 DEF FieldsInv
<1>7. \A f \in black' : required'[f] \subseteq black'
  BY <1>1, <1>3 DEF FieldsInv
<1>8. \A i \in PathIndices' : gray'[i] \notin black' /\ todo'[gray'[i]] \subseteq required'[gray'[i]]
  BY <1>1, <1>6 DEF FieldsInv
<1>9. \A i \in PathIndices' : i + 1 \in PathIndices' => gray'[i + 1] \in required'[gray'[i]]
  BY <1>1, <1>6 DEF FieldsInv
<1>10. LookedAt'
  <2> SUFFICES ASSUME NEW i \in PathIndices', NEW g \in required[gray[i]] \ todo[gray[i]]
               PROVE  g \in black' \/ (i + 1 \in PathIndices' /\ g = gray'[i + 1])
    BY <1>1, <1>6 DEF LookedAt
  <2>1. g \in black \/ (i + 1 \in PathIndices /\ g = gray[i + 1])
    BY <1>1, <1>6 DEF FieldsInv, LookedAt
  <2>2. i + 1 \in PathIndices => i + 1 = n \/ i + 1 \in PathIndices'
    BY <1>0, <1>2
  <2> QED
    BY <2>1, <2>2, <1>0, <1>1, <1>6
<1>11. BlackEnds'
  <2> SUFFICES ASSUME NEW fs \in (SUBSET black') \ {{}} PROVE \E f \in fs : required[f] \cap fs = {}
    BY <1>1 DEF BlackEnds
  <2>1. CASE fs \cap black = {}
    <3>1. fs = {c}
      BY <2>1, <1>1
    <3> QED
      BY <3>1, <1>3, <1>5
  <2>2. CASE fs \cap black # {}
    <3>1. PICK f \in fs \cap black : required[f] \cap (fs \cap black) = {}
      BY <2>2 DEF FieldsInv, BlackEnds
    <3>2. required[f] \subseteq black
      BY DEF FieldsInv
    <3> QED
      BY <3>1, <3>2
  <2> QED
    BY <2>1, <2>2
<1>12. CyclesAreFound' /\ ReferencesExist'
  BY <1>1 DEF FieldsInv, CyclesAreFound, ReferencesExist
<1>13. \A i, j \in PathIndices' : gray'[i] = gray'[j] => i = j
  BY <1>6 DEF FieldsInv
<1> QED
  BY <1>1, <1>4, <1>7, <1>8, <1>9, <1>10, <1>11, <1>12, <1>13 DEF FieldsInv

LEMMA AcceptsAcyclic == ASSUME FieldsInv, Accept PROVE FieldsInv'
<1> USE DEF sources, Graph
<1>1. /\ refresh = "cycles" /\ black = Fields /\ ReferencesExist
      /\ refresh' = IF "compatibility_floor" \in fails THEN "rejected" ELSE "accepted"
      /\ fails \subseteq {"charset", "uniqueness", "compatibility_floor"}
      /\ fails \cap {"charset", "uniqueness"} = {}
      /\ UNCHANGED <<sources, gray, todo, black>>
  BY DEF FieldsInv, Accept
<1>2. FieldsTypeOK' /\ ReferencesExist' /\ BlackEnds'
  BY <1>1 DEF FieldsInv, FieldsTypeOK, ReferencesExist, BlackEnds
<1>3. \A f \in Fields : UnknownField \notin required[f] \cup complementary[f]
  BY <1>1, FieldsAssumption DEF ReferencesExist, Fields
<1>4. \A fs \in (SUBSET Fields) \ {{}} : \E f \in fs : required[f] \cap fs = {}
  BY <1>1 DEF FieldsInv, BlackEnds
<1>5. CyclesAreFound'
  <2>1. "compatibility_floor" \in fails <=> fails # {}
    BY <1>1
  <2>2. CASE fails # {}
    BY <1>1, <2>1, <2>2 DEF CyclesAreFound
  <2>3. CASE fails = {}
    BY <1>1, <1>3, <1>4, <2>1, <2>3 DEF CyclesAreFound
  <2> QED
    BY <2>2, <2>3
<1>6. PathIndices' = PathIndices /\ LookedAt'
  BY <1>1 DEF PathIndices, LookedAt
<1> QED
  BY <1>1, <1>2, <1>5, <1>6 DEF FieldsInv

LEMMA FieldsStep == ASSUME FieldsInv, [FieldsNext]_fieldsVars PROVE FieldsInv'
<1> USE DEF sources, Graph
<1>1. CASE UNCHANGED fieldsVars
  <2>1. UNCHANGED <<prefixOf, keyOf, required, complementary, says, fails, refresh, gray, todo,
                    black>>
    BY <1>1 DEF fieldsVars
  <2>2. FieldsTypeOK' = FieldsTypeOK /\ ReferencesExist' = ReferencesExist
        /\ PathIndices' = PathIndices /\ BlackEnds' = BlackEnds
    BY <2>1 DEF FieldsTypeOK, ReferencesExist, PathIndices, BlackEnds
  <2>3. LookedAt' = LookedAt /\ CyclesAreFound' = CyclesAreFound
    BY <2>1, <2>2 DEF LookedAt, CyclesAreFound
  <2> QED
    BY <2>1, <2>2, <2>3 DEF FieldsInv
<1>2. ASSUME NEW f \in Fields, Look(f) PROVE FieldsInv'
  BY <1>2, CircleRejected, BlackPassedOver, WhiteVisited
<1> QED
  BY <1>1, <1>2, ReferencesChecked, VisitStarts, LeaveBlackens, AcceptsAcyclic DEF FieldsNext

LEMMA FieldsInvHolds == FieldsSpec => []FieldsInv
BY FieldsInitOK, FieldsStep, PTL DEF FieldsSpec

\* Types of the catalog's sources and of the search for cycles in them.
THEOREM FieldsTypes == FieldsSpec => []FieldsTypeOK
<1>1. FieldsInv => FieldsTypeOK
  BY DEF FieldsInv
<1> QED
  BY <1>1, FieldsInvHolds, PTL

\* A query's answer and validation read the same graph: what is compatible and refused
\* is marked both ways, and what is marked both ways is refused.
LEMMA QueryAgrees == QueryAgreesWithValidate
<1> SUFFICES ASSUME NEW values \in SUBSET (Fields \cup Labels),
                    NEW m \in CompatibleWith(values), NEW f \in ResolveToFieldIds(values)
             PROVE  {m, f} \in IncompatiblePairs(ResolveToFieldIds(values) \cup {m})
                    <=> f \in MarkedBothWays(m)
  BY DEF QueryAgreesWithValidate
<1>1. m \in Metrics /\ f \in Resolved(m, "compatible") /\ f \in Dimensions
  BY DEF CompatibleWith, Resolved, LabelIndex
<1>2. ASSUME {m, f} \in IncompatiblePairs(ResolveToFieldIds(values) \cup {m})
      PROVE  f \in Resolved(m, "incompatible")
  <2>1. PICK m2 \in Metrics, d \in Dimensions :
            d \in Resolved(m2, "incompatible") /\ {m, f} = {m2, d}
    BY <1>2 DEF IncompatiblePairs, PairsOfMetrics, PairsOfDimensions, Inverted, Resolved, LabelIndex
  <2>2. m = m2 /\ f = d
    BY <1>1, <2>1, FieldsAssumption
  <2> QED
    BY <2>1, <2>2
<1>3. ASSUME f \in Resolved(m, "incompatible")
      PROVE  {m, f} \in IncompatiblePairs(ResolveToFieldIds(values) \cup {m})
  <2>1. {m, f} \in PairsOfMetrics(ResolveToFieldIds(values) \cup {m})
    BY <1>1, <1>3 DEF PairsOfMetrics
  <2> QED
    BY <2>1 DEF IncompatiblePairs
<1> QED
  BY <1>1, <1>2, <1>3 DEF MarkedBothWays

\* A refresh refuses exactly the sources that fail a check on records, refer to an
\* unknown field, or have fields that require one another in a circle; and the modes of
\* report_fields disagree about a pair only if the sources mark it both ways: for every
\* set of fields and of labels. (check_catalog, _select_query_records, _handle_validate.)
THEOREM FieldsAnswersAgree == FieldsSpec => []AnswersAgree
<1>1. FieldsInv => AnswersAgree
  BY QueryAgrees DEF FieldsInv, AnswersAgree
<1> QED
  BY <1>1, FieldsInvHolds, PTL
=============================================================================
