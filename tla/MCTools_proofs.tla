--------------------------- MODULE MCTools_proofs ---------------------------
(* The components behind the tools, put together: the composition implements  *)
(* the specification of each of them, whatever Init fixes of the ones that are *)
(* not exercised, so that what is proved of each holds of the composition.     *)
EXTENDS MCTools, Serving_proofs, Tools_proofs

LEMMA ToolsBegin ==
    Init => /\ BuildInit /\ CampaignInit /\ ListInit /\ PagingInit /\ CodeInit
            /\ DownloadsInit /\ CatalogInit /\ FieldsInit /\ PoolInit
BY DEF Init

\* No component moves.
LEMMA NothingMoves ==
    UNCHANGED partVars =>
        UNCHANGED <<buildVars, campaignVars, listVars, pagingVars, codeVars, dlVars,
                    catalogVars, fieldsVars, poolVars>>
BY DEF partVars

LEMMA ToolsStep ==
    [Next]_partVars =>
        /\ [BuildNext]_buildVars /\ [CampaignNext]_campaignVars /\ [ListNext]_listVars
        /\ [NextPage]_pagingVars /\ [CodeNext]_codeVars /\ [DownloadsNext]_dlVars
        /\ [CatalogNext]_catalogVars /\ [FieldsNext]_fieldsVars /\ [PoolNext]_poolVars
<1>1. CASE UNCHANGED partVars
  BY <1>1, NothingMoves
<1>2. CASE Next
  BY <1>2 DEF Next, When
<1> QED
  BY <1>1, <1>2

\* The composition implements each component: it only says which one moves, and that
\* campaign calls that overlap are about one kind of entity.
THEOREM ToolsCompose ==
    Spec => /\ BuildSpec /\ CampaignSpec /\ ListSpec /\ PagingSpec /\ CodeSpec
            /\ DownloadsSpec /\ CatalogSpec /\ FieldsSpec /\ PoolSpec
BY ToolsBegin, ToolsStep, PTL DEF Spec, BuildSpec, CampaignSpec, ListSpec, PagingSpec,
   CodeSpec, DownloadsSpec, CatalogSpec, FieldsSpec, PoolSpec

\* The types of all components, which say of some what cannot be: a bid adjustment out
\* of range, a file beyond the limit, a group enabled that is not mounted.
THEOREM ToolsTypes == Spec => []ToolsTypesOK
BY ToolsCompose, BuildTypes, CampaignTypes, ListingTypes, CodeTypes, DownloadsTypes,
   CatalogTypes, FieldsTypes, PoolTypes, PTL DEF ToolsTypesOK

\* The profile lists, whole and in pages.
THEOREM ListingsAreCorrect == Spec => []ListingsCorrect
BY ToolsCompose, ListingsAreFresh, PagesCover, PTL DEF ListingsCorrect

\* So the composition has what is proved of each component.
THEOREM ToolsCorrect ==
    Spec => /\ [](BuiltAsConfigured /\ BlockCorrect /\ OneVersionServed)
            /\ [](AtMostOneWrite /\ DownloadsCorrect /\ AnswersAgree)
            /\ UpdatesAreExact /\ CommitsAtomically /\ PoolOutlivesCleanup
<1>1. Spec => [](BuiltAsConfigured /\ BlockCorrect /\ OneVersionServed)
  BY ToolsCompose, BuiltRight, BlockIsCorrect, ServesOneVersion, PTL
<1>2. Spec => [](AtMostOneWrite /\ DownloadsCorrect /\ AnswersAgree)
  BY ToolsCompose, CallsWriteOnce, DownloadsAreCorrect, FieldsAnswersAgree, PTL
<1>3. Spec => UpdatesAreExact /\ CommitsAtomically /\ PoolOutlivesCleanup
  BY ToolsCompose, UpdatesChangeWhatWasNamed, RefreshIsAtomic, PoolSurvivesCleanup, PTL
<1> QED
  BY <1>1, <1>2, <1>3
=============================================================================
