---------------------------- MODULE ReportFields ----------------------------
(***************************************************************************)
(* The report-field catalog as data: the checks a refresh makes on the       *)
(* sources, the graph of compatible fields it derives from them, and what   *)
(* report_fields answers in its two modes. Amazon says for each metric with *)
(* which labels it goes together and with which not; a label, which is the  *)
(* name of a primary key, stands for the dimensions that have its prefix.   *)
(* Nothing keeps one dimension from being marked both ways.                 *)
(***************************************************************************)
EXTENDS Integers, Sequences

CONSTANTS Dimensions, Metrics, Prefixes, Labels,
          UnknownField,   \* an id the catalog does not have
          NoKey           \* of a label that is the name of no primary key

ASSUME FieldsAssumption ==
    /\ Dimensions \cap Metrics = {} /\ UnknownField \notin Dimensions \cup Metrics
    /\ NoKey \notin Dimensions

Fields == Dimensions \cup Metrics
Sides == {"compatible", "incompatible"}

VARIABLES
    prefixOf,   \* dimension -> prefix of its field_id
    keyOf,      \* label -> the primary key it names, the last if there are several
    required,   \* field -> its required_fields
    complementary, \* field -> its complementary_fields
    says,       \* metric -> side -> labels
    fails,      \* the checks on records alone that the sources fail
    refresh,    \* what a refresh does with these sources
    gray,       \* path: the nodes dfs is in, the first to the last
    todo,       \* node -> neighbours its dfs has yet to look at
    black       \* the nodes whose color is BLACK

sources == <<prefixOf, keyOf, required, complementary, says, fails>>

fieldsVars == <<sources, refresh, gray, todo, black>>

\* Any sources. A dimension has one name, and so is the key of one label.
FieldsInit ==
    /\ refresh = "none" /\ gray = <<>> /\ black = {}
    /\ todo = [f \in Fields |-> {}]
    /\ prefixOf \in [Dimensions -> Prefixes]
    /\ keyOf \in [Labels -> Dimensions \cup {NoKey}]
    /\ \A k, l \in Labels : keyOf[k] = keyOf[l] => k = l \/ keyOf[k] = NoKey
    /\ required \in [Fields -> SUBSET (Fields \cup {UnknownField})]
    /\ complementary \in [Fields -> SUBSET (Fields \cup {UnknownField})]
    /\ says \in [Metrics -> [Sides -> SUBSET Labels]]
    /\ fails \in SUBSET {"charset", "uniqueness", "compatibility_floor"}

-----------------------------------------------------------------------------
(* check_catalog.                                                          *)

ReferencesExist == \A f \in Fields : required[f] \cup complementary[f] \subseteq Fields

\* The checks before that of cycles.
CheckReferences ==
    /\ refresh = "none"
    /\ refresh' = IF fails \cap {"charset", "uniqueness"} = {} /\ ReferencesExist
                  THEN "cycles" ELSE "rejected"
    /\ UNCHANGED <<sources, gray, todo, black>>

\* Fault: fields that complement one another are taken for a circle.
GraphOfAll(f) == required[f] \cup complementary[f]

\* "complementary_fields is advisory".
Graph(f) == required[f]

\* check_no_cycles: dfs, a call of it at a time, from whichever WHITE node is next.
Visit(f) ==
    /\ refresh = "cycles" /\ gray = <<>> /\ f \notin black
    /\ gray' = <<f>>
    /\ todo' = [todo EXCEPT ![f] = Graph(f)]
    /\ UNCHANGED <<sources, refresh, black>>

Current == gray[Len(gray)]

\* A node is GRAY.
OnPath(f) == \E i \in DOMAIN gray : gray[i] = f

\* The next neighbour: a GRAY one closes a cycle, a WHITE one is visited, a BLACK one
\* is passed over.
Look(f) ==
    /\ refresh = "cycles" /\ gray # <<>> /\ f \in todo[Current]
    /\ refresh' = IF OnPath(f) THEN "rejected" ELSE refresh
    /\ IF OnPath(f) \/ f \in black
       THEN /\ todo' = [todo EXCEPT ![Current] = @ \ {f}]
            /\ UNCHANGED gray
       ELSE /\ todo' = [todo EXCEPT ![Current] = @ \ {f}, ![f] = Graph(f)]
            /\ gray' = Append(gray, f)
    /\ UNCHANGED <<sources, black>>

\* All neighbours have been looked at.
Leave ==
    /\ refresh = "cycles" /\ gray # <<>> /\ todo[Current] = {}
    /\ gray' = SubSeq(gray, 1, Len(gray) - 1)
    /\ black' = black \cup {Current}
    /\ UNCHANGED <<sources, refresh, todo>>

\* No WHITE node is left; the last check is that of the metrics' compatibility data.
\* What a refresh makes of the sources is not kept here: below, it is a function of them.
Accept ==
    /\ refresh = "cycles" /\ gray = <<>> /\ black = Fields
    /\ refresh' = IF "compatibility_floor" \in fails THEN "rejected" ELSE "accepted"
    /\ UNCHANGED <<sources, gray, todo, black>>

\* Types.
FieldsTypeOK ==
    /\ prefixOf \in [Dimensions -> Prefixes] /\ keyOf \in [Labels -> Dimensions \cup {NoKey}]
    /\ required \in [Fields -> SUBSET (Fields \cup {UnknownField})]
    /\ complementary \in [Fields -> SUBSET (Fields \cup {UnknownField})]
    /\ says \in [Metrics -> [Sides -> SUBSET Labels]]
    /\ refresh \in {"none", "cycles", "accepted", "rejected"}
    /\ gray \in Seq(Fields) /\ todo \in [Fields -> SUBSET Fields] /\ black \subseteq Fields

FieldsNext ==
    \/ CheckReferences \/ Leave \/ Accept
    \/ \E f \in Fields : Visit(f) \/ Look(f)

FieldsSpec == FieldsInit /\ [][FieldsNext]_fieldsVars

-----------------------------------------------------------------------------
(* _build_outputs.                                                         *)

\* The dimensions a label stands for; nothing, if it does not resolve.
LabelIndex(label) ==
    {d \in Dimensions : keyOf[label] # NoKey /\ prefixOf[d] = prefixOf[keyOf[label]]}

Resolved(m, side) == UNION {LabelIndex(label) : label \in says[m][side]}

\* The metrics that mark a dimension, as its record lists them.
Inverted(d, side) == {m \in Metrics : d \in Resolved(m, side)}

-----------------------------------------------------------------------------
(* report_fields.                                                          *)

\* mode "validate": pairs a metric marks, and pairs a dimension's record lists.
PairsOfMetrics(fs) == UNION {{{m, d} : d \in Resolved(m, "incompatible") \cap fs} : m \in fs \cap Metrics}
PairsOfDimensions(fs) == UNION {{{m, d} : m \in Inverted(d, "incompatible") \cap fs} : d \in fs \cap Dimensions}

IncompatiblePairs(fs) == PairsOfMetrics(fs) \cup PairsOfDimensions(fs)

\* compatible_with takes ids and labels; what is neither is ignored.
ResolveToFieldIds(values) ==
    (values \cap Fields) \cup UNION {LabelIndex(v) : v \in (values \cap Labels) \ Fields}

\* mode "query": the metrics that go together with all that was named.
CompatibleWith(values) ==
    {m \in Metrics : /\ ResolveToFieldIds(values) # {}
                     /\ ResolveToFieldIds(values) \subseteq Resolved(m, "compatible")}

-----------------------------------------------------------------------------
\* A refresh refuses exactly the sources that fail a check on records alone, or name a
\* field they do not have, or some of whose fields require one another in a circle,
\* whatever the order in which it visits them; fields may complement one another in a
\* circle. (check_catalog.)
CyclesAreFound == refresh \in {"accepted", "rejected"} =>
    (refresh = "rejected" <=>
        \/ fails # {}
        \/ \E f \in Fields : UnknownField \in required[f] \cup complementary[f]
        \/ \E fs \in (SUBSET Fields) \ {{}} : \A f \in fs : required[f] \cap fs # {})

\* The dimensions a metric marks as compatible and as incompatible.
MarkedBothWays(m) == Resolved(m, "compatible") \cap Resolved(m, "incompatible")

\* Of what a query says goes together, validation refuses exactly the pairs that the
\* metric marks both ways, by one label or by two of one prefix, which no check of a
\* refresh looks for. (_select_query_records, _handle_validate.)
QueryAgreesWithValidate == \A values \in SUBSET (Fields \cup Labels) :
    \A m \in CompatibleWith(values), f \in ResolveToFieldIds(values) :
        {m, f} \in IncompatiblePairs(ResolveToFieldIds(values) \cup {m}) <=> f \in MarkedBothWays(m)

\* A refresh accepts the right sources, and the two modes of report_fields agree about
\* a catalog that was accepted, but for what its sources themselves say both ways.
AnswersAgree == CyclesAreFound /\ (refresh = "accepted" => QueryAgreesWithValidate)
=============================================================================
