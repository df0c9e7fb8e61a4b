--------------------------- MODULE GuidanceRules ---------------------------
(***************************************************************************)
(* rules.py: validate_rule, whose recursive walk over a rule is the list   *)
(* of the nodes it has still to come to.  Module GuidanceEvaluation has    *)
(* evaluate_rule.                                                          *)
(*                                                                         *)
(* A node is a record with the fields the JSON object has; one that is no  *)
(* object has the field "text" alone.  A fact path is a tuple of segments, *)
(* <<>> one that is no dotted identifier.  A value is [type, value] with   *)
(* an integer for what it is, [type |-> "list", items] or [type |->        *)
(* "object", fields]; type is Python's, "infinite" for a float that is     *)
(* not finite.  The path of a node in a rule is the tuple of the numbers   *)
(* of the children that lead to it, so that its length is the depth.       *)
(***************************************************************************)
EXTENDS Integers, FiniteSets, SequencesExt

CONSTANTS
    MaxRuleDepth,   \* 16
    MaxRuleNodes,   \* 128
    RuleNodes       \* what rules are made of: nodes and the nodes below them

ASSUME RuleLimitsAssumption == MaxRuleDepth \in Nat /\ MaxRuleNodes \in Nat \ {0}
ASSUME RuleNodesAssumption ==
    \A node \in RuleNodes :
        /\ "rules" \in DOMAIN node => node.rules \in Seq(RuleNodes)
        /\ "rule" \in DOMAIN node => node.rule \in RuleNodes

VARIABLES
    rule,           \* the rule that is validated
    unwalked,       \* [node, path]: what walk has still to be called for
    nodeCount,      \* the calls of walk
    problems        \* codes of the problems found

ruleVars == <<rule, unwalked, nodeCount, problems>>

-----------------------------------------------------------------------------
IsObject(node) == "text" \notin DOMAIN node
HasOp(node, operators) == "op" \in DOMAIN node /\ node.op \in operators
Connectives == {"all", "any"}
Comparisons == {"eq", "in", "gte", "lte"}
RuleOperators == Connectives \union {"not", "exists"} \union Comparisons

IsScalar(v) == v.type \in {"null", "str", "bool", "int", "float"}
IsFiniteNumber(v) == v.type \in {"int", "float"}
IsScalarList(v) == v.type = "list" /\ \A i \in DOMAIN v.items : IsScalar(v.items[i])

ValueAdmitted(op, v) ==
    IF op = "in" THEN IsScalarList(v) /\ v.items # <<>> /\ IsInjective(v.items)
    ELSE IF op = "eq" THEN IsScalar(v) \/ IsScalarList(v)
    ELSE IsFiniteNumber(v)

BeginWalk(r) ==
    /\ rule' = r
    /\ unwalked' = <<[node |-> r, path |-> <<>>]>>
    /\ nodeCount' = 0 /\ problems' = {}

\* The next call of walk, with what it finds and the children it goes into.
Walk(found, children) ==
    /\ problems' = problems \union found
    /\ unwalked' =
        [i \in DOMAIN children |-> [node |-> children[i], path |-> Append(unwalked[1].path, i)]]
        \o Tail(unwalked)
    /\ nodeCount' = nodeCount + 1
    /\ UNCHANGED rule

Candidate == unwalked[1].node
TooLarge == nodeCount + 1 > MaxRuleNodes
TooDeep == Len(unwalked[1].path) > MaxRuleDepth
Within == unwalked # <<>> /\ ~TooLarge /\ ~TooDeep
Closed(fields) == {c \in {"RULE_FIELDS_CLOSED"} : DOMAIN Candidate # fields}

\* Mutant: a branch that goes too far is left without a word.
WalkTooFarSilently == unwalked # <<>> /\ (TooLarge \/ TooDeep) /\ Walk({}, <<>>)

WalkTooFar ==
    /\ unwalked # <<>> /\ (TooLarge \/ TooDeep)
    /\ Walk({IF TooLarge THEN "RULE_TOO_LARGE" ELSE "RULE_TOO_DEEP"}, <<>>)

WalkUnknown ==
    /\ Within
    /\ \/ ~IsObject(Candidate) /\ Walk({"INVALID_RULE"}, <<>>)
       \/ /\ IsObject(Candidate) /\ ~HasOp(Candidate, RuleOperators)
          /\ Walk({"EXECUTABLE_RULE_FORBIDDEN"}, <<>>)

WalkConnective ==
    /\ Within /\ HasOp(Candidate, Connectives)
    /\ LET children == IF "rules" \in DOMAIN Candidate THEN Candidate.rules ELSE <<>>
       IN  Walk(Closed({"op", "rules"}) \union {c \in {"RULE_CHILD_REQUIRED"} : children = <<>>},
                children)

WalkNot ==
    /\ Within /\ HasOp(Candidate, {"not"})
    /\ IF "rule" \in DOMAIN Candidate THEN Walk(Closed({"op", "rule"}), <<Candidate.rule>>)
       ELSE Walk(Closed({"op", "rule"}) \union {"RULE_CHILD_REQUIRED"}, <<>>)

WalkLeaf ==
    /\ Within /\ HasOp(Candidate, {"exists"} \union Comparisons)
    /\ Walk(Closed({"op", "path"} \union {f \in {"value"} : Candidate.op # "exists"})
            \union {c \in {"INVALID_FACT_PATH"} :
                ~("path" \in DOMAIN Candidate /\ Candidate.path # <<>>)}
            \union {c \in {"INVALID_RULE_VALUE"} : Candidate.op # "exists"
                /\ ~("value" \in DOMAIN Candidate /\ ValueAdmitted(Candidate.op, Candidate.value))},
            <<>>)

RuleStep == WalkTooFar \/ WalkUnknown \/ WalkConnective \/ WalkNot \/ WalkLeaf

-----------------------------------------------------------------------------
\* The grammar as the table of docs/guidance-dsl.md has it, for one node, and
\* the nodes of a rule at each depth.
Subrules(node) ==
    CASE DOMAIN node = {"op", "rules"} -> node.rules
      [] DOMAIN node = {"op", "rule"} -> <<node.rule>>
      [] OTHER -> <<>>

InGrammar(node) ==
    \/ DOMAIN node = {"op", "rules"} /\ node.op \in {"all", "any"} /\ node.rules # <<>>
    \/ DOMAIN node = {"op", "rule"} /\ node.op = "not"
    \/ DOMAIN node = {"op", "path"} /\ node.op = "exists" /\ node.path # <<>>
    \/ /\ DOMAIN node = {"op", "path", "value"} /\ node.path # <<>>
       /\ \/ node.op = "eq" /\ (IsScalar(node.value) \/ IsScalarList(node.value))
          \/ /\ node.op = "in" /\ IsScalarList(node.value)
             /\ node.value.items # <<>> /\ IsInjective(node.value.items)
          \/ node.op \in {"gte", "lte"} /\ IsFiniteNumber(node.value)

Root(r) == [node |-> r, path |-> <<>>]
Below(place) ==
    {[node |-> Subrules(place.node)[i], path |-> Append(place.path, i)] :
        i \in DOMAIN Subrules(place.node)}
BelowAny(places) == UNION {Below(place) : place \in places}
Levels(r) ==
    LET level[n \in Nat] == IF n = 0 THEN {Root(r)} ELSE BelowAny(level[n - 1])
    IN  level
Places(r) == UNION {Levels(r)[n] : n \in 0..(MaxRuleDepth + MaxRuleNodes)}

InGrammarThroughout(r) ==
    /\ \A place \in Places(r) : InGrammar(place.node)
    /\ Cardinality(Places(r)) <= MaxRuleNodes
WithinLevels(r) == Levels(r)[MaxRuleDepth] = {}   \* at most MaxRuleDepth levels with the root's

(* The walk, with its early returns and its shared counter, lets no node   *)
(* through that is out of the grammar and no rule with too many of them,   *)
(* and refuses no rule that is in the grammar and within both of the       *)
(* limits docs/guidance-dsl.md gives.                                      *)
RuleVerdictAsDocumented ==
    nodeCount > 0 /\ unwalked = <<>> =>
        /\ problems = {} => InGrammarThroughout(rule)
        /\ InGrammarThroughout(rule) /\ WithinLevels(rule) => problems = {}

(* "Rule trees are limited to 16 levels and 128 nodes." (docs/guidance-    *)
(* dsl.md): the levels of an accepted rule are within their limit.         *)
RulesWithinDocumentedLevels ==
    nodeCount > 0 /\ unwalked = <<>> /\ problems = {} => WithinLevels(rule)
=============================================================================
