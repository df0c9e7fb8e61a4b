------------------------- MODULE GuidanceEvaluation -------------------------
(***************************************************************************)
(* rules.py: evaluate_rule, for a rule that module GuidanceRules accepts.  *)
(***************************************************************************)
EXTENDS GuidanceRules

CONSTANT Facts  \* objects a rule is evaluated on

-----------------------------------------------------------------------------
Missing == [type |-> "missing"]
RECURSIVE Resolve(_, _)
Resolve(current, path) ==
    IF path = <<>> THEN current
    ELSE IF current.type = "object" /\ path[1] \in DOMAIN current.fields
         THEN Resolve(current.fields[path[1]], Tail(path))
         ELSE Missing

\* Python's ==, for which True is 1 and 1 is 1.0.
NumberTypes == {"bool", "int", "float"}
RECURSIVE PythonEqual(_, _)
PythonEqual(a, b) ==
    IF a.type = "list"
    THEN /\ b.type = "list" /\ Len(a.items) = Len(b.items)
         /\ \A i \in DOMAIN a.items : PythonEqual(a.items[i], b.items[i])
    ELSE a = b \/ ({a.type, b.type} \subseteq NumberTypes /\ a.value = b.value)
SameTypeEqual(a, b) == a.type = b.type /\ PythonEqual(a, b)

RECURSIVE Evaluate(_, _)
Evaluate(r, facts) ==
    IF r.op = "all" THEN \A i \in DOMAIN r.rules : Evaluate(r.rules[i], facts)
    ELSE IF r.op = "any" THEN \E i \in DOMAIN r.rules : Evaluate(r.rules[i], facts)
    ELSE IF r.op = "not" THEN ~Evaluate(r.rule, facts)
    ELSE LET actual == Resolve(facts, r.path) IN
        CASE r.op = "exists" -> actual.type \notin {"missing", "null"}
          [] r.op = "eq" -> actual # Missing /\ SameTypeEqual(actual, r.value)
          [] r.op = "in" -> actual # Missing
                /\ \E i \in DOMAIN r.value.items : SameTypeEqual(actual, r.value.items[i])
          [] r.op = "gte" -> IsFiniteNumber(actual) /\ actual.value >= r.value.value
          [] r.op = "lte" -> IsFiniteNumber(actual) /\ actual.value <= r.value.value

-----------------------------------------------------------------------------
(* docs/guidance-dsl.md, of eq and in: the same runtime type and value, and *)
(* Boolean values never act as numbers.  The code compares the types of     *)
(* the values alone, not of the items of two lists.                         *)
BooleansAreNotNumbers ==
    nodeCount = 1 /\ unwalked = <<>> /\ problems = {} /\ rule.op = "eq" =>
        \A facts \in Facts :
            Evaluate(rule, facts) /\ rule.value.type = "list" =>
                \A i \in DOMAIN rule.value.items :
                    rule.value.items[i].type = "bool"
                        <=> Resolve(facts, rule.path).items[i].type = "bool"
=============================================================================
