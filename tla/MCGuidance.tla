----------------------------- MODULE MCGuidance -----------------------------
(* Two mandatory gates; rules of two levels and four nodes; every small    *)
(* readiness assessment; a bundle that is edited while it is validated.    *)
EXTENDS GuidanceBundle, GuidanceEvaluation

CONSTANTS g1, g2, gx

-----------------------------------------------------------------------------
\* Rules.
Value(type, value) == [type |-> type, value |-> value]
List(items) == [type |-> "list", items |-> items]
True == Value("bool", 1)
One == Value("int", 1)
Values == {True, One, Value("float", 1), Value("null", 0), Value("infinite", 0), List(<<>>),
           List(<<One>>), List(<<One, One>>), List(<<One, True>>), List(<<List(<<>>)>>),
           [type |-> "object", fields |-> [a |-> One]]}
Flag == <<"flags", "a">>

Exists == [op |-> "exists", path |-> Flag]
Leaves ==
    {[op |-> op, path |-> Flag, value |-> v] : op \in Comparisons, v \in Values}
    \union {[op |-> "exists", path |-> p] : p \in {Flag, <<>>}}
    \union {[op |-> op, path |-> Flag] : op \in Comparisons}
    \union {[op |-> op] : op \in RuleOperators} \union {[op |-> "exec", path |-> Flag], [path |-> Flag]}
    \union {[text |-> "true"], [Exists EXCEPT !.path = <<>>],
            [op |-> "exists", path |-> Flag, value |-> One]}

Few == {Exists, [op |-> "gte", path |-> Flag, value |-> True]}
Shapes(children, most) ==
    {[op |-> op, rules |-> rs] : op \in Connectives, rs \in UNION {[1..n -> children] : n \in 0..most}}
    \union {[op |-> "not", rule |-> r] : r \in children}
    \union {[op |-> "all", rules |-> <<r>>, value |-> One] : r \in children}
    \union {[op |-> "not", rule |-> r, rules |-> <<>>] : r \in children}
Level1 == Shapes(Few \union {[text |-> "true"]}, 3)
Level2 == Shapes({r \in Shapes(Few, 2) : r.op # "any"}, 2)
Nots == {[op |-> "not", rule |-> r] : r \in Shapes({Exists}, 1)}
Level3 == Shapes({[op |-> "all", rules |-> <<r>>] : r \in Nots}, 1)
SmallRules == Leaves \union Level1 \union Level2 \union Level3
MCRuleNodes == SmallRules \union Few \union Shapes(Few, 2) \union Shapes({Exists}, 1)
    \union Nots \union {[op |-> "all", rules |-> <<r>>] : r \in Nots}

MCFacts == {[type |-> "object", fields |-> [flags |-> [type |-> "object", fields |-> [a |-> v]]]] :
                v \in Values}

-----------------------------------------------------------------------------
\* Documents.
Asks(id, gate, required) == [id |-> id, answerPath |-> id, gate |-> gate, required |-> required]
Section(id, order, questions) == [id |-> id, order |-> order, questions |-> questions]
Definition(id, sections) ==
    [kind |-> "QuestionnaireDefinition", id |-> id, flawed |-> FALSE, sections |-> sections]
Session(definition, visited) ==
    [kind |-> "QuestionnaireSession", id |-> "session", flawed |-> FALSE,
     definition |-> definition, visited |-> visited]
Answers(definition, status, answers) ==
    [kind |-> "QuestionnaireAnswerSet", id |-> "answers", flawed |-> FALSE,
     definition |-> definition, session |-> "session", status |-> status, answers |-> answers]
Business(session) ==
    [kind |-> "BusinessContext", id |-> "business", flawed |-> FALSE, session |-> session]
Readiness(gates, missing, overall) ==
    [kind |-> "DataReadinessAssessment", id |-> "readiness", flawed |-> FALSE,
     session |-> "session", gates |-> gates, missing |-> missing, overall |-> overall]
Rule(id, definition, when) ==
    [kind |-> "GuidanceRule", id |-> id, flawed |-> FALSE, definition |-> definition, when |-> when]
Result(gate, status, evidence) == [gate |-> gate, status |-> status, evidence |-> evidence]

First == Definition("first", <<Section("s1", 1, <<Asks("q1", g1, TRUE), Asks("q2", g2, TRUE)>>),
                               Section("s2", 2, <<Asks("q3", g2, FALSE)>>)>>)
Second == Definition("second", <<Section("s1", 1, <<Asks("q1", g1, TRUE)>>),
                                 Section("s3", 2, <<Asks("q4", g2, TRUE)>>)>>)
OptionalOnly == Definition("first", <<Section("s1", 1, <<Asks("q1", g1, TRUE)>>),
                                      Section("s2", 2, <<Asks("q3", g2, FALSE)>>)>>)
Ready == Readiness(<<Result(g1, "PASS", TRUE), Result(g2, "PASS", TRUE)>>, <<>>, "READY")
Blocked == Readiness(<<Result(g2, "BLOCKED", FALSE), Result(g1, "PASS", TRUE)>>, <<g2>>, "BLOCKED")

Bundle(definition, answered, readiness, when) ==
    <<Definition(definition.id, definition.sections),
      Session(definition.id, {"s1"}),
      Answers(definition.id, "SUBMITTED", answered),
      Business("session"), readiness, Rule("rule", definition.id, when),
      [kind |-> "nothing"]>>

MCDrafts ==
    {First, Second, OptionalOnly, [First EXCEPT !.flawed = TRUE],
     Definition("first", <<>>), Definition("first", <<Section("s1", 1, <<>>)>>),
     Definition("first", <<First.sections[1], First.sections[1]>>),
     Definition("first", <<Section("s1", 1, <<Asks("q1", gx, TRUE)>>)>>),
     Session("first", {}), Session("second", {"s3"}), Session("first", {"s3"}),
     Answers("first", "DRAFT", <<"q1">>), Answers("first", "SUBMITTED", <<"q1", "q3">>),
     Answers("second", "SUBMITTED", <<"q1", "q4">>), Answers("first", "DRAFT", <<"q1", "q1">>),
     Business("other"), Ready, Blocked,
     Rule("rule", "second", Exists), Rule("rule2", "first", Exists), Rule("rule", "first", [op |-> "eq"])}

Results3 == [gate : {g1, g2, gx}, status : {"PASS", "NOT_APPLICABLE", "UNSURE"}, evidence : BOOLEAN]
MCBeginnings ==
    {[bundle |-> Bundle(First, <<"q1", "q2">>, Ready, Exists), edits |-> 2],
     [bundle |-> Bundle(Second, <<"q1", "q4">>, Blocked, Exists), edits |-> 2],
     [bundle |-> [i \in 1..7 |-> [kind |-> "nothing"]], edits |-> 0]}
    \union {[bundle |-> Bundle(First, <<"q1", "q2">>, Ready, r), edits |-> 0] : r \in SmallRules}
    \union {[bundle |-> Bundle(First, <<"q1", "q2">>, Readiness(gates, missing, overall), Exists), edits |-> 0] :
            gates \in UNION {[1..n -> Results3] : n \in 1..2}
                \union {<<Result(g1, "PASS", TRUE), Result(g2, s, TRUE), Result(g2, t, TRUE)>> :
                        s \in {"PASS", "BLOCKED"}, t \in {"PASS", "BLOCKED"}},
            missing \in UNION {[1..n -> {g1, g2}] : n \in 0..2},
            overall \in {"READY", "BLOCKED"}}
=============================================================================
