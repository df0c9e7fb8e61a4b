--------------------------- MODULE GuidanceBundle ---------------------------
(***************************************************************************)
(* questionnaire.py: "harnessctl validate --kind questionnaire" loads the  *)
(* documents of a directory one file at a time, while the tenant works on  *)
(* them, validates each one, walks the condition of every guidance rule    *)
(* (module GuidanceRules), and checks what the documents say of one        *)
(* another.                                                                *)
(*                                                                         *)
(* A document is [kind, id, flawed, ...] with the fields of its kind that  *)
(* other fields or documents have to agree with; flawed stands for a fault *)
(* of any other field, a forbidden key or an unknown field.  "nothing" is  *)
(* the kind of a file that is not there, "unreadable" of one that is not   *)
(* JSON or not an object, "link" of a link to nothing.                     *)
(***************************************************************************)
EXTENDS GuidanceRules

CONSTANTS
    Gate,       \* MANDATORY_READINESS_GATES
    Beginnings, \* [bundle, edits]: a directory, and how often it is edited
    Drafts      \* documents a tenant may put in place of one of their kind

Documents == Drafts \union UNION {ToSet(b.bundle) : b \in Beginnings}

ASSUME DocumentsAssumption ==
    \A d \in Documents : d.kind = "GuidanceRule" => d.when \in RuleNodes

VARIABLES
    bundle,     \* the files in the order of their paths
    edits,      \* edits still allowed
    validator,  \* the place of the command
    listed,     \* files of the directory that have not been read
    loaded,     \* the documents that were read
    conditions, \* places in loaded of the rules whose conditions were not walked
    sound,      \* no document was refused so far
    verdict     \* exit status of the last command, -1 before the first

bundleVars == <<bundle, edits, validator, listed, loaded, conditions, sound, verdict>>

-----------------------------------------------------------------------------
Of(kind) == {i \in DOMAIN loaded : loaded[i].kind = kind}
Only(kind) == loaded[CHOOSE i \in Of(kind) : TRUE]
SingleKinds == {"QuestionnaireDefinition", "QuestionnaireSession", "QuestionnaireAnswerSet",
                "BusinessContext", "DataReadinessAssessment"}

Absent == {"nothing", "unreadable", "link"}

\* The questions of all sections, by section and number.
Asked(d) == UNION {{<<s, q>> : q \in DOMAIN d.sections[s].questions} : s \in DOMAIN d.sections}
Question(d, place) == d.sections[place[1]].questions[place[2]]
Questions(d) == {Question(d, place) : place \in Asked(d)}
\* Mutant: an optional question will do.
AnyQuestions(d) == Questions(d)

RequiredQuestions(d) == {q \in Questions(d) : q.required}

\* _validate_definition: ids and paths are unique in all of the sections,
\* whose order has no gap, and each gate has a question that is required.
DefinitionSound(d) ==
    /\ d.sections # <<>>
    /\ \A i \in DOMAIN d.sections : d.sections[i].questions # <<>>
    /\ IsInjective([i \in DOMAIN d.sections |-> d.sections[i].id])
    /\ IsInjective([place \in Asked(d) |-> Question(d, place).id])
    /\ IsInjective([place \in Asked(d) |-> Question(d, place).answerPath])
    /\ {d.sections[i].order : i \in DOMAIN d.sections} = DOMAIN d.sections
    /\ \A q \in Questions(d) : q.gate \in Gate
    /\ {q.gate : q \in RequiredQuestions(d)} = Gate

AnswersSound(d) == IsInjective(d.answers)

\* _validate_readiness.
Results(d) == ToSet(d.gates)
\* Mutant: a gate that does not apply need not pass.
Blocking(d) == {r.gate : r \in {x \in Results(d) : x.status \notin {"PASS", "NOT_APPLICABLE"}}}

NonPassing(d) == {r.gate : r \in {x \in Results(d) : x.status # "PASS"}}

ReadinessSound(d) ==
    /\ IsInjective([i \in DOMAIN d.gates |-> d.gates[i].gate])
    /\ {r.gate : r \in Results(d)} = Gate
    /\ \A r \in Results(d) :
        /\ r.status \in {"PASS", "NEEDS_INPUT", "BLOCKED", "NOT_APPLICABLE"}
        /\ r.status = "PASS" => r.evidence
    /\ IsInjective(d.missing) /\ ToSet(d.missing) = NonPassing(d)
    /\ IF NonPassing(d) = {} THEN d.overall = "READY" ELSE d.overall = "BLOCKED"

\* validate_guidance_document, but for the condition of a rule.
DocumentSound(d) ==
    /\ ~d.flawed
    /\ CASE d.kind = "QuestionnaireDefinition" -> DefinitionSound(d)
         [] d.kind = "QuestionnaireAnswerSet" -> AnswersSound(d)
         [] d.kind = "DataReadinessAssessment" -> ReadinessSound(d)
         [] OTHER -> TRUE

\* Kinds and ids in validate_guidance_bundle.
Complete ==
    /\ IsInjective([i \in DOMAIN loaded |-> loaded[i].id])
    /\ \A kind \in SingleKinds : \E i \in DOMAIN loaded : Of(kind) = {i}
    /\ Of("GuidanceRule") # {}

\* What its documents say of one another.
ReferencesAgree ==
    LET definition == Only("QuestionnaireDefinition").id
        session == Only("QuestionnaireSession").id
    IN  /\ Only("QuestionnaireSession").definition = definition
        /\ Only("QuestionnaireAnswerSet").definition = definition
        /\ \A kind \in {"QuestionnaireAnswerSet", "BusinessContext", "DataReadinessAssessment"} :
            Only(kind).session = session
        /\ \A i \in Of("GuidanceRule") : loaded[i].definition = definition

SectionsKnown ==
    LET sections == ToSet(Only("QuestionnaireDefinition").sections)
    IN  Only("QuestionnaireSession").visited \subseteq {s.id : s \in sections}

AnswersKnown ==
    LET d == Only("QuestionnaireDefinition")
        a == Only("QuestionnaireAnswerSet")
    IN  /\ ToSet(a.answers) \subseteq {q.id : q \in Questions(d)}
        /\ a.status = "SUBMITTED" => {q.id : q \in RequiredQuestions(d)} \subseteq ToSet(a.answers)

-----------------------------------------------------------------------------
BundleInit ==
    /\ \E b \in Beginnings : bundle = b.bundle /\ edits = b.edits
    /\ validator = "idle" /\ listed = {} /\ loaded = <<>>
    /\ conditions = {} /\ sound = TRUE /\ verdict = -1
    /\ rule = [text |-> "none"] /\ unwalked = <<>> /\ nodeCount = 0 /\ problems = {}

Conclude(status) == validator' = "idle" /\ verdict' = status

\* load_guidance_path lists the directory, refuses links, and reads the files
\* in order.
ListFiles ==
    /\ validator = "idle"
    /\ listed' = {i \in DOMAIN bundle : bundle[i].kind # "nothing"}
    /\ loaded' = <<>> /\ sound' = TRUE
    /\ IF listed' = {} \/ \E i \in listed' : bundle[i].kind = "link" THEN Conclude(2)
       ELSE validator' = "load" /\ verdict' = -1
    /\ UNCHANGED <<bundle, edits, conditions, ruleVars>>

LoadFile ==
    /\ validator = "load" /\ listed # {}
    /\ \E i \in listed :
        /\ \A j \in listed : i <= j
        /\ listed' = listed \ {i}
        /\ IF bundle[i].kind \in Absent THEN Conclude(2) /\ UNCHANGED loaded
           ELSE loaded' = Append(loaded, bundle[i]) /\ UNCHANGED <<validator, verdict>>
    /\ UNCHANGED <<bundle, edits, conditions, sound, ruleVars>>

EndLoading ==
    /\ validator = "load" /\ listed = {}
    /\ validator' = "conditions"
    /\ sound' = \A i \in DOMAIN loaded : DocumentSound(loaded[i])
    /\ conditions' = Of("GuidanceRule")
    /\ UNCHANGED <<bundle, edits, listed, loaded, verdict, ruleVars>>

\* validate_rule for one rule after the other.
BeginCondition ==
    /\ validator = "conditions"
    /\ \E i \in conditions :
        /\ \A j \in conditions : i <= j
        /\ BeginWalk(loaded[i].when)
        /\ conditions' = conditions \ {i}
    /\ validator' = "walk"
    /\ UNCHANGED <<bundle, edits, listed, loaded, sound, verdict>>

WalkCondition == validator = "walk" /\ RuleStep /\ UNCHANGED bundleVars

EndCondition ==
    /\ validator = "walk" /\ unwalked = <<>>
    /\ sound' = (sound /\ problems = {})
    /\ validator' = "conditions"
    /\ UNCHANGED <<bundle, edits, listed, loaded, conditions, verdict, ruleVars>>

EndValidation ==
    /\ validator = "conditions" /\ conditions = {}
    /\ IF sound /\ Complete /\ ReferencesAgree /\ SectionsKnown /\ AnswersKnown
       THEN Conclude(0) ELSE Conclude(1)
    /\ UNCHANGED <<bundle, edits, listed, loaded, conditions, sound, ruleVars>>

\* The tenant replaces, removes or damages a file, or copies one.
EditBundle ==
    /\ edits > 0 /\ edits' = edits - 1
    /\ \E i \in DOMAIN bundle :
        \/ \E d \in Drafts : d.kind = bundle[i].kind /\ bundle' = [bundle EXCEPT ![i] = d]
        \/ \E kind \in Absent : bundle' = [bundle EXCEPT ![i] = [kind |-> kind]]
        \/ bundle[i].kind = "nothing"
           /\ \E j \in DOMAIN bundle : bundle' = [bundle EXCEPT ![i] = bundle[j]]
    /\ bundle' # bundle
    /\ UNCHANGED <<validator, listed, loaded, conditions, sound, verdict, ruleVars>>

BundleNext ==
    \/ ListFiles \/ LoadFile \/ EndLoading
    \/ BeginCondition \/ WalkCondition \/ EndCondition \/ EndValidation \/ EditBundle
BundleSpec == BundleInit /\ [][BundleNext]_<<bundleVars, ruleVars>>
-----------------------------------------------------------------------------
(* A readiness assessment that was accepted is as good as it says: READY   *)
(* stands for every mandatory gate passing on evidence, BLOCKED for one    *)
(* that does not, and the missing gates are exactly those that do not.     *)
ReadinessHonest ==
    verdict = 0 =>
        LET d == Only("DataReadinessAssessment")
            passed == {g \in Gate : \A i \in DOMAIN d.gates :
                d.gates[i].gate = g => d.gates[i].status = "PASS" /\ d.gates[i].evidence}
        IN  /\ {d.gates[i].gate : i \in DOMAIN d.gates} = Gate
            /\ d.overall = IF passed = Gate THEN "READY" ELSE "BLOCKED"
            /\ \A g \in Gate : g \in passed <=> \A i \in DOMAIN d.missing : d.missing[i] # g

(* In an accepted bundle with submitted answers the tenant has answered a  *)
(* required question for each mandatory gate, of the definition that the   *)
(* answers, the session and every rule are about, whatever mixture of      *)
(* drafts was read.                                                        *)
EveryGateAnswered ==
    verdict = 0 /\ Only("QuestionnaireAnswerSet").status = "SUBMITTED" =>
        \A g \in Gate :
            \E s \in DOMAIN Only("QuestionnaireDefinition").sections :
                LET asked == Only("QuestionnaireDefinition").sections[s].questions IN
                \E q \in DOMAIN asked :
                    /\ asked[q].gate = g /\ asked[q].required
                    /\ \E i \in DOMAIN Only("QuestionnaireAnswerSet").answers :
                        Only("QuestionnaireAnswerSet").answers[i] = asked[q].id
=============================================================================
