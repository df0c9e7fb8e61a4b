------------------------------ MODULE Compiler -----------------------------
(***************************************************************************)
(* compiler.compile_profile: one request against one accepted catalog.     *)
(* The call is a pipeline that stops at its first failed check; a step     *)
(* here is one stretch of it, and each stretch lists its checks in the     *)
(* order of the code.  The outcome is either the plan (the content of the  *)
(* six output documents that the properties tell apart) or a refusal: the  *)
(* error code, which check it was, and the identifiers the evidence names  *)
(* (all candidates, where the code prints the first of a sorted set).      *)
(* Requests are well-formed: the shape checks of _validate_request (closed *)
(* mappings, stable identifiers, versions, enumerations) are left out.     *)
(***************************************************************************)
EXTENDS Catalog, Sequences, FiniteSets

CONSTANT Requests       \* the requests that may be submitted

ASSUME RequestsTyped == \A r \in Requests :
    DOMAIN r = {"submitted", "ready", "sameSession", "sameTenant", "attested", "withinBudget",
                "facts", "platform", "requested", "prerequisites", "subjectHarnesses",
                "subjectCapabilities"}

VARIABLES
    request,    \* the request being compiled
    stage,      \* the stretch of the pipeline that runs next
    providers,  \* selections: the providers the tenant chose
    proposals,  \* active group -> compatible selectors, for information
    direct,     \* directly demanded harnesses
    links,      \* harness -> the dependencies that apply to this demand
    selected,   \* closure of the direct harnesses under links
    modules,    \* the modules of the selected harnesses and what those require
    plan,       \* the install graph that topological_waves orders
    refusal     \* the CompilationError

resolution == <<providers, proposals>>
selection == <<direct, links, selected>>
derived == <<resolution, selection, modules, plan>>
vars == <<request, stage, derived, refusal>>

NoRefusal == [code |-> "none", about |-> "none", names |-> {}]

\* A check yields the refusal it raises, or nothing.
Check(fails, code, about, names) ==
    {r \in {[code |-> code, about |-> about, names |-> names]} : fails}

Passes(checks) == \A i \in DOMAIN checks : checks[i] = {}

RefuseFirst(checks) ==
    \E i \in DOMAIN checks :
        /\ \A j \in 1..(i - 1) : checks[j] = {}
        /\ refusal' \in checks[i]
        /\ stage' = "refused"
        /\ UNCHANGED <<request, derived>>

Started(req) ==
    /\ request = req
    /\ stage = "request"
    /\ providers = {} /\ proposals = <<>>
    /\ direct = {} /\ links = [h \in Harness |-> {}] /\ selected = {}
    /\ modules = {} /\ plan = <<>>
    /\ refusal = NoRefusal

Init == \E req \in Requests : Started(req)

-----------------------------------------------------------------------------
\* _validate_request: the questionnaire, the readiness assessment, the signed
\* environment and the budget.
RequestChecks == <<
    Check(~request.submitted, "NEEDS_INPUT", "answers", {}),
    Check(~request.ready, "READINESS_BLOCKED", "readiness", {}),
    Check(~request.sameSession, "INVALID_COMBINATION", "session", {}),
    Check(request.requested = {}, "INVALID_COMBINATION", "demand", {}),
    Check(~request.sameTenant, "TENANT_BOUNDARY_MISMATCH", "tenant", {}),
    Check(~request.attested, "ENVIRONMENT_ATTESTATION_REQUIRED", "attestation", {}),
    Check(~(NeededFacts[request.platform] \subseteq request.facts),
          "PLATFORM_CAPABILITY_MISSING", "facts", NeededFacts[request.platform] \ request.facts),
    Check(~request.withinBudget, "EXECUTION_BUDGET_INVALID", "budget", {}) >>

RefuseRequest == stage = "request" /\ RefuseFirst(RequestChecks)

AdmitRequest ==
    /\ stage = "request"
    /\ Passes(RequestChecks)
    /\ stage' = "demand"
    /\ UNCHANGED <<request, derived, refusal>>

\* compile_profile up to its provider resolution, and that resolution up to
\* the loop over the groups.
RequestedPublic == request.requested \cap Public
HasSubjects == request.subjectHarnesses # {} \/ request.subjectCapabilities # {}
\* Mutant: activity is decided for the group, not for the member.
InactiveGroupOnly == {p \in Provider :
    SelectorOf[p] \in request.requested /\ GroupOf[p] \notin ActiveGroups(request.requested)}

Inactive == {p \in Provider :
    SelectorOf[p] \in request.requested /\ ~Activated(p, request.requested)}

DemandChecks == <<
    Check(~(request.subjectHarnesses \subseteq Harness),
          "INVALID_COMBINATION", "subjects", request.subjectHarnesses \ Harness),
    Check(~(request.subjectCapabilities \subseteq RequestedPublic),
          "INVALID_CAPABILITY_ROLE", "subjects", request.subjectCapabilities \ RequestedPublic),
    Check(HasSubjects /\ AssuranceDemand \cap RequestedPublic = {},
          "INVALID_COMBINATION", "subjects", {}),
    Check(Judge \in RequestedPublic /\ JudgeModels \cap RequestedPublic = {},
          "NEEDS_INPUT", "judge", JudgeModels),
    Check(~(request.requested \subseteq Public \cup Fact \cup SelectorsOf(Provider)),
          "INVALID_CAPABILITY_ROLE", "roles",
          request.requested \ (Public \cup Fact \cup SelectorsOf(Provider))),
    Check(request.requested \cap Fact # {},
          "INVALID_CAPABILITY_ROLE", "roles", request.requested \cap Fact),
    Check(~(request.facts \subseteq Fact),
          "INVALID_CAPABILITY_ROLE", "environment", request.facts \ Fact),
    Check(Inactive # {}, "INVALID_COMBINATION", "selector", SelectorsOf(Inactive)) >>

\* Mutant: prerequisites are compared with the demand before it is settled.
RefuseDemandEarly ==
    /\ stage = "demand"
    /\ LET own == {h \in request.prerequisites : Declares[h] \cap RequestedPublic # {}}
       IN  RefuseFirst(<<Check(own # {}, "INVALID_COMBINATION", "surplus", own)>> \o DemandChecks)

RefuseDemand == stage = "demand" /\ RefuseFirst(DemandChecks)

AdmitDemand ==
    /\ stage = "demand"
    /\ Passes(DemandChecks)
    /\ stage' = "groups"
    /\ UNCHANGED <<request, derived, refusal>>

-----------------------------------------------------------------------------
\* The loop over the groups: a group is active when the demand activates some
\* member; the tenant has to have chosen exactly one, and a compatible one.
\* Proposals are made for every active group and select nothing.
Compatible(resource) == request.platform \in RunsOn[resource]
Active == ActiveGroups(request.requested)
\* Mutant: without a choice the compatible members are taken.
ChosenOrDefault(g) ==
    IF ChosenIn(g, request.requested) # {} THEN ChosenIn(g, request.requested)
    ELSE {p \in ProvidersIn(g) : Activated(p, request.requested) /\ Compatible(p)}

\* Mutants: incompatible members are proposed; members the demand does not
\* activate are proposed.
ProposedIncompatible(g) ==
    SelectorsOf({p \in ProvidersIn(g) : Activated(p, request.requested)})
ProposedInactive(g) == SelectorsOf({p \in ProvidersIn(g) : Compatible(p)})

Chosen(g) == ChosenIn(g, request.requested)
Proposed(g) == SelectorsOf({p \in ProvidersIn(g) :
    Activated(p, request.requested) /\ Compatible(p)})

GroupChecks(g) == <<
    Check(Chosen(g) = {} /\ Proposed(g) = {}, "PROVIDER_UNAVAILABLE", "group", {}),
    Check(Chosen(g) = {}, "NEEDS_INPUT", "group", Proposed(g)),
    Check(Cardinality(Chosen(g)) > 1, "AMBIGUOUS_PROVIDER", "group", SelectorsOf(Chosen(g))),
    Check(\E p \in Chosen(g) : ~Compatible(p),
          "PROVIDER_UNAVAILABLE", "choice", SelectorsOf(Chosen(g))) >>

Unresolved == {g \in Active : ~Passes(GroupChecks(g))}

RefuseGroup ==
    /\ stage = "groups"
    /\ \E g \in Unresolved : First(g, Unresolved) /\ RefuseFirst(GroupChecks(g))

SelectProviders ==
    /\ stage = "groups"
    /\ Unresolved = {}
    /\ providers' = UNION {Chosen(g) : g \in Active}
    /\ proposals' = [g \in Active |-> Proposed(g)]
    /\ stage' = "harnesses"
    /\ UNCHANGED <<request, selection, modules, plan, refusal>>

-----------------------------------------------------------------------------
\* Direct harnesses, the dependencies that apply to this demand and their
\* closure.  A PRODUCTION_GATE is never a dependency.
DirectHarnesses ==
    {h \in Harness : Declares[h] \cap RequestedPublic # {}} \cup {HostOf[p] : p \in providers}

\* Mutant: a production gate is taken for a dependency.
AppliesGates(e) ==
    \/ e.type \in {"ALWAYS", "PRODUCTION_GATE"}
    \/ e.type = "WHEN_CAPABILITY" /\ e.when \cap RequestedPublic # {}
    \/ /\ e.type = "SUBJECT_UNDER_EVALUATION"
       /\ e.to \in request.subjectHarnesses \/ e.when \cap request.subjectCapabilities # {}

Applies(e) ==
    \/ e.type = "ALWAYS"
    \/ e.type = "WHEN_CAPABILITY" /\ e.when \cap RequestedPublic # {}
    \/ /\ e.type = "SUBJECT_UNDER_EVALUATION"
       /\ e.to \in request.subjectHarnesses \/ e.when \cap request.subjectCapabilities # {}

HarnessDependencies ==
    [h \in Harness |-> {e.to : e \in {f \in Edges : f.from = h /\ Applies(f)}}]

CloseHarnesses ==
    /\ stage = "harnesses"
    /\ direct' = DirectHarnesses
    /\ links' = HarnessDependencies
    /\ selected' = Reachable(direct', links')
    /\ stage' = "closure"
    /\ UNCHANGED <<request, resolution, modules, plan, refusal>>

\* Every public capability needs one owner (a check the code makes before it
\* takes the closure), the closure has to be free of cycles and conflicts, and
\* the tenant has to have accepted its prerequisites, all of them and nothing else.
Prerequisites == selected \ direct

\* Public capabilities with several owners, which validate_catalog lets pass.
Contested == {c \in Public : \E g, h \in Harness : g # h /\ c \in Declares[g] \cap Declares[h]}

\* Mutant: the evidence lists the prerequisites that were accepted.
ClosureChecksSwapped == <<
    Check(Residue(selected, links) # {},
          "DEPENDENCY_CYCLE", "harnesses", Residue(selected, links)),
    Check(~(Prerequisites \subseteq request.prerequisites),
          "PREREQUISITE_NOT_ACCEPTED", "missing", Prerequisites \cap request.prerequisites) >>

\* Mutant: surplus acceptance goes unnoticed.
ClosureChecksLenient == <<
    Check(Residue(selected, links) # {},
          "DEPENDENCY_CYCLE", "harnesses", Residue(selected, links)),
    Check(~(Prerequisites \subseteq request.prerequisites),
          "PREREQUISITE_NOT_ACCEPTED", "missing", Prerequisites \ request.prerequisites) >>

ClosureChecks == <<
    Check(Contested # {}, "CATALOG_INVALID", "owners", Contested),
    Check(Residue(selected, links) # {},
          "DEPENDENCY_CYCLE", "harnesses", Residue(selected, links)),
    Check(\E pair \in Conflicts : pair[1] \in selected /\ pair[2] \in selected,
          "HARNESS_CONFLICT", "conflict", {}),
    Check(~(Prerequisites \subseteq request.prerequisites),
          "PREREQUISITE_NOT_ACCEPTED", "missing", Prerequisites \ request.prerequisites),
    Check(~(request.prerequisites \subseteq Prerequisites),
          "INVALID_COMBINATION", "surplus", request.prerequisites \ Prerequisites) >>

RefuseClosure == stage = "closure" /\ RefuseFirst(ClosureChecks)

\* Mutant: the graph names the providers without declaring them.
InstallGraphUndeclared(mods) ==
    [r \in mods |-> (Requires[r] \cap mods) \cup {p \in providers : r \in ModulesOf[HostOf[p]]}]

\* The modules of the selected harnesses and what those require, and the graph
\* that orders them: a module waits for the modules it requires and for the
\* providers of the harnesses that list it.
InstallGraph(mods) ==
    [r \in mods \cup providers |->
        IF r \in providers THEN {}
        ELSE (Requires[r] \cap mods) \cup {p \in providers : r \in ModulesOf[HostOf[p]]}]

AcceptClosure ==
    /\ stage = "closure"
    /\ Passes(ClosureChecks)
    /\ modules' = Reachable(UNION {ModulesOf[h] : h \in selected}, Requires)
    /\ plan' = InstallGraph(modules')
    /\ stage' = "modules"
    /\ UNCHANGED <<request, resolution, selection, refusal>>

\* No other harness may come in through a required module, each module has to
\* fit the platform and be released, and the graph needs an order.
Faulty == {m \in modules : ~Compatible(m) \/ m \notin Released}
Intruders == {HomeOf[m] : m \in modules} \ selected

ModuleChecks == <<
    Check(Intruders # {}, "CLOSURE_INCOMPLETE", "modules", Intruders),
    Check(\E m \in Faulty : First(m, Faulty) /\ ~Compatible(m),
          "PLATFORM_CAPABILITY_MISSING", "modules", Faulty),
    Check(Faulty # {}, "PROVIDER_UNAVAILABLE", "modules", Faulty),
    Check(Residue(DOMAIN plan, plan) # {}, "DEPENDENCY_CYCLE", "modules", {}) >>

RefuseModules == stage = "modules" /\ RefuseFirst(ModuleChecks)

Compile ==
    /\ stage = "modules"
    /\ Passes(ModuleChecks)
    /\ stage' = "compiled"
    /\ UNCHANGED <<request, derived, refusal>>

Refusing ==
    RefuseRequest \/ RefuseDemand \/ RefuseGroup \/ RefuseClosure \/ RefuseModules

Next ==
    \/ AdmitRequest \/ AdmitDemand \/ SelectProviders
    \/ CloseHarnesses \/ AcceptClosure \/ Compile
    \/ Refusing

Spec == Init /\ [][Next]_vars /\ WF_vars(Next)

-----------------------------------------------------------------------------
Stages == {"request", "demand", "groups", "harnesses", "closure", "modules", "compiled", "refused"}

TypeOK ==
    /\ stage \in Stages
    /\ providers \subseteq Provider
    /\ DOMAIN proposals \subseteq Group
    /\ direct \subseteq Harness
    /\ links \in [Harness -> SUBSET Harness]
    /\ selected \subseteq Harness
    /\ modules \subseteq Module
    /\ DOMAIN plan \subseteq Module \cup Provider
    /\ stage = "refused" <=> refusal.code # "none"

\* No provider is ever selected for the tenant, and no choice of the tenant is
\* dropped: the selected providers are those the tenant named, exactly one for
\* every active group and none for the others, each fit for the platform.
ProvidersAreTenantChoices ==
    stage \in {"harnesses", "closure", "modules", "compiled"} =>
        /\ SelectorsOf(providers) = request.requested \ Public
        /\ \A g \in Group :
            Cardinality(providers \cap ProvidersIn(g)) = IF g \in Active THEN 1 ELSE 0
        /\ \A p \in providers : Compatible(p)

\* The two admission routines of the repository, the one of validation.py and
\* the one inside the compiler, agree: what the compiler accepts the other
\* admits, and what it refuses for the demand's own sake the other rejects.
AdmissionAgrees ==
    /\ stage \in {"harnesses", "closure", "modules", "compiled"} => AdmitsDemand(request.requested)
    /\ (refusal.about \in {"roles", "selector", "group"}) => ~AdmitsDemand(request.requested)

\* Everything installed is accounted for: a planned module belongs to a
\* harness that was demanded or explicitly accepted, never both, every such
\* harness has all its modules planned, and no accepted harness is left over.
PlanExplained ==
    stage = "compiled" =>
        /\ selected = direct \cup request.prerequisites
        /\ direct \cap request.prerequisites = {}
        /\ {HomeOf[m] : m \in modules} \subseteq selected
        /\ \A h \in selected : ModulesOf[h] \subseteq modules
        /\ DOMAIN plan = modules \cup providers

\* The plan can be executed: no module waits for something outside the plan,
\* none is planned before a module it requires or before the provider of a
\* harness that lists it, and an order exists.
PlanInstallable ==
    stage = "compiled" =>
        /\ SelfContained(DOMAIN plan, plan)
        /\ Residue(DOMAIN plan, plan) = {}
        /\ \A m \in modules : Requires[m] \subseteq plan[m]
        /\ \A p \in providers : \A m \in ModulesOf[HostOf[p]] : p \in plan[m]

\* For an accepted catalog the install graph always has an order: the cycle
\* error of the last topological_waves call cannot happen.
InstallOrderExists ==
    stage = "modules" => Residue(DOMAIN plan, plan) = {}

\* validate_catalog looks for cycles without the SUBJECT_UNDER_EVALUATION
\* edges.  That is enough for a demand that names no assurance subject: its
\* closure is never refused as cyclic.
NoCycleWithoutSubjects ==
    (stage = "closure" /\ ~HasSubjects) => Residue(selected, links) = {}

\* docs/taxonomy.md: SUBJECT_UNDER_EVALUATION "names what assurance evaluates
\* and cannot create an installation dependency".
WithoutSubjectEdges ==
    [h \in Harness |-> {e.to : e \in {f \in Edges :
        f.from = h /\ Applies(f) /\ f.type # "SUBJECT_UNDER_EVALUATION"}}]
SubjectsInstallNothing ==
    stage = "compiled" => selected = Reachable(direct, WithoutSubjectEdges)
=============================================================================
