----------------------------- MODULE MCCatalog -----------------------------
(***************************************************************************)
(* A dependency-closed fragment of the repository's own catalog: seven of  *)
(* the sixteen harnesses with their edges, two of the five provider groups *)
(* with five of their providers, and the requests that exercise it.        *)
(***************************************************************************)
EXTENDS TenantConversation, TLC

H == {"infrastructure", "security-safety", "observability-finops", "governance-agentops",
      "model-inference", "evaluation-assurance", "ai-gateway"}
Trust == {"security-safety", "observability-finops", "governance-agentops"}

MCDeclares == [h \in H |->
    CASE h = "infrastructure" -> {"deployment.kubernetes", "platform.k3s"}
      [] h = "model-inference" -> {"model.local-cpu", "model.local-gpu"}
      [] h = "evaluation-assurance" -> {"assurance.required", "assurance.local-model-judge"}
      [] h = "ai-gateway" -> {"agent.read-only"}
      [] OTHER -> {}]
MCPublic == UNION {MCDeclares[h] : h \in H}

Always == {<<"model-inference", "security-safety">>, <<"model-inference", "observability-finops">>,
           <<"security-safety", "infrastructure">>, <<"observability-finops", "infrastructure">>,
           <<"governance-agentops", "security-safety">>,
           <<"governance-agentops", "observability-finops">>,
           <<"evaluation-assurance", "infrastructure">>, <<"ai-gateway", "model-inference">>}
          \cup {<<h, t>> : h \in {"evaluation-assurance", "ai-gateway"}, t \in Trust}
MCEdges ==
    {[from |-> e[1], to |-> e[2], type |-> "ALWAYS", when |-> {}] : e \in Always} \cup
    {[from |-> "evaluation-assurance", to |-> "model-inference",
      type |-> "SUBJECT_UNDER_EVALUATION",
      when |-> {"assurance.local-model-judge", "subject.runtime-model-inference"}],
     [from |-> "ai-gateway", to |-> "evaluation-assurance",
      type |-> "PRODUCTION_GATE", when |-> {}]}

\* One core module per harness; it requires those of the ALWAYS harnesses.
MCModule == {<<"core", h>> : h \in H}
MCModulesOf == [h \in H |-> {<<"core", h>>}]
MCHomeOf == [m \in MCModule |-> m[2]]
MCRequires == [m \in MCModule |-> {<<"core", e[2]>> : e \in {f \in Always : f[1] = m[2]}}]

\* A provider is named after its selector.
MCSelector == {"kubernetes-upstream", "k3s", "ollama", "llamacpp", "vllm"}
Backends == {"ollama", "llamacpp", "vllm"}
MCProvider == {<<"provider", s>> : s \in MCSelector}
MCSelectorOf == [p \in MCProvider |-> p[2]]
InfrastructureGroup == <<"group", "infrastructure-provider">>
BackendGroup == <<"group", "model-backend">>
MCGroup == {InfrastructureGroup, BackendGroup}
MCGroupOf == [p \in MCProvider |-> IF p[2] \in Backends THEN BackendGroup ELSE InfrastructureGroup]
MCHostOf == [p \in MCProvider |-> IF p[2] \in Backends THEN "model-inference" ELSE "infrastructure"]
MCActivates == [p \in MCProvider |->
    CASE p[2] = "ollama" -> {"model.local-cpu", "model.local-gpu"}
      [] p[2] = "llamacpp" -> {"model.local-cpu"}
      [] p[2] = "vllm" -> {"model.local-gpu"}
      [] p[2] = "k3s" -> {"platform.k3s"}
      [] OTHER -> {"deployment.kubernetes"}]

\* Self-managed amd64 clusters: upstream Kubernetes and k3s.
MCPlatform == {"upstream", "k3s"}
MCFact == {"architecture.amd64-available", "connectivity.connected"}
MCNeededFacts == [pl \in MCPlatform |-> MCFact]
MCRunsOn == [r \in MCModule \cup MCProvider |->
    CASE r[2] = "k3s" -> {"k3s"}
      [] r[2] = "kubernetes-upstream" -> {"upstream"}
      [] OTHER -> MCPlatform]

Names == <<"ai-gateway", "evaluation-assurance", "governance-agentops", "infrastructure",
           "model-inference", "observability-finops", "security-safety">>
Rank(h) == CHOOSE i \in DOMAIN Names : Names[i] = h
MCLexicalRank == [x \in MCModule \cup MCGroup |->
    IF x \in MCModule THEN Rank(x[2]) ELSE IF x = BackendGroup THEN 2 ELSE 1]

\* Requests: up to three public capabilities with up to two selectors, no or
\* too much acceptance and the assurance subjects a tenant can name; and one
\* request for each flaw of its own.  Revisions add what the refusals ask for,
\* so more capabilities and selectors and the exact acceptance come up too.
Flawless(demand, accepted, harnesses, capabilities, platform) ==
    [submitted |-> TRUE, ready |-> TRUE, sameSession |-> TRUE, sameTenant |-> TRUE,
     attested |-> TRUE, withinBudget |-> TRUE, facts |-> MCFact, platform |-> platform,
     requested |-> demand, prerequisites |-> accepted,
     subjectHarnesses |-> harnesses, subjectCapabilities |-> capabilities]
Example == Flawless({"deployment.kubernetes", "kubernetes-upstream"}, {}, {}, {},
                    "upstream")
Flawed == {[Example EXCEPT !.submitted = FALSE], [Example EXCEPT !.ready = FALSE],
           [Example EXCEPT !.sameSession = FALSE], [Example EXCEPT !.requested = {}],
           [Example EXCEPT !.sameTenant = FALSE], [Example EXCEPT !.attested = FALSE],
           [Example EXCEPT !.facts = {"connectivity.connected"}], [Example EXCEPT !.withinBudget = FALSE],
           [Example EXCEPT !.facts = @ \cup {"model.local-cpu"}],
           [Example EXCEPT !.requested = @ \cup {"connectivity.connected"}],
           [Example EXCEPT !.requested = @ \cup {"model.inference"}],
           [Example EXCEPT !.subjectHarnesses = {"unregistered"}]}
MCRequests == Flawed \cup
    {Flawless(d \cup s, a, t[1], t[2], pl) :
        d \in {x \in SUBSET MCPublic : Cardinality(x) \in 1..3},
        s \in {x \in SUBSET MCSelector : Cardinality(x) <= 2},
        a \in {{}, H},
        t \in {<<{}, {}>>, <<{"model-inference"}, {}>>, <<{}, {"assurance.local-model-judge"}>>},
        pl \in MCPlatform}
=============================================================================
