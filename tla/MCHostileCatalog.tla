-------------------------- MODULE MCHostileCatalog --------------------------
(***************************************************************************)
(* A small catalog that satisfies CatalogAccepted and still holds all that *)
(* the repository's own catalog happens to lack: a conflict, a conditional *)
(* edge a demand can trigger, a subject edge that closes a cycle, a        *)
(* harness that lists another harness's module, an unreleased module, a    *)
(* module that does not run everywhere, and providers of one group in      *)
(* different harnesses.  Requests are every demand with every acceptance,  *)
(* and one request for each flaw of its own.                               *)
(***************************************************************************)
EXTENDS TenantConversation, TLC

H == {"agent", "model", "memory", "assurance"}

MCDeclares == ("agent" :> {"act"}) @@ ("model" :> {"infer"}) @@ ("memory" :> {"remember"})
              @@ ("assurance" :> {"assure", "judge"})

Edge(from, to, type, when) == [from |-> from, to |-> to, type |-> type, when |-> when]
MCEdges == {
    Edge("agent", "model", "ALWAYS", {}),
    Edge("model", "assurance", "ALWAYS", {}),
    Edge("memory", "agent", "WHEN_CAPABILITY", {"act", "internal"}),
    Edge("assurance", "agent", "SUBJECT_UNDER_EVALUATION", {"act"}),
    Edge("agent", "memory", "PRODUCTION_GATE", {}) }
MCConflicts == {<<"memory", "model">>, <<"model", "memory">>}

MCModule == {<<"core", h>> : h \in H}
MCModulesOf == [h \in H |-> {<<"core", h>>} \cup
    IF h = "memory" THEN {<<"core", "assurance">>} ELSE {}]
MCHomeOf == [m \in MCModule |-> m[2]]
MCRequires == [m \in MCModule |-> IF m[2] \in {"agent", "memory"} THEN {<<"core", "assurance">>}
                                  ELSE {}]
MCReleased == MCModule \ {<<"core", "memory">>}

MCSelector == {"light", "heavy"}
MCProvider == {<<"provider", s>> : s \in MCSelector}
MCGroup == {<<"group", "backend">>}
MCGroupOf == [p \in MCProvider |-> <<"group", "backend">>]
MCSelectorOf == [p \in MCProvider |-> p[2]]
MCHostOf == [p \in MCProvider |-> IF p[2] = "light" THEN "assurance" ELSE "model"]
MCActivates == [p \in MCProvider |-> IF p[2] = "light" THEN {"infer", "assure"} ELSE {"infer"}]

MCPlatform == {"server", "edge"}
MCFact == {"connected"}
MCNeededFacts == [pl \in MCPlatform |-> MCFact]
MCRunsOn == [r \in MCModule \cup MCProvider |->
    IF r[2] \in {"heavy", "agent"} THEN {"server"} ELSE MCPlatform]

Names == <<"agent", "assurance", "memory", "model">>
MCLexicalRank == [x \in MCModule \cup MCGroup |->
    IF x \in MCGroup THEN 1 ELSE CHOOSE i \in DOMAIN Names : Names[i] = x[2]]

MCPublic == {"act", "infer", "remember", "assure", "judge"}
Wellformed ==
    [submitted : {TRUE}, ready : {TRUE}, sameSession : {TRUE}, sameTenant : {TRUE},
     attested : {TRUE}, withinBudget : {TRUE}, facts : {MCFact}, platform : MCPlatform,
     requested : SUBSET (MCPublic \cup MCSelector),
     prerequisites : SUBSET H,
     subjectHarnesses : {{}, {"agent"}}, subjectCapabilities : {{}, {"act"}}]
Example == CHOOSE r \in Wellformed : r.requested = {"act"}
Flawed == {[Example EXCEPT !.submitted = FALSE], [Example EXCEPT !.ready = FALSE],
           [Example EXCEPT !.sameSession = FALSE], [Example EXCEPT !.sameTenant = FALSE],
           [Example EXCEPT !.attested = FALSE], [Example EXCEPT !.withinBudget = FALSE],
           [Example EXCEPT !.facts = {}], [Example EXCEPT !.facts = @ \cup {"infer"}],
           [Example EXCEPT !.requested = @ \cup {"connected"}],
           [Example EXCEPT !.requested = @ \cup {"internal"}],
           [Example EXCEPT !.subjectHarnesses = {"unregistered"}]}
MCRequests == Wellformed \cup Flawed
=============================================================================
