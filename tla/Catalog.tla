------------------------------ MODULE Catalog ------------------------------
(***************************************************************************)
(* The harness catalog as compile_profile reads it: what load_catalog and  *)
(* capability_roles hand over, with the closed-catalog conditions that     *)
(* validate_catalog enforces before anything is compiled stated as the     *)
(* assumption CatalogAccepted.  The catalog never changes during a call.   *)
(* Resource identifiers are values; where the code sorts them,             *)
(* LexicalRank gives their place.                                          *)
(***************************************************************************)
EXTENDS DependencyGraph, FiniteSets

CONSTANTS
    Harness, Module, Provider, Group,   \* resource identifiers
    Public, Fact,       \* PUBLIC_DEMAND and ENVIRONMENT_FACT capabilities
    Selector,           \* provider selectors
    Platform,           \* mode, architecture, system and distribution at once
    Declares,           \* harness -> the public capabilities it owns
    Edges,              \* harness dependencies: from, to, type, when
    Conflicts,          \* pairs of harnesses that exclude each other
    ModulesOf,          \* harness -> its moduleIds
    HomeOf, Requires,   \* module -> its harnessId and its requiresModules
    Released,           \* modules whose license allows release
    GroupOf, SelectorOf, HostOf, Activates,    \* provider attributes
    RunsOn,             \* module or provider -> platforms it is compatible with
    NeededFacts,        \* platform -> facts its attestation has to contain
    AssuranceDemand,    \* assurance.required and assurance.local-model-judge
    Judge, JudgeModels, \* the judge, and the model classes it can use
    LexicalRank         \* place of modules and groups in sorted order

First(x, S) == x \in S /\ \A y \in S : LexicalRank[x] <= LexicalRank[y]

EdgeTypes == {"ALWAYS", "WHEN_CAPABILITY", "SUBJECT_UNDER_EVALUATION", "PRODUCTION_GATE"}

\* The edges validate_catalog searches for cycles.
StaticDependencies ==
    [h \in Harness |-> {e.to : e \in {f \in Edges :
        f.from = h /\ f.type \in {"ALWAYS", "WHEN_CAPABILITY"}}}]

ASSUME CatalogTyped ==
    /\ Declares \in [Harness -> SUBSET Public]
    /\ \A e \in Edges : e.from \in Harness /\ e.to \in Harness /\ e.type \in EdgeTypes
    /\ IsFiniteSet(Provider)
    /\ Conflicts \subseteq Harness \X Harness
    /\ ModulesOf \in [Harness -> SUBSET Module]
    /\ HomeOf \in [Module -> Harness]
    /\ Requires \in [Module -> SUBSET Module]
    /\ Released \subseteq Module
    /\ GroupOf \in [Provider -> Group]
    /\ SelectorOf \in [Provider -> Selector]
    /\ HostOf \in [Provider -> Harness]
    /\ Activates \in [Provider -> SUBSET Public]
    /\ RunsOn \in [Module \cup Provider -> SUBSET Platform]
    /\ NeededFacts \in [Platform -> SUBSET Fact]
    /\ LexicalRank \in [Module \cup Group -> Nat]

\* What an accepted catalog satisfies: the issues of validate_catalog that the
\* compiler's later steps rely on.  The cycle search covers the edges of types
\* ALWAYS and WHEN_CAPABILITY only, as in the code.
ClosedCatalog ==
    /\ \A e \in Edges : e.from # e.to
    /\ Residue(Harness, StaticDependencies) = {}
    /\ Residue(Module, Requires) = {}
    /\ \A pair \in Conflicts : pair[1] # pair[2] /\ <<pair[2], pair[1]>> \in Conflicts
    /\ \A m \in Module : m \in ModulesOf[HomeOf[m]]
    /\ \A p, q \in Provider : SelectorOf[p] = SelectorOf[q] => p = q
    /\ Public \cap Fact = {} /\ Selector \cap (Public \cup Fact) = {}
    /\ Module \cap Provider = {}

ASSUME CatalogAccepted == ClosedCatalog

-----------------------------------------------------------------------------
ProvidersIn(g) == {p \in Provider : GroupOf[p] = g}
Activated(p, demand) == Activates[p] \cap demand # {}
ActiveGroups(demand) == {g \in Group : \E p \in ProvidersIn(g) : Activated(p, demand)}
ChosenIn(g, demand) == {p \in ProvidersIn(g) : SelectorOf[p] \in demand}
SelectorsOf(providers) == {SelectorOf[p] : p \in providers}

\* validation.admit_requested_capabilities, the verdict without the message.
AdmitsDemand(demand) ==
    /\ demand \subseteq Public \cup SelectorsOf(Provider)
    /\ \A p \in Provider : SelectorOf[p] \in demand => Activated(p, demand)
    /\ \A g \in ActiveGroups(demand) : ChosenIn(g, demand) # {}
    /\ \A g \in Group : \A p, q \in ChosenIn(g, demand) : p = q
=============================================================================
