---------------------------- MODULE CompilerProofs --------------------------
(***************************************************************************)
(* What holds of compile_profile for every catalog that validate_catalog   *)
(* accepts and every request.  The inductive invariant says, stage by      *)
(* stage, what the checks already passed have established and that the     *)
(* locals computed so far still are what the code computed: nothing later  *)
(* in the call changes them.                                               *)
(***************************************************************************)
EXTENDS TenantConversation, FiniteSetTheorems, TLAPS

LEMMA DemandPasses ==
    Passes(DemandChecks) =>
        /\ request.requested \subseteq Public \cup Fact \cup SelectorsOf(Provider)
        /\ request.requested \cap Fact = {}
        /\ Inactive = {}
<1> SUFFICES ASSUME Passes(DemandChecks)
             PROVE  /\ request.requested \subseteq Public \cup Fact \cup SelectorsOf(Provider)
                    /\ request.requested \cap Fact = {}
                    /\ Inactive = {}
    OBVIOUS
<1>0. DOMAIN DemandChecks = 1..8
    BY DEF DemandChecks
<1>1. \A i \in 1..8 : DemandChecks[i] = {}
    BY <1>0 DEF Passes
<1>2. DemandChecks[5] = {} /\ DemandChecks[6] = {} /\ DemandChecks[8] = {}
    BY <1>1
<1> QED BY <1>2 DEF DemandChecks, Check

LEMMA DemandRefusals ==
    ASSUME RefuseFirst(DemandChecks), refusal'.about \in {"roles", "selector", "group"}
    PROVE  \/ ~(request.requested \subseteq Public \cup Fact \cup SelectorsOf(Provider))
           \/ request.requested \cap Fact # {}
           \/ Inactive # {}
<1>1. PICK i \in DOMAIN DemandChecks : refusal' \in DemandChecks[i]
    BY DEF RefuseFirst
<1>2. i \in 1..8
  <2> DOMAIN DemandChecks = 1..8
    BY DEF DemandChecks
  <2> QED BY <1>1
<1>3. i \in {5, 6, 8}
    BY <1>1, <1>2 DEF DemandChecks, Check
<1>4. CASE i = 5  BY <1>1, <1>4 DEF DemandChecks, Check
<1>5. CASE i = 6  BY <1>1, <1>5 DEF DemandChecks, Check
<1>6. CASE i = 8  BY <1>1, <1>6 DEF DemandChecks, Check
<1> QED BY <1>3, <1>4, <1>5, <1>6

\* After the group loop: the tenant chose one provider for every active group.
LEMMA GroupPasses ==
    ASSUME Unresolved = {}, NEW g \in Active
    PROVE  \E p \in Provider : Chosen(g) = {p} /\ Compatible(p)
<1>1. Passes(GroupChecks(g))
    BY DEF Unresolved
<1>2. DOMAIN GroupChecks(g) = 1..4
    BY DEF GroupChecks
<1>3. \A i \in 1..4 : GroupChecks(g)[i] = {}
    BY <1>1, <1>2 DEF Passes
<1>4. /\ Chosen(g) # {}
      /\ ~(Cardinality(Chosen(g)) > 1)
      /\ \A p \in Chosen(g) : Compatible(p)
  <2>1. GroupChecks(g)[2] = {} /\ GroupChecks(g)[3] = {} /\ GroupChecks(g)[4] = {}
    BY <1>3
  <2> QED BY <2>1 DEF GroupChecks, Check
<1>5. IsFiniteSet(Chosen(g))
  <2>1. Chosen(g) \subseteq Provider
    BY DEF Chosen, ChosenIn, ProvidersIn
  <2> QED BY <2>1, CatalogTyped, FS_Subset
<1>6. Cardinality(Chosen(g)) = 1
    BY <1>4, <1>5, FS_EmptySet, FS_CardinalityType
<1>7. PICK p : Chosen(g) = {p}
    BY <1>5, <1>6, FS_Singleton
<1> QED BY <1>4, <1>7 DEF Chosen, ChosenIn, ProvidersIn

\* A refusal about a group says that the tenant named none or several of it.
LEMMA GroupRefusals ==
    ASSUME NEW g \in Active, RefuseFirst(GroupChecks(g)), refusal'.about = "group"
    PROVE  Chosen(g) = {} \/ \E p, q \in Chosen(g) : p # q
<1>1. PICK i \in DOMAIN GroupChecks(g) : refusal' \in GroupChecks(g)[i]
    BY DEF RefuseFirst
<1>2. i \in 1..4
  <2> DOMAIN GroupChecks(g) = 1..4
    BY DEF GroupChecks
  <2> QED BY <1>1
<1>3. CASE i = 1  BY <1>1, <1>3 DEF GroupChecks, Check
<1>4. CASE i = 2  BY <1>1, <1>4 DEF GroupChecks, Check
<1>5. CASE i = 3
  <2>1. Cardinality(Chosen(g)) > 1
    BY <1>1, <1>5 DEF GroupChecks, Check
  <2>2. ASSUME \A p, q \in Chosen(g) : p = q, Chosen(g) # {}  PROVE FALSE
    <3>1. PICK p : Chosen(g) = {p}
      BY <2>2
    <3>2. Cardinality(Chosen(g)) = 1
      BY <3>1, FS_Singleton
    <3> QED BY <2>1, <3>2
  <2> QED BY <2>2
<1>6. CASE i = 4  BY <1>1, <1>6 DEF GroupChecks, Check
<1> QED BY <1>2, <1>3, <1>4, <1>5, <1>6

LEMMA ClosurePasses ==
    Passes(ClosureChecks) =>
        /\ Residue(selected, links) = {}
        /\ Prerequisites = request.prerequisites
<1> SUFFICES ASSUME Passes(ClosureChecks)
             PROVE  Residue(selected, links) = {} /\ Prerequisites = request.prerequisites
    OBVIOUS
<1>1. DOMAIN ClosureChecks = 1..5
    BY DEF ClosureChecks
<1>2. ClosureChecks[2] = {} /\ ClosureChecks[4] = {} /\ ClosureChecks[5] = {}
    BY <1>1 DEF Passes
<1> QED BY <1>2 DEF ClosureChecks, Check

LEMMA ModulesPass ==
    ASSUME Passes(ModuleChecks)  PROVE Intruders = {}
<1>1. DOMAIN ModuleChecks = 1..4
    BY DEF ModuleChecks
<1>2. ModuleChecks[1] = {}
    BY <1>1 DEF Passes
<1> QED BY <1>2 DEF ModuleChecks, Check

\* Every refusal carries an error code.
LEMMA RefusalsAreCoded ==
    /\ RefuseRequest \/ RefuseDemand \/ RefuseClosure \/ RefuseModules => refusal'.code # "none"
    /\ RefuseGroup => refusal'.code # "none"
<1>1. RefuseFirst(RequestChecks) => refusal'.code # "none"
  <2>1. DOMAIN RequestChecks = 1..8
    BY DEF RequestChecks
  <2> QED BY <2>1 DEF RefuseFirst, RequestChecks, Check
<1>2. RefuseFirst(DemandChecks) => refusal'.code # "none"
  <2>1. DOMAIN DemandChecks = 1..8
    BY DEF DemandChecks
  <2> QED BY <2>1 DEF RefuseFirst, DemandChecks, Check
<1>3. \A g \in Unresolved : RefuseFirst(GroupChecks(g)) => refusal'.code # "none"
  <2>1. \A g \in Unresolved : DOMAIN GroupChecks(g) = 1..4
    BY DEF GroupChecks
  <2> QED BY <2>1 DEF RefuseFirst, GroupChecks, Check
<1>4. RefuseFirst(ClosureChecks) => refusal'.code # "none"
  <2>1. DOMAIN ClosureChecks = 1..5
    BY DEF ClosureChecks
  <2> QED BY <2>1 DEF RefuseFirst, ClosureChecks, Check
<1>5. RefuseFirst(ModuleChecks) => refusal'.code # "none"
  <2>1. DOMAIN ModuleChecks = 1..4
    BY DEF ModuleChecks
  <2> QED BY <2>1 DEF RefuseFirst, ModuleChecks, Check
<1> QED BY <1>1, <1>2, <1>3, <1>4, <1>5
    DEF RefuseRequest, RefuseDemand, RefuseGroup, RefuseClosure, RefuseModules

\* A refusal ends the call and changes nothing else.
LEMMA RefusalsStop ==
    ASSUME Refusing
    PROVE  /\ stage \notin {"refused", "compiled"}
           /\ stage' = "refused"
           /\ refusal'.code # "none"
           /\ UNCHANGED <<request, derived>>
BY RefusalsAreCoded
   DEF Refusing, RefuseRequest, RefuseDemand, RefuseGroup, RefuseClosure, RefuseModules, RefuseFirst

\* What the demand checks and the group loop have to say of the two admission
\* routines of the repository.
LEMMA RefusedDemands ==
    ASSUME Refusing, refusal'.about \in {"roles", "selector", "group"}
    PROVE  ~AdmitsDemand(request.requested)
<1>1. CASE RefuseDemand
  <2>1. \/ ~(request.requested \subseteq Public \cup Fact \cup SelectorsOf(Provider))
        \/ request.requested \cap Fact # {}
        \/ Inactive # {}
    BY <1>1, DemandRefusals DEF RefuseDemand
  <2>2. Fact \cap (Public \cup SelectorsOf(Provider)) = {}
    BY CatalogAccepted, CatalogTyped DEF ClosedCatalog, SelectorsOf
  <2> QED BY <2>1, <2>2 DEF AdmitsDemand, Inactive
<1>2. CASE RefuseGroup
  <2>1. PICK g \in Unresolved : RefuseFirst(GroupChecks(g))
    BY <1>2 DEF RefuseGroup
  <2>2. g \in Active
    BY <2>1 DEF Unresolved
  <2>3. DOMAIN GroupChecks(g) = 1..4
    BY DEF GroupChecks
  <2>4. refusal'.about = "group"
    BY <2>1, <2>3 DEF RefuseFirst, GroupChecks, Check
  <2>5. Chosen(g) = {} \/ \E p, q \in Chosen(g) : p # q
    BY <2>1, <2>2, <2>4, GroupRefusals
  <2>6. g \in Group
    BY <2>2 DEF Active, ActiveGroups
  <2> QED BY <2>2, <2>5, <2>6 DEF AdmitsDemand, Active, Chosen
<1>3. CASE RefuseRequest
  <2>1. DOMAIN RequestChecks = 1..8
    BY DEF RequestChecks
  <2> QED BY <1>3, <2>1 DEF RefuseRequest, RefuseFirst, RequestChecks, Check
<1>4. CASE RefuseClosure
  <2>1. DOMAIN ClosureChecks = 1..5
    BY DEF ClosureChecks
  <2> QED BY <1>4, <2>1 DEF RefuseClosure, RefuseFirst, ClosureChecks, Check
<1>5. CASE RefuseModules
  <2>1. DOMAIN ModuleChecks = 1..4
    BY DEF ModuleChecks
  <2> QED BY <1>5, <2>1 DEF RefuseModules, RefuseFirst, ModuleChecks, Check
<1> QED BY <1>1, <1>2, <1>3, <1>4, <1>5 DEF Refusing

-----------------------------------------------------------------------------
Resolved == {"harnesses", "closure", "modules", "compiled"}
Closed == {"closure", "modules", "compiled"}
Linked == {"modules", "compiled"}

DemandInv ==
    stage \in {"groups"} \cup Resolved =>
        /\ request.requested \subseteq Public \cup Fact \cup SelectorsOf(Provider)
        /\ request.requested \cap Fact = {}
        /\ Inactive = {}

ProviderInv ==
    stage \in Resolved =>
        /\ providers = UNION {Chosen(g) : g \in Active}
        /\ \A g \in Active : \E p \in Provider : Chosen(g) = {p} /\ Compatible(p)

HarnessInv ==
    stage \in Closed =>
        /\ direct = DirectHarnesses
        /\ links = HarnessDependencies
        /\ selected = Reachable(direct, links)

ModuleInv ==
    stage \in Linked =>
        /\ Prerequisites = request.prerequisites
        /\ modules = Reachable(UNION {ModulesOf[h] : h \in selected}, Requires)
        /\ plan = InstallGraph(modules)

VerdictInv ==
    refusal.about \in {"roles", "selector", "group"} => ~AdmitsDemand(request.requested)

IntruderInv == stage = "compiled" => Intruders = {}

IInv ==
    /\ TypeOK
    /\ DemandInv
    /\ ProviderInv
    /\ HarnessInv
    /\ ModuleInv
    /\ IntruderInv
    /\ VerdictInv

LEMMA ReachableDeclared ==
    ASSUME NEW seeds, NEW deps  PROVE Reachable(seeds, deps) \subseteq DOMAIN deps
BY DEF Reachable

LEMMA DirectDeclared == providers \subseteq Provider => DirectHarnesses \subseteq Harness
BY CatalogTyped DEF DirectHarnesses

LEMMA LinksTyped == HarnessDependencies \in [Harness -> SUBSET Harness]
BY CatalogTyped DEF HarnessDependencies

LEMMA PlanTyped == ASSUME NEW mods  PROVE DOMAIN InstallGraph(mods) = mods \cup providers
BY DEF InstallGraph

\* The locals of a call that has just started.
Fresh ==
    /\ stage = "request"
    /\ providers = {} /\ proposals = <<>>
    /\ direct = {} /\ links = [h \in Harness |-> {}] /\ selected = {}
    /\ modules = {} /\ plan = <<>>
    /\ refusal = NoRefusal

LEMMA FreshInductive == Fresh => IInv
<1> SUFFICES ASSUME Fresh  PROVE IInv
    OBVIOUS
<1>1. stage = "request" /\ refusal.code = "none" /\ refusal.about = "none"
    BY DEF Fresh, NoRefusal
<1>2. TypeOK
  <2>1. DOMAIN proposals = {} /\ DOMAIN plan = {}
    BY DEF Fresh
  <2> QED BY <1>1, <2>1 DEF TypeOK, Fresh, Stages
<1> QED BY <1>1, <1>2
    DEF IInv, DemandInv, ProviderInv, HarnessInv, ModuleInv, IntruderInv, VerdictInv,
        Resolved, Closed, Linked

LEMMA InitInductive == Init => IInv
BY FreshInductive DEF Init, Started, Fresh

LEMMA TypePreserved == IInv /\ [Next]_vars => TypeOK'
<1> SUFFICES ASSUME IInv, [Next]_vars  PROVE TypeOK'
    OBVIOUS
<1> USE DEF IInv
<1>1. CASE AdmitRequest
    BY <1>1 DEF AdmitRequest, derived, resolution, selection, TypeOK, Stages
<1>2. CASE AdmitDemand
    BY <1>2 DEF AdmitDemand, derived, resolution, selection, TypeOK, Stages
<1>3. CASE SelectProviders
  <2>1. providers' \subseteq Provider
    BY <1>3 DEF SelectProviders, Chosen, ChosenIn, ProvidersIn
  <2>2. DOMAIN proposals' \subseteq Group
    BY <1>3 DEF SelectProviders, Active, ActiveGroups
  <2> QED BY <1>3, <2>1, <2>2 DEF SelectProviders, selection, TypeOK, Stages
<1>4. CASE CloseHarnesses
  <2>1. direct' \subseteq Harness /\ links' \in [Harness -> SUBSET Harness]
    BY <1>4, DirectDeclared, LinksTyped DEF CloseHarnesses, TypeOK
  <2>2. selected' \subseteq Harness
    BY <1>4, <2>1, ReachableDeclared DEF CloseHarnesses
  <2> QED BY <1>4, <2>1, <2>2 DEF CloseHarnesses, resolution, TypeOK, Stages
<1>5. CASE AcceptClosure
  <2>1. modules' \subseteq Module
    BY <1>5, CatalogTyped, ReachableDeclared DEF AcceptClosure
  <2>2. DOMAIN plan' \subseteq Module \cup Provider
    BY <1>5, <2>1, PlanTyped DEF AcceptClosure, TypeOK
  <2> QED BY <1>5, <2>1, <2>2 DEF AcceptClosure, resolution, selection, TypeOK, Stages
<1>6. CASE Compile
    BY <1>6 DEF Compile, derived, resolution, selection, TypeOK, Stages
<1>7. CASE Refusing
    BY <1>7, RefusalsStop DEF derived, resolution, selection, TypeOK, Stages
<1>8. CASE UNCHANGED vars
    BY <1>8 DEF vars, derived, resolution, selection, TypeOK
<1> QED BY <1>1, <1>2, <1>3, <1>4, <1>5, <1>6, <1>7, <1>8 DEF Next

LEMMA Inductive == IInv /\ [Next]_vars => IInv'
<1> SUFFICES ASSUME IInv, [Next]_vars  PROVE IInv'
    OBVIOUS
<1>0. TypeOK'
    BY TypePreserved
<1> USE DEF IInv, Resolved, Closed, Linked
<1>1. CASE AdmitRequest
    BY <1>0, <1>1 DEF AdmitRequest, DemandInv, ProviderInv, HarnessInv, ModuleInv, IntruderInv,
        VerdictInv
<1>2. CASE AdmitDemand
  <2>1. DemandInv'
    BY <1>2, DemandPasses DEF AdmitDemand, DemandInv, Inactive
  <2> QED BY <1>0, <1>2, <2>1 DEF AdmitDemand, ProviderInv, HarnessInv, ModuleInv,
        IntruderInv, VerdictInv
<1>3. CASE SelectProviders
  <2>1. DemandInv'
    BY <1>3 DEF SelectProviders, DemandInv, Inactive
  <2>2. \A g \in Active : \E p \in Provider : Chosen(g) = {p} /\ Compatible(p)
    BY <1>3, GroupPasses DEF SelectProviders
  <2>3. ProviderInv'
    BY <1>3, <2>2 DEF SelectProviders, ProviderInv, Chosen, Active, Compatible
  <2> QED BY <1>0, <1>3, <2>1, <2>3 DEF SelectProviders, HarnessInv, ModuleInv, IntruderInv,
        VerdictInv
<1>4. CASE CloseHarnesses
  <2>1. DemandInv'
    BY <1>4 DEF CloseHarnesses, DemandInv, Inactive
  <2>2. ProviderInv'
    BY <1>4 DEF CloseHarnesses, resolution, ProviderInv, Chosen, Active, Compatible
  <2>3. DirectHarnesses' = DirectHarnesses /\ HarnessDependencies' = HarnessDependencies
    BY <1>4 DEF CloseHarnesses, resolution, DirectHarnesses, HarnessDependencies, Applies,
        RequestedPublic
  <2>4. HarnessInv'
    BY <1>4, <2>3 DEF CloseHarnesses, HarnessInv
  <2> QED BY <1>0, <1>4, <2>1, <2>2, <2>4 DEF CloseHarnesses, ModuleInv, IntruderInv, VerdictInv
<1>5. CASE AcceptClosure
  <2>1. DemandInv'
    BY <1>5 DEF AcceptClosure, DemandInv, Inactive
  <2>2. ProviderInv'
    BY <1>5 DEF AcceptClosure, resolution, ProviderInv, Chosen, Active, Compatible
  <2>3. DirectHarnesses' = DirectHarnesses /\ HarnessDependencies' = HarnessDependencies
    BY <1>5 DEF AcceptClosure, resolution, DirectHarnesses, HarnessDependencies, Applies,
        RequestedPublic
  <2>4. HarnessInv'
    BY <1>5, <2>3 DEF AcceptClosure, selection, HarnessInv
  <2>5. UNCHANGED <<request, providers, direct, selected>>
    BY <1>5 DEF AcceptClosure, resolution, selection
  <2>6. ModuleInv'
    <3>1. Prerequisites' = request'.prerequisites
      BY <1>5, <2>5, ClosurePasses DEF AcceptClosure, Prerequisites
    <3>2. modules' = Reachable(UNION {ModulesOf[h] : h \in selected'}, Requires)
      BY <1>5, <2>5 DEF AcceptClosure
    <3>3. plan' = [r \in modules' \cup providers' |->
            IF r \in providers' THEN {}
            ELSE (Requires[r] \cap modules')
                 \cup {p \in providers' : r \in ModulesOf[HostOf[p]]}]
      BY <1>5, <2>5 DEF AcceptClosure, InstallGraph
    <3> QED BY <3>1, <3>2, <3>3 DEF ModuleInv, InstallGraph
  <2> QED BY <1>0, <1>5, <2>1, <2>2, <2>4, <2>6 DEF AcceptClosure, IntruderInv, VerdictInv
<1>6. CASE Compile
  <2>1. DemandInv'
    BY <1>6 DEF Compile, DemandInv, Inactive
  <2>2. ProviderInv'
    BY <1>6 DEF Compile, derived, resolution, ProviderInv, Chosen, Active, Compatible
  <2>3. DirectHarnesses' = DirectHarnesses /\ HarnessDependencies' = HarnessDependencies
    BY <1>6 DEF Compile, derived, resolution, DirectHarnesses, HarnessDependencies, Applies,
        RequestedPublic
  <2>4. HarnessInv'
    BY <1>6, <2>3 DEF Compile, derived, selection, HarnessInv
  <2>5. InstallGraph(modules)' = InstallGraph(modules)
    BY <1>6 DEF Compile, derived, resolution, InstallGraph
  <2>6. ModuleInv'
    BY <1>6, <2>5 DEF Compile, derived, selection, ModuleInv, Prerequisites
  <2>7. IntruderInv'
    BY <1>6, ModulesPass DEF Compile, derived, selection, IntruderInv, Intruders
  <2> QED BY <1>0, <1>6, <2>1, <2>2, <2>4, <2>6, <2>7 DEF Compile, VerdictInv
<1>7. CASE Refusing
  <2>1. stage' = "refused" /\ request' = request
    BY <1>7, RefusalsStop
  <2>2. VerdictInv'
    BY <1>7, <2>1, RefusedDemands DEF VerdictInv
  <2> QED BY <1>0, <2>1, <2>2 DEF DemandInv, ProviderInv, HarnessInv, ModuleInv, IntruderInv
<1>8. CASE UNCHANGED vars
  <2>1. UNCHANGED <<request, stage, providers, direct, links, selected, modules, plan, refusal>>
    BY <1>8 DEF vars, derived, resolution, selection
  <2>2. DemandInv' /\ VerdictInv'
    BY <2>1 DEF DemandInv, VerdictInv, Inactive
  <2>3. ProviderInv'
    BY <2>1 DEF ProviderInv, Chosen, Active, Compatible
  <2>4. DirectHarnesses' = DirectHarnesses /\ HarnessDependencies' = HarnessDependencies
    BY <2>1 DEF DirectHarnesses, HarnessDependencies, Applies, RequestedPublic
  <2>5. HarnessInv'
    BY <2>1, <2>4 DEF HarnessInv
  <2>6. ModuleInv' /\ IntruderInv'
    BY <2>1 DEF ModuleInv, IntruderInv, InstallGraph, Prerequisites, Intruders
  <2> QED BY <1>0, <2>2, <2>3, <2>5, <2>6
<1> QED BY <1>1, <1>2, <1>3, <1>4, <1>5, <1>6, <1>7, <1>8 DEF Next

LEMMA AlwaysInductive == Spec => []IInv
BY InitInductive, Inductive, PTL DEF Spec

-----------------------------------------------------------------------------
LEMMA TypeOKFollows == IInv => TypeOK
BY DEF IInv

\* compile_profile keeps its locals within the catalog, and it stops exactly
\* when it raises a coded error.
THEOREM TypeCorrect == Spec => []TypeOK
BY TypeOKFollows, AlwaysInductive, PTL

LEMMA ProvidersAreTenantChoicesFollows == IInv => ProvidersAreTenantChoices
<1>1. ASSUME IInv, stage \in Resolved
      PROVE  /\ SelectorsOf(providers) = request.requested \ Public
             /\ \A g \in Group :
                 Cardinality(providers \cap ProvidersIn(g)) = IF g \in Active THEN 1 ELSE 0
             /\ \A p \in providers : Compatible(p)
  <2>1. /\ request.requested \subseteq Public \cup Fact \cup SelectorsOf(Provider)
        /\ request.requested \cap Fact = {}
        /\ Inactive = {}
        /\ providers = UNION {Chosen(g) : g \in Active}
        /\ \A g \in Active : \E p \in Provider : Chosen(g) = {p} /\ Compatible(p)
    BY <1>1 DEF IInv, DemandInv, ProviderInv
  <2>2. \A p \in Provider : SelectorOf[p] \notin Public
    BY CatalogTyped, CatalogAccepted DEF ClosedCatalog
  <2>3. SelectorsOf(providers) \subseteq request.requested \ Public
    BY <2>1, <2>2 DEF SelectorsOf, Chosen, ChosenIn, ProvidersIn
  <2>4. ASSUME NEW c \in request.requested \ Public  PROVE c \in SelectorsOf(providers)
    <3>1. PICK p \in Provider : c = SelectorOf[p]
      BY <2>1, <2>4 DEF SelectorsOf
    <3>2. Activated(p, request.requested)
      BY <2>1, <2>4, <3>1 DEF Inactive
    <3>3. GroupOf[p] \in Active
      BY <3>2, CatalogTyped DEF Active, ActiveGroups, ProvidersIn
    <3>4. p \in Chosen(GroupOf[p])
      BY <2>4, <3>1 DEF Chosen, ChosenIn, ProvidersIn
    <3> QED BY <2>1, <3>1, <3>3, <3>4 DEF SelectorsOf
  <2>5. ASSUME NEW g \in Group
        PROVE Cardinality(providers \cap ProvidersIn(g)) = IF g \in Active THEN 1 ELSE 0
    <3>1. CASE g \in Active
      <4>1. providers \cap ProvidersIn(g) = Chosen(g)
        BY <2>1, <3>1 DEF Chosen, ChosenIn, ProvidersIn
      <4>2. PICK p : Chosen(g) = {p}
        BY <2>1, <3>1
      <4>3. Cardinality({p}) = 1
        BY FS_Singleton
      <4> QED BY <3>1, <4>1, <4>2, <4>3
    <3>2. CASE g \notin Active
      <4>1. providers \cap ProvidersIn(g) = {}
        BY <2>1, <3>2 DEF Chosen, ChosenIn, ProvidersIn
      <4> QED BY <3>2, <4>1, FS_EmptySet
    <3> QED BY <3>1, <3>2
  <2>6. \A p \in providers : Compatible(p)
    BY <2>1
  <2> QED BY <2>3, <2>4, <2>5, <2>6
<1> QED BY <1>1 DEF ProvidersAreTenantChoices, Resolved

\* The selected providers are the tenant's choices, one per active group.
THEOREM NothingChosenForTheTenant == Spec => []ProvidersAreTenantChoices
BY ProvidersAreTenantChoicesFollows, AlwaysInductive, PTL

LEMMA AdmissionAgreesFollows == IInv => AdmissionAgrees
<1>1. ASSUME IInv, stage \in Resolved  PROVE AdmitsDemand(request.requested)
  <2>1. /\ request.requested \subseteq Public \cup Fact \cup SelectorsOf(Provider)
        /\ request.requested \cap Fact = {}
        /\ Inactive = {}
        /\ \A g \in Active : \E p \in Provider : Chosen(g) = {p} /\ Compatible(p)
    BY <1>1 DEF IInv, DemandInv, ProviderInv
  <2>2. request.requested \subseteq Public \cup SelectorsOf(Provider)
    BY <2>1
  <2>3. \A p \in Provider :
            SelectorOf[p] \in request.requested => Activated(p, request.requested)
    BY <2>1 DEF Inactive
  <2>4. \A g \in ActiveGroups(request.requested) : ChosenIn(g, request.requested) # {}
    BY <2>1 DEF Active, Chosen
  <2>5. ASSUME NEW g \in Group, NEW p \in ChosenIn(g, request.requested),
               NEW q \in ChosenIn(g, request.requested)
        PROVE  p = q
    <3>1. g \in Active
      BY <2>3, <2>5 DEF Active, ActiveGroups, ChosenIn, ProvidersIn
    <3> QED BY <2>1, <2>5, <3>1 DEF Chosen
  <2> QED BY <2>2, <2>3, <2>4, <2>5 DEF AdmitsDemand
<1> QED BY <1>1 DEF AdmissionAgrees, IInv, VerdictInv, Resolved

\* compile_profile and admit_requested_capabilities judge a demand alike.
THEOREM AdmissionRoutinesAgree == Spec => []AdmissionAgrees
BY AdmissionAgreesFollows, AlwaysInductive, PTL

LEMMA NoCycleWithoutSubjectsFollows == IInv => NoCycleWithoutSubjects
<1>1. ASSUME IInv, stage = "closure", ~HasSubjects  PROVE Residue(selected, links) = {}
  <2>1. links = HarnessDependencies /\ selected \subseteq Harness
    BY <1>1 DEF IInv, HarnessInv, Closed, TypeOK
  <2>2. \A h \in Harness : links[h] \subseteq StaticDependencies[h]
    BY <1>1, <2>1 DEF HasSubjects, HarnessDependencies, Applies, StaticDependencies
  <2>3. ASSUME NEW R \in SUBSET selected, Deadlocked(R, links), R # {}  PROVE FALSE
    <3>1. R \in SUBSET Harness
      BY <2>1
    <3>2. Deadlocked(R, StaticDependencies)
      BY <2>2, <2>3, <3>1 DEF Deadlocked
    <3> QED BY <2>3, <3>1, <3>2, CatalogAccepted DEF ClosedCatalog, Residue
  <2> QED BY <2>3 DEF Residue
<1> QED BY <1>1 DEF NoCycleWithoutSubjects

\* A demand without assurance subjects never has a cyclic closure: its
\* dependencies are among those validate_catalog has searched.
THEOREM AcyclicWithoutSubjects == Spec => []NoCycleWithoutSubjects
BY NoCycleWithoutSubjectsFollows, AlwaysInductive, PTL

LEMMA PlanOrdered ==
    ASSUME IInv, stage \in Linked  PROVE Residue(DOMAIN plan, plan) = {}
<1>1. plan = InstallGraph(modules) /\ modules \subseteq Module
    BY DEF IInv, ModuleInv, TypeOK
<1>2. DOMAIN plan = modules \cup providers
    BY <1>1, PlanTyped
<1>3. ASSUME NEW R \in SUBSET DOMAIN plan, Deadlocked(R, plan), R # {}  PROVE FALSE
  <2>1. R \cap providers = {}
    BY <1>1, <1>2, <1>3 DEF Deadlocked, InstallGraph
  <2>2. R \in SUBSET Module
    BY <1>1, <1>2, <1>3, <2>1
  <2>3. \A r \in R : Requires[r] \cap R # {}
    BY <1>1, <1>2, <1>3, <2>1 DEF Deadlocked, InstallGraph
  <2> QED BY <1>3, <2>2, <2>3, CatalogAccepted DEF ClosedCatalog, Deadlocked, Residue
<1> QED BY <1>3 DEF Residue

LEMMA InstallOrderExistsFollows == IInv => InstallOrderExists
BY PlanOrdered DEF InstallOrderExists, Linked

\* The install graph of an accepted catalog always has an order.
THEOREM OrderExists == Spec => []InstallOrderExists
BY InstallOrderExistsFollows, AlwaysInductive, PTL

LEMMA ReachableHoldsSeeds ==
    ASSUME NEW seeds, NEW deps, seeds \subseteq DOMAIN deps
    PROVE  seeds \subseteq Reachable(seeds, deps)
BY DEF Reachable

LEMMA ReachableClosed ==
    ASSUME NEW seeds, NEW deps, NEW n \in Reachable(seeds, deps)
    PROVE  deps[n] \cap DOMAIN deps \subseteq Reachable(seeds, deps)
BY DEF Reachable, ClosedUnder

\* What the locals hold once the module closure is known.
LEMMA PlanShape ==
    ASSUME IInv, stage \in Linked
    PROVE  /\ direct \subseteq selected
           /\ \A h \in selected : h \in Harness /\ ModulesOf[h] \subseteq modules
           /\ modules \subseteq Module
           /\ \A m \in modules : Requires[m] \subseteq modules
           /\ \A p \in providers : HostOf[p] \in selected
           /\ plan = InstallGraph(modules)
<1>1. /\ direct = DirectHarnesses
      /\ links = HarnessDependencies
      /\ selected = Reachable(direct, links)
      /\ modules = Reachable(UNION {ModulesOf[h] : h \in selected}, Requires)
      /\ plan = InstallGraph(modules)
      /\ direct \subseteq Harness /\ selected \subseteq Harness /\ modules \subseteq Module
      /\ DOMAIN links = Harness /\ DOMAIN Requires = Module
    BY CatalogTyped DEF IInv, HarnessInv, ModuleInv, TypeOK, Closed, Linked
<1>2. direct \subseteq selected
    BY <1>1, ReachableHoldsSeeds
<1>3. UNION {ModulesOf[h] : h \in selected} \subseteq Module
    BY <1>1, CatalogTyped
<1>4. UNION {ModulesOf[h] : h \in selected} \subseteq modules
    BY <1>1, <1>3, ReachableHoldsSeeds
<1>5. ASSUME NEW m \in modules  PROVE Requires[m] \subseteq modules
  <2>1. Requires[m] \subseteq Module
    BY <1>1, <1>5, CatalogTyped
  <2>2. Requires[m] \cap DOMAIN Requires \subseteq modules
    BY <1>1, <1>5, ReachableClosed
  <2> QED BY <1>1, <2>1, <2>2
<1>6. \A p \in providers : HostOf[p] \in selected
    BY <1>1, <1>2 DEF DirectHarnesses
<1> QED BY <1>1, <1>2, <1>4, <1>5, <1>6

LEMMA PlanExplainedFollows == IInv => PlanExplained
<1>1. ASSUME IInv, stage = "compiled"
      PROVE  /\ selected = direct \cup request.prerequisites
             /\ direct \cap request.prerequisites = {}
             /\ {HomeOf[m] : m \in modules} \subseteq selected
             /\ \A h \in selected : ModulesOf[h] \subseteq modules
             /\ DOMAIN plan = modules \cup providers
  <2>1. Prerequisites = request.prerequisites /\ Intruders = {}
    BY <1>1 DEF IInv, ModuleInv, IntruderInv, Linked
  <2>2. stage \in Linked
    BY <1>1 DEF Linked
  <2>3. DOMAIN plan = modules \cup providers
    BY <1>1, <2>2, PlanShape, PlanTyped
  <2> QED BY <1>1, <2>1, <2>2, <2>3, PlanShape DEF Prerequisites, Intruders
<1> QED BY <1>1 DEF PlanExplained

\* A finished plan installs what was demanded or accepted, all of it, and
\* nothing else.
THEOREM NothingUnexplained == Spec => []PlanExplained
BY PlanExplainedFollows, AlwaysInductive, PTL

LEMMA PlanInstallableFollows == IInv => PlanInstallable
<1>1. ASSUME IInv, stage = "compiled"
      PROVE  /\ SelfContained(DOMAIN plan, plan)
             /\ \A m \in modules : Requires[m] \subseteq plan[m]
             /\ \A p \in providers : \A m \in ModulesOf[HostOf[p]] : p \in plan[m]
  <2>1. stage \in Linked
    BY <1>1 DEF Linked
  <2>2. plan = InstallGraph(modules) /\ modules \subseteq Module /\ providers \subseteq Provider
    BY <1>1, <2>1, PlanShape DEF IInv, TypeOK
  <2>3. modules \cap providers = {}
    BY <2>2, CatalogAccepted DEF ClosedCatalog
  <2>4. DOMAIN plan = modules \cup providers
    BY <2>2, PlanTyped
  <2>5. ASSUME NEW m \in modules
        PROVE  plan[m] = Requires[m] \cup {p \in providers : m \in ModulesOf[HostOf[p]]}
    <3>1. Requires[m] \subseteq modules
      BY <1>1, <2>1, <2>5, PlanShape
    <3>2. m \notin providers
      BY <2>3, <2>5
    <3> QED BY <2>2, <2>5, <3>1, <3>2 DEF InstallGraph
  <2>6. \A p \in providers : plan[p] = {}
    BY <2>2 DEF InstallGraph
  <2>7. \A m \in modules : Requires[m] \subseteq modules
    BY <1>1, <2>1, PlanShape
  <2>8. SelfContained(DOMAIN plan, plan)
    BY <2>4, <2>5, <2>6, <2>7 DEF SelfContained
  <2>9. ASSUME NEW p \in providers, NEW m \in ModulesOf[HostOf[p]]  PROVE p \in plan[m]
    <3>1. m \in modules
      BY <1>1, <2>1, <2>9, PlanShape
    <3> QED BY <2>5, <2>9, <3>1
  <2> QED BY <2>5, <2>8, <2>9
<1> QED BY <1>1, PlanOrdered DEF PlanInstallable, Linked

\* A finished plan can be installed: it is self-contained, it has an order, and
\* it respects the required modules and the providers of each harness.
THEOREM PlansAreInstallable == Spec => []PlanInstallable
BY PlanInstallableFollows, AlwaysInductive, PTL
-----------------------------------------------------------------------------
(* Conversations.  A call starts from nothing but the request, so what a   *)
(* revision has settled is a property of the request alone: the providers, *)
(* direct harnesses and closure that any call computes from it.            *)
OwnProviders == UNION {Chosen(g) : g \in Active}
OwnDirect ==
    {h \in Harness : Declares[h] \cap RequestedPublic # {}} \cup {HostOf[p] : p \in OwnProviders}
OwnClosure == Reachable(OwnDirect, HarnessDependencies)
OwnPrerequisites == OwnClosure \ OwnDirect

\* Every check up to the acceptance of the prerequisites passes.
DemandSettled ==
    /\ Passes(RequestChecks) /\ Passes(DemandChecks) /\ Unresolved = {}
    /\ Contested = {} /\ Residue(OwnClosure, HarnessDependencies) = {}
    /\ ~\E pair \in Conflicts : pair[1] \in OwnClosure /\ pair[2] \in OwnClosure

\* A provider is the one choice for its group and the demand activates it.
SettledChoice(p) == Chosen(GroupOf[p]) = {p} /\ Activated(p, request.requested)

PassedInv ==
    /\ stage \notin {"request", "refused"} => Passes(RequestChecks)
    /\ stage \in {"groups"} \cup Resolved => Passes(DemandChecks)
    /\ stage \in Resolved => Unresolved = {}

\* What a refusal r says of the present request.
GroupRefused(g, r) ==
    \/ /\ r.code = "NEEDS_INPUT" /\ r.about = "group"
       /\ Chosen(g) = {} /\ r.names = Proposed(g) /\ Proposed(g) # {}
    \/ /\ r.code = "AMBIGUOUS_PROVIDER" /\ r.about = "group"
       /\ Cardinality(Chosen(g)) > 1 /\ r.names = SelectorsOf(Chosen(g))
    \/ r.code = "PROVIDER_UNAVAILABLE" /\ r.about = "group" /\ r.names = {}
    \/ /\ r.code = "PROVIDER_UNAVAILABLE" /\ r.about = "choice"
       /\ r.names = SelectorsOf(Chosen(g)) /\ \E p \in Chosen(g) : ~Compatible(p)

DemandRefused(r) ==
    /\ r.about = "roles" =>
        r.code = "INVALID_CAPABILITY_ROLE" /\ r.names \cap SelectorsOf(Provider) = {}
    /\ r.about = "judge" =>
        /\ r.code = "NEEDS_INPUT" /\ r.names = JudgeModels
        /\ Judge \in RequestedPublic /\ JudgeModels \cap RequestedPublic = {}
    /\ r.about = "selector" =>
        /\ r.code = "INVALID_COMBINATION"
        /\ Inactive # {} /\ r.names = SelectorsOf(Inactive)

ClosureRefused(r) ==
    /\ r.about = "missing" =>
        /\ r.code = "PREREQUISITE_NOT_ACCEPTED" /\ DemandSettled
        /\ r.names = OwnPrerequisites \ request.prerequisites /\ r.names # {}
    /\ r.about = "surplus" =>
        /\ r.code = "INVALID_COMBINATION"
        /\ DemandSettled /\ OwnPrerequisites \subseteq request.prerequisites
        /\ r.names = request.prerequisites \ OwnPrerequisites /\ r.names # {}

RefusalSays(r) ==
    /\ r.about \notin {"none", "missing", "surplus", "modules"} => ~DemandSettled
    /\ DemandRefused(r)
    /\ r.about \in {"group", "choice"} => Inactive = {} /\ \E g \in Active : GroupRefused(g, r)
    /\ ClosureRefused(r)
    /\ r.code = "AMBIGUOUS_PROVIDER" => r.about = "group"

RefusedInv == RefusalSays(refusal)

\* Advice that was followed has settled what it was about.
Heeded(r) ==
    \/ /\ r.about = "group" /\ r.code \in {"NEEDS_INPUT", "AMBIGUOUS_PROVIDER"}
       /\ \E p \in Provider :
            /\ SelectorOf[p] \in r.names /\ SettledChoice(p)
            /\ r.code = "AMBIGUOUS_PROVIDER" => r.names # {SelectorOf[p]}
    \/ r.about = "judge" /\ JudgeModels \cap RequestedPublic # {}
    \/ /\ r.about = "selector" /\ r.names # {} /\ r.names \subseteq SelectorsOf(Provider)
       /\ \A p \in Provider :
            SelectorOf[p] \in r.names \cap request.requested => Activated(p, request.requested)
    \/ r.about = "missing" /\ DemandSettled /\ OwnPrerequisites \subseteq request.prerequisites
    \/ r.about = "surplus" /\ DemandSettled /\ OwnPrerequisites = request.prerequisites

FollowedInv == \A r \in followed : Heeded(r)

TakenInv ==
    \A c \in taken : \E p \in Provider : c = SelectorOf[p] /\ SettledChoice(p) /\ Compatible(p)

RequestFields ==
    {"submitted", "ready", "sameSession", "sameTenant", "attested", "withinBudget", "facts",
     "platform", "requested", "prerequisites", "subjectHarnesses", "subjectCapabilities"}
RequestInv == DOMAIN request = RequestFields

ConversationInv ==
    IInv /\ PassedInv /\ RefusedInv /\ FollowedInv /\ TakenInv /\ RequestInv

-----------------------------------------------------------------------------
\* What it takes to pass each list of checks.
RequestFit ==
    /\ request.submitted /\ request.ready /\ request.sameSession
    /\ request.requested # {} /\ request.sameTenant /\ request.attested
    /\ NeededFacts[request.platform] \subseteq request.facts /\ request.withinBudget

DemandFit ==
    /\ request.subjectHarnesses \subseteq Harness
    /\ request.subjectCapabilities \subseteq RequestedPublic
    /\ ~(HasSubjects /\ AssuranceDemand \cap RequestedPublic = {})
    /\ ~(Judge \in RequestedPublic /\ JudgeModels \cap RequestedPublic = {})
    /\ request.requested \subseteq Public \cup Fact \cup SelectorsOf(Provider)
    /\ request.requested \cap Fact = {}
    /\ request.facts \subseteq Fact
    /\ Inactive = {}

ChoicesFit ==
    \A g \in Active : /\ Chosen(g) # {} /\ ~(Cardinality(Chosen(g)) > 1)
                      /\ \A p \in Chosen(g) : Compatible(p)

LEMMA PassesExactly ==
    /\ Passes(RequestChecks) <=> RequestFit
    /\ Passes(DemandChecks) <=> DemandFit
    /\ Unresolved = {} <=> ChoicesFit
<1>1. Passes(RequestChecks) <=>
        /\ RequestChecks[1] = {} /\ RequestChecks[2] = {} /\ RequestChecks[3] = {}
        /\ RequestChecks[4] = {} /\ RequestChecks[5] = {} /\ RequestChecks[6] = {}
        /\ RequestChecks[7] = {} /\ RequestChecks[8] = {}
  <2>1. DOMAIN RequestChecks = 1..8
    BY DEF RequestChecks
  <2> QED BY <2>1 DEF Passes
<1>2. Passes(DemandChecks) <=>
        /\ DemandChecks[1] = {} /\ DemandChecks[2] = {} /\ DemandChecks[3] = {}
        /\ DemandChecks[4] = {} /\ DemandChecks[5] = {} /\ DemandChecks[6] = {}
        /\ DemandChecks[7] = {} /\ DemandChecks[8] = {}
  <2>1. DOMAIN DemandChecks = 1..8
    BY DEF DemandChecks
  <2> QED BY <2>1 DEF Passes
<1>3. ASSUME NEW g
      PROVE  Passes(GroupChecks(g)) <=>
                /\ Chosen(g) # {} /\ ~(Cardinality(Chosen(g)) > 1)
                /\ \A p \in Chosen(g) : Compatible(p)
  <2>1. DOMAIN GroupChecks(g) = 1..4
    BY DEF GroupChecks
  <2>2. Passes(GroupChecks(g)) <=>
        /\ GroupChecks(g)[1] = {} /\ GroupChecks(g)[2] = {}
        /\ GroupChecks(g)[3] = {} /\ GroupChecks(g)[4] = {}
    BY <2>1 DEF Passes
  <2> QED BY <2>2 DEF GroupChecks, Check
<1>4. Passes(RequestChecks) <=> RequestFit
    BY <1>1 DEF RequestChecks, Check, RequestFit
<1>5. Passes(DemandChecks) <=> DemandFit
    BY <1>2 DEF DemandChecks, Check, DemandFit
<1>6. Unresolved = {} <=> ChoicesFit
    BY <1>3 DEF Unresolved, ChoicesFit
<1> QED BY <1>4, <1>5, <1>6

LEMMA PassesExactlyNext ==
    (/\ Passes(RequestChecks) <=> RequestFit
     /\ Passes(DemandChecks) <=> DemandFit
     /\ Unresolved = {} <=> ChoicesFit)'
BY PassesExactly, PTL

\* What a revision of the prerequisites alone, or no revision, leaves as it was.
SameDemand ==
    \A f \in RequestFields \ {"prerequisites"} : request'[f] = request[f]

LEMMA SameDemandKeeps ==
    ASSUME SameDemand
    PROVE  /\ Active' = Active /\ Inactive' = Inactive /\ RequestedPublic' = RequestedPublic
           /\ HasSubjects' = HasSubjects
           /\ \A g : Chosen(g)' = Chosen(g) /\ Proposed(g)' = Proposed(g)
           /\ \A p : Compatible(p)' = Compatible(p) /\ SettledChoice(p)' = SettledChoice(p)
           /\ OwnPrerequisites' = OwnPrerequisites /\ OwnClosure' = OwnClosure
           /\ HarnessDependencies' = HarnessDependencies
<1> HIDE DEF SameDemand
<1>0. /\ request'.requested = request.requested /\ request'.platform = request.platform
      /\ request'.subjectHarnesses = request.subjectHarnesses
      /\ request'.subjectCapabilities = request.subjectCapabilities
    BY DEF SameDemand, RequestFields
<1>1. Active' = Active
    BY <1>0 DEF Active
<1>2. Inactive' = Inactive
    BY <1>0 DEF Inactive
<1>3. RequestedPublic' = RequestedPublic
    BY <1>0 DEF RequestedPublic
<1>4. HasSubjects' = HasSubjects
    BY <1>0 DEF HasSubjects
<1>5. \A g : Chosen(g)' = Chosen(g)
    BY <1>0 DEF Chosen
<1>6. \A p : Compatible(p)' = Compatible(p)
    BY <1>0 DEF Compatible
<1>7. \A g : Proposed(g)' = Proposed(g)
    BY <1>0 DEF Proposed, Compatible
<1>8. \A p : SettledChoice(p)' = SettledChoice(p)
    BY <1>0 DEF SettledChoice, Chosen
<1>9. OwnProviders' = OwnProviders
    BY <1>0 DEF OwnProviders, Active, Chosen
<1>10. OwnDirect' = OwnDirect
    BY <1>3, <1>9 DEF OwnDirect
<1>11. HarnessDependencies' = HarnessDependencies
    BY <1>0 DEF HarnessDependencies, Applies, RequestedPublic
<1>12. OwnClosure' = OwnClosure
    BY <1>10, <1>11 DEF OwnClosure
<1>13. OwnPrerequisites' = OwnPrerequisites
    BY <1>10, <1>12 DEF OwnPrerequisites
<1> QED BY <1>1, <1>2, <1>3, <1>4, <1>5, <1>6, <1>7, <1>8, <1>11, <1>12, <1>13

LEMMA SameDemandPasses ==
    ASSUME SameDemand
    PROVE  /\ Passes(RequestChecks)' <=> Passes(RequestChecks)
           /\ Passes(DemandChecks)' <=> Passes(DemandChecks)
           /\ (Unresolved = {})' <=> Unresolved = {}
<1> HIDE DEF SameDemand
<1>0. /\ request'.submitted = request.submitted /\ request'.ready = request.ready
      /\ request'.sameSession = request.sameSession /\ request'.sameTenant = request.sameTenant
      /\ request'.attested = request.attested /\ request'.withinBudget = request.withinBudget
      /\ request'.facts = request.facts /\ request'.platform = request.platform
      /\ request'.requested = request.requested
      /\ request'.subjectHarnesses = request.subjectHarnesses
      /\ request'.subjectCapabilities = request.subjectCapabilities
    BY DEF SameDemand, RequestFields
<1>1. RequestFit' <=> RequestFit
    BY <1>0 DEF RequestFit
<1>2. DemandFit' <=> DemandFit
    BY <1>0, SameDemandKeeps DEF DemandFit
<1>3. ChoicesFit' <=> ChoicesFit
    BY <1>0 DEF ChoicesFit, Active, Chosen, Compatible
<1> QED BY <1>1, <1>2, <1>3, PassesExactly, PassesExactlyNext

LEMMA SameDemandSettled ==
    ASSUME SameDemand  PROVE DemandSettled' = DemandSettled
<1>1. OwnClosure' = OwnClosure /\ HarnessDependencies' = HarnessDependencies
    BY SameDemandKeeps
<1>2. Residue(OwnClosure, HarnessDependencies)' = Residue(OwnClosure, HarnessDependencies)
    BY <1>1 DEF Residue
<1> QED BY <1>1, <1>2, SameDemandPasses DEF DemandSettled, Contested

\* A call that has just started has passed nothing and is refused nothing.
LEMMA FreshCall == Fresh => PassedInv /\ RefusedInv
BY DEF Fresh, NoRefusal, PassedInv, RefusedInv, RefusalSays, DemandRefused, ClosureRefused, Resolved

\* The check that refuses is one that does not pass.
LEMMA RefusesFirst ==
    ASSUME NEW checks, RefuseFirst(checks)
    PROVE  /\ ~Passes(checks)
           /\ \E i \in DOMAIN checks :
                /\ refusal' \in checks[i]
                /\ \A j \in 1..(i - 1) : checks[j] = {}
BY DEF RefuseFirst, Passes

\* The advice of a refusal is true of the request it answers.
LEMMA RequestRefusalSays ==
    ASSUME RefuseFirst(RequestChecks)  PROVE RefusalSays(refusal')
<1>1. ~Passes(RequestChecks) /\ \E i \in DOMAIN RequestChecks : refusal' \in RequestChecks[i]
    BY RefusesFirst
<1>2. DOMAIN RequestChecks = 1..8
    BY DEF RequestChecks
<1>3. /\ refusal'.about \in {"answers", "readiness", "session", "demand", "tenant",
                              "attestation", "facts", "budget"}
      /\ refusal'.code # "AMBIGUOUS_PROVIDER"
    BY <1>1, <1>2 DEF RequestChecks, Check
<1> QED BY <1>1, <1>3 DEF RefusalSays, DemandRefused, ClosureRefused, DemandSettled

LEMMA DemandRefusalSays ==
    ASSUME RefuseFirst(DemandChecks)  PROVE RefusalSays(refusal')
<1>1. ~Passes(DemandChecks)
    BY RefusesFirst
<1>2. PICK i \in DOMAIN DemandChecks : refusal' \in DemandChecks[i]
    BY RefusesFirst
<1>3. i \in 1..8
  <2> DOMAIN DemandChecks = 1..8
    BY DEF DemandChecks
  <2> QED BY <1>2
<1>4. /\ refusal'.about \in {"subjects", "judge", "roles", "environment", "selector"}
      /\ refusal'.code # "AMBIGUOUS_PROVIDER"
    BY <1>2, <1>3 DEF DemandChecks, Check
<1>5. DemandRefused(refusal')
  <2>1. CASE i = 4
    BY <1>2, <2>1 DEF DemandChecks, Check, DemandRefused
  <2>2. CASE i = 5
    <3>1. refusal'.names \cap SelectorsOf(Provider) = {}
      BY <1>2, <2>2 DEF DemandChecks, Check
    <3> QED BY <1>2, <2>2, <3>1 DEF DemandChecks, Check, DemandRefused
  <2>3. CASE i = 6
    <3>1. Fact \cap SelectorsOf(Provider) = {}
      BY CatalogAccepted, CatalogTyped DEF ClosedCatalog, SelectorsOf
    <3>2. refusal'.names \cap SelectorsOf(Provider) = {}
      BY <1>2, <2>3, <3>1 DEF DemandChecks, Check
    <3> QED BY <1>2, <2>3, <3>2 DEF DemandChecks, Check, DemandRefused
  <2>4. CASE i = 8
    BY <1>2, <2>4 DEF DemandChecks, Check, DemandRefused
  <2>5. CASE i \in {1, 2, 3, 7}
    BY <1>2, <2>5 DEF DemandChecks, Check, DemandRefused
  <2> QED BY <1>3, <2>1, <2>2, <2>3, <2>4, <2>5
<1> QED BY <1>1, <1>4, <1>5 DEF RefusalSays, ClosureRefused, DemandSettled

LEMMA GroupRefusalSays ==
    ASSUME NEW g \in Unresolved, RefuseFirst(GroupChecks(g)), Passes(DemandChecks)
    PROVE  RefusalSays(refusal')
<1>1. PICK i \in DOMAIN GroupChecks(g) :
        refusal' \in GroupChecks(g)[i] /\ \A j \in 1..(i - 1) : GroupChecks(g)[j] = {}
    BY RefusesFirst
<1>2. i \in 1..4
  <2> DOMAIN GroupChecks(g) = 1..4
    BY DEF GroupChecks
  <2> QED BY <1>1
<1>3. refusal'.about \in {"group", "choice"}
    BY <1>1, <1>2 DEF GroupChecks, Check
<1>4. GroupRefused(g, refusal')
  <2>1. CASE i = 1
    BY <1>1, <2>1 DEF GroupChecks, Check, GroupRefused
  <2>2. CASE i = 2
    <3>1. GroupChecks(g)[1] = {}
      BY <1>1, <2>2
    <3>2. ~(Chosen(g) = {} /\ Proposed(g) = {})
      BY <3>1 DEF GroupChecks, Check
    <3>3. /\ refusal' = [code |-> "NEEDS_INPUT", about |-> "group", names |-> Proposed(g)]
          /\ Chosen(g) = {}
      BY <1>1, <2>2 DEF GroupChecks, Check
    <3> QED BY <3>2, <3>3 DEF GroupRefused
  <2>3. CASE i = 3
    BY <1>1, <2>3 DEF GroupChecks, Check, GroupRefused
  <2>4. CASE i = 4
    BY <1>1, <2>4 DEF GroupChecks, Check, GroupRefused
  <2> QED BY <1>2, <2>1, <2>2, <2>3, <2>4
<1>5. g \in Active /\ ~DemandSettled
    BY DEF Unresolved, DemandSettled
<1>6. Inactive = {}
    BY DemandPasses
<1>7. refusal'.code = "AMBIGUOUS_PROVIDER" => refusal'.about = "group"
    BY <1>4 DEF GroupRefused
<1> QED BY <1>3, <1>4, <1>5, <1>6, <1>7 DEF RefusalSays, DemandRefused, ClosureRefused

LEMMA ClosureRefusalSays ==
    ASSUME RefuseFirst(ClosureChecks), Passes(RequestChecks), Passes(DemandChecks),
           Unresolved = {}, Prerequisites = OwnPrerequisites,
           selected = OwnClosure, links = HarnessDependencies
    PROVE  RefusalSays(refusal')
<1>1. PICK i \in DOMAIN ClosureChecks :
        refusal' \in ClosureChecks[i] /\ \A j \in 1..(i - 1) : ClosureChecks[j] = {}
    BY RefusesFirst
<1>2. i \in 1..5
  <2> DOMAIN ClosureChecks = 1..5
    BY DEF ClosureChecks
  <2> QED BY <1>1
<1>3. CASE i \in {1, 2, 3}
  <2>1. /\ refusal'.about \in {"owners", "harnesses", "conflict"}
        /\ refusal'.code # "AMBIGUOUS_PROVIDER"
    BY <1>1, <1>3 DEF ClosureChecks, Check
  <2>2. ~DemandSettled
    BY <1>1, <1>3 DEF ClosureChecks, Check, DemandSettled
  <2> QED BY <2>1, <2>2 DEF RefusalSays, DemandRefused, ClosureRefused
<1>4. CASE i \in {4, 5}
  <2>1. /\ refusal'.about \in {"missing", "surplus"}
        /\ refusal'.code # "AMBIGUOUS_PROVIDER"
    BY <1>1, <1>4 DEF ClosureChecks, Check
  <2>2. ClosureChecks[1] = {} /\ ClosureChecks[2] = {} /\ ClosureChecks[3] = {}
    BY <1>1, <1>4
  <2>3. DemandSettled
    BY <2>2 DEF ClosureChecks, Check, DemandSettled
  <2>4. ClosureRefused(refusal')
    <3>1. CASE i = 4
      BY <1>1, <2>3, <3>1 DEF ClosureChecks, Check, ClosureRefused
    <3>2. CASE i = 5
      <4>1. ClosureChecks[4] = {}
        BY <1>1, <3>2
      <4>2. OwnPrerequisites \subseteq request.prerequisites
        BY <4>1 DEF ClosureChecks, Check
      <4> QED BY <1>1, <2>3, <3>2, <4>2 DEF ClosureChecks, Check, ClosureRefused
    <3> QED BY <1>4, <3>1, <3>2
  <2> QED BY <2>1, <2>4 DEF RefusalSays, DemandRefused
<1> QED BY <1>2, <1>3, <1>4

LEMMA ModuleRefusalSays ==
    ASSUME RefuseFirst(ModuleChecks)  PROVE RefusalSays(refusal')
<1>1. \E i \in DOMAIN ModuleChecks : refusal' \in ModuleChecks[i]
    BY RefusesFirst
<1>2. DOMAIN ModuleChecks = 1..4
    BY DEF ModuleChecks
<1>3. refusal'.about = "modules" /\ refusal'.code # "AMBIGUOUS_PROVIDER"
    BY <1>1, <1>2 DEF ModuleChecks, Check
<1> QED BY <1>3 DEF RefusalSays, DemandRefused, ClosureRefused

\* The closure a call has computed is the one its request stands for.
LEMMA OwnLocals ==
    ASSUME IInv, stage \in Closed
    PROVE  /\ Prerequisites = OwnPrerequisites
           /\ selected = OwnClosure /\ links = HarnessDependencies
<1>1. /\ providers = OwnProviders
      /\ direct = DirectHarnesses /\ links = HarnessDependencies
      /\ selected = Reachable(direct, links)
    BY DEF IInv, ProviderInv, HarnessInv, Resolved, Closed, OwnProviders
<1>2. direct = OwnDirect
    BY <1>1 DEF DirectHarnesses, OwnDirect
<1> QED BY <1>1, <1>2 DEF OwnClosure, OwnPrerequisites, Prerequisites

LEMMA RefusalsSay ==
    ASSUME IInv, PassedInv, Refusing  PROVE RefusalSays(refusal')
<1>1. CASE RefuseRequest
    BY <1>1, RequestRefusalSays DEF RefuseRequest
<1>2. CASE RefuseDemand
    BY <1>2, DemandRefusalSays DEF RefuseDemand
<1>3. CASE RefuseGroup
    BY <1>3, GroupRefusalSays DEF RefuseGroup, PassedInv
<1>4. CASE RefuseClosure
  <2>1. stage = "closure" /\ RefuseFirst(ClosureChecks)
    BY <1>4 DEF RefuseClosure
  <2>2. Passes(RequestChecks) /\ Passes(DemandChecks) /\ Unresolved = {}
    BY <2>1 DEF PassedInv, Resolved
  <2>3. /\ Prerequisites = OwnPrerequisites
        /\ selected = OwnClosure /\ links = HarnessDependencies
    BY <2>1, OwnLocals DEF Closed
  <2> QED BY <2>1, <2>2, <2>3, ClosureRefusalSays
<1>5. CASE RefuseModules
    BY <1>5, ModuleRefusalSays DEF RefuseModules
<1> QED BY <1>1, <1>2, <1>3, <1>4, <1>5 DEF Refusing

\* Without a new request, what is said and what is settled stays so.
LEMMA SameRequestSays ==
    ASSUME SameDemand, request'.prerequisites = request.prerequisites, NEW r, RefusalSays(r)
    PROVE  RefusalSays(r)'
<1>1. DemandRefused(r)'
    BY SameDemandKeeps DEF RefusalSays, DemandRefused
<1>2. (r.about \in {"group", "choice"} => Inactive = {} /\ \E g \in Active : GroupRefused(g, r))'
    BY SameDemandKeeps DEF RefusalSays, GroupRefused
<1>3. ClosureRefused(r)'
    BY SameDemandKeeps, SameDemandSettled DEF RefusalSays, ClosureRefused
<1> QED BY <1>1, <1>2, <1>3, SameDemandSettled DEF RefusalSays

LEMMA SamePrerequisitesHeeded ==
    ASSUME SameDemand, NEW r, Heeded(r),
           r.about = "missing" => request.prerequisites \subseteq request'.prerequisites,
           r.about = "surplus" => request'.prerequisites = request.prerequisites
    PROVE  Heeded(r)'
<1>1. request'.requested = request.requested
    BY DEF SameDemand, RequestFields
<1> QED BY <1>1, SameDemandKeeps, SameDemandSettled DEF Heeded

LEMMA SameTaken ==
    ASSUME SameDemand, taken' = taken, TakenInv  PROVE TakenInv'
BY SameDemandKeeps DEF TakenInv

LEMMA StepsKeepRequest == [Next]_vars => request' = request
<1>1. Refusing => request' = request
    BY RefusalsStop
<1> QED BY <1>1 DEF Next, AdmitRequest, AdmitDemand, SelectProviders, CloseHarnesses, AcceptClosure,
        Compile, vars

LEMMA PassedPreserved == ASSUME IInv, PassedInv, [Next]_vars  PROVE PassedInv'
<1>0. request' = request
    BY StepsKeepRequest
<1>1. SameDemand
    BY <1>0 DEF SameDemand
<1>2. /\ Passes(RequestChecks)' <=> Passes(RequestChecks)
      /\ Passes(DemandChecks)' <=> Passes(DemandChecks)
      /\ (Unresolved = {})' <=> Unresolved = {}
    BY <1>1, SameDemandPasses
<1> USE DEF PassedInv, Resolved
<1>3. CASE AdmitRequest  BY <1>2, <1>3 DEF AdmitRequest
<1>4. CASE AdmitDemand  BY <1>2, <1>4 DEF AdmitDemand
<1>5. CASE SelectProviders  BY <1>2, <1>5 DEF SelectProviders
<1>6. CASE CloseHarnesses  BY <1>2, <1>6 DEF CloseHarnesses
<1>7. CASE AcceptClosure  BY <1>2, <1>7 DEF AcceptClosure
<1>8. CASE Compile  BY <1>2, <1>8 DEF Compile
<1>9. CASE Refusing  BY <1>9, RefusalsStop
<1>10. CASE UNCHANGED vars  BY <1>2, <1>10 DEF vars
<1> QED BY <1>3, <1>4, <1>5, <1>6, <1>7, <1>8, <1>9, <1>10 DEF Next

\* A step of the compiler keeps what the conversation has settled.
LEMMA CallsKeepConversation ==
    ASSUME ConversationInv, [Next]_vars, UNCHANGED <<followed, taken>>
    PROVE  ConversationInv'
<1> USE DEF ConversationInv
<1>0. request' = request
    BY StepsKeepRequest
<1>1. SameDemand /\ request'.prerequisites = request.prerequisites
    BY <1>0 DEF SameDemand
<1>2. IInv' /\ PassedInv'
    BY Inductive, PassedPreserved
<1>3. RefusedInv'
  <2>1. PICK r : r = refusal'
    OBVIOUS
  <2>2. RefusalSays(r)
    <3>1. CASE Refusing
      BY <2>1, <3>1, RefusalsSay
    <3>2. CASE ~Refusing
      <4>1. refusal' = refusal
        BY <3>2 DEF Next, AdmitRequest, AdmitDemand, SelectProviders, CloseHarnesses,
            AcceptClosure, Compile, vars
      <4> QED BY <2>1, <4>1 DEF RefusedInv
    <3> QED BY <3>1, <3>2
  <2>3. RefusalSays(r)'
    BY <1>1, <2>2, SameRequestSays
  <2> QED BY <2>1, <2>3 DEF RefusedInv, RefusalSays, DemandRefused, GroupRefused, ClosureRefused
<1>4. FollowedInv'
  <2>1. ASSUME NEW r \in followed  PROVE Heeded(r)'
    BY <1>1, <2>1, SamePrerequisitesHeeded DEF FollowedInv
  <2> QED BY <2>1 DEF FollowedInv
<1>5. TakenInv'
    BY <1>1, SameTaken
<1>6. RequestInv'
    BY <1>0 DEF RequestInv
<1> QED BY <1>2, <1>3, <1>4, <1>5, <1>6

LEMMA ResubmittedAfresh == (Fresh => IInv /\ PassedInv /\ RefusedInv)'
BY FreshInductive, FreshCall, PTL

LEMMA Resubmitted ==
    ASSUME NEW req, Resubmit(req), DOMAIN req = RequestFields
    PROVE  /\ IInv' /\ PassedInv' /\ RefusedInv' /\ RequestInv'
           /\ request' = req /\ followed' = followed \cup {refusal}
<1>1. Fresh'
    BY DEF Resubmit, Fresh, NoRefusal
<1> QED BY <1>1, ResubmittedAfresh DEF Resubmit, RequestInv

\* What activated a provider still does when no public demand was withdrawn.
LEMMA StaysActivated ==
    ASSUME RequestedPublic \subseteq RequestedPublic', NEW p \in Provider,
           Activated(p, request.requested)
    PROVE  Activated(p, request'.requested)
<1>1. Activates[p] \subseteq Public
    BY CatalogTyped
<1> QED BY <1>1 DEF Activated, RequestedPublic

\* A revision of the demand that withdraws no public capability, leaves every
\* settled choice alone and names no provider that is not activated keeps
\* what earlier advice has settled.
LEMMA RevisedDemandKeeps ==
    ASSUME FollowedInv, TakenInv, ~DemandSettled,
           RequestedPublic \subseteq RequestedPublic',
           request'.platform = request.platform,
           \A p \in Provider : SettledChoice(p) => Chosen(GroupOf[p])' = {p},
           \A p \in Provider : SelectorOf[p] \in request'.requested =>
                SelectorOf[p] \in request.requested \/ Activated(p, request'.requested)
    PROVE  /\ \A r \in followed : Heeded(r)'
           /\ \A c \in taken : \E p \in Provider :
                c = SelectorOf[p] /\ SettledChoice(p)' /\ Compatible(p)'
<1>1. ASSUME NEW p \in Provider, SettledChoice(p)  PROVE SettledChoice(p)'
    BY <1>1, StaysActivated DEF SettledChoice
<1>2. ASSUME NEW r \in followed  PROVE Heeded(r)'
  <2>0. Heeded(r)
    BY <1>2 DEF FollowedInv
  <2>1. CASE r.about = "group"
    BY <2>0, <2>1, <1>1 DEF Heeded
  <2>2. CASE r.about = "judge"
    BY <2>0, <2>2 DEF Heeded
  <2>3. CASE r.about = "selector"
    <3>1. /\ r.names # {} /\ r.names \subseteq SelectorsOf(Provider)
          /\ \A p \in Provider :
                SelectorOf[p] \in r.names \cap request.requested => Activated(p, request.requested)
      BY <2>0, <2>3 DEF Heeded
    <3>2. ASSUME NEW p \in Provider, SelectorOf[p] \in r.names \cap request'.requested
          PROVE  Activated(p, request'.requested)
      <4>1. CASE SelectorOf[p] \in request.requested
        BY <3>1, <3>2, <4>1, StaysActivated
      <4> QED BY <3>2, <4>1
    <3> QED BY <2>3, <3>1, <3>2 DEF Heeded
  <2>4. CASE r.about \in {"missing", "surplus"}
    BY <2>0, <2>4 DEF Heeded
  <2> QED BY <2>0, <2>1, <2>2, <2>3, <2>4 DEF Heeded
<1>3. ASSUME NEW c \in taken
      PROVE  \E p \in Provider : c = SelectorOf[p] /\ SettledChoice(p)' /\ Compatible(p)'
  <2>1. PICK p \in Provider : c = SelectorOf[p] /\ SettledChoice(p) /\ Compatible(p)
    BY <1>3 DEF TakenInv
  <2>2. Compatible(p)'
    BY <2>1 DEF Compatible
  <2> QED BY <1>1, <2>1, <2>2
<1> QED BY <1>2, <1>3

LEMMA SelectorsTellApart ==
    /\ \A p, q \in Provider : SelectorOf[p] = SelectorOf[q] => p = q
    /\ \A p \in Provider : SelectorOf[p] \notin Public
BY CatalogAccepted, CatalogTyped DEF ClosedCatalog

\* Taking a proposal settles the group it was proposed for.
LEMMA TakingGroupProposal ==
    ASSUME ConversationInv, TakeProposal, refusal.about = "group"
    PROVE  ConversationInv'
<1> USE DEF ConversationInv
<1>1. PICK c \in refusal.names :
        /\ Resubmit([request EXCEPT !.requested = @ \cup {c}])
        /\ taken' = taken \cup ({c} \cap SelectorsOf(Provider))
    BY DEF TakeProposal
<1>2. /\ request'.requested = request.requested \cup {c}
      /\ request'.platform = request.platform
      /\ followed' = followed \cup {refusal}
      /\ IInv' /\ PassedInv' /\ RefusedInv' /\ RequestInv'
    BY <1>1, Resubmitted DEF RequestInv, RequestFields
<1>3. PICK g \in Active : GroupRefused(g, refusal)
    BY DEF RefusedInv, RefusalSays
<1>4. Chosen(g) = {} /\ refusal.names = Proposed(g) /\ refusal.code = "NEEDS_INPUT"
    BY <1>3 DEF TakeProposal, GroupRefused
<1>5. PICK q \in Provider :
        GroupOf[q] = g /\ c = SelectorOf[q] /\ Activated(q, request.requested) /\ Compatible(q)
    BY <1>1, <1>4 DEF Proposed, SelectorsOf, ProvidersIn
<1>6. RequestedPublic \subseteq RequestedPublic'
    BY <1>2 DEF RequestedPublic
<1>7. \A p \in Provider : SettledChoice(p) => Chosen(GroupOf[p])' = {p}
  <2>1. ASSUME NEW p \in Provider, SettledChoice(p)  PROVE Chosen(GroupOf[p])' = {p}
    <3>1. GroupOf[p] # g /\ Chosen(GroupOf[p]) = {p}
      BY <1>4, <2>1 DEF SettledChoice
    <3> QED BY <1>2, <1>5, <3>1, SelectorsTellApart DEF Chosen, ChosenIn, ProvidersIn
  <2> QED BY <2>1
<1>8. Activated(q, request'.requested)
    BY <1>5, <1>6, StaysActivated
<1>9. \A p \in Provider : SelectorOf[p] \in request'.requested =>
            SelectorOf[p] \in request.requested \/ Activated(p, request'.requested)
    BY <1>2, <1>5, <1>8, SelectorsTellApart
<1>10. ~DemandSettled
    BY DEF RefusedInv, RefusalSays
<1>11. /\ \A r \in followed : Heeded(r)'
       /\ \A d \in taken : \E p \in Provider :
            d = SelectorOf[p] /\ SettledChoice(p)' /\ Compatible(p)'
    BY <1>2, <1>6, <1>7, <1>9, <1>10, RevisedDemandKeeps
<1>12. SettledChoice(q)' /\ Compatible(q)'
  <2>1. Chosen(g)' = {q}
    BY <1>2, <1>4, <1>5, SelectorsTellApart DEF Chosen, ChosenIn, ProvidersIn
  <2> QED BY <1>2, <1>5, <1>8, <2>1 DEF SettledChoice, Compatible
<1>13. \A r : r = refusal => Heeded(r)'
    BY <1>1, <1>4, <1>5, <1>12 DEF Heeded
<1>14. FollowedInv' /\ TakenInv'
    BY <1>1, <1>2, <1>5, <1>11, <1>12, <1>13 DEF FollowedInv, TakenInv
<1> QED BY <1>2, <1>14

LEMMA TakingJudgeModel ==
    ASSUME ConversationInv, TakeProposal, refusal.about = "judge"
    PROVE  ConversationInv'
<1> USE DEF ConversationInv
<1>1. PICK c \in refusal.names :
        /\ Resubmit([request EXCEPT !.requested = @ \cup {c}])
        /\ taken' = taken \cup ({c} \cap SelectorsOf(Provider))
    BY DEF TakeProposal
<1>2. /\ request'.requested = request.requested \cup {c}
      /\ request'.platform = request.platform
      /\ followed' = followed \cup {refusal}
      /\ IInv' /\ PassedInv' /\ RefusedInv' /\ RequestInv'
    BY <1>1, Resubmitted DEF RequestInv, RequestFields
<1>3. c \in JudgeModels /\ c \in Public
    BY <1>1, JudgeModelsOwned DEF RefusedInv, RefusalSays, DemandRefused, RequestedPublic
<1>4. \A p \in Provider : SelectorOf[p] # c
    BY <1>3, SelectorsTellApart
<1>5. RequestedPublic \subseteq RequestedPublic' /\ c \in RequestedPublic'
    BY <1>2, <1>3 DEF RequestedPublic
<1>6. \A g : Chosen(g)' = Chosen(g)
    BY <1>2, <1>4 DEF Chosen, ChosenIn, ProvidersIn
<1>7. \A p \in Provider : SettledChoice(p) => Chosen(GroupOf[p])' = {p}
    BY <1>6 DEF SettledChoice
<1>8. \A p \in Provider : SelectorOf[p] \in request'.requested =>
            SelectorOf[p] \in request.requested \/ Activated(p, request'.requested)
    BY <1>2, <1>4
<1>9. ~DemandSettled
    BY DEF RefusedInv, RefusalSays
<1>10. /\ \A r \in followed : Heeded(r)'
       /\ \A d \in taken : \E p \in Provider :
            d = SelectorOf[p] /\ SettledChoice(p)' /\ Compatible(p)'
    BY <1>2, <1>5, <1>7, <1>8, <1>9, RevisedDemandKeeps
<1>11. \A r : r = refusal => Heeded(r)'
    BY <1>3, <1>5 DEF Heeded
<1>12. taken' = taken
    BY <1>1, <1>4 DEF SelectorsOf
<1>13. FollowedInv' /\ TakenInv'
    BY <1>2, <1>10, <1>11, <1>12 DEF FollowedInv, TakenInv
<1> QED BY <1>2, <1>13

\* Keeping one of several choices settles their group.
LEMMA KeepingOneChoice ==
    ASSUME ConversationInv, KeepOneChoice  PROVE ConversationInv'
<1> USE DEF ConversationInv
<1>1. PICK c \in refusal.names :
        Resubmit([request EXCEPT !.requested = (@ \ refusal.names) \cup {c}])
    BY DEF KeepOneChoice
<1>2. /\ request'.requested = (request.requested \ refusal.names) \cup {c}
      /\ request'.platform = request.platform
      /\ followed' = followed \cup {refusal} /\ taken' = taken
      /\ IInv' /\ PassedInv' /\ RefusedInv' /\ RequestInv'
    BY <1>1, Resubmitted DEF RequestInv, RequestFields, KeepOneChoice
<1>3. refusal.code = "AMBIGUOUS_PROVIDER" /\ refusal.about = "group" /\ Inactive = {}
    BY DEF KeepOneChoice, RefusedInv, RefusalSays
<1>4. PICK g \in Active : GroupRefused(g, refusal)
    BY <1>3 DEF RefusedInv, RefusalSays
<1>5. Cardinality(Chosen(g)) > 1 /\ refusal.names = SelectorsOf(Chosen(g))
    BY <1>3, <1>4 DEF GroupRefused
<1>6. \A p : Chosen(g) # {p}
  <2>1. \A p : Cardinality({p}) = 1
    BY FS_Singleton
  <2> QED BY <1>5, <2>1
<1>7. PICK q \in Chosen(g) : c = SelectorOf[q]
    BY <1>1, <1>5 DEF SelectorsOf
<1>8. /\ q \in Provider /\ GroupOf[q] = g
      /\ SelectorOf[q] \in request.requested /\ Activated(q, request.requested)
    BY <1>3, <1>7 DEF Chosen, ChosenIn, ProvidersIn, Inactive
<1>9. RequestedPublic \subseteq RequestedPublic'
  <2>1. refusal.names \cap Public = {}
    BY <1>5, SelectorsTellApart DEF SelectorsOf, Chosen, ChosenIn, ProvidersIn
  <2> QED BY <1>2, <2>1 DEF RequestedPublic
<1>10. \A p \in Provider : SettledChoice(p) => Chosen(GroupOf[p])' = {p}
  <2>1. ASSUME NEW p \in Provider, SettledChoice(p)  PROVE Chosen(GroupOf[p])' = {p}
    <3>1. GroupOf[p] # g /\ Chosen(GroupOf[p]) = {p}
      BY <1>6, <2>1 DEF SettledChoice
    <3>2. \A x \in ProvidersIn(GroupOf[p]) :
            SelectorOf[x] \notin refusal.names /\ SelectorOf[x] # c
      BY <1>5, <1>7, <1>8, <3>1, SelectorsTellApart
         DEF SelectorsOf, Chosen, ChosenIn, ProvidersIn
    <3> QED BY <1>2, <3>1, <3>2 DEF Chosen, ChosenIn
  <2> QED BY <2>1
<1>11. \A p \in Provider : SelectorOf[p] \in request'.requested =>
            SelectorOf[p] \in request.requested \/ Activated(p, request'.requested)
    BY <1>2, <1>7, <1>8
<1>12. ~DemandSettled
    BY <1>3 DEF RefusedInv, RefusalSays
<1>13. /\ \A r \in followed : Heeded(r)'
       /\ \A d \in taken : \E p \in Provider :
            d = SelectorOf[p] /\ SettledChoice(p)' /\ Compatible(p)'
    BY <1>2, <1>9, <1>10, <1>11, <1>12, RevisedDemandKeeps
<1>14. SettledChoice(q)'
  <2>1. Chosen(g)' = {q}
    <3>1. ASSUME NEW x \in Provider, GroupOf[x] = g, SelectorOf[x] \in request'.requested
          PROVE  x = q
      <4>1. SelectorOf[x] \in request.requested => SelectorOf[x] \in refusal.names
        BY <1>5, <3>1 DEF SelectorsOf, Chosen, ChosenIn, ProvidersIn
      <4> QED BY <1>2, <1>7, <1>8, <3>1, <4>1, SelectorsTellApart
    <3> QED BY <1>2, <1>7, <1>8, <3>1 DEF Chosen, ChosenIn, ProvidersIn
  <2>2. Activated(q, request'.requested)
    BY <1>8, <1>9, StaysActivated
  <2> QED BY <1>8, <2>1, <2>2 DEF SettledChoice
<1>15. refusal.names # {SelectorOf[q]}
  <2>1. PICK x \in Chosen(g) : x # q
    BY <1>6, <1>7
  <2>2. SelectorOf[x] \in refusal.names /\ SelectorOf[x] # SelectorOf[q]
    BY <1>5, <1>8, <2>1, SelectorsTellApart DEF SelectorsOf, Chosen, ChosenIn, ProvidersIn
  <2> QED BY <2>2
<1>16. \A r : r = refusal => Heeded(r)'
    BY <1>1, <1>3, <1>7, <1>8, <1>14, <1>15 DEF Heeded
<1>17. FollowedInv' /\ TakenInv'
    BY <1>2, <1>13, <1>16 DEF FollowedInv, TakenInv
<1> QED BY <1>2, <1>17

\* Dropping the choices that nothing activates leaves no such choice behind.
LEMMA DroppingInactive ==
    ASSUME ConversationInv, DropInactive  PROVE ConversationInv'
<1> USE DEF ConversationInv
<1>1. /\ refusal.about = "selector"
      /\ Resubmit([request EXCEPT !.requested = @ \ refusal.names])
    BY DEF DropInactive
<1>2. /\ request'.requested = request.requested \ refusal.names
      /\ request'.platform = request.platform
      /\ followed' = followed \cup {refusal} /\ taken' = taken
      /\ IInv' /\ PassedInv' /\ RefusedInv' /\ RequestInv'
    BY <1>1, Resubmitted DEF RequestInv, RequestFields, DropInactive
<1>3. Inactive # {} /\ refusal.names = SelectorsOf(Inactive) /\ ~DemandSettled
    BY <1>1 DEF RefusedInv, RefusalSays, DemandRefused
<1>4. Inactive \subseteq Provider
    BY DEF Inactive
<1>5. refusal.names \subseteq SelectorsOf(Provider) /\ refusal.names # {}
    BY <1>3, <1>4 DEF SelectorsOf
<1>6. RequestedPublic \subseteq RequestedPublic'
    BY <1>2, <1>5, SelectorsTellApart DEF RequestedPublic, SelectorsOf
<1>7. \A p \in Provider : SettledChoice(p) => Chosen(GroupOf[p])' = {p}
  <2>1. ASSUME NEW p \in Provider, SettledChoice(p)  PROVE Chosen(GroupOf[p])' = {p}
    <3>1. Chosen(GroupOf[p]) = {p} /\ p \notin Inactive
      BY <2>1 DEF SettledChoice, Inactive
    <3>2. SelectorOf[p] \notin refusal.names
      BY <1>3, <1>4, <3>1, SelectorsTellApart DEF SelectorsOf
    <3> QED BY <1>2, <3>1, <3>2 DEF Chosen, ChosenIn, ProvidersIn
  <2> QED BY <2>1
<1>8. /\ \A r \in followed : Heeded(r)'
      /\ \A d \in taken : \E p \in Provider :
            d = SelectorOf[p] /\ SettledChoice(p)' /\ Compatible(p)'
    BY <1>2, <1>3, <1>6, <1>7, RevisedDemandKeeps
<1>9. \A r : r = refusal => Heeded(r)'
    BY <1>1, <1>2, <1>5 DEF Heeded
<1>10. FollowedInv' /\ TakenInv'
    BY <1>2, <1>8, <1>9 DEF FollowedInv, TakenInv
<1> QED BY <1>2, <1>10

\* Settling the prerequisites leaves the demand as it was.
LEMMA SettlingPrerequisites ==
    ASSUME ConversationInv, AcceptPrerequisites \/ DropSurplus  PROVE ConversationInv'
<1> USE DEF ConversationInv
<1>1. CASE AcceptPrerequisites
  <2>1. /\ refusal.about = "missing"
        /\ Resubmit([request EXCEPT !.prerequisites = @ \cup refusal.names])
        /\ taken' = taken
    BY <1>1 DEF AcceptPrerequisites
  <2>2. /\ SameDemand
        /\ request'.prerequisites = request.prerequisites \cup refusal.names
        /\ followed' = followed \cup {refusal}
        /\ IInv' /\ PassedInv' /\ RefusedInv' /\ RequestInv'
    BY <2>1, Resubmitted DEF RequestInv, RequestFields, SameDemand
  <2>3. /\ DemandSettled /\ refusal.names = OwnPrerequisites \ request.prerequisites
        /\ refusal.names # {}
    BY <2>1 DEF RefusedInv, RefusalSays, ClosureRefused
  <2>4. ASSUME NEW r \in followed  PROVE Heeded(r)'
    <3>1. Heeded(r)
      BY <2>4 DEF FollowedInv
    <3>2. r.about # "surplus"
      BY <2>3, <3>1 DEF Heeded
    <3> QED BY <2>2, <3>1, <3>2, SamePrerequisitesHeeded
  <2>5. \A r : r = refusal => Heeded(r)'
    BY <2>1, <2>2, <2>3, SameDemandKeeps, SameDemandSettled DEF Heeded
  <2>6. TakenInv'
    BY <2>1, <2>2, SameTaken
  <2> QED BY <2>2, <2>4, <2>5, <2>6 DEF FollowedInv
<1>2. CASE DropSurplus
  <2>1. /\ refusal.about = "surplus"
        /\ Resubmit([request EXCEPT !.prerequisites = @ \ refusal.names])
        /\ taken' = taken
    BY <1>2 DEF DropSurplus
  <2>2. /\ SameDemand
        /\ request'.prerequisites = request.prerequisites \ refusal.names
        /\ followed' = followed \cup {refusal}
        /\ IInv' /\ PassedInv' /\ RefusedInv' /\ RequestInv'
    BY <2>1, Resubmitted DEF RequestInv, RequestFields, SameDemand
  <2>3. /\ DemandSettled /\ OwnPrerequisites \subseteq request.prerequisites
        /\ refusal.names = request.prerequisites \ OwnPrerequisites
        /\ refusal.names # {}
    BY <2>1 DEF RefusedInv, RefusalSays, ClosureRefused
  <2>4. request'.prerequisites = OwnPrerequisites
    BY <2>2, <2>3
  <2>5. OwnPrerequisites' = OwnPrerequisites /\ DemandSettled'
    BY <2>2, <2>3, SameDemandKeeps, SameDemandSettled
  <2>6. ASSUME NEW r \in followed  PROVE Heeded(r)'
    <3>1. Heeded(r)
      BY <2>6 DEF FollowedInv
    <3>2. r.about # "surplus"
      BY <2>3, <3>1 DEF Heeded
    <3>3. CASE r.about = "missing"
      BY <2>4, <2>5, <3>3 DEF Heeded
    <3>4. CASE r.about # "missing"
      BY <2>2, <3>1, <3>2, <3>4, SamePrerequisitesHeeded
    <3> QED BY <3>3, <3>4
  <2>7. \A r : r = refusal => Heeded(r)'
    BY <2>1, <2>4, <2>5 DEF Heeded
  <2>8. TakenInv'
    BY <2>1, <2>2, SameTaken
  <2> QED BY <2>2, <2>6, <2>7, <2>8 DEF FollowedInv
<1> QED BY <1>1, <1>2

LEMMA ConversationInductive ==
    ConversationInv /\ [ConversationNext]_allVars => ConversationInv'
<1> SUFFICES ASSUME ConversationInv, [ConversationNext]_allVars  PROVE ConversationInv'
    OBVIOUS
<1>1. CASE CompilerStep
    BY <1>1, CallsKeepConversation DEF CompilerStep
<1>2. CASE Revise
    BY <1>2, TakingGroupProposal, TakingJudgeModel, KeepingOneChoice, DroppingInactive,
       SettlingPrerequisites DEF Revise, TakeProposal
<1>3. CASE UNCHANGED allVars
    BY <1>3, CallsKeepConversation DEF allVars
<1> QED BY <1>1, <1>2, <1>3 DEF ConversationNext

LEMMA ConversationStarts == ConversationInit => ConversationInv
<1> SUFFICES ASSUME ConversationInit  PROVE ConversationInv
    OBVIOUS
<1>1. Fresh /\ request \in Requests /\ followed = {} /\ taken = {}
    BY DEF ConversationInit, Init, Started, Fresh
<1>2. IInv /\ PassedInv /\ RefusedInv
    BY <1>1, FreshInductive, FreshCall
<1>3. RequestInv
    BY <1>1, RequestsTyped DEF RequestInv, RequestFields
<1> QED BY <1>1, <1>2, <1>3 DEF ConversationInv, FollowedInv, TakenInv

LEMMA ConversationAlways == ConversationSpec => []ConversationInv
BY ConversationStarts, ConversationInductive, PTL DEF ConversationSpec

\* Advice that was followed is never given again: what each advice settles
\* stays settled, and it is the opposite of what the same refusal would say.
THEOREM NoAdviceIsRepeated == ConversationSpec => []NoAdviceTwice
<1>1. ASSUME ConversationInv, refusal \in followed  PROVE FALSE
  <2>1. Heeded(refusal) /\ RefusalSays(refusal)
    BY <1>1 DEF ConversationInv, FollowedInv, RefusedInv
  <2>2. CASE refusal.about = "group"
    <3>1. PICK p \in Provider :
            /\ SelectorOf[p] \in refusal.names /\ SettledChoice(p)
            /\ refusal.code = "AMBIGUOUS_PROVIDER" => refusal.names # {SelectorOf[p]}
      BY <2>1, <2>2 DEF Heeded
    <3>2. PICK g \in Active : GroupRefused(g, refusal)
      BY <2>1, <2>2 DEF RefusalSays
    <3>3. CASE refusal.code = "NEEDS_INPUT"
      <4>1. refusal.names = Proposed(g) /\ Chosen(g) = {}
        BY <3>2, <3>3 DEF GroupRefused
      <4>2. GroupOf[p] = g
        BY <3>1, <4>1, SelectorsTellApart DEF Proposed, SelectorsOf, ProvidersIn
      <4> QED BY <3>1, <4>1, <4>2 DEF SettledChoice
    <3>4. CASE refusal.code = "AMBIGUOUS_PROVIDER"
      <4>1. refusal.names = SelectorsOf(Chosen(g))
        BY <3>2, <3>4 DEF GroupRefused
      <4>2. GroupOf[p] = g
        BY <3>1, <4>1, SelectorsTellApart DEF Chosen, ChosenIn, SelectorsOf, ProvidersIn
      <4>3. refusal.names = {SelectorOf[p]}
        BY <3>1, <4>1, <4>2 DEF SettledChoice, SelectorsOf
      <4> QED BY <3>1, <3>4, <4>3
    <3> QED BY <2>1, <2>2, <3>3, <3>4 DEF Heeded
  <2>3. CASE refusal.about = "judge"
    BY <2>1, <2>3 DEF Heeded, RefusalSays, DemandRefused
  <2>4. CASE refusal.about = "selector"
    <3>1. PICK p \in Inactive : SelectorOf[p] \in refusal.names
      BY <2>1, <2>4 DEF RefusalSays, DemandRefused, SelectorsOf
    <3> QED BY <2>1, <2>4, <3>1 DEF Heeded, Inactive
  <2>5. CASE refusal.about \in {"missing", "surplus"}
    BY <2>1, <2>5 DEF Heeded, RefusalSays, ClosureRefused
  <2> QED BY <2>1, <2>2, <2>3, <2>4, <2>5 DEF Heeded
<1>2. ConversationInv => NoAdviceTwice
    BY <1>1 DEF NoAdviceTwice
<1> QED BY <1>2, ConversationAlways, PTL

\* A proposal the tenant took is never held against it.
THEOREM ProposalsStayUsable == ConversationSpec => []ProposalsAreUsable
<1>1. ASSUME ConversationInv, refusal.about \in {"roles", "selector", "group", "choice"},
             NEW c \in refusal.names, c \in taken
      PROVE  FALSE
  <2>1. PICK p \in Provider : c = SelectorOf[p] /\ SettledChoice(p) /\ Compatible(p)
    BY <1>1 DEF ConversationInv, TakenInv
  <2>2. RefusalSays(refusal)
    BY <1>1 DEF ConversationInv, RefusedInv
  <2>3. CASE refusal.about = "roles"
    BY <1>1, <2>1, <2>2, <2>3 DEF RefusalSays, DemandRefused, SelectorsOf
  <2>4. CASE refusal.about = "selector"
    <3>1. PICK q \in Inactive : c = SelectorOf[q]
      BY <1>1, <2>2, <2>4 DEF RefusalSays, DemandRefused, SelectorsOf
    <3> QED BY <2>1, <3>1, SelectorsTellApart DEF Inactive, SettledChoice
  <2>5. CASE refusal.about \in {"group", "choice"}
    <3>1. PICK g \in Active : GroupRefused(g, refusal)
      BY <2>2, <2>5 DEF RefusalSays
    <3>2. CASE refusal.code = "NEEDS_INPUT"
      <4>1. refusal.names = Proposed(g) /\ Chosen(g) = {}
        BY <3>1, <3>2 DEF GroupRefused
      <4>2. GroupOf[p] = g
        BY <1>1, <2>1, <4>1, SelectorsTellApart DEF Proposed, SelectorsOf, ProvidersIn
      <4> QED BY <2>1, <4>1, <4>2 DEF SettledChoice
    <3>3. CASE refusal.names = SelectorsOf(Chosen(g))
      <4>1. GroupOf[p] = g
        BY <1>1, <2>1, <3>3, SelectorsTellApart DEF Chosen, ChosenIn, SelectorsOf, ProvidersIn
      <4>2. Chosen(g) = {p}
        BY <2>1, <4>1 DEF SettledChoice
      <4>3. ~(Cardinality(Chosen(g)) > 1)
        BY <4>2, FS_Singleton
      <4> QED BY <1>1, <2>1, <3>1, <3>3, <4>2, <4>3 DEF GroupRefused
    <3> QED BY <1>1, <3>1, <3>2, <3>3 DEF GroupRefused
  <2> QED BY <1>1, <2>3, <2>4, <2>5
<1>2. ConversationInv => ProposalsAreUsable
    BY <1>1 DEF ProposalsAreUsable
<1> QED BY <1>2, ConversationAlways, PTL

\* Once prerequisites were asked for, the demand is accepted for good.
THEOREM PrerequisitesAreLast == ConversationSpec => []PrerequisitesComeLast
<1>1. ASSUME ConversationInv, NEW r \in followed, r.about \in {"missing", "surplus"}
      PROVE  refusal.about \in {"none", "missing", "surplus", "modules"}
    BY <1>1 DEF ConversationInv, FollowedInv, Heeded, RefusedInv, RefusalSays
<1>2. ConversationInv => PrerequisitesComeLast
    BY <1>1 DEF PrerequisitesComeLast
<1> QED BY <1>2, ConversationAlways, PTL

\* Each call of a conversation is a call like any other: what holds of every
\* call of compile_profile holds however the tenant came to submit it.
THEOREM EveryCallOfAConversation ==
    ConversationSpec => [](/\ TypeOK /\ ProvidersAreTenantChoices /\ AdmissionAgrees
                           /\ PlanExplained /\ PlanInstallable)
<1>1. ConversationInv => /\ TypeOK /\ ProvidersAreTenantChoices /\ AdmissionAgrees
                         /\ PlanExplained /\ PlanInstallable
    BY TypeOKFollows, ProvidersAreTenantChoicesFollows, AdmissionAgreesFollows,
       PlanExplainedFollows, PlanInstallableFollows DEF ConversationInv
<1> QED BY <1>1, ConversationAlways, PTL
=============================================================================
