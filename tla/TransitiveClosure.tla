------------------------- MODULE TransitiveClosure -------------------------
(***************************************************************************)
(* graph.transitive_closure: the worklist that turns the harnesses (or     *)
(* modules) a tenant asked for into everything they need.  One step is one *)
(* iteration of the while loop; the list pending, which the code keeps     *)
(* sorted and free of duplicates, is the set of its members.               *)
(***************************************************************************)
EXTENDS DependencyGraph, FiniteSets

CONSTANT Node
ASSUME NodeAssumption == Node \subseteq Nat

VARIABLES
    seeds,      \* the argument seeds
    deps,       \* the argument dependencies
    phase,      \* "called", "expanding" or "finished"
    selected,   \* seeds and every target met so far
    pending,    \* selected nodes whose targets were not looked at
    answer      \* verdict and the resources it names

vars == <<seeds, deps, phase, selected, pending, answer>>

NoAnswer == [verdict |-> "pending", resources |-> {}]
known == DOMAIN deps

Finish(verdict, resources) ==
    /\ phase' = "finished"
    /\ answer' = [verdict |-> verdict, resources |-> resources]
    /\ UNCHANGED <<seeds, deps, selected, pending>>

Init ==
    /\ seeds \in SUBSET Node
    /\ deps \in DependencyGraphs(Node)
    /\ phase = "called"
    /\ selected = seeds
    /\ pending = {}
    /\ answer = NoAnswer

RefuseSeeds ==
    /\ phase = "called"
    /\ ~(selected \subseteq known)
    /\ Finish("CLOSURE_INCOMPLETE", selected \ known)

StartExpanding ==
    /\ phase = "called"
    /\ selected \subseteq known
    /\ phase' = "expanding"
    /\ pending' = selected
    /\ UNCHANGED <<seeds, deps, selected, answer>>

\* pending.pop(0) takes the lexically first node; its targets are looked at
\* in lexical order, and the first undeclared one ends the call.
RefuseTarget(source) ==
    /\ phase = "expanding"
    /\ Least(source, pending)
    /\ \E target \in deps[source] :
        /\ Least(target, deps[source] \ known)
        /\ Finish("CLOSURE_INCOMPLETE", {target})

Expand(source) ==
    /\ phase = "expanding"
    /\ Least(source, pending)
    /\ deps[source] \subseteq known
    /\ selected' = selected \cup deps[source]
    /\ pending' = (pending \ {source}) \cup (deps[source] \ selected)
    /\ UNCHANGED <<seeds, deps, phase, answer>>

\* Mutant: the closing call of topological_waves is dropped.
ReturnUnordered ==
    /\ phase = "expanding"
    /\ pending = {}
    /\ Finish("returned", selected)

\* The last call, topological_waves(selected, dependencies): its outcome on a
\* complete graph is that of module TopologicalWaves.
ReturnClosure ==
    /\ phase = "expanding"
    /\ pending = {}
    /\ IF Residue(selected, deps) = {}
       THEN Finish("returned", selected)
       ELSE Finish("DEPENDENCY_CYCLE", Residue(selected, deps))

Next ==
    \/ RefuseSeeds
    \/ StartExpanding
    \/ \E source \in Node : RefuseTarget(source) \/ Expand(source)
    \/ ReturnClosure

\* A call runs to its end: the code blocks on nothing.
Spec == Init /\ [][Next]_vars /\ WF_vars(Next)

-----------------------------------------------------------------------------
TypeOK ==
    /\ seeds \subseteq Node
    /\ deps \in DependencyGraphs(Node)
    /\ phase \in {"called", "expanding", "finished"}
    /\ selected \subseteq Node
    /\ pending \subseteq selected
    /\ answer \in [verdict : {"pending", "returned", "CLOSURE_INCOMPLETE", "DEPENDENCY_CYCLE"},
                   resources : SUBSET Node]

\* The worklist never loses a node and never adds one that nobody needs: what
\* is selected and off the list has all its targets selected, and every
\* selected node is in each closed set that holds the seeds.
WorklistInvariant ==
    phase = "expanding" =>
        /\ seeds \subseteq selected
        /\ selected \subseteq Reachable(seeds, deps)
        /\ \A n \in selected \ pending : deps[n] \subseteq selected

\* Every returned set can be installed as it stands: it is self-contained and
\* nothing in it waits for itself.
ReturnedSetInstallable ==
    answer.verdict = "returned" =>
        /\ seeds \subseteq answer.resources
        /\ SelfContained(answer.resources, deps)
        /\ Residue(answer.resources, deps) = {}

\* Nothing is selected that the seeds do not need: taking any one node out of
\* the answer leaves a set that misses a seed or a prerequisite.
ReturnedSetMinimal ==
    answer.verdict = "returned" =>
        \A S \in SUBSET answer.resources :
            (seeds \subseteq S /\ SelfContained(S, deps)) => S = answer.resources

\* The worklist implements the one-step contract, its termination included.
Contract == INSTANCE ClosureContract WITH seeds <- seeds, deps <- deps, answer <- answer
ImplementsContract == Contract!Spec
=============================================================================
