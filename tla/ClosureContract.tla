-------------------------- MODULE ClosureContract --------------------------
(***************************************************************************)
(* What transitive_closure promises, with no worklist: asked for the       *)
(* prerequisites of some seeds, it answers once, with the least closed set *)
(* that holds them, or with a refusal that the graph justifies.            *)
(***************************************************************************)
EXTENDS DependencyGraph

CONSTANT Node

VARIABLES
    seeds,      \* the argument seeds
    deps,       \* the argument dependencies
    answer      \* verdict and the resources it names

NoAnswer == [verdict |-> "pending", resources |-> {}]

UnknownSeeds == seeds \ DOMAIN deps
Needed == Reachable(seeds, deps)
UnknownTargets == (UNION {deps[n] : n \in Needed}) \ DOMAIN deps

Init ==
    /\ seeds \in SUBSET Node
    /\ deps \in DependencyGraphs(Node)
    /\ answer = NoAnswer

Answer(verdict, resources) ==
    /\ answer = NoAnswer
    /\ answer' = [verdict |-> verdict, resources |-> resources]
    /\ UNCHANGED <<seeds, deps>>

RefuseSeeds == UnknownSeeds # {} /\ Answer("CLOSURE_INCOMPLETE", UnknownSeeds)

\* Some target that is really needed is undeclared; one is named.
RefuseTarget ==
    /\ UnknownSeeds = {}
    /\ \E t \in UnknownTargets : Answer("CLOSURE_INCOMPLETE", {t})

Decide ==
    /\ UnknownSeeds = {}
    /\ UnknownTargets = {}
    /\ IF Residue(Needed, deps) = {}
       THEN Answer("returned", Needed)
       ELSE Answer("DEPENDENCY_CYCLE", Residue(Needed, deps))

Next == RefuseSeeds \/ RefuseTarget \/ Decide

vars == <<seeds, deps, answer>>
Safety == Init /\ [][Next]_vars
Spec == Safety /\ WF_vars(Next)
=============================================================================
