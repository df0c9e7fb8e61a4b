-------------------------- MODULE DependencyGraph --------------------------
(***************************************************************************)
(* Dependency graphs as graph.py receives them, and what its algorithms    *)
(* promise about them.  A graph is a function from the declared nodes to   *)
(* the set of nodes each one depends on; a target need not be declared.    *)
(* Nothing here is an algorithm: each operator is a set described by the   *)
(* property that singles it out, so that the loops of graph.py (modules    *)
(* TopologicalWaves and TransitiveClosure) have something to be compared   *)
(* with, and callers of graph.py (module Compiler) something to rely on.   *)
(***************************************************************************)
EXTENDS Integers

\* Every graph over node: any set of declared nodes, any targets.
DependencyGraphs(node) == UNION {[D -> SUBSET node] : D \in SUBSET node}

\* S is declared and needs nothing outside itself.
SelfContained(S, deps) ==
    /\ S \subseteq DOMAIN deps
    /\ \A n \in S : deps[n] \subseteq S

\* S takes every declared dependency of its members.
ClosedUnder(S, deps) == \A n \in S : deps[n] \cap DOMAIN deps \subseteq S

\* The least set of declared nodes that holds the seeds and is closed.
Reachable(seeds, deps) ==
    {n \in DOMAIN deps : \A S \in SUBSET DOMAIN deps :
        (seeds \subseteq S /\ ClosedUnder(S, deps)) => n \in S}

\* Everybody in R waits for somebody in R.
Deadlocked(R, deps) == \A n \in R : deps[n] \cap R # {}

\* The nodes of S that no installation order ever reaches: those on a cycle
\* and those that depend on one.
Residue(S, deps) == UNION {R \in SUBSET S : Deadlocked(R, deps)}

Least(n, S) == n \in S /\ \A m \in S : n <= m
=============================================================================
