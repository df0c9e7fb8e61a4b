-------------------------- MODULE TopologicalWaves -------------------------
(***************************************************************************)
(* graph.validate_graph and graph.topological_waves, one loop iteration    *)
(* per step.  The caller hands over a node set and a dependency mapping;   *)
(* validate_graph first looks for unknown sources, unknown targets and     *)
(* self edges and then calls topological_waves, which most callers call    *)
(* directly.  The code walks a Python set while it checks declarations, so *)
(* the order of those checks is the hash order: any order.                 *)
(* Node identifiers are numbers, compared as the code compares strings. A  *)
(* wave, a sorted tuple in the code, is the set of its members.            *)
(***************************************************************************)
EXTENDS DependencyGraph, Sequences

CONSTANT Node
ASSUME NodeAssumption == Node \subseteq Nat

VARIABLES
    nodes,      \* the argument nodes
    deps,       \* the argument dependencies
    phase,      \* "validate", "declare", "peel", "returned" or "refused"
    declared,   \* keys of the local mapping closed
    remaining,  \* nodes in no wave yet
    installed,  \* nodes in some wave
    waves,      \* the list of waves
    error       \* code and resources of the CompilationError

vars == <<nodes, deps, phase, declared, remaining, installed, waves, error>>
input == <<nodes, deps>>

NoError == [code |-> "none", resources |-> {}]

Refuse(code, resources) ==
    /\ phase' = "refused"
    /\ error' = [code |-> code, resources |-> resources]
    /\ UNCHANGED <<nodes, deps, declared, remaining, installed, waves>>

Init ==
    /\ nodes \in SUBSET Node
    /\ deps \in DependencyGraphs(Node)
    /\ phase \in {"validate", "declare"}
    /\ declared = {}
    /\ remaining = nodes
    /\ installed = {}
    /\ waves = <<>>
    /\ error = NoError

-----------------------------------------------------------------------------
\* validate_graph: a source is at fault when it is unknown, has an unknown
\* target or is its own target; the lexically first one is reported.
FaultySources ==
    {s \in DOMAIN deps : s \notin nodes \/ s \in deps[s] \/ ~(deps[s] \subseteq nodes)}

RefuseSource ==
    /\ phase = "validate"
    /\ \E s \in FaultySources :
        /\ Least(s, FaultySources)
        /\ \/ s \notin nodes /\ Refuse("CLOSURE_INCOMPLETE", {s})
           \/ /\ s \in nodes
              /\ \E t \in deps[s] :
                    /\ Least(t, {u \in deps[s] : u = s \/ u \notin nodes})
                    /\ Refuse(IF t = s THEN "DEPENDENCY_CYCLE" ELSE "CLOSURE_INCOMPLETE",
                              {s, t})

ValidateEdges ==
    /\ phase = "validate"
    /\ FaultySources = {}
    /\ phase' = "declare"
    /\ UNCHANGED <<nodes, deps, declared, remaining, installed, waves, error>>

\* topological_waves, first loop: every node declared, every target inside.
Incomplete == {n \in nodes : n \notin DOMAIN deps \/ ~(deps[n] \subseteq nodes)}

Declare(n) ==
    /\ phase = "declare"
    /\ n \in nodes \ declared
    /\ n \notin Incomplete
    /\ declared' = declared \cup {n}
    /\ UNCHANGED <<nodes, deps, phase, remaining, installed, waves, error>>

RefuseIncomplete(n) ==
    /\ phase = "declare"
    /\ n \in nodes \ declared
    /\ n \in Incomplete
    /\ Refuse("CLOSURE_INCOMPLETE", {n})

\* Mutant: the empty graph is forgotten.
StartPeelingNonEmpty ==
    /\ phase = "declare"
    /\ declared = nodes /\ declared # {}
    /\ phase' = "peel"
    /\ UNCHANGED <<nodes, deps, declared, remaining, installed, waves, error>>

StartPeeling ==
    /\ phase = "declare"
    /\ declared = nodes
    /\ phase' = "peel"
    /\ UNCHANGED <<nodes, deps, declared, remaining, installed, waves, error>>

\* topological_waves, second loop: peel off what is ready.
\* Mutant: any installed dependency makes a node ready.
WaveOfAny == {n \in remaining : deps[n] = {} \/ deps[n] \cap installed # {}}

\* Mutant: one node per wave.
WaveOfOne == {n \in remaining : Least(n, {m \in remaining : deps[m] \subseteq installed})}

Wave == {n \in remaining : deps[n] \subseteq installed}

PeelWave ==
    /\ phase = "peel"
    /\ Wave # {}
    /\ waves' = Append(waves, Wave)
    /\ installed' = installed \cup Wave
    /\ remaining' = remaining \ Wave
    /\ UNCHANGED <<nodes, deps, phase, declared, error>>

\* Mutant: the cycle evidence lists the whole argument.
RefuseCycleBlamingAll ==
    /\ phase = "peel"
    /\ remaining # {}
    /\ Wave = {}
    /\ Refuse("DEPENDENCY_CYCLE", nodes)

RefuseCycle ==
    /\ phase = "peel"
    /\ remaining # {}
    /\ Wave = {}
    /\ Refuse("DEPENDENCY_CYCLE", remaining)

Return ==
    /\ phase = "peel"
    /\ remaining = {}
    /\ phase' = "returned"
    /\ UNCHANGED <<nodes, deps, declared, remaining, installed, waves, error>>

Next ==
    \/ RefuseSource
    \/ ValidateEdges
    \/ \E n \in Node : Declare(n) \/ RefuseIncomplete(n)
    \/ StartPeeling
    \/ PeelWave
    \/ RefuseCycle
    \/ Return

\* A call runs to its end: the code blocks on nothing.
Spec == Init /\ [][Next]_vars /\ WF_vars(Next)

-----------------------------------------------------------------------------
TypeOK ==
    /\ nodes \subseteq Node
    /\ deps \in DependencyGraphs(Node)
    /\ phase \in {"validate", "declare", "peel", "returned", "refused"}
    /\ declared \subseteq nodes
    /\ remaining \subseteq nodes
    /\ installed \subseteq nodes
    /\ waves \in Seq(SUBSET Node)
    /\ error \in [code : {"none", "CLOSURE_INCOMPLETE", "DEPENDENCY_CYCLE"},
                  resources : SUBSET Node]

\* The waves built so far hold each installed node once and nothing else.
WavesPartitionInstalled ==
    /\ installed = UNION {waves[i] : i \in 1..Len(waves)}
    /\ \A i, j \in 1..Len(waves) : i # j => waves[i] \cap waves[j] = {}

\* Dependency-first: whatever a node depends on is in an earlier wave, so an
\* installer that runs the waves in order never installs over a gap.
DependenciesFirst ==
    \A i \in 1..Len(waves) : \A n \in waves[i] : \A t \in deps[n] :
        \E j \in 1..(i - 1) : t \in waves[j]

\* No wave is later than it has to be: a node of a later wave waits for one
\* of the wave before it.  With DependenciesFirst this leaves one possible
\* answer, whatever order the mapping was built in.
EarliestWave ==
    \A i \in 2..Len(waves) : \A n \in waves[i] : deps[n] \cap waves[i - 1] # {}

\* The call returns exactly for complete graphs without a cycle, and then the
\* waves cover all the nodes.
ReturnsInstallableGraphs ==
    phase = "returned" =>
        /\ SelfContained(nodes, deps)
        /\ Residue(nodes, deps) = {}
        /\ installed = nodes

\* A cycle refusal by the waves loop names the nodes that no order can ever
\* install: none too few, and none that could have been installed.
CycleEvidenceExact ==
    (phase = "refused" /\ declared = nodes /\ error.code = "DEPENDENCY_CYCLE")
        => error.resources = Residue(nodes, deps)

\* Every call ends in an answer.
Terminates == <>(phase \in {"returned", "refused"})
=============================================================================
