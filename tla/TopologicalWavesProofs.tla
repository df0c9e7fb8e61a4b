----------------------- MODULE TopologicalWavesProofs ----------------------
(***************************************************************************)
(* Proofs about TopologicalWaves, for every node set and every graph.      *)
(***************************************************************************)
EXTENDS TopologicalWaves, TLAPS

\* What the two loops keep true of their variables, beside the properties.
Progress ==
    /\ installed = nodes \ remaining
    /\ declared \cap Incomplete = {}
    /\ phase \in {"validate", "declare"} => waves = <<>> /\ remaining = nodes
    /\ phase = "validate" => declared = {}
    /\ phase \in {"peel", "returned"} => declared = nodes
    /\ error.code = "DEPENDENCY_CYCLE" => phase = "refused"

\* A node left over after the last wave was not ready before that wave.
RemainingWasNotReady ==
    \A n \in remaining : waves # <<>> => deps[n] \cap waves[Len(waves)] # {}
                                         \/ ~(deps[n] \subseteq installed)

\* No node that waits for itself ever gets into a wave.
ResidueNotInstalled == Residue(nodes, deps) \cap installed = {}

IInv ==
    /\ TypeOK
    /\ Progress
    /\ WavesPartitionInstalled
    /\ DependenciesFirst
    /\ EarliestWave
    /\ RemainingWasNotReady
    /\ ResidueNotInstalled
    /\ ReturnsInstallableGraphs
    /\ CycleEvidenceExact

-----------------------------------------------------------------------------
\* Facts about Residue that need no state.
LEMMA ResidueIsDeadlocked ==
    ASSUME NEW S, NEW d, NEW n \in Residue(S, d)
    PROVE  /\ n \in S
           /\ d[n] \cap Residue(S, d) # {}
BY DEF Residue, Deadlocked

LEMMA DeadlockedInResidue ==
    ASSUME NEW S, NEW d, NEW R \in SUBSET S, Deadlocked(R, d)
    PROVE  R \subseteq Residue(S, d)
BY DEF Residue

LEMMA GraphTargets ==
    ASSUME NEW N, NEW d \in DependencyGraphs(N)
    PROVE  /\ DOMAIN d \subseteq N
           /\ \A n \in DOMAIN d : d[n] \subseteq N
BY DEF DependencyGraphs

-----------------------------------------------------------------------------
\* The variables keep their types: a call never leaves the shapes the code
\* gives its locals.
THEOREM TypeCorrect == Spec => []TypeOK
<1>1. Init => TypeOK
  BY DEF Init, TypeOK, NoError
<1>2. TypeOK /\ [Next]_vars => TypeOK'
  <2> SUFFICES ASSUME TypeOK, [Next]_vars PROVE TypeOK'
    OBVIOUS
  <2> USE DEF TypeOK
  <2>1. CASE RefuseSource
    <3>1. PICK s \in FaultySources :
            \/ s \notin nodes /\ Refuse("CLOSURE_INCOMPLETE", {s})
            \/ /\ s \in nodes
               /\ \E t \in deps[s] :
                     Refuse(IF t = s THEN "DEPENDENCY_CYCLE" ELSE "CLOSURE_INCOMPLETE", {s, t})
      BY <2>1 DEF RefuseSource
    <3>2. s \in Node /\ deps[s] \subseteq Node
      BY GraphTargets DEF FaultySources
    <3> QED
      BY <3>1, <3>2 DEF Refuse
  <2>2. CASE ValidateEdges
    BY <2>2 DEF ValidateEdges
  <2>3. ASSUME NEW n \in Node, Declare(n) PROVE TypeOK'
    BY <2>3 DEF Declare
  <2>4. ASSUME NEW n \in Node, RefuseIncomplete(n) PROVE TypeOK'
    BY <2>4 DEF RefuseIncomplete, Refuse
  <2>5. CASE StartPeeling
    BY <2>5 DEF StartPeeling
  <2>6. CASE PeelWave
    <3>1. Wave \in SUBSET Node
      BY DEF Wave
    <3> QED
      BY <2>6, <3>1 DEF PeelWave, Wave
  <2>7. CASE RefuseCycle
    BY <2>7 DEF RefuseCycle, Refuse
  <2>8. CASE Return
    BY <2>8 DEF Return
  <2>9. CASE UNCHANGED vars
    BY <2>9 DEF vars
  <2> QED
    BY <2>1, <2>2, <2>3, <2>4, <2>5, <2>6, <2>7, <2>8, <2>9 DEF Next
<1> QED
  BY <1>1, <1>2, PTL DEF Spec

-----------------------------------------------------------------------------
LEMMA Initially == Init => IInv
<1> SUFFICES ASSUME Init PROVE IInv
  OBVIOUS
<1>1. TypeOK
  BY DEF Init, TypeOK, NoError
<1>2. Progress /\ RemainingWasNotReady /\ ResidueNotInstalled
  BY DEF Init, Progress, RemainingWasNotReady, ResidueNotInstalled, NoError
<1>3. WavesPartitionInstalled /\ DependenciesFirst /\ EarliestWave
  BY DEF Init, WavesPartitionInstalled, DependenciesFirst, EarliestWave
<1>4. ReturnsInstallableGraphs /\ CycleEvidenceExact
  BY DEF Init, ReturnsInstallableGraphs, CycleEvidenceExact, NoError
<1> QED
  BY <1>1, <1>2, <1>3, <1>4 DEF IInv

\* One wave is peeled off: the heart of the argument.
LEMMA PeelWavePreserves == IInv /\ PeelWave => IInv'
<1> SUFFICES ASSUME IInv, PeelWave PROVE IInv'
  OBVIOUS
<1> USE DEF IInv
<1> DEFINE last == Len(waves)
<1>1. /\ phase = "peel" /\ Wave # {} /\ waves' = Append(waves, Wave)
      /\ installed' = installed \cup Wave /\ remaining' = remaining \ Wave
      /\ UNCHANGED <<nodes, deps, phase, declared, error>>
  BY DEF PeelWave
<1>2. /\ Wave \subseteq remaining /\ Wave \in SUBSET Node
      /\ \A n \in Wave : deps[n] \subseteq installed
  BY DEF Wave, TypeOK
<1>3. /\ waves \in Seq(SUBSET Node) /\ last \in Nat /\ Len(waves') = last + 1
      /\ waves'[last + 1] = Wave
      /\ \A i \in 1..last : waves'[i] = waves[i]
  BY <1>1, <1>2 DEF TypeOK
<1>4. TypeOK'
  BY <1>1, <1>2 DEF TypeOK
<1>5. Progress'
  BY <1>1, <1>2 DEF Progress, TypeOK, Incomplete
<1>6. WavesPartitionInstalled'
  <2>1. installed' = UNION {waves'[i] : i \in 1..Len(waves')}
    BY <1>1, <1>3 DEF WavesPartitionInstalled
  <2>2. \A i \in 1..last : waves[i] \cap Wave = {}
    BY <1>2, <1>3 DEF WavesPartitionInstalled, Progress
  <2>3. \A i, j \in 1..Len(waves') : i # j => waves'[i] \cap waves'[j] = {}
    <3> SUFFICES ASSUME NEW i \in 1..(last + 1), NEW j \in 1..(last + 1), i # j
                 PROVE  waves'[i] \cap waves'[j] = {}
      BY <1>3
    <3>1. CASE i \in 1..last /\ j \in 1..last
      BY <3>1, <1>3 DEF WavesPartitionInstalled
    <3>2. CASE i = last + 1 /\ j \in 1..last
      BY <3>2, <1>3, <2>2
    <3>3. CASE i \in 1..last /\ j = last + 1
      BY <3>3, <1>3, <2>2
    <3> QED
      BY <3>1, <3>2, <3>3, <1>3
  <2> QED
    BY <2>1, <2>3 DEF WavesPartitionInstalled
<1>7. DependenciesFirst'
  <2> SUFFICES ASSUME NEW i \in 1..(last + 1), NEW n \in waves'[i], NEW t \in deps[n]
               PROVE  \E j \in 1..(i - 1) : t \in waves'[j]
    BY <1>1, <1>3 DEF DependenciesFirst
  <2>1. CASE i \in 1..last
    <3>1. PICK j \in 1..(i - 1) : t \in waves[j]
      BY <2>1, <1>3 DEF DependenciesFirst
    <3> QED
      BY <3>1, <2>1, <1>3
  <2>2. CASE i = last + 1
    <3>1. t \in installed
      BY <2>2, <1>2, <1>3
    <3>2. PICK j \in 1..last : t \in waves[j]
      BY <3>1 DEF WavesPartitionInstalled
    <3> QED
      BY <3>2, <2>2, <1>3
  <2> QED
    BY <2>1, <2>2, <1>3
<1>8. EarliestWave'
  <2> SUFFICES ASSUME NEW i \in 2..(last + 1), NEW n \in waves'[i]
               PROVE  deps[n] \cap waves'[i - 1] # {}
    BY <1>1, <1>3 DEF EarliestWave
  <2>1. CASE i \in 2..last
    <3>1. waves'[i] = waves[i] /\ waves'[i - 1] = waves[i - 1]
      BY <2>1, <1>3
    <3> QED
      BY <3>1, <2>1 DEF EarliestWave
  <2>2. CASE i = last + 1
    <3>1. n \in remaining /\ deps[n] \subseteq installed
      BY <2>2, <1>2, <1>3
    <3>2. waves # <<>> /\ waves'[i - 1] = waves[last]
      BY <2>2, <1>3
    <3> QED
      BY <3>1, <3>2 DEF RemainingWasNotReady
  <2> QED
    BY <2>1, <2>2, <1>3
<1>9. RemainingWasNotReady'
  <2> SUFFICES ASSUME NEW n \in remaining \ Wave, deps[n] \subseteq installed \cup Wave
               PROVE  deps[n] \cap Wave # {}
    BY <1>1, <1>3 DEF RemainingWasNotReady
  <2>1. ~(deps[n] \subseteq installed)
    BY DEF Wave
  <2> QED
    BY <2>1
<1>10. ResidueNotInstalled'
  <2> SUFFICES ASSUME NEW n \in Residue(nodes, deps), n \in Wave PROVE FALSE
    BY <1>1 DEF ResidueNotInstalled
  <2>1. deps[n] \cap Residue(nodes, deps) # {} /\ deps[n] \subseteq installed
    BY ResidueIsDeadlocked, <1>2
  <2> QED
    BY <2>1 DEF ResidueNotInstalled
<1>11. ReturnsInstallableGraphs' /\ CycleEvidenceExact'
  BY <1>1 DEF ReturnsInstallableGraphs, CycleEvidenceExact
<1> QED
  BY <1>4, <1>5, <1>6, <1>7, <1>8, <1>9, <1>10, <1>11

\* No wave can be peeled off although nodes remain: exactly the nodes that
\* wait for each other are left.
LEMMA StuckIsResidue ==
    ASSUME IInv, phase = "peel", Wave = {}
    PROVE  remaining = Residue(nodes, deps)
<1> USE DEF IInv
<1>1. nodes \cap Incomplete = {} /\ remaining \in SUBSET nodes
  BY DEF Progress, TypeOK, Incomplete
<1>2. ASSUME NEW n \in remaining PROVE deps[n] \cap remaining # {}
  <2>1. deps[n] \subseteq nodes /\ ~(deps[n] \subseteq installed)
    BY <1>1, <1>2 DEF Incomplete, Wave
  <2> QED
    BY <2>1 DEF Progress
<1>3. remaining \subseteq Residue(nodes, deps)
  BY <1>1, <1>2, DeadlockedInResidue DEF Deadlocked
<1>4. Residue(nodes, deps) \subseteq nodes \ installed
  BY ResidueIsDeadlocked DEF ResidueNotInstalled
<1> QED
  BY <1>3, <1>4 DEF Progress

\* A refusal changes the error and nothing the other conjuncts speak of.
LEMMA RefusePreserves ==
    ASSUME IInv, TypeOK', NEW code, NEW resources, Refuse(code, resources),
           (code = "DEPENDENCY_CYCLE" /\ declared = nodes)
                => resources = Residue(nodes, deps)
    PROVE  IInv'
<1> USE DEF IInv, Refuse
<1>1. Progress'
  BY DEF Progress, Incomplete
<1>2. WavesPartitionInstalled' /\ DependenciesFirst' /\ EarliestWave'
  BY DEF WavesPartitionInstalled, DependenciesFirst, EarliestWave
<1>3. RemainingWasNotReady' /\ ResidueNotInstalled'
  BY DEF RemainingWasNotReady, ResidueNotInstalled
<1>4. ReturnsInstallableGraphs' /\ CycleEvidenceExact'
  BY DEF ReturnsInstallableGraphs, CycleEvidenceExact
<1> QED
  BY <1>1, <1>2, <1>3, <1>4

\* A step that moves only the phase and the set of declared nodes.
LEMMA BookkeepingPreserves ==
    ASSUME IInv, TypeOK', Progress', ReturnsInstallableGraphs', phase' # "refused",
           UNCHANGED <<nodes, deps, remaining, installed, waves, error>>
    PROVE  IInv'
<1> USE DEF IInv
<1>1. WavesPartitionInstalled' /\ DependenciesFirst' /\ EarliestWave'
  BY DEF WavesPartitionInstalled, DependenciesFirst, EarliestWave
<1>2. RemainingWasNotReady' /\ ResidueNotInstalled'
  BY DEF RemainingWasNotReady, ResidueNotInstalled
<1>3. CycleEvidenceExact'
  BY DEF CycleEvidenceExact
<1> QED
  BY <1>1, <1>2, <1>3

LEMMA NextPreserves == IInv /\ TypeOK' /\ [Next]_vars => IInv'
<1> SUFFICES ASSUME IInv, TypeOK', [Next]_vars PROVE IInv'
  OBVIOUS
<1> USE DEF IInv
<1>1. CASE RefuseSource
  <2>1. phase = "validate" /\ declared = {}
    BY <1>1 DEF RefuseSource, Progress
  <2>2. PICK s \in FaultySources :
          \/ s \notin nodes /\ Refuse("CLOSURE_INCOMPLETE", {s})
          \/ /\ s \in nodes
             /\ \E t \in deps[s] :
                   Refuse(IF t = s THEN "DEPENDENCY_CYCLE" ELSE "CLOSURE_INCOMPLETE", {s, t})
    BY <1>1 DEF RefuseSource
  <2>3. CASE Refuse("CLOSURE_INCOMPLETE", {s})
    BY <2>3, RefusePreserves
  <2>4. ASSUME s \in nodes, NEW t \in deps[s],
               Refuse(IF t = s THEN "DEPENDENCY_CYCLE" ELSE "CLOSURE_INCOMPLETE", {s, t})
        PROVE  IInv'
    BY <2>1, <2>4, RefusePreserves
  <2> QED
    BY <2>2, <2>3, <2>4
<1>2. CASE ValidateEdges
  <2>1. Progress' /\ ReturnsInstallableGraphs' /\ phase' # "refused"
    BY <1>2 DEF ValidateEdges, Progress, Incomplete, ReturnsInstallableGraphs
  <2> QED
    BY <1>2, <2>1, BookkeepingPreserves DEF ValidateEdges
<1>3. ASSUME NEW n \in Node, Declare(n) PROVE IInv'
  <2>1. Progress' /\ ReturnsInstallableGraphs' /\ phase' # "refused"
    BY <1>3 DEF Declare, Progress, Incomplete, ReturnsInstallableGraphs
  <2> QED
    BY <1>3, <2>1, BookkeepingPreserves DEF Declare
<1>4. ASSUME NEW n \in Node, RefuseIncomplete(n) PROVE IInv'
  BY <1>4, RefusePreserves DEF RefuseIncomplete
<1>5. CASE StartPeeling
  <2>1. Progress' /\ ReturnsInstallableGraphs' /\ phase' # "refused"
    BY <1>5 DEF StartPeeling, Progress, Incomplete, ReturnsInstallableGraphs
  <2> QED
    BY <1>5, <2>1, BookkeepingPreserves DEF StartPeeling
<1>6. CASE PeelWave
  BY <1>6, PeelWavePreserves
<1>7. CASE RefuseCycle
  <2>1. remaining = Residue(nodes, deps)
    BY <1>7, StuckIsResidue DEF RefuseCycle
  <2> QED
    BY <1>7, <2>1, RefusePreserves DEF RefuseCycle
<1>8. CASE Return
  <2>1. Wave = {}
    BY <1>8 DEF Return, Wave
  <2>2. Residue(nodes, deps) = {} /\ installed = nodes
    BY <1>8, <2>1, StuckIsResidue DEF Return, Progress
  <2>3. SelfContained(nodes, deps)
    BY <1>8 DEF Return, Progress, Incomplete, SelfContained
  <2>4. Progress' /\ ReturnsInstallableGraphs' /\ phase' # "refused"
    BY <1>8, <2>2, <2>3 DEF Return, Progress, Incomplete, ReturnsInstallableGraphs
  <2> QED
    BY <1>8, <2>4, BookkeepingPreserves DEF Return
<1>9. CASE UNCHANGED vars
  BY <1>9 DEF vars, Progress, Incomplete, WavesPartitionInstalled, DependenciesFirst,
     EarliestWave, RemainingWasNotReady, ResidueNotInstalled, ReturnsInstallableGraphs,
     CycleEvidenceExact
<1> QED
  BY <1>1, <1>2, <1>3, <1>4, <1>5, <1>6, <1>7, <1>8, <1>9 DEF Next

LEMMA Inductive == Spec => []IInv
<1>1. Spec => []TypeOK
  BY TypeCorrect
<1> QED
  BY <1>1, Initially, NextPreserves, PTL DEF Spec

-----------------------------------------------------------------------------
\* Whatever graph is installed in whatever node set, the waves built at any
\* moment respect every dependency: an installer never meets a gap.
THEOREM WavesAreDependencyFirst == Spec => [](DependenciesFirst /\ WavesPartitionInstalled)
BY Inductive, PTL DEF IInv

\* The waves are the earliest ones possible, hence the only possible answer.
THEOREM WavesAreEarliest == Spec => []EarliestWave
BY Inductive, PTL DEF IInv

\* The call returns only for complete graphs that no cycle blocks, and then
\* has placed every node.
THEOREM ReturnsAreComplete == Spec => []ReturnsInstallableGraphs
BY Inductive, PTL DEF IInv

\* A cycle refusal names exactly the nodes no order could install.
THEOREM CycleEvidence == Spec => []CycleEvidenceExact
BY Inductive, PTL DEF IInv
=============================================================================
