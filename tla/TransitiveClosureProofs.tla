---------------------- MODULE TransitiveClosureProofs ----------------------
(***************************************************************************)
(* Proofs about TransitiveClosure, for every graph and all seeds.          *)
(***************************************************************************)
EXTENDS TransitiveClosure, TLAPS

LEMMA GraphTargets ==
    ASSUME NEW N, NEW d \in DependencyGraphs(N)
    PROVE  /\ DOMAIN d \subseteq N
           /\ \A n \in DOMAIN d : d[n] \subseteq N
BY DEF DependencyGraphs

\* A node that somebody needed needs is needed.
LEMMA TargetsReachable ==
    ASSUME NEW S, NEW d, NEW n \in Reachable(S, d), NEW t \in d[n] \cap DOMAIN d
    PROVE  t \in Reachable(S, d)
BY DEF Reachable, ClosedUnder

LEMMA SeedsReachable ==
    ASSUME NEW S, NEW d, S \subseteq DOMAIN d
    PROVE  S \subseteq Reachable(S, d)
BY DEF Reachable

\* A closed set that holds the seeds holds everything needed.
LEMMA ReachableIsLeast ==
    ASSUME NEW S, NEW d, NEW C \in SUBSET DOMAIN d, S \subseteq C, ClosedUnder(C, d)
    PROVE  Reachable(S, d) \subseteq C
BY DEF Reachable

\* The strengthening: where the call stands, and what its locals then hold.
LocalsInvariant ==
    /\ phase \in {"called", "expanding"} => answer = NoAnswer
    /\ phase = "called" => selected = seeds
    /\ phase = "expanding" => selected \subseteq known
    /\ phase = "finished" => answer # NoAnswer

IInv == TypeOK /\ LocalsInvariant /\ WorklistInvariant

-----------------------------------------------------------------------------
LEMMA Initially == Init => IInv
BY DEF Init, IInv, TypeOK, LocalsInvariant, WorklistInvariant, NoAnswer

\* One source is expanded: its targets are needed because it is needed.
LEMMA ExpandPreserves ==
    ASSUME IInv, NEW source \in Node, Expand(source)
    PROVE  IInv'
<1> USE DEF IInv
<1>1. /\ phase = "expanding" /\ source \in pending
      /\ deps[source] \subseteq known
      /\ selected' = selected \cup deps[source]
      /\ pending' = (pending \ {source}) \cup (deps[source] \ selected)
      /\ UNCHANGED <<seeds, deps, phase, answer>>
  BY DEF Expand, Least
<1>2. source \in selected /\ selected \subseteq known /\ known \subseteq Node
  BY <1>1, GraphTargets DEF TypeOK, LocalsInvariant, known
<1>3. TypeOK'
  BY <1>1, <1>2 DEF TypeOK
<1>4. LocalsInvariant'
  BY <1>1, <1>2 DEF LocalsInvariant, known
<1>5. deps[source] \subseteq Reachable(seeds, deps)
  BY <1>1, <1>2, TargetsReachable DEF WorklistInvariant, known
<1>6. \A n \in selected' \ pending' : deps[n] \subseteq selected'
  BY <1>1 DEF WorklistInvariant
<1>7. WorklistInvariant'
  BY <1>1, <1>5, <1>6 DEF WorklistInvariant
<1> QED
  BY <1>3, <1>4, <1>7

\* An empty list means the selected set is exactly what the seeds need.
LEMMA ClosureComplete ==
    ASSUME IInv, phase = "expanding", pending = {}
    PROVE  /\ selected = Reachable(seeds, deps)
           /\ SelfContained(selected, deps)
           /\ seeds \subseteq selected
<1> USE DEF IInv
<1>1. SelfContained(selected, deps) /\ seeds \subseteq selected
  BY DEF SelfContained, WorklistInvariant, LocalsInvariant, known
<1>2. ClosedUnder(selected, deps)
  BY <1>1 DEF SelfContained, ClosedUnder
<1>3. Reachable(seeds, deps) \subseteq selected
  BY <1>1, <1>2, ReachableIsLeast DEF SelfContained
<1> QED
  BY <1>1, <1>3 DEF WorklistInvariant

LEMMA FinishPreserves ==
    ASSUME IInv, NEW resources \in SUBSET Node,
           NEW verdict \in {"returned", "CLOSURE_INCOMPLETE", "DEPENDENCY_CYCLE"},
           Finish(verdict, resources)
    PROVE  IInv'
BY DEF IInv, TypeOK, LocalsInvariant, WorklistInvariant, Finish, NoAnswer

LEMMA NextPreserves == IInv /\ [Next]_vars => IInv'
<1> SUFFICES ASSUME IInv, [Next]_vars PROVE IInv'
  OBVIOUS
<1>1. CASE RefuseSeeds
  <2>1. selected \ known \in SUBSET Node
    BY DEF IInv, TypeOK
  <2> QED
    BY <1>1, <2>1, FinishPreserves DEF RefuseSeeds
<1>2. CASE StartExpanding
  <2> USE <1>2 DEF StartExpanding, IInv
  <2>1. TypeOK' /\ LocalsInvariant'
    BY DEF TypeOK, LocalsInvariant, known
  <2>2. seeds \subseteq Reachable(seeds, deps)
    BY SeedsReachable DEF LocalsInvariant, known
  <2>3. WorklistInvariant'
    BY <2>2 DEF WorklistInvariant, LocalsInvariant
  <2> QED
    BY <2>1, <2>3
<1>3. ASSUME NEW source \in Node, RefuseTarget(source) PROVE IInv'
  <2>1. PICK target \in deps[source] : Finish("CLOSURE_INCOMPLETE", {target})
    BY <1>3 DEF RefuseTarget
  <2>2. source \in DOMAIN deps
    BY <1>3 DEF RefuseTarget, Least, IInv, TypeOK, LocalsInvariant, known
  <2>3. target \in Node
    BY <2>2, GraphTargets DEF IInv, TypeOK
  <2> QED
    BY <2>1, <2>3, FinishPreserves
<1>4. ASSUME NEW source \in Node, Expand(source) PROVE IInv'
  BY <1>4, ExpandPreserves
<1>5. CASE ReturnClosure
  <2>1. selected \in SUBSET Node /\ Residue(selected, deps) \in SUBSET Node
    BY DEF IInv, TypeOK, Residue
  <2> QED
    BY <1>5, <2>1, FinishPreserves DEF ReturnClosure
<1>6. CASE UNCHANGED vars
  BY <1>6 DEF vars, IInv, TypeOK, LocalsInvariant, WorklistInvariant, known
<1> QED
  BY <1>1, <1>2, <1>3, <1>4, <1>5, <1>6 DEF Next

LEMMA Inductive == Spec => []IInv
BY Initially, NextPreserves, PTL DEF Spec

-----------------------------------------------------------------------------
\* The locals of the call keep their types, for every graph.
THEOREM TypeCorrect == Spec => []TypeOK
BY Inductive, PTL DEF IInv

\* The worklist never loses a node and never adds one that nobody needs.
THEOREM WorklistCorrect == Spec => []WorklistInvariant
BY Inductive, PTL DEF IInv

\* What a call answers is a self-contained set, free of cycles and with no
\* node the seeds do not need.
AnswerInvariant ==
    /\ answer.verdict = "returned" =>
         /\ answer.resources = Reachable(seeds, deps)
         /\ SelfContained(answer.resources, deps)
         /\ seeds \subseteq answer.resources
         /\ Residue(answer.resources, deps) = {}

LEMMA AnswerCorrect == Spec => []AnswerInvariant
<1>1. Init => AnswerInvariant
  BY DEF Init, AnswerInvariant, NoAnswer
<1>2. IInv /\ AnswerInvariant /\ [Next]_vars => AnswerInvariant'
  <2> SUFFICES ASSUME IInv, AnswerInvariant, [Next]_vars PROVE AnswerInvariant'
    OBVIOUS
  <2>1. CASE ReturnClosure
    <3>1. /\ selected = Reachable(seeds, deps) /\ SelfContained(selected, deps)
          /\ seeds \subseteq selected
      BY <2>1, ClosureComplete DEF ReturnClosure
    <3> QED
      BY <2>1, <3>1 DEF ReturnClosure, Finish, AnswerInvariant
  <2>2. CASE UNCHANGED <<seeds, deps, answer>>
    BY <2>2 DEF AnswerInvariant
  <2>3. ASSUME NEW resources, Finish("CLOSURE_INCOMPLETE", resources) PROVE AnswerInvariant'
    BY <2>3 DEF Finish, AnswerInvariant
  <2> QED
    BY <2>1, <2>2, <2>3 DEF Next, vars, RefuseSeeds, StartExpanding, RefuseTarget, Expand
<1> QED
  BY <1>1, <1>2, Inductive, PTL DEF Spec

\* A returned set can be installed as it stands.
THEOREM ReturnedSetsInstallable == Spec => []ReturnedSetInstallable
<1>1. AnswerInvariant => ReturnedSetInstallable
  BY DEF AnswerInvariant, ReturnedSetInstallable
<1> QED
  BY <1>1, AnswerCorrect, PTL

\* A returned set has no self-contained proper subset with the same seeds.
THEOREM ReturnedSetsMinimal == Spec => []ReturnedSetMinimal
<1>1. AnswerInvariant => ReturnedSetMinimal
  <2> SUFFICES ASSUME AnswerInvariant, answer.verdict = "returned",
                      NEW S \in SUBSET answer.resources,
                      seeds \subseteq S, SelfContained(S, deps)
               PROVE  answer.resources \subseteq S
    BY DEF ReturnedSetMinimal
  <2>1. S \in SUBSET DOMAIN deps /\ ClosedUnder(S, deps)
    BY DEF SelfContained, ClosedUnder
  <2>2. Reachable(seeds, deps) \subseteq S
    BY <2>1, ReachableIsLeast
  <2> QED
    BY <2>2 DEF AnswerInvariant
<1> QED
  BY <1>1, AnswerCorrect, PTL

-----------------------------------------------------------------------------
\* The contract speaks of the same graph operators.
LEMMA SameOperators ==
    ASSUME NEW S, NEW d
    PROVE  Contract!Reachable(S, d) = Reachable(S, d) /\ Contract!Residue(S, d) = Residue(S, d)
BY DEF Contract!Reachable, Reachable, Contract!ClosedUnder, ClosedUnder,
   Contract!Residue, Residue, Contract!Deadlocked, Deadlocked

\* The worklist implements the one-step contract: it starts where the contract
\* starts, every refusal and every answer is one the contract allows, and the
\* other steps change nothing the caller sees.
THEOREM Refinement == Spec => Contract!Safety
<1>1. Init => Contract!Init
  BY DEF Init, Contract!Init, NoAnswer, Contract!NoAnswer, Contract!DependencyGraphs,
     DependencyGraphs
<1>2. IInv /\ [Next]_vars => [Contract!Next]_(Contract!vars)
  <2> SUFFICES ASSUME IInv, Next PROVE Contract!Next \/ UNCHANGED <<seeds, deps, answer>>
    BY DEF vars, Contract!vars
  <2> USE DEF Contract!NoAnswer, NoAnswer, Contract!UnknownSeeds, Contract!Answer, known
  <2>1. CASE RefuseSeeds
    BY <2>1 DEF RefuseSeeds, Finish, IInv, LocalsInvariant, Contract!RefuseSeeds, Contract!Next
  <2>2. CASE StartExpanding
    BY <2>2 DEF StartExpanding
  <2>3. ASSUME NEW source \in Node, RefuseTarget(source) PROVE Contract!Next
    <3>1. PICK target \in deps[source] :
            target \notin DOMAIN deps /\ Finish("CLOSURE_INCOMPLETE", {target})
      BY <2>3 DEF RefuseTarget, Least
    <3>2. source \in Contract!Needed /\ Contract!UnknownSeeds = {} /\ answer = NoAnswer
      BY <2>3, SameOperators DEF RefuseTarget, Least, IInv, TypeOK, LocalsInvariant,
         WorklistInvariant, Contract!Needed
    <3>3. target \in Contract!UnknownTargets
      BY <3>1, <3>2 DEF Contract!UnknownTargets
    <3> QED
      BY <3>1, <3>2, <3>3 DEF Finish, Contract!RefuseTarget, Contract!Next
  <2>4. ASSUME NEW source \in Node, Expand(source) PROVE UNCHANGED <<seeds, deps, answer>>
    BY <2>4 DEF Expand
  <2>5. CASE ReturnClosure
    <3>1. /\ selected = Contract!Needed /\ SelfContained(selected, deps)
          /\ seeds \subseteq selected /\ answer = NoAnswer
      BY <2>5, ClosureComplete, SameOperators
         DEF ReturnClosure, Contract!Needed, IInv, LocalsInvariant
    <3>2. Contract!UnknownSeeds = {} /\ Contract!UnknownTargets = {}
      BY <3>1 DEF SelfContained, Contract!UnknownTargets
    <3> QED
      BY <2>5, <3>1, <3>2, SameOperators
         DEF ReturnClosure, Finish, Contract!Decide, Contract!Next
  <2> QED
    BY <2>1, <2>2, <2>3, <2>4, <2>5 DEF Next
<1> QED
  BY <1>1, <1>2, Inductive, PTL DEF Spec, Contract!Safety
=============================================================================
