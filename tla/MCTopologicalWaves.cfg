CONSTANT Node <- MCNode
SPECIFICATION Spec
INVARIANTS
    DependenciesFirst
    EarliestWave
    CycleEvidenceExact
PROPERTY Terminates
CHECK_DEADLOCK FALSE
