CONSTANT Node <- MCNode
SPECIFICATION Spec
PROPERTY ImplementsContract
CHECK_DEADLOCK FALSE
