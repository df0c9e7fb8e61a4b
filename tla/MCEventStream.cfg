CONSTANTS
    Organization = {"org.a", "org.b"}
    Subject = {"operation.1"}
    Aggregate <- MCAggregate
    MaxEvents = 3
    MaxFiles = 3
SPECIFICATION Spec
INVARIANTS
    AcceptedIsOrderedPart
    RefusalsJustified
    ReplayReachesState
CHECK_DEADLOCK FALSE
