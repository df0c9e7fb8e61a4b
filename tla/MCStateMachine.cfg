CONSTANTS
    Snapshots <- MCSnapshots
    Bindings <- MCBindings
    MaxTime = 3
SPECIFICATION HalvesSpec
INVARIANTS
    GatesPassed
    CanFinish
    FollowsDocumentedPrecedence
    HealthyUntilFreshUntil
    DisplayAgrees
PROPERTIES
    NoWayBack
    OnlyWorsens
