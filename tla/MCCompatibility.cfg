CONSTANTS
    Contract <- MCContract
    UnknownContract = "other"
    Field <- MCField
    SchemaVersion = "schemaVersion"
    Value <- MCValue
    TypesOf <- MCTypesOf
    Required <- MCRequired
    Allowed <- MCAllowed
    FieldTypes <- MCFieldTypes
    Const <- MCConst
    Enum <- MCEnum
    Canonical <- MCCanonical
    ProvenanceOf <- MCProvenanceOf
    MaxAlterations = 3
SPECIFICATION Spec
INVARIANTS
    RoundTripExact
    OnlyOriginalsRestored
CHECK_DEADLOCK FALSE
