CONSTANTS
    Harness <- H
    Module <- MCModule
    Provider <- MCProvider
    Group <- MCGroup
    Public <- MCPublic
    Fact <- MCFact
    Selector <- MCSelector
    Platform <- MCPlatform
    Declares <- MCDeclares
    Edges <- MCEdges
    Conflicts <- MCConflicts
    ModulesOf <- MCModulesOf
    HomeOf <- MCHomeOf
    Requires <- MCRequires
    Released <- MCReleased
    GroupOf <- MCGroupOf
    SelectorOf <- MCSelectorOf
    HostOf <- MCHostOf
    Activates <- MCActivates
    RunsOn <- MCRunsOn
    NeededFacts <- MCNeededFacts
    AssuranceDemand = {"assure", "judge"}
    Judge = "judge"
    JudgeModels = {"infer"}
    LexicalRank <- MCLexicalRank
    Requests <- MCRequests
SPECIFICATION ConversationSpec
INVARIANTS
    ProvidersAreTenantChoices
    AdmissionAgrees
    NoAdviceTwice
    ProposalsAreUsable
    PrerequisitesComeLast
    PlanExplained
    PlanInstallable
    NoCycleWithoutSubjects
PROPERTY Settles
CHECK_DEADLOCK FALSE
