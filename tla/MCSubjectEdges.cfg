CONSTANTS
    Harness <- H
    Module <- MCModule
    Provider <- MCProvider
    Group <- MCGroup
    Public <- MCPublic
    Fact <- MCFact
    Selector <- MCSelector
    Platform <- MCPlatform
    Declares <- MCDeclares
    Edges <- MCEdges
    Conflicts = {}
    ModulesOf <- MCModulesOf
    HomeOf <- MCHomeOf
    Requires <- MCRequires
    Released <- MCModule
    GroupOf <- MCGroupOf
    SelectorOf <- MCSelectorOf
    HostOf <- MCHostOf
    Activates <- MCActivates
    RunsOn <- MCRunsOn
    NeededFacts <- MCNeededFacts
    AssuranceDemand = {"assurance.required", "assurance.local-model-judge"}
    Judge = "assurance.local-model-judge"
    JudgeModels = {"model.local-cpu", "model.local-gpu"}
    LexicalRank <- MCLexicalRank
    Requests <- MCRequests
SPECIFICATION ConversationSpec
INVARIANT SubjectsInstallNothing
CHECK_DEADLOCK FALSE
