CONSTANTS
    Node <- MCNode
    PacketFiles <- MCPacketFiles
    Environments <- MCEnvironments
    ExitCodes <- MCExitCodes
    BaseName <- MCBaseName
    CaseFold <- MCCaseFold
    Directories <- MCDirectories
    Calls <- MCCalls
    Trees <- MCTrees
    CatalogFiles <- MCCatalogFiles
    Checker = {"check"}
    Writer = {"write"}
    Revision <- MCRevision
    InitialTrees <- MCInitialTrees
    Scenarios <- MCScenarios
SPECIFICATION OfflineSpec
INVARIANTS
    CycleIsReal
    NothingMissed
    ChangeStopsTheRun
    EveryOwnerOrNobody
    CheckVouches
    MixturesAreVisible
    LockVerdictExact
    CompiledIsLocked
    ResultsNeedThePacket
    AcceptanceVouches
PROPERTIES
    TreeRecovers
CHECK_DEADLOCK FALSE
