SPECIFICATION Spec
CONSTANTS
    Engines = {"shadow-auth-session", "submission-gateway-certification", "credential-broker-simulator", "transport-adapter-certification", "executor-session-simulator", "deployment-execution-intent", "canary-rollout-simulator", "fleet-rollout-governance", "deployment-change-control", "chain-observer", "read-only-venue", "deployment-orchestration-simulator", "controlled-production-release"}
    PolicyCommands <- OipCommands
    ExecutionCommands <- PexCommands
    SettlementCommands <- SrCommands
    PipelineCommands <- PtrCommands
    Quantities <- PtrQuantities
    OrderIds <- OipOrders
    Unit <- OrderUnit
    Trades <- SrTrades
    Grace <- SrGrace
    MaxIntents <- SrMaxIntents
    Bounds <- MCBounds
    MaxLog = 32
    CrashKinds = {"power"}
    CheckpointAt = 0
    FaultsAt = {}
    Strays = {}
CHECK_DEADLOCK FALSE
INVARIANTS
    LeasesAreExclusive
    PermitsAreWarranted
    RolloutsAreWatched
    ReportsAreEarned
    ObservedHistoryStands
    OwnersKeepTheirJournals
