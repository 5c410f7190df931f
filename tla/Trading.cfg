SPECIFICATION Spec
CONSTANTS
    Engines = {"settlement-reconciliation", "order-intent-policy", "paper-execution", "paper-trading-runtime", "portfolio-risk", "strategy-proposal", "complete-set-arbitrage", "paired-opportunity-runtime", "paired-capital-staging", "paired-placement-policy", "paired-paper-execution", "paired-settlement-runtime", "ctf-transaction-runtime", "unified-paired-trading-runtime"}
    PolicyCommands <- OipCommands
    ExecutionCommands <- PexCommands
    SettlementCommands <- SrCommands
    PipelineCommands <- PtrCommands
    Quantities <- PtrQuantities
    OrderIds <- OipOrders
    Unit <- OrderUnit
    Trades <- SrTrades
    Grace <- SrGrace
    MaxIntents <- SrMaxIntents
    Bounds <- MCBounds
    MaxLog = 32
    CrashKinds = {"power"}
    CheckpointAt = 0
    FaultsAt = {}
    Strays = {}
CHECK_DEADLOCK FALSE
INVARIANTS
    ReadinessIsAgreed
    TradesAreFinalOnce
    ApprovalsSpentOnce
    OrdersFollowTheirPermits
    FillsExact
    OrdersAreAsReported
    OpenOrdersAreBacked
    ConfirmationsAreFills
    PolicyFollowsExecution
    ApprovalsHold
    OpportunitiesAreReal
    PairsAreWhole
    OwnersKeepTheirJournals
